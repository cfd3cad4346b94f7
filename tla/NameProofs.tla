------------------------------ MODULE NameProofs ------------------------------
(***************************************************************************)
(* The names zones get from their parents, for any set of zones: what the  *)
(* recursion in Names computes, and the parts of a name they stand for.    *)
(* Induction over the natural numbers is done with sets of them.           *)
(***************************************************************************)
EXTENDS ServerProofs, FiniteSetTheorems, WellFoundedInduction

-----------------------------------------------------------------------------
(* Natural numbers. *)

\* A set of numbers has a least element.
LEMMA Least ==
  ASSUME NEW T \in SUBSET Nat, T # {}
  PROVE \E n \in T : \A m \in T : n <= m
<1> DEFINE Less(n) == 0 .. n - 1
           U == {Less(n) : n \in T}
           R == StrictSubsetOrdering(Nat)
<1>1. \A n \in T : Less(n) \in FiniteSubsetsOf(Nat)
  <2>1. TAKE n \in T
  <2>2. n - 1 \in Int /\ Less(n) \subseteq Nat
    OBVIOUS
  <2> QED BY <2>2, FS_Interval DEF FiniteSubsetsOf
<1>2. \E x \in U : \A y \in U : ~ (<<y, x>> \in R)
  <2>1. U \subseteq FiniteSubsetsOf(Nat) /\ U # {}
    BY <1>1
  <2> HIDE DEF U, R
  <2> QED BY <2>1, FS_StrictSubsetOrderingWellFounded, WFMin DEF R
<1>3. PICK n \in T : \A m \in T : ~ (<<Less(m), Less(n)>> \in R)
  BY <1>2
<1>4. ASSUME NEW m \in T, m < n PROVE FALSE
  <2>1. Less(m) \subseteq Less(n) /\ Less(m) # Less(n)
    <3>1. m \in Less(n) /\ m \notin Less(m)
      BY <1>4
    <3>2. Less(m) \subseteq Less(n)
      BY <1>4
    <3> QED BY <3>1, <3>2
  <2>2. Less(m) \in SUBSET Nat /\ Less(n) \in SUBSET Nat
    OBVIOUS
  <2>3. <<Less(m), Less(n)>> \in R
    BY <2>1, <2>2 DEF StrictSubsetOrdering
  <2> QED BY <1>3, <2>3
<1> QED BY <1>4

\* What holds of zero and of every number after one it holds of, holds of all.
LEMMA Induct ==
  ASSUME NEW T, 0 \in T, \A n \in Nat : n \in T => n + 1 \in T
  PROVE Nat \subseteq T
<1> SUFFICES ASSUME ~(Nat \subseteq T) PROVE FALSE
  OBVIOUS
<1> DEFINE U == Nat \ T
<1>1. PICK n \in U : \A m \in U : n <= m
  BY Least
<1>2. n # 0
  OBVIOUS
<1>3. n - 1 \in Nat /\ n - 1 \notin U
  BY <1>1, <1>2
<1>4. n \in T
  BY <1>3
<1> QED BY <1>4

-----------------------------------------------------------------------------
(* Names and the names they are below. *)

\* A part of c labels, from the label after the first k.
LEMMA Parts ==
    ASSUME NEW S, NEW n \in Seq(S), NEW k \in Nat, NEW c \in Nat, k + c <= Len(n)
    PROVE  /\ SubSeq(n, k + 1, k + c) \in Seq(S)
           /\ Len(SubSeq(n, k + 1, k + c)) = c
           /\ \A i \in 1 .. c : SubSeq(n, k + 1, k + c)[i] = n[k + i]
<1> DEFINE x == k + 1
           y == k + c
<1>1. x \in Int /\ y \in Int /\ Len(n) \in Nat
  BY LenProperties
<1>2. \A i \in x .. y : n[i] \in S
  BY <1>1, ElementOfSeq
<1>3. y - x + 1 = c /\ (\A i \in 1 .. c : x + i - 1 = k + i) /\ (x <= y <=> c > 0)
  OBVIOUS
<1> HIDE DEF x, y
<1>4. /\ SubSeq(n, x, y) \in Seq(S)
      /\ Len(SubSeq(n, x, y)) = IF x <= y THEN y - x + 1 ELSE 0
      /\ \A i \in 1 .. y - x + 1 : SubSeq(n, x, y)[i] = n[x + i - 1]
  BY <1>1, <1>2, SubSeqProperties
<1>5. /\ SubSeq(n, x, y) \in Seq(S) /\ Len(SubSeq(n, x, y)) = c
      /\ \A i \in 1 .. c : SubSeq(n, x, y)[i] = n[k + i]
  BY <1>3, <1>4
<1> QED BY <1>5 DEF x, y

\* The part in the middle of a name.
LEMMA Middles ==
    ASSUME NEW S, NEW p \in Seq(S), NEW d \in Seq(S), NEW f \in Seq(S)
    PROVE  SubSeq(p \o (d \o f), Len(p) + 1, Len(p) + Len(d)) = d
<1> DEFINE m == d \o f
           n == p \o m
           k == Len(p)
<1>1. /\ m \in Seq(S) /\ Len(m) = Len(d) + Len(f)
      /\ Len(d) \in Nat /\ Len(f) \in Nat /\ k \in Nat
      /\ \A i \in 1 .. Len(d) + Len(f) : m[i] = IF i <= Len(d) THEN d[i] ELSE f[i - Len(d)]
  BY ConcatProperties, LenProperties
<1> HIDE DEF m
<1>2. /\ n \in Seq(S) /\ Len(n) = k + Len(m)
      /\ \A i \in 1 .. k + Len(m) : n[i] = IF i <= k THEN p[i] ELSE m[i - k]
  <2>0. m \in Seq(S)
    BY <1>1
  <2>1. /\ p \o m \in Seq(S) /\ Len(p \o m) = Len(p) + Len(m)
        /\ \A i \in 1 .. Len(p) + Len(m) :
             (p \o m)[i] = IF i <= Len(p) THEN p[i] ELSE m[i - Len(p)]
    BY <2>0, ConcatProperties
  <2> QED BY <2>1
<1> HIDE DEF n, k
<1>3. \A i \in 1 .. Len(d) : n[k + i] = d[i]
  <2>1. TAKE i \in 1 .. Len(d)
  <2>2. k + i \in 1 .. k + Len(m) /\ ~(k + i <= k) /\ k + i - k = i /\ i \in 1 .. Len(d) + Len(f)
    BY <1>1
  <2> QED BY <1>1, <1>2, <2>2
<1>4. /\ SubSeq(n, k + 1, k + Len(d)) \in Seq(S) /\ Len(SubSeq(n, k + 1, k + Len(d))) = Len(d)
      /\ \A i \in 1 .. Len(d) : SubSeq(n, k + 1, k + Len(d))[i] = n[k + i]
  BY <1>1, <1>2, Parts
<1>5. SubSeq(n, k + 1, k + Len(d)) = d
  BY <1>3, <1>4, SeqEqual
<1> QED BY <1>5 DEF n, m, k

\* The end of a name is a name it is below.
LEMMA EndsAreAbove ==
    ASSUME NEW S, NEW p \in Seq(S), NEW f \in Seq(S)
    PROVE  IsUnder(p \o f, f)
<1> DEFINE n == p \o f
<1>1. Len(n) = Len(p) + Len(f) /\ Len(p) \in Nat /\ Len(f) \in Nat
  BY ConcatProperties, LenProperties
<1>2. SubSeq(n, Len(p) + 1, Len(p) + Len(f)) = f
  <2>1. <<>> \in Seq(S) /\ f \o <<>> = f
    BY EmptySeq, ConcatEmptySeq
  <2> QED BY <2>1, Middles
<1> HIDE DEF n
<1>3. Len(n) - Len(f) + 1 = Len(p) + 1
  BY <1>1
<1>4. IsUnder(n, f)
  BY <1>1, <1>2, <1>3 DEF IsUnder
<1> QED BY <1>4 DEF n

\* A name that is below another one ends with it.
LEMMA BelowHasEnd ==
    ASSUME NEW S, NEW n \in Seq(S), NEW f \in Seq(S), IsUnder(n, f)
    PROVE  /\ SubSeq(n, 1, Len(n) - Len(f)) \in Seq(S)
           /\ n = SubSeq(n, 1, Len(n) - Len(f)) \o f
<1>1. Len(n) \in Nat /\ Len(f) \in Nat /\ Len(f) <= Len(n)
      /\ SubSeq(n, Len(n) - Len(f) + 1, Len(n)) = f
  BY LenProperties DEF IsUnder
<1> DEFINE k == Len(n) - Len(f)
<1>2. k \in Nat /\ k <= Len(n)
  BY <1>1
<1>3. SubSeq(n, 1, k) \o SubSeq(n, k + 1, Len(n)) = SubSeq(n, 1, Len(n))
  <2>1. 1 \in 1 .. Len(n) + 1 /\ k \in 1 - 1 .. Len(n) /\ Len(n) \in k .. Len(n)
    BY <1>1, <1>2
  <2> QED BY <2>1, ConcatAdjacentSubSeq
<1>4. SubSeq(n, 1, Len(n)) = n
  BY SubSeqFull
<1>5. \A i \in 1 .. k : n[i] \in S
  BY <1>1, <1>2, ElementOfSeq
<1>6. SubSeq(n, 1, k) \in Seq(S)
  BY <1>2, <1>5, SubSeqProperties
<1> QED BY <1>1, <1>3, <1>4, <1>6

\* Names of the same length that a name is below are the same.
LEMMA EndsOfOneLength ==
    ASSUME NEW n, NEW f, NEW g, IsUnder(n, f), IsUnder(n, g), Len(f) = Len(g)
    PROVE  f = g
BY DEF IsUnder

\* Every end of a name is one it is below.
LEMMA EndsOfName ==
    ASSUME NEW S, NEW n \in Seq(S), NEW a \in 1 .. Len(n) + 1
    PROVE  /\ SubSeq(n, a, Len(n)) \in Seq(S)
           /\ Len(SubSeq(n, a, Len(n))) = Len(n) - a + 1
           /\ IsUnder(n, SubSeq(n, a, Len(n)))
<1>1. Len(n) \in Nat /\ a \in Int /\ Len(n) \in Int
  BY LenProperties
<1>2. \A i \in a .. Len(n) : n[i] \in S
  BY <1>1, ElementOfSeq
<1>3. /\ SubSeq(n, a, Len(n)) \in Seq(S)
      /\ Len(SubSeq(n, a, Len(n))) = IF a <= Len(n) THEN Len(n) - a + 1 ELSE 0
  BY <1>1, <1>2, SubSeqProperties
<1>4. Len(SubSeq(n, a, Len(n))) = Len(n) - a + 1
  BY <1>1, <1>3
<1>5. Len(n) - (Len(n) - a + 1) + 1 = a /\ Len(n) - a + 1 <= Len(n)
  BY <1>1
<1> QED BY <1>3, <1>4, <1>5 DEF IsUnder

\* A name that is below d \o f is below f, with d before it.
LEMMA BelowBoth ==
    ASSUME NEW S, NEW n \in Seq(S), NEW d \in Seq(S), NEW f \in Seq(S), IsUnder(n, d \o f)
    PROVE  /\ IsUnder(n, f) /\ Len(d \o f) = Len(d) + Len(f)
           /\ SubSeq(n, Len(n) - Len(d \o f) + 1, Len(n) - Len(f)) = d
<1>1. d \o f \in Seq(S) /\ Len(d \o f) = Len(d) + Len(f) /\ Len(d) \in Nat /\ Len(f) \in Nat
  BY ConcatProperties, LenProperties
<1>2. PICK p \in Seq(S) : n = p \o (d \o f)
  <2> DEFINE m == d \o f
  <2>1. m \in Seq(S) /\ IsUnder(n, m)
    BY <1>1
  <2> HIDE DEF m
  <2>2. \E p \in Seq(S) : n = p \o m
    BY <2>1, BelowHasEnd
  <2> QED BY <2>2 DEF m
<1>3. n = (p \o d) \o f /\ p \o d \in Seq(S)
  <2>1. (p \o d) \o f = p \o (d \o f)
    BY ConcatAssociative
  <2>2. p \o d \in Seq(S)
    BY ConcatProperties
  <2> QED BY <1>2, <2>1, <2>2
<1>4. IsUnder(n, f)
  BY <1>3, EndsAreAbove
<1>5. SubSeq(n, Len(p) + 1, Len(p) + Len(d)) = d
  BY <1>2, Middles
<1>6. Len(n) = Len(p) + Len(d \o f) /\ Len(p) \in Nat
  BY <1>1, <1>2, ConcatProperties, LenProperties
<1>7. Len(n) - Len(d \o f) + 1 = Len(p) + 1 /\ Len(n) - Len(f) = Len(p) + Len(d)
  BY <1>1, <1>6
<1> QED BY <1>1, <1>4, <1>5, <1>7

\* What an end of a name is below, the name is below, too.
LEMMA NamesAreBelowTheirEnds ==
    ASSUME NEW S, NEW n \in Seq(S), NEW a \in 1 .. Len(n) + 1,
           NEW f \in Seq(S), IsUnder(SubSeq(n, a, Len(n)), f)
    PROVE  IsUnder(n, f)
<1> DEFINE h == SubSeq(n, a, Len(n))
<1>1. h \in Seq(S) /\ IsUnder(n, h)
  BY EndsOfName
<1> HIDE DEF h
<1>2. PICK p \in Seq(S) : n = p \o h
  BY <1>1, BelowHasEnd
<1>3. PICK q \in Seq(S) : h = q \o f
  BY <1>1, BelowHasEnd DEF h
<1>4. n = (p \o q) \o f /\ p \o q \in Seq(S)
  <2>1. (p \o q) \o f = p \o (q \o f)
    BY ConcatAssociative
  <2>2. p \o q \in Seq(S)
    BY ConcatProperties
  <2> QED BY <1>2, <1>3, <2>1, <2>2
<1> QED BY <1>4, EndsAreAbove

\* A later part of the first part of a name, with the second part after it.
LEMMA LaterPart ==
    ASSUME NEW S, NEW p \in Seq(S), NEW f \in Seq(S), NEW i \in 0 .. Len(p)
    PROVE  /\ SubSeq(p, i + 1, Len(p)) \in Seq(S)
           /\ SubSeq(p \o f, i + 1, Len(p \o f)) = SubSeq(p, i + 1, Len(p)) \o f
<1> DEFINE b == SubSeq(p, 1, i)
           c == SubSeq(p, i + 1, Len(p))
<1>1. Len(p) \in Nat /\ Len(f) \in Nat
  BY LenProperties
<1>2. b \in Seq(S) /\ Len(b) = i
  <2>1. 0 \in Nat /\ i \in Nat /\ 0 + i <= Len(p) /\ 0 + 1 = 1 /\ 0 + i = i
    BY <1>1
  <2>2. SubSeq(p, 0 + 1, 0 + i) \in Seq(S) /\ Len(SubSeq(p, 0 + 1, 0 + i)) = i
    BY <2>1, Parts
  <2> QED BY <2>1, <2>2
<1>3. c \in Seq(S)
  BY <1>1, EndsOfName
<1>4. p = b \o c
  <2>1. 1 \in 1 .. Len(p) + 1 /\ i \in 1 - 1 .. Len(p) /\ Len(p) \in i .. Len(p)
    BY <1>1
  <2>2. b \o c = SubSeq(p, 1, Len(p))
    BY <2>1, ConcatAdjacentSubSeq
  <2> QED BY <2>2, SubSeqFull
<1> HIDE DEF b, c
<1> DEFINE g == c \o f
<1>5. g \in Seq(S) /\ <<>> \in Seq(S)
  BY <1>3, ConcatProperties, EmptySeq
<1>6. p \o f = b \o g
  BY <1>2, <1>3, <1>4, ConcatAssociative
<1> HIDE DEF g
<1>7. SubSeq(b \o (g \o <<>>), Len(b) + 1, Len(b) + Len(g)) = g
  BY <1>2, <1>5, Middles
<1>8. g \o <<>> = g /\ Len(b \o g) = Len(b) + Len(g)
  <2>1. g \o <<>> = g
    BY <1>5, ConcatEmptySeq
  <2>2. Len(b \o g) = Len(b) + Len(g)
    BY <1>2, <1>5, ConcatProperties
  <2> QED BY <2>1, <2>2
<1>9. SubSeq(p \o f, i + 1, Len(p \o f)) = g
  BY <1>2, <1>6, <1>7, <1>8
<1> QED BY <1>3, <1>9 DEF c, g

\* The wildcard of a name below a domain is below it, too.
LEMMA WildcardBelow ==
    ASSUME NEW S, "*" \in S, NEW w \in Seq(S), w # <<>>, NEW f \in Seq(S)
    PROVE  Wildcard(w \o f) = Wildcard(w) \o f /\ Wildcard(w) \in Seq(S)
<1> DEFINE n == w \o f
           rest == Tail(w)
<1>1. n \in Seq(S) /\ Len(n) = Len(w) + Len(f)
  BY ConcatProperties
<1>2. Len(w) \in Nat /\ Len(f) \in Nat /\ Len(w) > 0
  BY LenProperties, EmptySeq
<1>3. n # <<>>
  BY <1>1, <1>2, EmptySeq
<1>4. rest \in Seq(S) /\ rest = SubSeq(w, 2, Len(w))
  BY HeadTailProperties, TailIsSubSeq
<1> HIDE DEF n, rest
<1>5. Tail(n) = SubSeq(n, 2, Len(n))
  BY <1>1, <1>3, TailIsSubSeq
<1>6. SubSeq(n, 1 + 1, Len(n)) = SubSeq(w, 1 + 1, Len(w)) \o f
  <2>1. 1 \in 0 .. Len(w)
    BY <1>2
  <2> QED BY <2>1, LaterPart DEF n
<1>7. Tail(n) = rest \o f
  BY <1>4, <1>5, <1>6
<1>8. <<"*">> \in Seq(S)
  OBVIOUS
<1>9. <<"*">> \o (rest \o f) = (<<"*">> \o rest) \o f
  <2> DEFINE star == <<"*">>
  <2>1. star \in Seq(S)
    BY <1>8
  <2>3. rest \in Seq(S)
    BY <1>4
  <2> HIDE DEF star
  <2>2. star \o (rest \o f) = (star \o rest) \o f
    BY <2>1, <2>3, ConcatAssociative
  <2> QED BY <2>2 DEF star
<1>10. <<"*">> \o rest \in Seq(S)
  BY <1>4, <1>8, ConcatProperties
<1> QED BY <1>7, <1>9, <1>10 DEF Wildcard, n, rest

-----------------------------------------------------------------------------
(* The names of zones. *)

\* The stages of the recursion: the names after i steps down from the root zone.
AreStages(g) ==
    g = [i \in 0 .. Cardinality(Zone) |->
           IF i = 0 THEN RootNames ELSE NamesBelow(g[i - 1])]

\* The zones that have got a name by stage i.
Reached(g, i) == {z \in Zone : g[i][z] # {}}

\* What is joined is every name before every end.
LEMMA JoinedHave ==
    ASSUME NEW names, NEW ends
    PROVE  /\ \A n \in names, f \in ends : n \o f \in Joined(names, ends)
           /\ \A s \in Joined(names, ends) : \E n \in names, f \in ends : s = n \o f
<1>1. ASSUME NEW n \in names, NEW f \in ends PROVE n \o f \in Joined(names, ends)
  BY DEF Joined
<1>2. ASSUME NEW s \in Joined(names, ends) PROVE \E n \in names, f \in ends : s = n \o f
  BY DEF Joined
<1> QED BY <1>1, <1>2

\* Nothing is joined with nothing.
LEMMA JoinedToNothing ==
    ASSUME NEW names, NEW ends
    PROVE  Joined(names, ends) # {} <=> names # {} /\ ends # {}
BY JoinedHave

\* The names a step gives one zone.
LEMMA NamesOfOne ==
    ASSUME NEW names, NEW z \in Zone
    PROVE  /\ z # RootZone /\ Has(z) /\ held[z].spec.parent \in Zone =>
                NamesBelow(names)[z] = Joined(held[z].spec.domains, names[held[z].spec.parent])
           /\ ~(z # RootZone /\ Has(z) /\ held[z].spec.parent \in Zone) =>
                NamesBelow(names)[z] = RootNames[z]
           /\ z # RootZone => RootNames[z] = {}
<1>1. NamesBelow(names)[z] =
        IF z # RootZone /\ Has(z) /\ held[z].spec.parent \in Zone
        THEN Joined(held[z].spec.domains, names[held[z].spec.parent]) ELSE RootNames[z]
  BY DEF NamesBelow
<1>2. RootNames[z] =
        IF z = RootZone /\ Has(z) THEN Joined(held[z].spec.domains, {req.base}) ELSE {}
  BY DEF RootNames
<1>3. ASSUME z # RootZone, Has(z), held[z].spec.parent \in Zone
      PROVE  NamesBelow(names)[z] = Joined(held[z].spec.domains, names[held[z].spec.parent])
  BY <1>1, <1>3
<1>4. ASSUME ~(z # RootZone /\ Has(z) /\ held[z].spec.parent \in Zone)
      PROVE  NamesBelow(names)[z] = RootNames[z]
  BY <1>1, <1>4
<1>5. ASSUME z # RootZone PROVE RootNames[z] = {}
  BY <1>2, <1>5
<1> QED BY <1>3, <1>4, <1>5

\* The number of zones is a number.
LEMMA ZonesAreCounted == Cardinality(Zone) \in Nat
BY ZonesAreFinite, FS_CardinalityType

\* What a stage is.
LEMMA StageIs ==
    ASSUME NEW g, AreStages(g)
    PROVE  /\ g[0] = RootNames
           /\ \A i \in 1 .. Cardinality(Zone) : g[i] = NamesBelow(g[i - 1])
<1> DEFINE C == Cardinality(Zone)
<1>1. C \in Nat
  BY ZonesAreCounted
<1> HIDE DEF C
<1>2. g = [i \in 0 .. C |-> IF i = 0 THEN RootNames ELSE NamesBelow(g[i - 1])]
  BY DEF AreStages, C
<1>3. 0 \in 0 .. C /\ \A i \in 1 .. C : i \in 0 .. C /\ i # 0
  BY <1>1
<1>4. g[0] = RootNames /\ \A i \in 1 .. C : g[i] = NamesBelow(g[i - 1])
  BY <1>2, <1>3
<1> QED BY <1>4 DEF C

\* Names is the last of the stages, which exist.
LEMMA NamesAreLast ==
    \E g : AreStages(g) /\ Names = g[Cardinality(Zone)]
<1> DEFINE Upto(n, g) == g = [i \in 0 .. n |-> IF i = 0 THEN RootNames ELSE NamesBelow(g[i - 1])]
           T == {n \in Nat : \E g : Upto(n, g)}
<1>1. 0 \in T
  <2> DEFINE g == [i \in 0 .. 0 |-> RootNames]
  <2>1. Upto(0, g)
    OBVIOUS
  <2> QED BY <2>1
<1>2. ASSUME NEW n \in Nat, n \in T PROVE n + 1 \in T
  <2>1. PICK g : Upto(n, g)
    BY <1>2
  <2> DEFINE h == [i \in 0 .. n + 1 |-> IF i = 0 THEN RootNames ELSE NamesBelow(g[i - 1])]
  <2>2. \A i \in 0 .. n : h[i] = g[i]
    BY <2>1
  <2>3. \A i \in 0 .. n + 1 : i # 0 => h[i - 1] = g[i - 1]
    <3> HIDE DEF h
    <3>1. \A i \in 0 .. n + 1 : i # 0 => i - 1 \in 0 .. n
      OBVIOUS
    <3> QED BY <2>2, <3>1
  <2>4. h = [i \in 0 .. n + 1 |-> IF i = 0 THEN RootNames ELSE NamesBelow(h[i - 1])]
    BY <2>3
  <2> HIDE DEF h
  <2>5. Upto(n + 1, h)
    BY <2>4
  <2> QED BY <2>5
<1>3. Nat \subseteq T
  <2> HIDE DEF T
  <2> QED BY <1>1, <1>2, Induct
<1>4. \E g : AreStages(g)
  BY <1>3, ZonesAreCounted DEF AreStages
<1> DEFINE last == CHOOSE g : AreStages(g)
<1>5. AreStages(last)
  BY <1>4
<1>6. Names = last[Cardinality(Zone)]
  BY DEF Names, AreStages
<1> QED BY <1>5, <1>6

\* A zone that has got names keeps them.
LEMMA NamesStay ==
    ASSUME NEW g, AreStages(g)
    PROVE  \A i \in Nat : i + 1 <= Cardinality(Zone) =>
             \A z \in Zone : g[i][z] # {} => g[i + 1][z] = g[i][z]
<1> DEFINE C == Cardinality(Zone)
           Stays(i) == \A z \in Zone : g[i][z] # {} => g[i + 1][z] = g[i][z]
           T == {i \in Nat : i + 1 <= C => Stays(i)}
<1>0. C \in Nat /\ g[0] = RootNames /\ \A i \in 1 .. C : g[i] = NamesBelow(g[i - 1])
  BY ZonesAreCounted, StageIs
<1> HIDE DEF C
<1>1. 0 \in T
  <2> SUFFICES ASSUME 1 <= C, NEW z \in Zone, RootNames[z] # {}
               PROVE  NamesBelow(RootNames)[z] = RootNames[z]
    BY <1>0
  <2> QED BY NamesOfOne
<1>2. ASSUME NEW i \in Nat, i \in T PROVE i + 1 \in T
  <2> SUFFICES ASSUME i + 2 <= C, NEW z \in Zone, g[i + 1][z] # {}
               PROVE  g[i + 2][z] = g[i + 1][z]
    BY <1>0
  <2>1. g[i + 1] = NamesBelow(g[i]) /\ g[i + 2] = NamesBelow(g[i + 1])
    <3>1. i + 1 \in 1 .. C /\ i + 2 \in 1 .. C /\ i + 1 - 1 = i /\ i + 2 - 1 = i + 1
      BY <1>0
    <3> QED BY <1>0, <3>1
  <2>2. Stays(i)
    BY <1>0, <1>2
  <2> HIDE DEF T
  <2> DEFINE p == held[z].spec.parent
             b == g[i]  c == g[i + 1]
  <2> HIDE DEF b, c
  <2>3. CASE z # RootZone /\ Has(z) /\ p \in Zone
    <3>1. /\ NamesBelow(b)[z] = Joined(held[z].spec.domains, b[p])
          /\ NamesBelow(c)[z] = Joined(held[z].spec.domains, c[p])
      BY <2>3, NamesOfOne
    <3>2. b[p] # {}
      BY <2>1, <3>1, JoinedToNothing DEF b, c
    <3>3. c[p] = b[p]
      BY <2>2, <2>3, <3>2 DEF b, c
    <3> QED BY <2>1, <3>1, <3>3 DEF b, c
  <2>4. CASE ~(z # RootZone /\ Has(z) /\ p \in Zone)
    <3>1. NamesBelow(b)[z] = RootNames[z] /\ NamesBelow(c)[z] = RootNames[z]
      BY <2>4, NamesOfOne
    <3> QED BY <2>1, <3>1 DEF b, c
  <2> QED BY <2>3, <2>4
<1>3. Nat \subseteq T
  <2> HIDE DEF T
  <2> QED BY <1>1, <1>2, Induct
<1> QED BY <1>3 DEF C

\* A stage that gives a zone its first names makes one zone more with names, so
\* that there are more zones with names than steps.
LEMMA StagesGrow ==
    ASSUME NEW g, AreStages(g)
    PROVE  \A i \in Nat : i <= Cardinality(Zone) /\ (i > 0 => Reached(g, i) # Reached(g, i - 1))
                            /\ Reached(g, i) # {}
              => Cardinality(Reached(g, i)) > i
<1> DEFINE C == Cardinality(Zone)
           New(i) == i > 0 => Reached(g, i) # Reached(g, i - 1)
           T == {i \in Nat : i <= C /\ New(i) /\ Reached(g, i) # {} => Cardinality(Reached(g, i)) > i}
<1>0. C \in Nat /\ g[0] = RootNames /\ \A i \in 1 .. C : g[i] = NamesBelow(g[i - 1])
  BY ZonesAreCounted, StageIs
<1>1. \A i : IsFiniteSet(Reached(g, i)) /\ Cardinality(Reached(g, i)) \in Nat
  BY ZonesAreFinite, FS_Subset, FS_CardinalityType DEF Reached
<1> HIDE DEF C
<1>2. 0 \in T
  BY <1>1, FS_EmptySet
<1>3. ASSUME NEW i \in Nat, i \in T PROVE i + 1 \in T
  <2> SUFFICES ASSUME i + 1 <= C, Reached(g, i + 1) # Reached(g, i)
               PROVE  Cardinality(Reached(g, i + 1)) > i + 1
    OBVIOUS
  <2>1. Reached(g, i) \subseteq Reached(g, i + 1)
    BY NamesStay DEF Reached, C
  <2>2. g[i + 1] = NamesBelow(g[i])
    BY <1>0
  <2>3. PICK z \in Zone : g[i + 1][z] # {} /\ g[i][z] = {}
    BY <2>1 DEF Reached
  <2> DEFINE p == held[z].spec.parent
  <2>4. /\ z # RootZone /\ Has(z) /\ p \in Zone /\ g[i][p] # {}
        /\ held[z].spec.domains # {}
    <3>1. CASE z # RootZone /\ Has(z) /\ p \in Zone
      <4>1. g[i + 1][z] = Joined(held[z].spec.domains, g[i][p])
        BY <2>2, <3>1, NamesOfOne
      <4> QED BY <2>3, <3>1, <4>1, JoinedToNothing
    <3>2. CASE ~(z # RootZone /\ Has(z) /\ p \in Zone)
      <4>1. g[i + 1][z] = RootNames[z]
        BY <2>2, <3>2, NamesOfOne
      <4>2. g[i][z] = RootNames[z]
        <5>1. CASE i = 0
          BY <1>0, <5>1
        <5>2. CASE i # 0
          <6>1. g[i] = NamesBelow(g[i - 1])
            BY <1>0, <5>2
          <6> QED BY <3>2, <6>1, NamesOfOne
        <5> QED BY <5>1, <5>2
      <4> QED BY <2>3, <4>1, <4>2
    <3> QED BY <3>1, <3>2
  <2>5. New(i)
    <3> SUFFICES ASSUME i > 0, p \in Reached(g, i - 1) PROVE FALSE
      BY <2>4 DEF Reached
    <3>1. g[i] = NamesBelow(g[i - 1]) /\ g[i - 1][p] # {}
      BY <1>0 DEF Reached
    <3>2. g[i][z] = Joined(held[z].spec.domains, g[i - 1][p])
      BY <2>4, <3>1, NamesOfOne
    <3> QED BY <2>3, <2>4, <3>1, <3>2, JoinedToNothing
  <2>6. Reached(g, i) # {}
    BY <2>4 DEF Reached
  <2>7. Cardinality(Reached(g, i)) > i
    <3>1. i <= C
      BY <1>0
    <3>2. i <= C /\ New(i) /\ Reached(g, i) # {} => Cardinality(Reached(g, i)) > i
      BY <1>3
    <3> HIDE DEF New
    <3> QED BY <2>5, <2>6, <3>1, <3>2
  <2>8. /\ Cardinality(Reached(g, i)) <= Cardinality(Reached(g, i + 1))
        /\ Cardinality(Reached(g, i)) # Cardinality(Reached(g, i + 1))
    BY <1>1, <2>1, FS_Subset
  <2>9. Cardinality(Reached(g, i)) \in Nat /\ Cardinality(Reached(g, i + 1)) \in Nat
    BY <1>1
  <2> QED BY <2>7, <2>8, <2>9
<1>4. Nat \subseteq T
  <2> HIDE DEF T
  <2> QED BY <1>2, <1>3, Induct
<1> QED BY <1>4 DEF C

\* One more step changes nothing: Names has the names of every line.
THEOREM NamesAreClosed == Names = NamesBelow(Names)
<1>1. PICK g : AreStages(g) /\ Names = g[Cardinality(Zone)]
  BY NamesAreLast
<1> DEFINE C == Cardinality(Zone)
<1>2. C \in Nat /\ C # 0
  BY ZonesAreCounted, ZonesAreFinite, FS_EmptySet, ResolverIsTyped
<1>3. g[C] = NamesBelow(g[C - 1])
  BY <1>1, <1>2, StageIs
<1>4. \A z \in Zone : g[C - 1][z] # {} => g[C][z] = g[C - 1][z]
  <2>1. C - 1 \in Nat /\ C - 1 + 1 = C
    BY <1>2
  <2> HIDE DEF C
  <2>2. \A z \in Zone : g[C - 1][z] # {} => g[C - 1 + 1][z] = g[C - 1][z]
    BY <1>1, <2>1, NamesStay DEF C
  <2> QED BY <2>1, <2>2
<1>5. Reached(g, C) = Reached(g, C - 1)
  <2>1. SUFFICES ASSUME Reached(g, C) # Reached(g, C - 1) PROVE FALSE
    OBVIOUS
  <2>2. Reached(g, C) # {}
    <3>1. Reached(g, C - 1) \subseteq Reached(g, C)
      BY <1>4 DEF Reached
    <3> QED BY <2>1, <3>1
  <2>3. Cardinality(Reached(g, C)) > C
    BY <1>1, <1>2, <2>1, <2>2, StagesGrow
  <2>4. Cardinality(Reached(g, C)) <= C /\ Cardinality(Reached(g, C)) \in Nat
    BY ZonesAreFinite, FS_Subset, FS_CardinalityType DEF Reached
  <2> QED BY <1>2, <2>3, <2>4
<1>6. \A z \in Zone : g[C][z] = g[C - 1][z]
  BY <1>4, <1>5 DEF Reached
<1>7. NamesBelow(g[C]) = NamesBelow(g[C - 1])
  <2> DEFINE b == g[C - 1]
             c == g[C]
  <2>1. \A z \in Zone : c[z] = b[z]
    BY <1>6
  <2> HIDE DEF b, c
  <2>2. NamesBelow(c) = NamesBelow(b)
    BY <2>1 DEF NamesBelow
  <2> QED BY <2>2 DEF b, c
<1> QED BY <1>1, <1>3, <1>7

\* The names of the root zone, and those of the zones below it.
LEMMA NamesOfZones ==
    ASSUME NEW z \in Zone
    PROVE  /\ z = RootZone /\ Has(z) => ZoneNames(z) = Joined(held[z].spec.domains, {req.base})
           /\ z # RootZone /\ Has(z) /\ held[z].spec.parent \in Zone =>
                ZoneNames(z) = Joined(held[z].spec.domains, ZoneNames(held[z].spec.parent))
           /\ z # RootZone /\ ZoneNames(z) # {} => Has(z) /\ held[z].spec.parent \in Zone
<1> DEFINE N == Names
<1>1. N[z] = NamesBelow(N)[z]
  BY NamesAreClosed
<1> HIDE DEF N
<1>2. z = RootZone => NamesBelow(N)[z] = RootNames[z]
  BY NamesOfOne
<1>3. z = RootZone /\ Has(z) => RootNames[z] = Joined(held[z].spec.domains, {req.base})
  BY DEF RootNames
<1>4. /\ z # RootZone /\ Has(z) /\ held[z].spec.parent \in Zone =>
           N[z] = Joined(held[z].spec.domains, N[held[z].spec.parent])
      /\ z # RootZone /\ N[z] # {} => Has(z) /\ held[z].spec.parent \in Zone
  BY <1>1, NamesOfOne
<1> QED BY <1>1, <1>2, <1>3, <1>4 DEF ZoneNames, N

\* A zone that is its own parent has no names.
LEMMA NoNamesOfItself ==
    ASSUME NEW z \in Zone, z # RootZone, held[z].spec.parent = z
    PROVE  ZoneNames(z) = {}
<1> DEFINE C == Cardinality(Zone)
<1>1. PICK g : AreStages(g) /\ Names = g[C]
  BY NamesAreLast
<1> DEFINE T == {i \in Nat : i <= C => g[i][z] = {}}
<1>2. C \in Nat /\ g[0] = RootNames /\ \A i \in 1 .. C : g[i] = NamesBelow(g[i - 1])
  BY <1>1, ZonesAreCounted, StageIs
<1> HIDE DEF C
<1>3. 0 \in T
  BY <1>2, NamesOfOne
<1>4. ASSUME NEW i \in Nat, i \in T PROVE i + 1 \in T
  <2> SUFFICES ASSUME i + 1 <= C PROVE g[i + 1][z] = {}
    OBVIOUS
  <2>1. g[i + 1] = NamesBelow(g[i]) /\ g[i][z] = {}
    BY <1>2, <1>4
  <2> DEFINE b == g[i]
  <2> HIDE DEF b, T
  <2>2. NamesBelow(b)[z] = {} \/ NamesBelow(b)[z] = Joined(held[z].spec.domains, b[z])
    BY NamesOfOne
  <2> QED BY <2>1, <2>2, JoinedToNothing DEF b
<1>5. Nat \subseteq T
  <2> HIDE DEF T
  <2> QED BY <1>3, <1>4, Induct
<1> QED BY <1>1, <1>2, <1>5 DEF ZoneNames

\* What is joined of names are names.
LEMMA JoinedAreNames ==
    ASSUME NEW S, NEW names \in SUBSET Seq(S), NEW ends \in SUBSET Seq(S)
    PROVE  Joined(names, ends) \in SUBSET Seq(S)
<1> SUFFICES ASSUME NEW x \in Joined(names, ends) PROVE x \in Seq(S)
  OBVIOUS
<1>1. PICK n \in names, f \in ends : x = n \o f
  BY DEF Joined
<1>2. n \in Seq(S) /\ f \in Seq(S)
  OBVIOUS
<1> QED BY <1>1, <1>2, ConcatProperties

\* The names of zones are names.
LEMMA NamesAreNames ==
    ASSUME TypeOK
    PROVE  \A z \in Zone : ZoneNames(z) \in SUBSET Seq(Label)
<1> DEFINE C == Cardinality(Zone)
<1>1. PICK g : AreStages(g) /\ Names = g[C]
  BY NamesAreLast
<1> DEFINE T == {i \in Nat : i <= C => \A z \in Zone : g[i][z] \in SUBSET Seq(Label)}
<1>2. C \in Nat /\ g[0] = RootNames /\ \A i \in 1 .. C : g[i] = NamesBelow(g[i - 1])
  BY <1>1, ZonesAreCounted, StageIs
<1>3. \A z \in Zone : Has(z) => held[z].spec.domains \in SUBSET Seq(Label)
  BY HeldZones DEF TypeOK, CopiedZone, ZoneSpec, Name
<1>4. \A z \in Zone : RootNames[z] \in SUBSET Seq(Label)
  <2>1. {req.base} \in SUBSET Seq(Label)
    BY DEF TypeOK, RequestOK, Request, Name
  <2> QED BY <1>3, <2>1, JoinedAreNames DEF RootNames
<1> HIDE DEF C
<1>5. 0 \in T
  BY <1>2, <1>4
<1>6. ASSUME NEW i \in Nat, i \in T PROVE i + 1 \in T
  <2> SUFFICES ASSUME i + 1 <= C, NEW z \in Zone PROVE g[i + 1][z] \in SUBSET Seq(Label)
    OBVIOUS
  <2>1. g[i + 1] = NamesBelow(g[i]) /\ \A y \in Zone : g[i][y] \in SUBSET Seq(Label)
    BY <1>2, <1>6
  <2> DEFINE b == g[i]
  <2> HIDE DEF b, T
  <2>2. CASE z # RootZone /\ Has(z) /\ held[z].spec.parent \in Zone
    <3>1. NamesBelow(b)[z] = Joined(held[z].spec.domains, b[held[z].spec.parent])
      BY <2>2, NamesOfOne
    <3>2. b[held[z].spec.parent] \in SUBSET Seq(Label)
      BY <2>1, <2>2 DEF b
    <3> QED BY <1>3, <2>1, <2>2, <3>1, <3>2, JoinedAreNames DEF b
  <2>3. CASE ~(z # RootZone /\ Has(z) /\ held[z].spec.parent \in Zone)
    <3>1. NamesBelow(b)[z] = RootNames[z]
      BY <2>3, NamesOfOne
    <3> QED BY <1>4, <2>1, <3>1 DEF b
  <2> QED BY <2>2, <2>3
<1>7. Nat \subseteq T
  <2> HIDE DEF T
  <2> QED BY <1>5, <1>6, Induct
<1> QED BY <1>1, <1>2, <1>7 DEF ZoneNames

=============================================================================
