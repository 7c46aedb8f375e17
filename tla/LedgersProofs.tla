--------------------------- MODULE LedgersProofs ---------------------------
(***************************************************************************)
(* What sums and lists of ledgers obey, whatever they hold: a total is     *)
(* that of its parts, changes with each part by as much, and a list splits *)
(* into what falls due and what stays.                                     *)
(***************************************************************************)
EXTENDS Ledgers, SequenceTheorems, FiniteSetTheorems, WellFoundedInduction, TLAPS

(***************************************************************************)
(* Sums.                                                                   *)
(***************************************************************************)

\* A nonempty set of naturals has a least element.
LEMMA Least ==
    ASSUME NEW H \in SUBSET Nat, H # {}
    PROVE  \E i \in H : \A j \in H : i <= j
<1> DEFINE R == OpToRel(<, Nat)
<1>1. IsWellFoundedOn(R, Nat)
  BY NatLessThanWellFounded
<1> HIDE DEF R
<1>2. PICK i \in H : \A j \in H : ~(<<j, i>> \in R)
  BY <1>1, WFMin
<1>3. ASSUME NEW j \in H
      PROVE  i <= j
  <2>1. i \in Nat /\ j \in Nat
    OBVIOUS
  <2>2. ~(<<j, i>> \in R)
    BY <1>2
  <2>3. ~(j < i)
    BY <2>1, <2>2 DEF R, OpToRel
  <2> QED
    BY <2>1, <2>3
<1> QED
  BY <1>3

Pick(s) == CHOOSE x \in s : TRUE

\* One step of the recursion behind Total.
SumStep(f, g) ==
    [s \in SUBSET DOMAIN f |-> IF s = {} THEN 0 ELSE f[Pick(s)] + g[s \ {Pick(s)}]]

Sums(f) == CHOOSE g : g = SumStep(f, g)

\* Total is that recursion, from the whole domain.
LEMMA TotalIs ==
    ASSUME NEW f
    PROVE  Total(f) = Sums(f)[DOMAIN f]
BY DEF Total, MapThenSumSet, MapThenFoldSet, Sums, SumStep, Pick

LedgerOf(f) == IsFiniteSet(DOMAIN f) /\ \A x \in DOMAIN f : f[x] \in Int

\* Taking the picked element out of a finite set.
LEMMA Picked ==
    ASSUME NEW s, IsFiniteSet(s), s # {}
    PROVE  /\ Pick(s) \in s /\ IsFiniteSet(s \ {Pick(s)})
           /\ Cardinality(s) \in Nat /\ Cardinality(s) > 0
           /\ Cardinality(s \ {Pick(s)}) = Cardinality(s) - 1
<1>1. Pick(s) \in s
  BY DEF Pick
<1>2. IsFiniteSet(s \ {Pick(s)}) /\ Cardinality(s \ {Pick(s)}) = Cardinality(s) - 1
  BY <1>1, FS_RemoveElement
<1>3. Cardinality(s) \in Nat /\ Cardinality(s) # 0
  BY FS_CardinalityType, FS_EmptySet
<1> QED
  BY <1>1, <1>2, <1>3

\* The recursion has a solution: it is built up one cardinality at a time.
LEMMA SumsExist ==
    ASSUME NEW f, LedgerOf(f)
    PROVE  \E g : g = SumStep(f, g)
<1> DEFINE D == DOMAIN f
           Right(g, s) == g[s] = IF s = {} THEN 0 ELSE f[Pick(s)] + g[s \ {Pick(s)}]
           Upto(k) == \E g \in [SUBSET D -> Int] : \A s \in SUBSET D : Cardinality(s) <= k => Right(g, s)
           Bad == {k \in Nat : ~Upto(k)}
<1>1. \A s \in SUBSET D : IsFiniteSet(s) /\ Cardinality(s) \in Nat /\ Cardinality(s) <= Cardinality(D)
  BY FS_Subset, FS_CardinalityType DEF LedgerOf
<1>2. Upto(0)
  <2> DEFINE g == [s \in SUBSET D |-> 0]
  <2>1. ASSUME NEW s \in SUBSET D, Cardinality(s) <= 0 PROVE Right(g, s)
    <3>1. s = {}
      BY <1>1, <2>1, FS_EmptySet
    <3> QED
      BY <3>1
  <2>2. g \in [SUBSET D -> Int]
    OBVIOUS
  <2> QED
    BY <2>1, <2>2
<1>3. ASSUME NEW k \in Nat, Upto(k) PROVE Upto(k + 1)
  <2>1. PICK g \in [SUBSET D -> Int] : \A s \in SUBSET D : Cardinality(s) <= k => Right(g, s)
    BY <1>3
  <2> DEFINE h == [s \in SUBSET D |-> IF Cardinality(s) = k + 1 THEN f[Pick(s)] + g[s \ {Pick(s)}] ELSE g[s]]
  <2>2. ASSUME NEW s \in SUBSET D, s # {}
        PROVE  f[Pick(s)] \in Int /\ g[s \ {Pick(s)}] \in Int /\ s \ {Pick(s)} \in SUBSET D
               /\ Cardinality(s \ {Pick(s)}) = Cardinality(s) - 1 /\ Cardinality(s) \in Nat
    <3>1. IsFiniteSet(s)
      BY <1>1
    <3>2. Pick(s) \in D /\ Cardinality(s \ {Pick(s)}) = Cardinality(s) - 1 /\ Cardinality(s) \in Nat
      BY <2>2, <3>1, Picked
    <3> QED
      BY <3>2 DEF LedgerOf
  <2>3. \A s \in SUBSET D : Cardinality(s) = k + 1 => s # {}
    BY FS_EmptySet
  <2>4. h \in [SUBSET D -> Int]
    <3>1. ASSUME NEW s \in SUBSET D
          PROVE  (IF Cardinality(s) = k + 1 THEN f[Pick(s)] + g[s \ {Pick(s)}] ELSE g[s]) \in Int
      <4>1. CASE Cardinality(s) = k + 1
        <5>1. f[Pick(s)] \in Int /\ g[s \ {Pick(s)}] \in Int
          BY <2>2, <2>3, <4>1
        <5> QED
          BY <4>1, <5>1
      <4>2. CASE Cardinality(s) # k + 1
        BY <4>2
      <4> QED
        BY <4>1, <4>2
    <3> QED
      BY <3>1
  <2>5. ASSUME NEW s \in SUBSET D, Cardinality(s) <= k + 1 PROVE Right(h, s)
    <3>1. CASE s = {}
      <4>1. Cardinality(s) = 0 /\ g[s] = 0
        BY <3>1, <2>1, FS_EmptySet
      <4> QED
        BY <3>1, <4>1
    <3>2. CASE s # {} /\ Cardinality(s) = k + 1
      <4>1. s \ {Pick(s)} \in SUBSET D /\ Cardinality(s \ {Pick(s)}) # k + 1
        BY <3>2, <2>2
      <4>2. h[s \ {Pick(s)}] = g[s \ {Pick(s)}]
        BY <4>1
      <4> QED
        BY <3>2, <4>2
    <3>3. CASE s # {} /\ Cardinality(s) # k + 1
      <4>1. /\ s \ {Pick(s)} \in SUBSET D
            /\ Cardinality(s \ {Pick(s)}) = Cardinality(s) - 1 /\ Cardinality(s) \in Nat
        BY <3>3, <2>2
      <4>3. Cardinality(s \ {Pick(s)}) # k + 1 /\ Cardinality(s) <= k
        BY <3>3, <2>5, <4>1
      <4>2. h[s \ {Pick(s)}] = g[s \ {Pick(s)}] /\ h[s] = g[s] /\ Right(g, s)
        BY <4>1, <4>3, <3>3, <2>1
      <4> QED
        BY <4>2
    <3> QED
      BY <3>1, <3>2, <3>3
  <2> HIDE DEF h
  <2> QED
    BY <2>4, <2>5
<1> HIDE DEF Upto
<1>4. Bad = {}
  <2> SUFFICES ASSUME Bad # {} PROVE FALSE
    OBVIOUS
  <2>1. PICK k \in Bad : \A j \in Bad : k <= j
    BY Least
  <2>2. k # 0
    BY <1>2
  <2>3. k - 1 \in Nat /\ k - 1 \notin Bad
    BY <2>1, <2>2
  <2>4. Upto(k - 1) /\ (k - 1) + 1 = k
    BY <2>3
  <2>5. Upto(k)
    BY <2>3, <2>4, <1>3
  <2> QED
    BY <2>5
<1>5. Upto(Cardinality(D))
  BY <1>1, <1>4, FS_CardinalityType DEF LedgerOf
<1>6. PICK g \in [SUBSET D -> Int] : \A s \in SUBSET D : Right(g, s)
  BY <1>1, <1>5 DEF Upto
<1>7. g = [s \in SUBSET D |-> g[s]]
  OBVIOUS
<1>8. g = SumStep(f, g)
  BY <1>6, <1>7 DEF SumStep
<1> QED
  BY <1>8

\* What Sums returns.
LEMMA SumsSolve ==
    ASSUME NEW f, LedgerOf(f)
    PROVE  /\ Sums(f) = SumStep(f, Sums(f))
           /\ \A s \in SUBSET DOMAIN f : Sums(f)[s] \in Int
<1>1. Sums(f) = SumStep(f, Sums(f))
  BY SumsExist DEF Sums
<1> DEFINE g == Sums(f)
           Bad == {Cardinality(s) : s \in {s \in SUBSET DOMAIN f : g[s] \notin Int}}
<1>2. \A s \in SUBSET DOMAIN f : g[s] = IF s = {} THEN 0 ELSE f[Pick(s)] + g[s \ {Pick(s)}]
  BY <1>1 DEF SumStep
<1> HIDE DEF g
<1>3. \A s \in SUBSET DOMAIN f : IsFiniteSet(s) /\ Cardinality(s) \in Nat
  BY FS_Subset, FS_CardinalityType DEF LedgerOf
<1>4. Bad = {}
  <2> SUFFICES ASSUME Bad # {} PROVE FALSE
    OBVIOUS
  <2>1. PICK k \in Bad : \A j \in Bad : k <= j
    <3>1. Bad \in SUBSET Nat
      BY <1>3
    <3> QED
      BY <3>1, Least
  <2>2. PICK s \in SUBSET DOMAIN f : g[s] \notin Int /\ k = Cardinality(s)
    OBVIOUS
  <2>3. s # {}
    <3>1. s = {} => g[s] = 0
      BY <1>2
    <3> QED
      BY <2>2, <3>1
  <2>4. IsFiniteSet(s)
    BY <1>3
  <2>5. Pick(s) \in s /\ Cardinality(s) \in Nat /\ Cardinality(s \ {Pick(s)}) = Cardinality(s) - 1
    BY <2>3, <2>4, Picked
  <2>6. s \ {Pick(s)} \in SUBSET DOMAIN f /\ Cardinality(s \ {Pick(s)}) \notin Bad
    <3>1. Cardinality(s \ {Pick(s)}) < k
      BY <2>2, <2>5
    <3> HIDE DEF Bad
    <3> QED
      BY <2>1, <2>2, <2>5, <3>1
  <2>8. g[s] = f[Pick(s)] + g[s \ {Pick(s)}]
    BY <1>2, <2>3
  <2>7. g[s \ {Pick(s)}] \in Int /\ f[Pick(s)] \in Int
    BY <2>5, <2>6 DEF LedgerOf
  <2> QED
    BY <2>2, <2>7, <2>8
<1> QED
  BY <1>1, <1>4 DEF g

\* A partial sum depends on the values it adds up only.
LEMMA SumsAgree ==
    ASSUME NEW f, LedgerOf(f), NEW h, LedgerOf(h),
           NEW t \in SUBSET DOMAIN f, t \subseteq DOMAIN h, \A x \in t : f[x] = h[x]
    PROVE  Sums(f)[t] = Sums(h)[t]
<1> DEFINE F == Sums(f)
           H == Sums(h)
           Bad == {Cardinality(s) : s \in {s \in SUBSET t : F[s] # H[s]}}
<1>1. \A s \in SUBSET t : /\ F[s] = IF s = {} THEN 0 ELSE f[Pick(s)] + F[s \ {Pick(s)}]
                          /\ H[s] = IF s = {} THEN 0 ELSE h[Pick(s)] + H[s \ {Pick(s)}]
  <2>1. F = SumStep(f, F) /\ H = SumStep(h, H)
    BY SumsSolve
  <2>2. \A s \in SUBSET t : s \in SUBSET DOMAIN f /\ s \in SUBSET DOMAIN h
    OBVIOUS
  <2> HIDE DEF F, H
  <2> QED
    BY <2>1, <2>2 DEF SumStep
<1> HIDE DEF F, H
<1>2. \A s \in SUBSET t : IsFiniteSet(s) /\ Cardinality(s) \in Nat
  BY FS_Subset, FS_CardinalityType DEF LedgerOf
<1>3. Bad = {}
  <2> SUFFICES ASSUME Bad # {} PROVE FALSE
    OBVIOUS
  <2>1. PICK k \in Bad : \A j \in Bad : k <= j
    <3>1. Bad \in SUBSET Nat
      BY <1>2
    <3> QED
      BY <3>1, Least
  <2>2. PICK s \in SUBSET t : F[s] # H[s] /\ k = Cardinality(s)
    OBVIOUS
  <2>3. s # {}
    BY <1>1, <2>2
  <2>4. IsFiniteSet(s)
    BY <1>2
  <2>5. Pick(s) \in s /\ Cardinality(s) \in Nat /\ Cardinality(s \ {Pick(s)}) = Cardinality(s) - 1
    BY <2>3, <2>4, Picked
  <2>6. s \ {Pick(s)} \in SUBSET t /\ Cardinality(s \ {Pick(s)}) \notin Bad
    <3>1. Cardinality(s \ {Pick(s)}) < k
      BY <2>2, <2>5
    <3> HIDE DEF Bad
    <3> QED
      BY <2>1, <2>2, <2>5, <3>1
  <2>7. F[s \ {Pick(s)}] = H[s \ {Pick(s)}] /\ f[Pick(s)] = h[Pick(s)]
    BY <2>5, <2>6
  <2> QED
    BY <1>1, <2>2, <2>3, <2>7
<1>4. F[t] = H[t]
  BY <1>3
<1> QED
  BY <1>4 DEF F, H

\* Of some subsets of a finite set, one has no smaller one among them.
LEMMA Smallest ==
    ASSUME NEW D, IsFiniteSet(D), NEW B \in SUBSET SUBSET D, B # {}
    PROVE  \E s \in B : IsFiniteSet(s) /\ \A x \in s : s \ {x} \notin B
<1> DEFINE H == {Cardinality(s) : s \in B}
<1>1. \A s \in B : IsFiniteSet(s) /\ Cardinality(s) \in Nat
  BY FS_Subset, FS_CardinalityType
<1>2. H \in SUBSET Nat /\ H # {}
  BY <1>1
<1>3. PICK k \in H : \A j \in H : k <= j
  <2> HIDE DEF H
  <2> QED
    BY <1>2, Least
<1>4. PICK s \in B : k = Cardinality(s)
  OBVIOUS
<1>5. ASSUME NEW x \in s, s \ {x} \in B PROVE FALSE
  <2>1. Cardinality(s \ {x}) = Cardinality(s) - 1
    BY <1>1, FS_RemoveElement
  <2>2. Cardinality(s \ {x}) \in H
    BY <1>5
  <2>3. k <= Cardinality(s \ {x})
    BY <1>3, <2>2
  <2> HIDE DEF H
  <2> QED
    BY <1>1, <1>4, <2>1, <2>3
<1> QED
  BY <1>1, <1>5

\* Partial sums from the empty set up.
LEMMA SumsRec ==
    ASSUME NEW f, LedgerOf(f), NEW s \in SUBSET DOMAIN f
    PROVE  /\ Sums(f)[s] \in Int
           /\ s = {} => Sums(f)[s] = 0
           /\ s # {} => Pick(s) \in s /\ Sums(f)[s] = f[Pick(s)] + Sums(f)[s \ {Pick(s)}]
<1> DEFINE g == Sums(f)
<1>1. g = SumStep(f, g) /\ g[s] \in Int
  BY SumsSolve
<1> HIDE DEF g
<1>2. g[s] = IF s = {} THEN 0 ELSE f[Pick(s)] + g[s \ {Pick(s)}]
  BY <1>1 DEF SumStep
<1>3. s # {} => Pick(s) \in s
  BY DEF Pick
<1> QED
  BY <1>1, <1>2, <1>3 DEF g

\* Any element may be taken out first.
LEMMA SumsOut ==
    ASSUME NEW f, LedgerOf(f), NEW t \in SUBSET DOMAIN f, NEW z \in t
    PROVE  Sums(f)[t] = f[z] + Sums(f)[t \ {z}]
<1> DEFINE D == DOMAIN f
           g == Sums(f)
           Bad == {s \in SUBSET D : \E x \in s : g[s] # f[x] + g[s \ {x}]}
<1>1. \A s \in SUBSET D : /\ g[s] \in Int
                          /\ s # {} => Pick(s) \in s /\ g[s] = f[Pick(s)] + g[s \ {Pick(s)}]
  BY SumsRec
<1> HIDE DEF g
<1>2. Bad = {}
  <2> SUFFICES ASSUME Bad # {} PROVE FALSE
    OBVIOUS
  <2>1. IsFiniteSet(D) /\ Bad \in SUBSET SUBSET D
    BY DEF LedgerOf
  <2>2. PICK s \in Bad : \A x \in s : s \ {x} \notin Bad
    <3> HIDE DEF Bad, D
    <3> QED
      BY <2>1, Smallest
  <2>3. PICK x \in s : g[s] # f[x] + g[s \ {x}]
    OBVIOUS
  <2> DEFINE y == Pick(s)
  <2>4. y \in s /\ g[s] = f[y] + g[s \ {y}]
    BY <1>1, <2>3
  <2>5. x # y
    BY <2>3, <2>4
  <2> HIDE DEF y
  <2>6. x \in s \ {y} /\ y \in s \ {x} /\ (s \ {y}) \ {x} = (s \ {x}) \ {y} /\ s \in SUBSET D
    BY <2>4, <2>5
  <2>7. g[s \ {y}] = f[x] + g[(s \ {y}) \ {x}]
    BY <2>2, <2>4, <2>6
  <2>8. g[s \ {x}] = f[y] + g[(s \ {x}) \ {y}]
    BY <2>2, <2>6
  <2>9. f[x] \in Int /\ f[y] \in Int /\ g[(s \ {x}) \ {y}] \in Int
    BY <1>1, <2>6 DEF LedgerOf
  <2>10. g[s] = f[y] + (f[x] + g[(s \ {x}) \ {y}])
    <3> HIDE DEF Bad
    <3> QED
      BY <2>4, <2>6, <2>7
  <2>11. g[s] # f[x] + (f[y] + g[(s \ {x}) \ {y}])
    <3> HIDE DEF Bad
    <3> QED
      BY <2>3, <2>8
  <2> HIDE DEF Bad
  <2> QED
    BY <2>9, <2>10, <2>11
<1>3. g[t] = f[z] + g[t \ {z}]
  BY <1>2
<1> QED
  BY <1>3 DEF g

\* Totals are integers, and nothing adds up to zero.
LEMMA TotalInt ==
    ASSUME NEW f, LedgerOf(f)
    PROVE  Total(f) \in Int /\ (DOMAIN f = {} => Total(f) = 0)
BY SumsRec, TotalIs

\* Any element may be taken out of a total.
LEMMA TotalOut ==
    ASSUME NEW f, LedgerOf(f), NEW z \in DOMAIN f, NEW h, LedgerOf(h),
           DOMAIN h = DOMAIN f \ {z}, \A x \in DOMAIN h : h[x] = f[x]
    PROVE  Total(f) = f[z] + Total(h)
<1>3. DOMAIN f \in SUBSET DOMAIN f
  OBVIOUS
<1>4. Sums(f)[DOMAIN f] = f[z] + Sums(f)[DOMAIN f \ {z}]
  BY <1>3, SumsOut
<1>1. Total(f) = f[z] + Sums(f)[DOMAIN f \ {z}]
  BY <1>4, TotalIs
<1>2. Sums(h)[DOMAIN h] = Sums(f)[DOMAIN h]
  BY SumsAgree
<1> QED
  BY <1>1, <1>2, TotalIs

\* A total moves with the one value that changes.
LEMMA TotalMoves ==
    ASSUME NEW f, LedgerOf(f), NEW z \in DOMAIN f, NEW h, LedgerOf(h),
           DOMAIN h = DOMAIN f, \A x \in DOMAIN f \ {z} : h[x] = f[x]
    PROVE  Total(h) = Total(f) - f[z] + h[z]
<1> DEFINE s == DOMAIN f \ {z}
<1>6. s \in SUBSET DOMAIN f /\ DOMAIN f \in SUBSET DOMAIN f /\ DOMAIN h \in SUBSET DOMAIN h
  OBVIOUS
<1>1. Sums(f)[DOMAIN f] = f[z] + Sums(f)[s] /\ Sums(f)[s] \in Int
  <2>1. Sums(f)[DOMAIN f] = f[z] + Sums(f)[s]
    BY <1>6, SumsOut
  <2>2. Sums(f)[s] \in Int
    BY <1>6, SumsRec
  <2> QED
    BY <2>1, <2>2
<1>2. Sums(h)[DOMAIN h] = h[z] + Sums(h)[s]
  <2>1. z \in DOMAIN h
    OBVIOUS
  <2> QED
    BY <1>6, <2>1, SumsOut
<1>3. Sums(h)[s] = Sums(f)[s]
  BY SumsAgree
<1>4. f[z] \in Int /\ h[z] \in Int
  BY DEF LedgerOf
<1>5. Total(f) = Sums(f)[DOMAIN f] /\ Total(h) = Sums(h)[DOMAIN h]
  BY TotalIs
<1> QED
  BY <1>1, <1>2, <1>3, <1>4, <1>5

\* Totals add up point by point.
LEMMA TotalAdds ==
    ASSUME NEW f, LedgerOf(f), NEW h, LedgerOf(h), NEW e, LedgerOf(e),
           DOMAIN h = DOMAIN f, DOMAIN e = DOMAIN f, \A x \in DOMAIN f : e[x] = f[x] + h[x]
    PROVE  Total(e) = Total(f) + Total(h)
<1> DEFINE D == DOMAIN f
           F == Sums(f)
           H == Sums(h)
           E == Sums(e)
           Bad == {s \in SUBSET D : E[s] # F[s] + H[s]}
<1>1. \A s \in SUBSET D : /\ F[s] \in Int /\ H[s] \in Int /\ E[s] \in Int
                          /\ s = {} => F[s] = 0 /\ H[s] = 0 /\ E[s] = 0
                          /\ s # {} => /\ Pick(s) \in s /\ F[s] = f[Pick(s)] + F[s \ {Pick(s)}]
                                       /\ H[s] = h[Pick(s)] + H[s \ {Pick(s)}]
                                       /\ E[s] = e[Pick(s)] + E[s \ {Pick(s)}]
  BY SumsRec
<1> HIDE DEF F, H, E
<1>2. Bad = {}
  <2> SUFFICES ASSUME Bad # {} PROVE FALSE
    OBVIOUS
  <2>1. IsFiniteSet(D) /\ Bad \in SUBSET SUBSET D
    BY DEF LedgerOf
  <2>2. PICK s \in Bad : \A x \in s : s \ {x} \notin Bad
    <3> HIDE DEF Bad, D
    <3> QED
      BY <2>1, Smallest
  <2>3. s \in SUBSET D /\ E[s] # F[s] + H[s]
    OBVIOUS
  <2>4. s # {}
    <3>1. s = {} => F[s] = 0 /\ H[s] = 0 /\ E[s] = 0
      BY <1>1, <2>3
    <3> HIDE DEF Bad
    <3> QED
      BY <2>3, <3>1
  <2> DEFINE y == Pick(s)
             r == s \ {y}
  <2>5. y \in s /\ F[s] = f[y] + F[r] /\ H[s] = h[y] + H[r] /\ E[s] = e[y] + E[r]
    BY <1>1, <2>3, <2>4
  <2> HIDE DEF y
  <2>6. r \in SUBSET D /\ r \notin Bad
    BY <2>2, <2>3, <2>5
  <2>7. E[r] = F[r] + H[r] /\ F[r] \in Int /\ H[r] \in Int
    BY <1>1, <2>6
  <2>8. f[y] \in Int /\ h[y] \in Int /\ e[y] = f[y] + h[y]
    BY <2>3, <2>5 DEF LedgerOf
  <2> HIDE DEF r
  <2> QED
    BY <2>3, <2>5, <2>7, <2>8
<1>3. E[D] = F[D] + H[D]
  BY <1>2
<1> QED
  BY <1>3, TotalIs DEF F, H, E

\* Amounts add up to an amount, of which each is a part.
LEMMA TotalNat ==
    ASSUME NEW f, LedgerOf(f), \A x \in DOMAIN f : f[x] \in Nat
    PROVE  Total(f) \in Nat /\ \A x \in DOMAIN f : f[x] <= Total(f)
<1> DEFINE D == DOMAIN f
           g == Sums(f)
           Bad == {s \in SUBSET D : g[s] \notin Nat}
<1>1. \A s \in SUBSET D : /\ s = {} => g[s] = 0
                          /\ s # {} => Pick(s) \in s /\ g[s] = f[Pick(s)] + g[s \ {Pick(s)}]
                          /\ \A x \in s : g[s] = f[x] + g[s \ {x}]
  <2>1. ASSUME NEW s \in SUBSET D
        PROVE  /\ s = {} => g[s] = 0
               /\ s # {} => Pick(s) \in s /\ g[s] = f[Pick(s)] + g[s \ {Pick(s)}]
    BY SumsRec
  <2>2. ASSUME NEW s \in SUBSET D, NEW x \in s PROVE g[s] = f[x] + g[s \ {x}]
    BY SumsOut
  <2> QED
    BY <2>1, <2>2
<1>a. Total(f) = g[D]
  BY TotalIs
<1> HIDE DEF g
<1>2. Bad = {}
  <2> SUFFICES ASSUME Bad # {} PROVE FALSE
    OBVIOUS
  <2>1. IsFiniteSet(D) /\ Bad \in SUBSET SUBSET D
    BY DEF LedgerOf
  <2>2. PICK s \in Bad : \A x \in s : s \ {x} \notin Bad
    <3> HIDE DEF Bad, D
    <3> QED
      BY <2>1, Smallest
  <2>3. s \in SUBSET D /\ g[s] \notin Nat
    OBVIOUS
  <2>4. s # {}
    <3>1. s = {} => g[s] = 0
      BY <1>1, <2>3
    <3> QED
      BY <2>3, <3>1
  <2> DEFINE y == Pick(s)
             r == s \ {y}
  <2>5. y \in s /\ g[s] = f[y] + g[r]
    BY <1>1, <2>3, <2>4
  <2> HIDE DEF y
  <2>6. r \in SUBSET D /\ r \notin Bad
    BY <2>2, <2>3, <2>5
  <2>7. g[r] \in Nat /\ f[y] \in Nat
    BY <2>3, <2>5, <2>6
  <2> HIDE DEF r
  <2> QED
    BY <2>3, <2>5, <2>7
<1>3. ASSUME NEW x \in D PROVE f[x] <= g[D]
  <2>1. g[D] = f[x] + g[D \ {x}]
    BY <1>1
  <2>2. g[D \ {x}] \in Nat
    BY <1>2
  <2> QED
    BY <2>1, <2>2
<1> QED
  BY <1>a, <1>2, <1>3

\* Zeros add up to zero.
LEMMA TotalZero ==
    ASSUME NEW f, LedgerOf(f), \A x \in DOMAIN f : f[x] = 0
    PROVE  Total(f) = 0
<1>3. \A x \in DOMAIN f : f[x] = f[x] + f[x]
  OBVIOUS
<1>1. Total(f) = Total(f) + Total(f)
  BY <1>3, TotalAdds
<1>2. Total(f) \in Int
  BY TotalInt
<1>4. \A n \in Int : n = n + n => n = 0
  OBVIOUS
<1> QED
  BY <1>1, <1>2, <1>4

\* Where every value is as large, so is the total.
LEMMA TotalRises ==
    ASSUME NEW f, LedgerOf(f), NEW h, LedgerOf(h),
           DOMAIN h = DOMAIN f, \A x \in DOMAIN f : f[x] <= h[x]
    PROVE  Total(f) <= Total(h)
<1> DEFINE d == [x \in DOMAIN f |-> h[x] - f[x]]
<1>1. \A x \in DOMAIN f : f[x] \in Int /\ h[x] \in Int /\ d[x] \in Nat /\ h[x] = f[x] + d[x]
  BY DEF LedgerOf
<1>2. DOMAIN d = DOMAIN f
  OBVIOUS
<1> HIDE DEF d
<1>3. LedgerOf(d)
  BY <1>1, <1>2 DEF LedgerOf
<1>4. Total(h) = Total(f) + Total(d)
  BY <1>1, <1>2, <1>3, TotalAdds
<1>5. Total(d) \in Nat /\ Total(f) \in Int
  BY <1>1, <1>2, <1>3, TotalNat, TotalInt
<1> QED
  BY <1>4, <1>5

(***************************************************************************)
(* Lists.                                                                  *)
(***************************************************************************)

\* One step of the fold behind Within, from the last index down.
KeepStep(s, S, g) ==
    [t \in SUBSET DOMAIN s |->
        IF t = {} THEN << >>
        ELSE IF s[Max(t)] \in S THEN Append(g[t \ {Max(t)}], s[Max(t)]) ELSE g[t \ {Max(t)}]]

Kept(s, S) == CHOOSE g : g = KeepStep(s, S, g)

\* Within is that fold, over all indices.
LEMMA WithinIs ==
    ASSUME NEW s, NEW S
    PROVE  Within(s, S) = Kept(s, S)[DOMAIN s]
BY DEF Within, FoldLeft, MapThenFoldSet, Kept, KeepStep

\* A finite set of integers that is not empty has a maximum.
LEMMA MaxIn ==
    ASSUME NEW n \in Nat, NEW t \in SUBSET (1..n), t # {}
    PROVE  Max(t) \in t
<1> DEFINE H == {n - i : i \in t}
<1>1. H \in SUBSET Nat /\ H # {}
  <2>1. PICK i \in t : TRUE
    OBVIOUS
  <2>2. n - i \in H
    BY <2>1
  <2>3. \A j \in t : j \in 1..n
    OBVIOUS
  <2>4. \A j \in 1..n : n - j \in Nat
    OBVIOUS
  <2> QED
    BY <2>2, <2>3, <2>4
<1>2. PICK k \in H : \A j \in H : k <= j
  <2> HIDE DEF H
  <2> QED
    BY <1>1, Least
<1>3. PICK m \in t : k = n - m
  OBVIOUS
<1>4. ASSUME NEW j \in t PROVE m >= j
  <2>1. n - j \in H
    OBVIOUS
  <2>2. n - m <= n - j
    BY <1>2, <1>3, <2>1
  <2> QED
    BY <2>2
<1> QED
  BY <1>4 DEF Max

\* The maximum of a prefix is its length.
LEMMA MaxPrefix ==
    ASSUME NEW k \in Nat \ {0}
    PROVE  Max(1..k) = k /\ (1..k) \ {k} = 1..(k - 1)
<1>1. Max(1..k) \in 1..k /\ Max(1..k) >= k
  <2>1. k \in 1..k /\ \A j \in 1..k : k >= j
    OBVIOUS
  <2> QED
    BY <2>1 DEF Max
<1> QED
  BY <1>1

\* The fold has a solution, built up one cardinality at a time.
LEMMA KeptExists ==
    ASSUME NEW E, NEW s \in Seq(E), NEW S
    PROVE  \E g : g = KeepStep(s, S, g)
<1> DEFINE D == DOMAIN s
           T(g, t) == IF s[Max(t)] \in S THEN Append(g[t \ {Max(t)}], s[Max(t)]) ELSE g[t \ {Max(t)}]
           Right(g, t) == g[t] = IF t = {} THEN << >> ELSE T(g, t)
           Upto(k) == \E g : DOMAIN g = SUBSET D /\ g = [t \in SUBSET D |-> g[t]]
                                /\ \A t \in SUBSET D : Cardinality(t) <= k => Right(g, t)
           Bad == {k \in Nat : ~Upto(k)}
<1>0. D = 1..Len(s) /\ Len(s) \in Nat /\ IsFiniteSet(D)
  BY FS_Interval
<1>1. \A t \in SUBSET D : IsFiniteSet(t) /\ Cardinality(t) \in Nat /\ Cardinality(t) <= Cardinality(D)
  BY <1>0, FS_Subset, FS_CardinalityType
<1>2. Upto(0)
  <2> DEFINE g == [t \in SUBSET D |-> << >>]
  <2>1. ASSUME NEW t \in SUBSET D, Cardinality(t) <= 0 PROVE Right(g, t)
    <3>1. t = {}
      BY <1>1, <2>1, FS_EmptySet
    <3> QED
      BY <3>1
  <2>2. DOMAIN g = SUBSET D /\ g = [t \in SUBSET D |-> g[t]]
    OBVIOUS
  <2> HIDE DEF g, Right
  <2> QED
    BY <2>1, <2>2
<1>3. ASSUME NEW k \in Nat, Upto(k) PROVE Upto(k + 1)
  <2>1. PICK g : DOMAIN g = SUBSET D /\ g = [t \in SUBSET D |-> g[t]]
                                /\ \A t \in SUBSET D : Cardinality(t) <= k => Right(g, t)
    BY <1>3
  <2> DEFINE h == [t \in SUBSET D |-> IF Cardinality(t) = k + 1 THEN T(g, t) ELSE g[t]]
  <2>2. ASSUME NEW t \in SUBSET D, t # {}
        PROVE  /\ t \ {Max(t)} \in SUBSET D
               /\ Cardinality(t \ {Max(t)}) = Cardinality(t) - 1 /\ Cardinality(t) \in Nat
    <3>1. Max(t) \in t
      BY <1>0, <2>2, MaxIn
    <3> QED
      BY <1>1, <3>1, FS_RemoveElement
  <2>5. ASSUME NEW t \in SUBSET D, Cardinality(t) <= k + 1 PROVE Right(h, t)
    <3>1. CASE t = {}
      <4>2. Cardinality(t) = 0 /\ Cardinality(t) <= k
        BY <3>1, FS_EmptySet
      <4>1. Cardinality(t) = 0 /\ g[t] = << >>
        BY <3>1, <4>2, <2>1
      <4> QED
        BY <3>1, <4>1
    <3>2. CASE t # {} /\ Cardinality(t) = k + 1
      <4>1. t \ {Max(t)} \in SUBSET D /\ Cardinality(t \ {Max(t)}) # k + 1
        BY <3>2, <2>2
      <4>2. h[t \ {Max(t)}] = g[t \ {Max(t)}]
        BY <4>1
      <4>3. h[t] = T(g, t)
        BY <3>2
      <4> HIDE DEF h
      <4> QED
        BY <3>2, <4>2, <4>3
    <3>3. CASE t # {} /\ Cardinality(t) # k + 1
      <4>1. /\ t \ {Max(t)} \in SUBSET D
            /\ Cardinality(t \ {Max(t)}) = Cardinality(t) - 1 /\ Cardinality(t) \in Nat
        BY <3>3, <2>2
      <4>3. Cardinality(t \ {Max(t)}) # k + 1 /\ Cardinality(t) <= k
        BY <3>3, <2>5, <4>1
      <4>2. h[t \ {Max(t)}] = g[t \ {Max(t)}] /\ h[t] = g[t] /\ Right(g, t)
        BY <4>1, <4>3, <3>3, <2>1
      <4> HIDE DEF h
      <4> QED
        BY <3>3, <4>2
    <3> QED
      BY <3>1, <3>2, <3>3
  <2>6. DOMAIN h = SUBSET D /\ h = [t \in SUBSET D |-> h[t]]
    OBVIOUS
  <2> HIDE DEF h, Right
  <2> QED
    BY <2>5, <2>6
<1> HIDE DEF Upto
<1>4. Bad = {}
  <2> SUFFICES ASSUME Bad # {} PROVE FALSE
    OBVIOUS
  <2>1. PICK k \in Bad : \A j \in Bad : k <= j
    BY Least
  <2>2. k # 0
    BY <1>2
  <2>3. k - 1 \in Nat /\ k - 1 \notin Bad
    BY <2>1, <2>2
  <2>4. Upto(k - 1) /\ (k - 1) + 1 = k
    BY <2>3
  <2>5. Upto(k)
    BY <2>3, <2>4, <1>3
  <2> QED
    BY <2>5
<1>5. Upto(Cardinality(D))
  BY <1>0, <1>1, <1>4, FS_CardinalityType
<1>6. PICK g : g = [t \in SUBSET D |-> g[t]] /\ \A t \in SUBSET D : Right(g, t)
  BY <1>1, <1>5 DEF Upto
<1>8. g = KeepStep(s, S, g)
  BY <1>6 DEF KeepStep
<1> QED
  BY <1>8

\* The list as it is after each index.
LEMMA WithinSteps ==
    ASSUME NEW E, NEW s \in Seq(E), NEW S
    PROVE  \E h : /\ h[0] = << >> /\ Within(s, S) = h[Len(s)]
                  /\ \A k \in 1..Len(s) :
                        h[k] = IF s[k] \in S THEN Append(h[k - 1], s[k]) ELSE h[k - 1]
<1> DEFINE g == Kept(s, S)
           h == [k \in 0..Len(s) |-> g[1..k]]
<1>1. g = KeepStep(s, S, g)
  BY KeptExists DEF Kept
<1>2. Within(s, S) = g[DOMAIN s]
  BY WithinIs
<1> HIDE DEF g
<1>3. \A t \in SUBSET DOMAIN s :
         g[t] = IF t = {} THEN << >>
                ELSE IF s[Max(t)] \in S THEN Append(g[t \ {Max(t)}], s[Max(t)]) ELSE g[t \ {Max(t)}]
  BY <1>1 DEF KeepStep
<1>4. h[0] = << >>
  <2>1. 1..0 = {} /\ h[0] = g[1..0]
    OBVIOUS
  <2> QED
    BY <1>3, <2>1
<1>5. Within(s, S) = h[Len(s)]
  BY <1>2
<1>6. ASSUME NEW k \in 1..Len(s)
      PROVE  h[k] = IF s[k] \in S THEN Append(h[k - 1], s[k]) ELSE h[k - 1]
  <2>4. DOMAIN s = 1..Len(s) /\ Len(s) \in Nat /\ k \in Nat \ {0} /\ k <= Len(s)
    OBVIOUS
  <2>5. k \in 1..k /\ \A i \in 1..k : i \in 1..Len(s)
    BY <2>4
  <2>1. 1..k \in SUBSET DOMAIN s /\ 1..k # {} /\ k \in Nat \ {0}
    BY <2>4, <2>5
  <2>2. Max(1..k) = k /\ (1..k) \ {k} = 1..(k - 1)
    BY <2>1, MaxPrefix
  <2>3. h[k] = g[1..k] /\ h[k - 1] = g[1..(k - 1)]
    OBVIOUS
  <2> HIDE DEF h
  <2> QED
    BY <1>3, <2>1, <2>2, <2>3
<1> HIDE DEF h
<1> QED
  BY <1>4, <1>5, <1>6

\* Entries with an amount.
Amounted(E) == \A e \in E : e.amount \in Nat

\* What a list adds up to is a natural.
LEMMA SumNat ==
    ASSUME NEW E, Amounted(E), NEW s \in Seq(E)
    PROVE  /\ Sum(s) \in Nat /\ (s = << >> => Sum(s) = 0)
           /\ LedgerOf([i \in DOMAIN s |-> s[i].amount])
<1> DEFINE f == [i \in DOMAIN s |-> s[i].amount]
<1>1. IsFiniteSet(DOMAIN f) /\ DOMAIN f = 1..Len(s)
  BY FS_Interval
<1>2. \A x \in DOMAIN f : f[x] \in Nat
  BY DEF Amounted
<1> HIDE DEF f
<1>3. LedgerOf(f)
  BY <1>1, <1>2 DEF LedgerOf
<1>4. Total(f) \in Nat /\ (DOMAIN f = {} => Total(f) = 0)
  BY <1>2, <1>3, TotalNat, TotalInt
<1>5. s = << >> => DOMAIN f = {}
  BY <1>1
<1> QED
  BY <1>3, <1>4, <1>5 DEF Sum, f

\* One more entry adds its amount.
LEMMA SumAppend ==
    ASSUME NEW E, Amounted(E), NEW s \in Seq(E), NEW e \in E
    PROVE  Sum(Append(s, e)) = Sum(s) + e.amount
<1> DEFINE t == Append(s, e)
           f == [i \in DOMAIN t |-> t[i].amount]
           h == [i \in DOMAIN s |-> s[i].amount]
           z == Len(s) + 1
<1>1. t \in Seq(E) /\ DOMAIN t = 1..z /\ DOMAIN s = 1..Len(s) /\ Len(s) \in Nat
      /\ t[z] = e /\ \A i \in 1..Len(s) : t[i] = s[i]
  OBVIOUS
<1>2. LedgerOf(f) /\ LedgerOf(h)
  BY <1>1, SumNat
<1> HIDE DEF t
<1>3. DOMAIN f = 1..z /\ DOMAIN h = 1..Len(s) /\ z \in DOMAIN f /\ f[z] = e.amount
      /\ DOMAIN h = DOMAIN f \ {z} /\ \A x \in DOMAIN h : h[x] = f[x]
  BY <1>1
<1> HIDE DEF f, h, z
<1>4. Total(f) = f[z] + Total(h)
  BY <1>2, <1>3, TotalOut
<1>5. Total(h) \in Int /\ e.amount \in Nat
  BY <1>2, TotalInt DEF Amounted
<1>6. Total(f) = Total(h) + e.amount
  BY <1>3, <1>4, <1>5
<1> QED
  BY <1>6 DEF Sum, f, h, t

\* What is kept of a list, and what it adds up to.
LEMMA WithinKeeps ==
    ASSUME NEW E, Amounted(E), NEW s \in Seq(E), NEW S
    PROVE  /\ Within(s, S) \in Seq(E) /\ Len(Within(s, S)) <= Len(s)
           /\ Sum(Within(s, S)) = Total([i \in DOMAIN s |-> IF s[i] \in S THEN s[i].amount ELSE 0])
<1> DEFINE P(k) == [i \in 1..k |-> IF s[i] \in S THEN s[i].amount ELSE 0]
<1>1. PICK h : /\ h[0] = << >> /\ Within(s, S) = h[Len(s)]
               /\ \A k \in 1..Len(s) :
                     h[k] = IF s[k] \in S THEN Append(h[k - 1], s[k]) ELSE h[k - 1]
  BY WithinSteps
<1> DEFINE Good(k) == h[k] \in Seq(E) /\ Len(h[k]) <= k /\ Sum(h[k]) = Total(P(k))
           Bad == {k \in 0..Len(s) : ~Good(k)}
<1>2. Len(s) \in Nat /\ DOMAIN s = 1..Len(s) /\ \A i \in 1..Len(s) : s[i] \in E
  OBVIOUS
<1>3. ASSUME NEW k \in 0..Len(s)
      PROVE  LedgerOf(P(k)) /\ DOMAIN P(k) = 1..k /\ \A i \in 1..k : P(k)[i] \in Nat
  <2>1. DOMAIN P(k) = 1..k /\ IsFiniteSet(1..k)
    BY FS_Interval
  <2>2. \A i \in 1..k : P(k)[i] \in Nat
    BY <1>2 DEF Amounted
  <2> HIDE DEF P
  <2> QED
    BY <2>1, <2>2 DEF LedgerOf
<1>4. Good(0)
  <2>1. << >> \in Seq(E) /\ Len(<< >>) = 0
    OBVIOUS
  <2>2. Sum(<< >>) = 0
    BY <2>1, SumNat
  <2>5. 0 \in 0..Len(s) /\ 1..0 = {}
    BY <1>2
  <2>3. DOMAIN P(0) = {} /\ LedgerOf(P(0))
    BY <1>3, <2>5
  <2> HIDE DEF P
  <2>4. Total(P(0)) = 0
    BY <2>3, TotalInt
  <2> QED
    BY <1>1, <2>1, <2>2, <2>4
<1>5. ASSUME NEW k \in 1..Len(s), Good(k - 1) PROVE Good(k)
  <2>1. LedgerOf(P(k)) /\ LedgerOf(P(k - 1)) /\ DOMAIN P(k) = 1..k /\ DOMAIN P(k - 1) = 1..(k - 1)
        /\ (1..k) \ {k} = 1..(k - 1) /\ k \in 1..k
    <3>1. k \in 0..Len(s) /\ k - 1 \in 0..Len(s)
      BY <1>2
    <3> QED
      BY <1>3, <3>1
  <2>2. \A x \in 1..(k - 1) : P(k - 1)[x] = P(k)[x]
    OBVIOUS
  <2>3. P(k)[k] = IF s[k] \in S THEN s[k].amount ELSE 0
    BY <2>1
  <2> HIDE DEF P
  <2> DEFINE f == P(k)
             e == P(k - 1)
  <2>8. LedgerOf(f) /\ k \in DOMAIN f /\ LedgerOf(e) /\ DOMAIN e = DOMAIN f \ {k}
        /\ \A x \in DOMAIN e : e[x] = f[x]
    BY <2>1, <2>2
  <2> HIDE DEF f, e
  <2>9. Total(f) = f[k] + Total(e) /\ Total(e) \in Int
    BY <2>8, TotalOut, TotalInt
  <2>4. Total(P(k)) = P(k)[k] + Total(P(k - 1)) /\ Total(P(k - 1)) \in Int
    BY <2>9 DEF f, e
  <2>5. s[k] \in E /\ s[k].amount \in Nat /\ k \in Nat
    BY <1>2 DEF Amounted
  <2>6. CASE s[k] \in S
    <3>1. h[k] = Append(h[k - 1], s[k]) /\ P(k)[k] = s[k].amount
      BY <1>1, <2>3, <2>6
    <3>2. Append(h[k - 1], s[k]) \in Seq(E) /\ Len(Append(h[k - 1], s[k])) = Len(h[k - 1]) + 1
      BY <1>5, <2>5
    <3>3. Sum(Append(h[k - 1], s[k])) = Sum(h[k - 1]) + s[k].amount
      BY <1>5, <2>5, SumAppend
    <3>4. Len(h[k - 1]) \in Nat /\ Len(h[k - 1]) <= k - 1 /\ Sum(h[k - 1]) = Total(P(k - 1))
      BY <1>5
    <3>5. Sum(h[k]) = Total(P(k))
      BY <2>4, <2>5, <3>1, <3>3, <3>4
    <3> QED
      BY <2>5, <3>1, <3>2, <3>4, <3>5
  <2>7. CASE s[k] \notin S
    <3>1. h[k] = h[k - 1] /\ P(k)[k] = 0
      BY <1>1, <2>3, <2>7
    <3>2. Total(P(k)) = Total(P(k - 1))
      BY <2>4, <3>1
    <3>3. h[k - 1] \in Seq(E) /\ Len(h[k - 1]) \in Nat /\ Len(h[k - 1]) <= k - 1
          /\ Sum(h[k - 1]) = Total(P(k - 1))
      BY <1>5
    <3> QED
      BY <2>5, <3>1, <3>2, <3>3
  <2> QED
    BY <2>6, <2>7
<1>6. Bad = {}
  <2> SUFFICES ASSUME Bad # {} PROVE FALSE
    OBVIOUS
  <2> HIDE DEF Good
  <2>5. Bad \in SUBSET Nat
    BY <1>2
  <2>1. PICK k \in Bad : \A j \in Bad : k <= j
    <3> HIDE DEF Bad
    <3> QED
      BY <2>5, Least
  <2>2. k # 0 /\ k \in 0..Len(s) /\ ~Good(k)
    BY <1>4
  <2>3. k \in 1..Len(s) /\ k - 1 \in 0..Len(s) /\ ~(k <= k - 1)
    BY <1>2, <2>2
  <2>4. Good(k - 1)
    BY <2>1, <2>3
  <2> QED
    BY <1>5, <2>2, <2>3, <2>4
<1>7. Good(Len(s))
  <2> HIDE DEF Good
  <2> QED
    BY <1>2, <1>6
<1>8. P(Len(s)) = [i \in DOMAIN s |-> IF s[i] \in S THEN s[i].amount ELSE 0]
  BY <1>2
<1> HIDE DEF P
<1> QED
  BY <1>1, <1>7, <1>8

\* Entries of which each is in one of two sets split a list in two.
LEMMA WithinSplits ==
    ASSUME NEW E, Amounted(E), NEW s \in Seq(E), NEW A, NEW B,
           \A i \in DOMAIN s : s[i] \in A <=> s[i] \notin B
    PROVE  Sum(Within(s, A)) + Sum(Within(s, B)) = Sum(s)
<1> DEFINE f == [i \in DOMAIN s |-> IF s[i] \in A THEN s[i].amount ELSE 0]
           h == [i \in DOMAIN s |-> IF s[i] \in B THEN s[i].amount ELSE 0]
           e == [i \in DOMAIN s |-> s[i].amount]
<1>1. LedgerOf(e)
  BY SumNat
<1>2. \A i \in DOMAIN s : s[i].amount \in Nat
  BY DEF Amounted
<1>3. /\ DOMAIN f = DOMAIN s /\ DOMAIN h = DOMAIN s /\ DOMAIN e = DOMAIN s
      /\ \A i \in DOMAIN s : f[i] \in Nat /\ h[i] \in Nat /\ e[i] = f[i] + h[i]
  BY <1>2
<1>4. Sum(Within(s, A)) = Total(f) /\ Sum(Within(s, B)) = Total(h)
  BY WithinKeeps
<1>5. Sum(s) = Total(e)
  BY DEF Sum
<1> HIDE DEF f, h, e
<1>6. LedgerOf(f) /\ LedgerOf(h)
  BY <1>1, <1>3 DEF LedgerOf
<1>7. Total(e) = Total(f) + Total(h)
  BY <1>1, <1>3, <1>6, TotalAdds
<1> QED
  BY <1>4, <1>5, <1>7

\* A ledger over a finite set.
LEMMA LedgerOver ==
    ASSUME NEW S, IsFiniteSet(S), NEW f, DOMAIN f = S, \A x \in S : f[x] \in Int
    PROVE  LedgerOf(f)
BY DEF LedgerOf

\* What some hold in equal parts is as many times one part.
LEMMA TotalEqual ==
    ASSUME NEW S, IsFiniteSet(S), NEW H \in SUBSET S, NEW c \in Nat
    PROVE  Total([x \in S |-> IF x \in H THEN c ELSE 0]) = Cardinality(H) * c
<1> DEFINE f(U) == [x \in S |-> IF x \in U THEN c ELSE 0]
           Bad == {U \in SUBSET S : Total(f(U)) # Cardinality(U) * c}
<1>1. \A U \in SUBSET S : /\ LedgerOf(f(U)) /\ DOMAIN f(U) = S
                          /\ IsFiniteSet(U) /\ Cardinality(U) \in Nat
  BY FS_Subset, FS_CardinalityType DEF LedgerOf
<1>2. Bad = {}
  <2> SUFFICES ASSUME Bad # {} PROVE FALSE
    OBVIOUS
  <2>1. PICK U \in Bad : IsFiniteSet(U) /\ \A x \in U : U \ {x} \notin Bad
    BY Smallest
  <2>2. U # {}
    <3>1. \A x \in DOMAIN f({}) : f({})[x] = 0
      OBVIOUS
    <3> HIDE DEF f
    <3>2. Total(f({})) = 0
      BY <1>1, <3>1, TotalZero
    <3>3. Cardinality({}) * c = 0
      BY FS_EmptySet
    <3> QED
      BY <3>2, <3>3
  <2>3. PICK z \in U : TRUE
    BY <2>2
  <2> DEFINE V == U \ {z}
  <2>4. U \in SUBSET S /\ V \in SUBSET S /\ z \in S
    BY <2>1
  <2>5. Total(f(V)) = Cardinality(V) * c
    BY <2>1, <2>3, <2>4
  <2>6. Cardinality(V) = Cardinality(U) - 1
    BY <2>1, <2>3, FS_RemoveElement
  <2>7. Total(f(U)) = Total(f(V)) - f(V)[z] + f(U)[z]
    <3>1. \A x \in S \ {z} : f(U)[x] = f(V)[x]
      OBVIOUS
    <3> HIDE DEF f, V
    <3> QED
      BY <1>1, <2>4, <3>1, TotalMoves
  <2>8. f(V)[z] = 0 /\ f(U)[z] = c
    BY <2>3, <2>4
  <2>9. Cardinality(U) * c = (Cardinality(U) - 1) * c + c
    <3>1. Cardinality(U) \in Nat
      BY <1>1, <2>4
    <3> HIDE DEF V, f, Bad
    <3> QED
      BY <3>1
  <2>10. (Cardinality(U) - 1) * c \in Int
    <3>1. Cardinality(U) \in Nat
      BY <1>1, <2>4
    <3> QED
      BY <3>1
  <2> HIDE DEF f, V
  <2>11. Total(f(U)) = Cardinality(U) * c
    BY <2>5, <2>6, <2>7, <2>8, <2>9, <2>10
  <2> QED
    BY <2>1, <2>11
<1> QED
  BY <1>2

\* Counting a ledger through names that differ: it is the total of what they name.
LEMMA TotalRenamed ==
    ASSUME NEW s, IsFiniteSet(DOMAIN s), NEW w,
           \A i \in DOMAIN s : s[i] \in DOMAIN w /\ w[s[i]] \in Int,
           \A i, j \in DOMAIN s : s[i] = s[j] => i = j
    PROVE  Total([i \in DOMAIN s |-> w[s[i]]]) = Total([x \in {s[i] : i \in DOMAIN s} |-> w[x]])
<1> DEFINE N(U) == {s[i] : i \in U}
           f(U) == [i \in U |-> w[s[i]]]
           h(U) == [x \in N(U) |-> w[x]]
           Bad == {U \in SUBSET DOMAIN s : Total(f(U)) # Total(h(U))}
<1>1. ASSUME NEW U \in SUBSET DOMAIN s PROVE LedgerOf(f(U)) /\ LedgerOf(h(U))
  <2>1. IsFiniteSet(U)
    BY FS_Subset
  <2>2. IsFiniteSet(N(U))
    <3>1. [i \in U |-> s[i]] \in Surjection(U, N(U))
      BY DEF Surjection
    <3> HIDE DEF N
    <3> QED
      BY <2>1, <3>1, FS_Surjection
  <2> QED
    BY <2>1, <2>2 DEF LedgerOf
<1>2. Bad = {}
  <2> SUFFICES ASSUME Bad # {} PROVE FALSE
    OBVIOUS
  <2>1. PICK U \in Bad : IsFiniteSet(U) /\ \A x \in U : U \ {x} \notin Bad
    BY Smallest
  <2>2. U # {}
    <3>1. LedgerOf(f({})) /\ LedgerOf(h({})) /\ DOMAIN f({}) = {} /\ DOMAIN h({}) = {}
      BY <1>1
    <3> HIDE DEF f, h
    <3> QED
      BY <3>1, <2>1, TotalInt
  <2>3. PICK z \in U : TRUE
    BY <2>2
  <2> DEFINE V == U \ {z}
  <2>4. U \in SUBSET DOMAIN s /\ V \in SUBSET DOMAIN s /\ z \in DOMAIN s
    BY <2>1
  <2>5. Total(f(V)) = Total(h(V))
    BY <2>1, <2>3, <2>4
  <2>6. LedgerOf(f(U)) /\ LedgerOf(h(U)) /\ LedgerOf(f(V)) /\ LedgerOf(h(V))
    BY <1>1, <2>4
  <2>7. /\ DOMAIN f(U) = U /\ DOMAIN f(V) = U \ {z} /\ z \in U
        /\ \A x \in U \ {z} : f(V)[x] = f(U)[x]
    BY <2>3
  <2>8. /\ s[z] \in N(U) /\ N(V) = N(U) \ {s[z]} /\ DOMAIN h(U) = N(U) /\ DOMAIN h(V) = N(V)
        /\ \A x \in N(V) : h(V)[x] = h(U)[x]
    BY <2>3, <2>4
  <2>9. f(U)[z] = w[s[z]] /\ h(U)[s[z]] = w[s[z]]
    BY <2>3, <2>8
  <2> HIDE DEF f, h, V, N
  <2>10. Total(f(U)) = f(U)[z] + Total(f(V))
    <3>1. /\ z \in DOMAIN f(U) /\ DOMAIN f(V) = DOMAIN f(U) \ {z}
          /\ \A x \in DOMAIN f(V) : f(V)[x] = f(U)[x]
      BY <2>7
    <3> QED
      BY <2>6, <3>1, TotalOut
  <2>11. Total(h(U)) = h(U)[s[z]] + Total(h(V))
    BY <2>6, <2>8, TotalOut
  <2> QED
    BY <2>1, <2>5, <2>9, <2>10, <2>11
<1>3. Total(f(DOMAIN s)) = Total(h(DOMAIN s))
  BY <1>2
<1> QED
  BY <1>3

\* The same for a set and the sums of it given otherwise.
LEMMA TotalThrough ==
    ASSUME NEW s, IsFiniteSet(DOMAIN s), NEW w, NEW S, NEW f, NEW h,
           \A i \in DOMAIN s : s[i] \in S,
           \A z \in S : \E i \in DOMAIN s : s[i] = z,
           \A z \in S : z \in DOMAIN w /\ w[z] \in Int,
           \A i, j \in DOMAIN s : s[i] = s[j] => i = j,
           f = [i \in DOMAIN s |-> w[s[i]]], h = [z \in S |-> w[z]]
    PROVE  Total(f) = Total(h)
<1>1. S = {s[i] : i \in DOMAIN s}
  OBVIOUS
<1>2. \A i \in DOMAIN s : s[i] \in DOMAIN w /\ w[s[i]] \in Int
  OBVIOUS
<1>3. Total([i \in DOMAIN s |-> w[s[i]]]) = Total([x \in {s[i] : i \in DOMAIN s} |-> w[x]])
  BY <1>2, TotalRenamed
<1>4. f = [i \in DOMAIN s |-> w[s[i]]] /\ h = [x \in {s[i] : i \in DOMAIN s} |-> w[x]]
  BY <1>1
<1> QED
  BY <1>3, <1>4

\* Quotients of naturals.
LEMMA Divides ==
    ASSUME NEW x \in Nat, NEW y \in Nat \ {0}
    PROVE  x \div y \in Nat /\ y * (x \div y) <= x /\ x < y * (x \div y) + y
OBVIOUS

\* A product of naturals is one.
LEMMA Product ==
    ASSUME NEW x \in Nat, NEW y \in Nat
    PROVE  x * y \in Nat
OBVIOUS

\* A greater dividend has no smaller quotient.
LEMMA DivRises ==
    ASSUME NEW x \in Nat, NEW x2 \in Nat, x <= x2, NEW y \in Nat \ {0}
    PROVE  x \div y <= x2 \div y
OBVIOUS

\* A quotient that is bracketed.
LEMMA DivIs ==
    ASSUME NEW x \in Nat, NEW y \in Nat \ {0}, NEW n \in Nat, n * y <= x, x < n * y + y
    PROVE  x \div y = n
OBVIOUS

\* The smaller and the greater of two numbers.
LEMMA OfTwo ==
    ASSUME NEW x \in Int, NEW y \in Int
    PROVE  /\ Min({x, y}) = IF x <= y THEN x ELSE y
           /\ Max({x, y}) = IF x >= y THEN x ELSE y
<1>1. CASE x <= y
  BY <1>1 DEF Min, Max
<1>2. CASE y <= x
  BY <1>2 DEF Min, Max
<1> QED
  BY <1>1, <1>2
=============================================================================
