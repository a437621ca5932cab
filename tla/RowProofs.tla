------------------------------ MODULE RowProofs ------------------------------
(***************************************************************************)
(* What the proofs about the tables of the database rest on: a sum over a  *)
(* finite set is the size of a union of disjoint sets, and the order in    *)
(* which partial rows are folded into a table does not matter.             *)
(***************************************************************************)
EXTENDS RollupRow, FiniteSetTheorems, TLAPS

-----------------------------------------------------------------------------
(* Sums.                                                                   *)

One(s) == CHOOSE x \in s : TRUE

(* A function that sums g over the subsets of S, an element at a time.     *)
Summing(f, g, S) ==
  f = [s \in SUBSET S |-> IF s = {} THEN 0 ELSE g[One(s)] + f[s \ {One(s)}]]

LEMMA SummingUnique ==
  ASSUME NEW S, IsFiniteSet(S), NEW g, NEW f, NEW h, Summing(f, g, S), Summing(h, g, S)
  PROVE  f[S] = h[S]
<1> SUFFICES ASSUME f[S] # h[S] PROVE FALSE
  OBVIOUS
<1> DEFINE Bad == {s \in SUBSET S : f[s] # h[s]}
           R == StrictSubsetOrdering(S)
<1>1. Bad \subseteq FiniteSubsetsOf(S) /\ Bad # {}
  BY FS_Subset DEF FiniteSubsetsOf
<1>2. PICK s \in Bad : \A t \in Bad : <<t, s>> \notin R
  <2>1. IsWellFoundedOn(R, FiniteSubsetsOf(S))
    BY FS_StrictSubsetOrderingWellFounded
  <2> HIDE DEF Bad, R
  <2> QED
    BY <1>1, <2>1, WFMin
<1>3. s # {}
  BY DEF Summing
<1> DEFINE x == One(s)
           t == s \ {x}
<1>4. x \in s
  BY <1>3 DEF One
<1>5. t \in SUBSET S /\ s \in SUBSET S /\ <<t, s>> \in R
  BY <1>4 DEF StrictSubsetOrdering
<1>6. f[t] = h[t]
  BY <1>2, <1>5
<1>7. f[s] = g[x] + f[t] /\ h[s] = g[x] + h[t]
  BY <1>3, <1>5 DEF Summing
<1> QED
  BY <1>2, <1>6, <1>7

(* The elements of a family of finite, disjoint sets.                      *)
Family(A, S) ==
  /\ \A x \in S : IsFiniteSet(A[x])
  /\ \A x, y \in S : x # y => A[x] \intersect A[y] = {}

Members(A, s) == UNION {A[x] : x \in s}

LEMMA MembersFinite ==
  ASSUME NEW S, IsFiniteSet(S), NEW A, \A x \in S : IsFiniteSet(A[x])
  PROVE  IsFiniteSet(Members(A, S)) /\ Cardinality(Members(A, S)) \in Nat
<1> DEFINE Sets == {A[x] : x \in S}
           f == [x \in S |-> A[x]]
<1>1. f \in Surjection(S, Sets)
  BY DEF Surjection
<1>2. IsFiniteSet(Sets)
  <2> HIDE DEF f, Sets
  <2> QED
    BY <1>1, FS_Surjection
<1>3. IsFiniteSet(UNION Sets)
  BY <1>2, FS_UNION
<1> QED
  BY <1>3, FS_CardinalityType DEF Members

LEMMA SizesSum ==
  ASSUME NEW S, IsFiniteSet(S), NEW A, Family(A, S), NEW g, \A x \in S : g[x] = Cardinality(A[x])
  PROVE  Summing([s \in SUBSET S |-> Cardinality(Members(A, s))], g, S)
<1> DEFINE f == [s \in SUBSET S |-> Cardinality(Members(A, s))]
<1>1. f[{}] = 0
  BY FS_EmptySet DEF Members
<1>2. ASSUME NEW s \in SUBSET S, s # {}
      PROVE  f[s] = g[One(s)] + f[s \ {One(s)}]
  <2> DEFINE x == One(s)
             t == s \ {x}
  <2>1. x \in s /\ x \in S /\ t \in SUBSET S
    BY <1>2 DEF One
  <2>2. IsFiniteSet(A[x]) /\ IsFiniteSet(Members(A, t))
    <3>1. IsFiniteSet(t)
      BY <2>1, FS_Subset
    <3>2. \A y \in t : IsFiniteSet(A[y])
      BY <2>1 DEF Family
    <3> QED
      BY <2>1, <3>1, <3>2, MembersFinite DEF Family
  <2>3. A[x] \intersect Members(A, t) = {}
    BY <2>1 DEF Members, Family
  <2>4. Members(A, s) = A[x] \union Members(A, t)
    BY <2>1 DEF Members
  <2>5. Cardinality(Members(A, s)) = Cardinality(A[x]) + Cardinality(Members(A, t))
    <3>1. Cardinality(A[x]) \in Nat /\ Cardinality(Members(A, t)) \in Nat
      BY <2>2, FS_CardinalityType
    <3>2. Cardinality(A[x] \intersect Members(A, t)) = 0
      BY <2>3, FS_EmptySet
    <3>3. Cardinality(A[x] \union Members(A, t))
          = Cardinality(A[x]) + Cardinality(Members(A, t)) - Cardinality(A[x] \intersect Members(A, t))
      BY <2>2, FS_Union
    <3> HIDE DEF x, t
    <3> QED
      BY <2>4, <3>1, <3>2, <3>3
  <2> QED
    BY <2>1, <2>5
<1>3. \A s \in SUBSET S : f[s] = IF s = {} THEN 0 ELSE g[One(s)] + f[s \ {One(s)}]
  BY <1>1, <1>2
<1>4. f = [s \in SUBSET S |-> f[s]]
  OBVIOUS
<1> HIDE DEF f
<1>5. f = [s \in SUBSET S |-> IF s = {} THEN 0 ELSE g[One(s)] + f[s \ {One(s)}]]
  BY <1>3, <1>4
<1> QED
  BY <1>5 DEF Summing, f

(* The community modules' sum, when it sums the values of a function.      *)
Total(g, S) ==
  (CHOOSE f : f = [s \in SUBSET S |-> IF s = {} THEN 0
                    ELSE g[CHOOSE x \in s : TRUE] + f[s \ {CHOOSE x \in s : TRUE}]])[S]

(* ... is the value of whatever sums, if something does.                   *)
LEMMA TotalOfFunction ==
  ASSUME NEW S, IsFiniteSet(S), NEW g, NEW f, Summing(f, g, S)
  PROVE  Total(g, S) = f[S]
<1> DEFINE h == CHOOSE it : it = [s \in SUBSET S |->
                  IF s = {} THEN 0
                  ELSE g[CHOOSE x \in s : TRUE] + it[s \ {CHOOSE x \in s : TRUE}]]
<1>1. Total(g, S) = h[S]
  BY DEF Total
<1>2. f = [s \in SUBSET S |-> IF s = {} THEN 0
             ELSE g[CHOOSE x \in s : TRUE] + f[s \ {CHOOSE x \in s : TRUE}]]
  BY DEF Summing, One
<1>3. h = [s \in SUBSET S |-> IF s = {} THEN 0
             ELSE g[CHOOSE x \in s : TRUE] + h[s \ {CHOOSE x \in s : TRUE}]]
  BY <1>2
<1> HIDE DEF h
<1>4. Summing(h, g, S)
  BY <1>3 DEF Summing, One
<1> QED
  BY <1>1, <1>4, SummingUnique

(* A natural is the size of a set of that many dots in a row.              *)
LEMMA DotsFamily ==
  ASSUME NEW S, IsFiniteSet(S), NEW g, \A x \in S : g[x] \in Nat
  PROVE  \E A : Family(A, S) /\ \A x \in S : Cardinality(A[x]) = g[x]
<1> DEFINE A == [x \in S |-> {x} \X (1..g[x])]
<1>1. \A x \in S : IsFiniteSet(A[x]) /\ Cardinality(A[x]) = g[x]
  <2> TAKE x \in S
  <2>1. IsFiniteSet(1..g[x]) /\ Cardinality(1..g[x]) = g[x]
    BY FS_Interval
  <2>2. IsFiniteSet({x}) /\ Cardinality({x}) = 1
    BY FS_Singleton
  <2>3. /\ IsFiniteSet({x} \X (1..g[x]))
        /\ Cardinality({x} \X (1..g[x])) = Cardinality({x}) * Cardinality(1..g[x])
    BY <2>1, <2>2, FS_Product
  <2>4. Cardinality({x} \X (1..g[x])) = 1 * g[x]
    BY <2>1, <2>2, <2>3
  <2> QED
    BY <2>3, <2>4
<1>2. \A x, y \in S : x # y => A[x] \intersect A[y] = {}
  OBVIOUS
<1>3. Family(A, S) /\ \A x \in S : Cardinality(A[x]) = g[x]
  BY <1>1, <1>2 DEF Family
<1> QED
  BY <1>3

(* A sum is the size of the union of any family of sets of those sizes.    *)
LEMMA TotalIsSize ==
  ASSUME NEW S, IsFiniteSet(S), NEW A, Family(A, S), NEW g, \A x \in S : g[x] = Cardinality(A[x])
  PROVE  Total(g, S) = Cardinality(Members(A, S))
<1> DEFINE f == [s \in SUBSET S |-> Cardinality(Members(A, s))]
<1>1. Summing(f, g, S)
  BY SizesSum
<1>2. f[S] = Cardinality(Members(A, S))
  OBVIOUS
<1> HIDE DEF f
<1> QED
  BY <1>1, <1>2, TotalOfFunction

(* A sum of naturals is a natural.                                         *)
LEMMA TotalIsNatural ==
  ASSUME NEW S, IsFiniteSet(S), NEW g, \A x \in S : g[x] \in Nat
  PROVE  Total(g, S) \in Nat
<1> PICK A : Family(A, S) /\ \A x \in S : Cardinality(A[x]) = g[x]
  BY DotsFamily
<1>1. Total(g, S) = Cardinality(Members(A, S))
  BY TotalIsSize
<1> QED
  BY <1>1, MembersFinite DEF Family

LEMMA TotalSame ==
  ASSUME NEW S, IsFiniteSet(S), NEW g, NEW h, \A x \in S : g[x] \in Nat /\ h[x] = g[x]
  PROVE  Total(h, S) = Total(g, S)
<1> PICK A : Family(A, S) /\ \A x \in S : Cardinality(A[x]) = g[x]
  BY DotsFamily
<1> QED
  BY TotalIsSize

LEMMA TotalSplit ==
  ASSUME NEW S, IsFiniteSet(S), NEW g, \A x \in S : g[x] \in Nat, NEW y \in S
  PROVE  Total(g, S) = g[y] + Total(g, S \ {y})
<1> PICK A : Family(A, S) /\ \A x \in S : Cardinality(A[x]) = g[x]
  BY DotsFamily
<1> PICK T : T = S \ {y}
  OBVIOUS
<1>1. IsFiniteSet(T) /\ Family(A, T) /\ \A x \in T : g[x] = Cardinality(A[x])
  BY FS_Subset DEF Family
<1>2. /\ Total(g, S) = Cardinality(Members(A, S))
      /\ Total(g, T) = Cardinality(Members(A, T))
  BY <1>1, TotalIsSize
<1>3. IsFiniteSet(A[y]) /\ IsFiniteSet(Members(A, T))
  BY <1>1, MembersFinite DEF Family
<1>4. A[y] \intersect Members(A, T) = {} /\ Members(A, S) = A[y] \union Members(A, T)
  BY DEF Members, Family
<1>5. /\ Cardinality(A[y]) \in Nat /\ Cardinality(Members(A, T)) \in Nat
      /\ Cardinality(A[y] \intersect Members(A, T)) = 0
  BY <1>3, <1>4, FS_CardinalityType, FS_EmptySet
<1>6. Cardinality(A[y] \union Members(A, T))
      = Cardinality(A[y]) + Cardinality(Members(A, T)) - Cardinality(A[y] \intersect Members(A, T))
  BY <1>3, FS_Union
<1> QED
  BY <1>2, <1>4, <1>5, <1>6

LEMMA TotalEmpty == \A g : Total(g, {}) = 0
<1> TAKE g
<1> PICK A : A = [x \in {} |-> {}]
  OBVIOUS
<1>1. IsFiniteSet({}) /\ Family(A, {}) /\ Cardinality({}) = 0 /\ Members(A, {}) = {}
  BY FS_EmptySet DEF Family, Members
<1> QED
  BY <1>1, TotalIsSize

(* The sum over disjoint parts is the sum over their union.                *)
Apart(T, F, S) ==
  /\ \A f \in F : T[f] \subseteq S
  /\ \A e, f \in F : e # f => T[e] \intersect T[f] = {}

AllNatural(g, S) == \A x \in S : g[x] \in Nat

LEMMA TotalOfParts ==
  ASSUME NEW S, IsFiniteSet(S), NEW g, AllNatural(g, S), NEW F, IsFiniteSet(F),
         NEW T, Apart(T, F, S), NEW p, \A f \in F : p[f] = Total(g, T[f])
  PROVE  /\ Total(p, F) = Total(g, Members(T, F))
         /\ \A f \in F : p[f] \in Nat
<1>1. PICK A : Family(A, S) /\ \A x \in S : Cardinality(A[x]) = g[x]
  BY DotsFamily DEF AllNatural
<1>2. PICK B : B = [f \in F |-> Members(A, T[f])]
  OBVIOUS
<1>3. \A f \in F : IsFiniteSet(T[f]) /\ T[f] \subseteq S
  BY FS_Subset DEF Apart
<1>4. ASSUME NEW f \in F
      PROVE  IsFiniteSet(B[f]) /\ p[f] = Cardinality(B[f]) /\ p[f] \in Nat
  <2>1. PICK U : U = T[f]
    OBVIOUS
  <2>2. IsFiniteSet(U) /\ Family(A, U) /\ \A x \in U : g[x] = Cardinality(A[x])
    BY <1>1, <1>3, <2>1 DEF Family
  <2>3. Total(g, U) = Cardinality(Members(A, U))
    BY <2>2, TotalIsSize
  <2>4. IsFiniteSet(Members(A, U)) /\ Cardinality(Members(A, U)) \in Nat
    BY <2>2, MembersFinite DEF Family
  <2> QED
    BY <1>2, <2>1, <2>3, <2>4
<1>5. \A e, f \in F : e # f => B[e] \intersect B[f] = {}
  <2> SUFFICES ASSUME NEW e \in F, NEW f \in F, e # f, NEW d \in B[e], d \in B[f]
               PROVE  FALSE
    OBVIOUS
  <2>1. PICK x \in T[e] : d \in A[x]
    BY <1>2 DEF Members
  <2>2. PICK y \in T[f] : d \in A[y]
    BY <1>2 DEF Members
  <2>3. x \in S /\ y \in S /\ x # y
    BY <1>3, <2>1, <2>2 DEF Apart
  <2> QED
    BY <1>1, <2>1, <2>2, <2>3 DEF Family
<1>6. Total(p, F) = Cardinality(Members(B, F))
  BY <1>4, <1>5, TotalIsSize DEF Family
<1>7. Members(B, F) = Members(A, Members(T, F))
  BY <1>2 DEF Members
<1>8. PICK V : V = Members(T, F)
  OBVIOUS
<1>9. V \subseteq S
  BY <1>3, <1>8 DEF Members
<1>10. IsFiniteSet(V) /\ Family(A, V) /\ \A x \in V : g[x] = Cardinality(A[x])
  BY <1>1, <1>9, FS_Subset DEF Family
<1>11. Total(g, V) = Cardinality(Members(A, V))
  BY <1>10, TotalIsSize
<1> QED
  BY <1>4, <1>6, <1>7, <1>8, <1>11

LEMMA TotalWithin ==
  ASSUME NEW S, IsFiniteSet(S), NEW g, AllNatural(g, S), NEW U, U \subseteq S
  PROVE  Total(g, U) <= Total(g, S) /\ Total(g, U) \in Nat /\ Total(g, S) \in Nat
<1>1. PICK A : Family(A, S) /\ \A x \in S : Cardinality(A[x]) = g[x]
  BY DotsFamily DEF AllNatural
<1>2. IsFiniteSet(U) /\ Family(A, U) /\ \A x \in U : g[x] = Cardinality(A[x])
  BY <1>1, FS_Subset DEF Family
<1>3. Total(g, U) = Cardinality(Members(A, U)) /\ Total(g, S) = Cardinality(Members(A, S))
  BY <1>1, <1>2, TotalIsSize
<1>4. /\ IsFiniteSet(Members(A, S)) /\ Members(A, U) \subseteq Members(A, S)
  BY <1>1, MembersFinite DEF Family, Members
<1> QED
  BY <1>3, <1>4, FS_Subset, FS_CardinalityType

(* A sum of differences is the difference of the sums.                     *)
LEMMA TotalDifference ==
  ASSUME NEW S, IsFiniteSet(S), NEW g, AllNatural(g, S), NEW k, AllNatural(k, S),
         NEW h, \A x \in S : h[x] = g[x] - k[x]
  PROVE  Total(h, S) = Total(g, S) - Total(k, S)
<1>1. PICK A : Family(A, S) /\ \A x \in S : Cardinality(A[x]) = g[x]
  BY DotsFamily DEF AllNatural
<1>2. PICK B : Family(B, S) /\ \A x \in S : Cardinality(B[x]) = k[x]
  BY DotsFamily DEF AllNatural
<1>3. PICK f : f = [s \in SUBSET S |-> Cardinality(Members(A, s))]
  OBVIOUS
<1>4. PICK e : e = [s \in SUBSET S |-> Cardinality(Members(B, s))]
  OBVIOUS
<1>5. Summing(f, g, S) /\ Summing(e, k, S)
  BY <1>1, <1>2, <1>3, <1>4, SizesSum
<1>6. \A s \in SUBSET S : f[s] \in Nat /\ e[s] \in Nat
  <2> TAKE s \in SUBSET S
  <2>1. IsFiniteSet(s)
    BY FS_Subset
  <2> QED
    BY <1>1, <1>2, <1>3, <1>4, <2>1, MembersFinite DEF Family
<1>7. PICK d : d = [s \in SUBSET S |-> f[s] - e[s]]
  OBVIOUS
<1>8. Summing(d, h, S)
  <2>1. ASSUME NEW s \in SUBSET S
        PROVE  d[s] = IF s = {} THEN 0 ELSE h[One(s)] + d[s \ {One(s)}]
    <3>1. CASE s = {}
      BY <1>5, <1>7, <3>1 DEF Summing
    <3>2. CASE s # {}
      <4>1. PICK x \in s : x = One(s)
        BY <3>2 DEF One
      <4>2. f[s] = g[x] + f[s \ {x}] /\ e[s] = k[x] + e[s \ {x}]
        BY <1>5, <3>2, <4>1 DEF Summing
      <4>3. /\ f[s \ {x}] \in Nat /\ e[s \ {x}] \in Nat
            /\ g[x] \in Nat /\ k[x] \in Nat /\ h[x] = g[x] - k[x]
        BY <1>6, <4>1 DEF AllNatural
      <4>4. d[s] = f[s] - e[s] /\ d[s \ {x}] = f[s \ {x}] - e[s \ {x}]
        BY <1>7
      <4> QED
        BY <3>2, <4>1, <4>2, <4>3, <4>4
    <3> QED
      BY <3>1, <3>2
  <2> QED
    BY <1>7, <2>1 DEF Summing
<1>9. Total(h, S) = d[S] /\ Total(g, S) = f[S] /\ Total(k, S) = e[S]
  BY <1>5, <1>8, TotalOfFunction
<1> QED
  BY <1>7, <1>9

(* The sum of a field of the rows of a table.                              *)
TotalField(rows, field, S) ==
  (CHOOSE f : f = [s \in SUBSET S |-> IF s = {} THEN 0
                    ELSE rows[CHOOSE x \in s : TRUE][field] + f[s \ {CHOOSE x \in s : TRUE}]])[S]

LEMMA TotalFieldOfFunction ==
  ASSUME NEW S, IsFiniteSet(S), NEW rows, NEW field, NEW g, \A x \in S : g[x] = rows[x][field],
         NEW f, Summing(f, g, S)
  PROVE  TotalField(rows, field, S) = f[S]
<1> DEFINE h == CHOOSE it : it = [s \in SUBSET S |->
                  IF s = {} THEN 0
                  ELSE rows[CHOOSE x \in s : TRUE][field] + it[s \ {CHOOSE x \in s : TRUE}]]
<1>1. TotalField(rows, field, S) = h[S]
  BY DEF TotalField
<1>2. f = [s \in SUBSET S |-> IF s = {} THEN 0
             ELSE rows[CHOOSE x \in s : TRUE][field] + f[s \ {CHOOSE x \in s : TRUE}]]
  BY DEF Summing, One
<1>3. h = [s \in SUBSET S |-> IF s = {} THEN 0
             ELSE rows[CHOOSE x \in s : TRUE][field] + h[s \ {CHOOSE x \in s : TRUE}]]
  BY <1>2
<1> HIDE DEF h
<1>4. Summing(h, g, S)
  BY <1>3 DEF Summing, One
<1> QED
  BY <1>1, <1>4, SummingUnique

LEMMA TotalOfField ==
  ASSUME NEW S, IsFiniteSet(S), NEW rows, NEW field, \A x \in S : rows[x][field] \in Nat
  PROVE  TotalField(rows, field, S) = Total([x \in S |-> rows[x][field]], S)
<1> PICK g : g = [x \in S |-> rows[x][field]]
  OBVIOUS
<1> PICK A : Family(A, S) /\ \A x \in S : Cardinality(A[x]) = g[x]
  BY DotsFamily
<1> PICK f : f = [s \in SUBSET S |-> Cardinality(Members(A, s))]
  OBVIOUS
<1>1. Summing(f, g, S)
  BY SizesSum
<1>2. TotalField(rows, field, S) = f[S]
  BY <1>1, TotalFieldOfFunction
<1>3. Total(g, S) = f[S]
  BY <1>1, TotalOfFunction
<1> QED
  BY <1>2, <1>3

LEMMA ImageFinite ==
  ASSUME NEW S, IsFiniteSet(S), NEW f
  PROVE  IsFiniteSet({f[x] : x \in S})
<1> DEFINE T == {f[x] : x \in S}
           g == [x \in S |-> f[x]]
<1>1. g \in Surjection(S, T)
  BY DEF Surjection
<1> HIDE DEF g
<1> QED
  BY <1>1, FS_Surjection

(* A finite set of naturals has a greatest and a least element.            *)
LEMMA MaxOfFinite ==
  ASSUME NEW S, IsFiniteSet(S), S \subseteq Nat, S # {}
  PROVE  Max(S) \in S /\ \A y \in S : y <= Max(S)
<1> DEFINE T == {{y \in S : y > x} : x \in S}
           R == StrictSubsetOrdering(S)
<1>0. \A y \in S : y \in Int
  OBVIOUS
<1>1. T \subseteq FiniteSubsetsOf(S) /\ T # {}
  <2>1. \A x \in S : {y \in S : y > x} \in SUBSET S
    OBVIOUS
  <2>2. \A t \in SUBSET S : IsFiniteSet(t)
    BY FS_Subset
  <2> QED
    BY <2>1, <2>2 DEF FiniteSubsetsOf
<1>2. PICK s \in T : \A t \in T : <<t, s>> \notin R
  <2>1. IsWellFoundedOn(R, FiniteSubsetsOf(S))
    BY FS_StrictSubsetOrderingWellFounded
  <2> HIDE DEF T, R
  <2> QED
    BY <1>1, <2>1, WFMin
<1>3. PICK x \in S : s = {y \in S : y > x}
  OBVIOUS
<1>4. ASSUME NEW y \in S, ~(y <= x) PROVE FALSE
  <2> PICK t : t = {z \in S : z > y}
    OBVIOUS
  <2>0. x \in Int /\ y \in Int /\ y > x /\ ~(y > y)
    BY <1>0, <1>4
  <2>1. \A z \in S : z > y => z > x
    BY <1>0, <2>0
  <2>2. t \subseteq s /\ y \in s /\ y \notin t
    BY <1>3, <2>0, <2>1
  <2>3. <<t, s>> \in R
    BY <1>3, <2>2 DEF StrictSubsetOrdering
  <2> QED
    BY <1>2, <2>3
<1>5. \E z \in S : \A y \in S : z >= y
  BY <1>0, <1>4
<1>6. Max(S) \in S /\ \A y \in S : Max(S) >= y
  BY <1>5 DEF Max
<1> QED
  BY <1>0, <1>6

LEMMA MinOfFinite ==
  ASSUME NEW S, IsFiniteSet(S), S \subseteq Nat, S # {}
  PROVE  Min(S) \in S /\ \A y \in S : Min(S) <= y
<1> DEFINE T == {{y \in S : y < x} : x \in S}
           R == StrictSubsetOrdering(S)
<1>0. \A y \in S : y \in Int
  OBVIOUS
<1>1. T \subseteq FiniteSubsetsOf(S) /\ T # {}
  <2>1. \A x \in S : {y \in S : y < x} \in SUBSET S
    OBVIOUS
  <2>2. \A t \in SUBSET S : IsFiniteSet(t)
    BY FS_Subset
  <2> QED
    BY <2>1, <2>2 DEF FiniteSubsetsOf
<1>2. PICK s \in T : \A t \in T : <<t, s>> \notin R
  <2>1. IsWellFoundedOn(R, FiniteSubsetsOf(S))
    BY FS_StrictSubsetOrderingWellFounded
  <2> HIDE DEF T, R
  <2> QED
    BY <1>1, <2>1, WFMin
<1>3. PICK x \in S : s = {y \in S : y < x}
  OBVIOUS
<1>4. ASSUME NEW y \in S, ~(x <= y) PROVE FALSE
  <2> PICK t : t = {z \in S : z < y}
    OBVIOUS
  <2>0. x \in Int /\ y \in Int /\ y < x /\ ~(y < y)
    BY <1>0, <1>4
  <2>1. \A z \in S : z < y => z < x
    BY <1>0, <2>0
  <2>2. t \subseteq s /\ y \in s /\ y \notin t
    BY <1>3, <2>0, <2>1
  <2>3. <<t, s>> \in R
    BY <1>3, <2>2 DEF StrictSubsetOrdering
  <2> QED
    BY <1>2, <2>3
<1>5. \E z \in S : \A y \in S : z <= y
  BY <1>4
<1> QED
  BY <1>5 DEF Min

LEMMA MaxIs ==
  ASSUME NEW S, S \subseteq Nat, NEW m \in S, \A y \in S : y <= m
  PROVE  Max(S) = m
<1>0. \A y \in S : y \in Int
  OBVIOUS
<1>1. \E z \in S : \A y \in S : z >= y
  BY <1>0
<1>2. Max(S) \in S /\ \A y \in S : Max(S) >= y
  BY <1>1 DEF Max
<1>3. m \in Int /\ Max(S) \in Int
  BY <1>0, <1>2
<1>4. Max(S) <= m /\ m <= Max(S)
  BY <1>2
<1> QED
  BY <1>3, <1>4

LEMMA MinIs ==
  ASSUME NEW S, S \subseteq Nat, NEW m \in S, \A y \in S : m <= y
  PROVE  Min(S) = m
<1>0. \A y \in S : y \in Int
  OBVIOUS
<1>1. \E z \in S : \A y \in S : z <= y
  OBVIOUS
<1>2. Min(S) \in S /\ \A y \in S : Min(S) <= y
  BY <1>1 DEF Min
<1>3. m \in Int /\ Min(S) \in Int
  BY <1>0, <1>2
<1>4. Min(S) <= m /\ m <= Min(S)
  BY <1>2
<1> QED
  BY <1>3, <1>4

LEMMA MaxOfBounded ==
  ASSUME NEW N \in Nat, NEW S, S \subseteq 0..N, S # {}
  PROVE  Max(S) \in S /\ \A y \in S : y <= Max(S)
<1>1. IsFiniteSet(0..N) /\ S \in SUBSET (0..N)
  BY FS_Interval
<1>2. IsFiniteSet(S)
  BY <1>1, FS_Subset
<1>3. S \subseteq Nat
  OBVIOUS
<1> QED
  BY <1>2, <1>3, MaxOfFinite

-----------------------------------------------------------------------------
(* Rows.                                                                   *)

LEMMA MergeRow == \A r, s \in Row : Merge(r, s) \in Row
BY SMT DEF Row, Merge, Least, Greatest

(* The rows that a restart, a late flush and an accumulator leave of a     *)
(* minute give the same row in whatever order they are merged.             *)
THEOREM MergeCommutes == \A r, s \in Row : Merge(r, s) = Merge(s, r)
BY SMT DEF Row, Merge, Least, Greatest

(* ... and in whatever groups.                                             *)
THEOREM MergeAssociates ==
  \A r, s, t \in Row : Merge(Merge(r, s), t) = Merge(r, Merge(s, t))
<1> SUFFICES ASSUME NEW r \in Row, NEW s \in Row, NEW t \in Row
             PROVE  Merge(Merge(r, s), t) = Merge(r, Merge(s, t))
  OBVIOUS
<1>1. /\ (r.sum + s.sum) + t.sum = r.sum + (s.sum + t.sum)
      /\ (r.n + s.n) + t.n = r.n + (s.n + t.n)
  BY DEF Row
<1>2. /\ Greatest(Greatest(r.peak, s.peak), t.peak) = Greatest(r.peak, Greatest(s.peak, t.peak))
      /\ Greatest(Greatest(r.total, s.total), t.total) = Greatest(r.total, Greatest(s.total, t.total))
  BY DEF Row, Greatest
<1>3. /\ Least(Least(r.low, s.low), t.low) = Least(r.low, Least(s.low, t.low))
      /\ Least(Least(r.healthy, s.healthy), t.healthy) = Least(r.healthy, Least(s.healthy, t.healthy))
  BY DEF Row, Least
<1> QED
  BY <1>1, <1>2, <1>3 DEF Merge

LEMMA MergeCounts ==
  \A r, s \in Row : Merge(r, s).n = r.n + s.n /\ r.n \in Nat /\ s.n \in Nat
BY DEF Row, Merge

-----------------------------------------------------------------------------
(* Tables.                                                                 *)

IsTable(t) == t \in [DOMAIN t -> Row]

LEMMA SameTable ==
  ASSUME NEW t, NEW u, IsTable(t), IsTable(u), DOMAIN t = DOMAIN u,
         \A k \in DOMAIN t : t[k] = u[k]
  PROVE  t = u
BY DEF IsTable

LEMMA EmptyIsTable == IsTable(EmptyTable) /\ DOMAIN EmptyTable = {}
BY DEF IsTable, EmptyTable

LEMMA FoldIsTable ==
  ASSUME NEW t, NEW u, IsTable(t), IsTable(u)
  PROVE  /\ IsTable(Fold(t, u))
         /\ DOMAIN Fold(t, u) = DOMAIN t \union DOMAIN u
         /\ \A k \in DOMAIN t \ DOMAIN u : Fold(t, u)[k] = t[k]
         /\ \A k \in DOMAIN u \ DOMAIN t : Fold(t, u)[k] = u[k]
         /\ \A k \in DOMAIN t \intersect DOMAIN u : Fold(t, u)[k] = Merge(t[k], u[k])
<1>1. \A k \in DOMAIN t \intersect DOMAIN u : Merge(t[k], u[k]) \in Row
  BY MergeRow DEF IsTable
<1>2. /\ \A k \in DOMAIN t : t[k] \in Row
      /\ \A k \in DOMAIN u : u[k] \in Row
  BY DEF IsTable
<1> QED
  BY <1>1, <1>2 DEF Fold, IsTable

(* What Fold has under one key; nothing is asked of the tables. *)
LEMMA FoldAt ==
  ASSUME NEW t, NEW u, NEW k
  PROVE  /\ k \in DOMAIN Fold(t, u) <=> (k \in DOMAIN t \/ k \in DOMAIN u)
         /\ (k \in DOMAIN t /\ k \notin DOMAIN u) => Fold(t, u)[k] = t[k]
         /\ (k \in DOMAIN u /\ k \notin DOMAIN t) => Fold(t, u)[k] = u[k]
         /\ (k \in DOMAIN t /\ k \in DOMAIN u) => Fold(t, u)[k] = Merge(t[k], u[k])
BY DEF Fold

LEMMA FoldTable ==
  ASSUME NEW t, NEW u, IsTable(t), IsTable(u)
  PROVE  IsTable(Fold(t, u))
BY FoldIsTable

LEMMA FoldEmpty ==
  ASSUME NEW t, IsTable(t)
  PROVE  Fold(t, EmptyTable) = t /\ Fold(EmptyTable, t) = t
<1> PICK e : e = EmptyTable
  OBVIOUS
<1>1. IsTable(e) /\ \A k : k \notin DOMAIN e
  BY EmptyIsTable
<1>2. Fold(t, e) = t
  <2> PICK f : f = Fold(t, e)
    OBVIOUS
  <2>1. IsTable(f)
    BY <1>1, FoldTable
  <2>2. \A k : (k \in DOMAIN f <=> k \in DOMAIN t) /\ (k \in DOMAIN t => f[k] = t[k])
    BY <1>1, FoldAt
  <2> QED
    BY <2>1, <2>2, SameTable
<1>3. Fold(e, t) = t
  <2> PICK f : f = Fold(e, t)
    OBVIOUS
  <2>1. IsTable(f)
    BY <1>1, FoldTable
  <2>2. \A k : (k \in DOMAIN f <=> k \in DOMAIN t) /\ (k \in DOMAIN t => f[k] = t[k])
    BY <1>1, FoldAt
  <2> QED
    BY <2>1, <2>2, SameTable
<1> QED
  BY <1>2, <1>3

LEMMA FoldAssociates ==
  ASSUME NEW t, NEW u, NEW w, IsTable(t), IsTable(u), IsTable(w)
  PROVE  Fold(Fold(t, u), w) = Fold(t, Fold(u, w))
<1> PICK a : a = Fold(t, u)
  OBVIOUS
<1> PICK b : b = Fold(u, w)
  OBVIOUS
<1> PICK l : l = Fold(a, w)
  OBVIOUS
<1> PICK r : r = Fold(t, b)
  OBVIOUS
<1>1. IsTable(a) /\ IsTable(b)
  BY FoldTable
<1>2. IsTable(l) /\ IsTable(r)
  BY <1>1, FoldTable
<1>3. ASSUME NEW k
      PROVE  (k \in DOMAIN l <=> k \in DOMAIN r) /\ (k \in DOMAIN l => l[k] = r[k])
  <2>1. /\ k \in DOMAIN a <=> (k \in DOMAIN t \/ k \in DOMAIN u)
        /\ (k \in DOMAIN t /\ k \notin DOMAIN u) => a[k] = t[k]
        /\ (k \in DOMAIN u /\ k \notin DOMAIN t) => a[k] = u[k]
        /\ (k \in DOMAIN t /\ k \in DOMAIN u) => a[k] = Merge(t[k], u[k])
    BY FoldAt
  <2>2. /\ k \in DOMAIN b <=> (k \in DOMAIN u \/ k \in DOMAIN w)
        /\ (k \in DOMAIN u /\ k \notin DOMAIN w) => b[k] = u[k]
        /\ (k \in DOMAIN w /\ k \notin DOMAIN u) => b[k] = w[k]
        /\ (k \in DOMAIN u /\ k \in DOMAIN w) => b[k] = Merge(u[k], w[k])
    BY FoldAt
  <2>3. /\ k \in DOMAIN l <=> (k \in DOMAIN a \/ k \in DOMAIN w)
        /\ (k \in DOMAIN a /\ k \notin DOMAIN w) => l[k] = a[k]
        /\ (k \in DOMAIN w /\ k \notin DOMAIN a) => l[k] = w[k]
        /\ (k \in DOMAIN a /\ k \in DOMAIN w) => l[k] = Merge(a[k], w[k])
    BY FoldAt
  <2>4. /\ k \in DOMAIN r <=> (k \in DOMAIN t \/ k \in DOMAIN b)
        /\ (k \in DOMAIN t /\ k \notin DOMAIN b) => r[k] = t[k]
        /\ (k \in DOMAIN b /\ k \notin DOMAIN t) => r[k] = b[k]
        /\ (k \in DOMAIN t /\ k \in DOMAIN b) => r[k] = Merge(t[k], b[k])
    BY FoldAt
  <2>5. /\ k \in DOMAIN t => t[k] \in Row
        /\ k \in DOMAIN u => u[k] \in Row
        /\ k \in DOMAIN w => w[k] \in Row
    BY DEF IsTable
  <2>6. CASE k \in DOMAIN t /\ k \in DOMAIN u /\ k \in DOMAIN w
    <3>1. Merge(Merge(t[k], u[k]), w[k]) = Merge(t[k], Merge(u[k], w[k]))
      BY <2>5, <2>6, MergeAssociates
    <3> QED
      BY <2>1, <2>2, <2>3, <2>4, <2>6, <3>1
  <2>7. CASE ~(k \in DOMAIN t /\ k \in DOMAIN u /\ k \in DOMAIN w)
    BY <2>1, <2>2, <2>3, <2>4, <2>7
  <2> QED
    BY <2>6, <2>7
<1>4. l = r
  BY <1>2, <1>3, SameTable
<1> QED
  BY <1>4

LEMMA FoldCommutes ==
  ASSUME NEW t, NEW u, IsTable(t), IsTable(u)
  PROVE  Fold(t, u) = Fold(u, t)
<1> PICK a : a = Fold(t, u)
  OBVIOUS
<1> PICK b : b = Fold(u, t)
  OBVIOUS
<1>1. IsTable(a) /\ IsTable(b)
  BY FoldTable
<1>2. ASSUME NEW k
      PROVE  (k \in DOMAIN a <=> k \in DOMAIN b) /\ (k \in DOMAIN a => a[k] = b[k])
  <2>1. /\ k \in DOMAIN a <=> (k \in DOMAIN t \/ k \in DOMAIN u)
        /\ (k \in DOMAIN t /\ k \notin DOMAIN u) => a[k] = t[k]
        /\ (k \in DOMAIN u /\ k \notin DOMAIN t) => a[k] = u[k]
        /\ (k \in DOMAIN t /\ k \in DOMAIN u) => a[k] = Merge(t[k], u[k])
    BY FoldAt
  <2>2. /\ k \in DOMAIN b <=> (k \in DOMAIN u \/ k \in DOMAIN t)
        /\ (k \in DOMAIN u /\ k \notin DOMAIN t) => b[k] = u[k]
        /\ (k \in DOMAIN t /\ k \notin DOMAIN u) => b[k] = t[k]
        /\ (k \in DOMAIN u /\ k \in DOMAIN t) => b[k] = Merge(u[k], t[k])
    BY FoldAt
  <2>3. (k \in DOMAIN t /\ k \in DOMAIN u) => Merge(t[k], u[k]) = Merge(u[k], t[k])
    BY MergeCommutes DEF IsTable
  <2> QED
    BY <2>1, <2>2, <2>3
<1>3. a = b
  BY <1>1, <1>2, SameTable
<1> QED
  BY <1>3

(* A fold holds what the table held, and more. *)
LEMMA FoldCounts ==
  ASSUME NEW t, NEW u, IsTable(t), IsTable(u), NEW k, k \in DOMAIN t
  PROVE  /\ k \in DOMAIN Fold(t, u)
         /\ t[k].n \in Nat /\ Fold(t, u)[k].n \in Nat
         /\ t[k].n <= Fold(t, u)[k].n
<1> PICK a : a = Fold(t, u)
  OBVIOUS
<1>1. /\ k \in DOMAIN a
      /\ k \notin DOMAIN u => a[k] = t[k]
      /\ k \in DOMAIN u => a[k] = Merge(t[k], u[k])
  BY FoldAt
<1>2. t[k] \in Row /\ (k \in DOMAIN u => u[k] \in Row)
  BY DEF IsTable
<1>3. CASE k \in DOMAIN u
  BY <1>1, <1>2, <1>3 DEF Merge, Row
<1>4. CASE k \notin DOMAIN u
  BY <1>1, <1>2, <1>4 DEF Row
<1> QED
  BY <1>3, <1>4

-----------------------------------------------------------------------------
(* Aggregates.                                                             *)

(* The row of an hour, field by field.                                     *)
AggregateIs(row, rows) ==
  LET D == DOMAIN rows
  IN  /\ row.sum = Total([k \in D |-> rows[k].sum], D)
      /\ row.n = Total([k \in D |-> rows[k].n], D)
      /\ row.peak = Max({rows[k].peak : k \in D}) /\ row.low = Min({rows[k].low : k \in D})
      /\ row.healthy = Min({rows[k].healthy : k \in D})
      /\ row.total = Max({rows[k].total : k \in D})

Fields == {"sum", "n", "peak", "low", "healthy", "total"}

LEMMA FieldsNatural ==
  ASSUME NEW rows, IsTable(rows), NEW k \in DOMAIN rows
  PROVE  /\ \A field \in Fields : rows[k][field] \in Nat
         /\ rows[k].sum \in Nat /\ rows[k].n \in Nat \ {0} /\ rows[k].peak \in Nat
         /\ rows[k].low \in Nat /\ rows[k].healthy \in Nat /\ rows[k].total \in Nat
BY DEF IsTable, Row, Fields

LEMMA AggregateParts ==
  ASSUME NEW rows, IsTable(rows), IsFiniteSet(DOMAIN rows)
  PROVE  AggregateIs(Aggregate(rows), rows)
<1>1. /\ MapThenSumSet(LAMBDA k : rows[k]["sum"], DOMAIN rows) = TotalField(rows, "sum", DOMAIN rows)
      /\ MapThenSumSet(LAMBDA k : rows[k]["n"], DOMAIN rows) = TotalField(rows, "n", DOMAIN rows)
  BY DEF MapThenSumSet, MapThenFoldSet, TotalField
<1>2. /\ Aggregate(rows).sum = MapThenSumSet(LAMBDA k : rows[k]["sum"], DOMAIN rows)
      /\ Aggregate(rows).n = MapThenSumSet(LAMBDA k : rows[k]["n"], DOMAIN rows)
  BY DEF Aggregate
<1>3. /\ TotalField(rows, "sum", DOMAIN rows)
         = Total([k \in DOMAIN rows |-> rows[k]["sum"]], DOMAIN rows)
      /\ TotalField(rows, "n", DOMAIN rows)
         = Total([k \in DOMAIN rows |-> rows[k]["n"]], DOMAIN rows)
  BY TotalOfField, FieldsNatural DEF Fields
<1>4. /\ Aggregate(rows).peak = Max({rows[k]["peak"] : k \in DOMAIN rows})
      /\ Aggregate(rows).low = Min({rows[k]["low"] : k \in DOMAIN rows})
      /\ Aggregate(rows).healthy = Min({rows[k]["healthy"] : k \in DOMAIN rows})
      /\ Aggregate(rows).total = Max({rows[k]["total"] : k \in DOMAIN rows})
  BY DEF Aggregate
<1> QED
  BY <1>1, <1>2, <1>3, <1>4 DEF AggregateIs

Values(g, S) == {g[x] : x \in S}

(* One more value d, for y, in a sum, a maximum and a minimum.             *)
Added(S, g, y, d, h) ==
  /\ \A x \in S : g[x] \in Nat
  /\ d \in Nat
  /\ \A x \in S \ {y} : h[x] = g[x]
  /\ y \in S => h[y] = g[y] + d
  /\ y \notin S => h[y] = d

Raised(S, g, y, d, h) ==
  /\ \A x \in S : g[x] \in Nat
  /\ d \in Nat
  /\ \A x \in S \ {y} : h[x] = g[x]
  /\ y \in S => h[y] = Greatest(g[y], d)
  /\ y \notin S => h[y] = d

Lowered(S, g, y, d, h) ==
  /\ \A x \in S : g[x] \in Nat
  /\ d \in Nat
  /\ \A x \in S \ {y} : h[x] = g[x]
  /\ y \in S => h[y] = Least(g[y], d)
  /\ y \notin S => h[y] = d

LEMMA TotalGrows ==
  ASSUME NEW S, IsFiniteSet(S), NEW g, NEW y, NEW d, NEW h, Added(S, g, y, d, h)
  PROVE  Total(h, S \union {y}) = Total(g, S) + d
<1> USE DEF Added
<1> PICK T : T = S \union {y}
  OBVIOUS
<1> PICK R : R = S \ {y}
  OBVIOUS
<1>1. IsFiniteSet(T) /\ IsFiniteSet(R) /\ T \ {y} = R /\ y \in T
  BY FS_AddElement, FS_Subset
<1>2. \A x \in T : h[x] \in Nat
  OBVIOUS
<1>3. Total(h, T) = h[y] + Total(h, R)
  BY <1>1, <1>2, TotalSplit
<1>4. Total(h, R) = Total(g, R) /\ Total(g, R) \in Nat
  BY <1>1, TotalSame, TotalIsNatural
<1>5. CASE y \in S
  <2>1. Total(g, S) = g[y] + Total(g, R)
    BY <1>5, TotalSplit
  <2> QED
    BY <1>3, <1>4, <1>5, <2>1
<1>6. CASE y \notin S
  <2>1. R = S
    BY <1>6
  <2>2. Total(g, R) = Total(g, S) /\ h[y] = d
    BY <1>6, <2>1
  <2> QED
    BY <1>3, <1>4, <2>2
<1> QED
  BY <1>5, <1>6

LEMMA MaxGrows ==
  ASSUME NEW S, IsFiniteSet(S), S # {}, NEW g, NEW y, NEW d, NEW h, Raised(S, g, y, d, h)
  PROVE  /\ Max(Values(g, S)) \in Nat
         /\ Max(Values(h, S \union {y})) = Greatest(Max(Values(g, S)), d)
<1> USE DEF Raised, Values
<1> PICK A : A = Values(g, S)
  OBVIOUS
<1> PICK B : B = Values(h, S \union {y})
  OBVIOUS
<1>1. IsFiniteSet(A) /\ A \subseteq Nat /\ A # {}
  BY ImageFinite
<1> PICK m : m = Max(A)
  OBVIOUS
<1>2. m \in A /\ m \in Nat /\ \A a \in A : a <= m
  BY <1>1, MaxOfFinite
<1>3. PICK z \in S : g[z] = m
  BY <1>2
<1>4. \A x \in S : g[x] <= m
  BY <1>2
<1> PICK b : b = Greatest(m, d)
  OBVIOUS
<1>5. b \in Nat /\ m <= b /\ d <= b /\ b \in {m, d}
  BY <1>2 DEF Greatest
<1>6. y \in S => g[y] <= m /\ h[y] \in Nat /\ h[y] <= b /\ (h[y] = g[y] \/ h[y] = d) /\ d <= h[y] /\ g[y] <= h[y]
  BY <1>2, <1>4, <1>5 DEF Greatest
<1>7. B \subseteq Nat /\ \A a \in B : a <= b
  <2>1. \A x \in S \union {y} : h[x] \in Nat /\ h[x] <= b
    BY <1>2, <1>4, <1>5, <1>6
  <2> QED
    BY <2>1
<1>8. b \in B
  <2>1. CASE b = d
    <3>1. h[y] = d
      BY <1>5, <1>6, <2>1
    <3> QED
      BY <2>1, <3>1
  <2>2. CASE b = m
    <3>1. h[z] = m
      BY <1>2, <1>3, <1>5, <1>6, <2>2
    <3> QED
      BY <2>2, <3>1
  <2> QED
    BY <1>5, <2>1, <2>2
<1>9. Max(B) = b
  BY <1>7, <1>8, MaxIs
<1> QED
  BY <1>2, <1>9

LEMMA MinGrows ==
  ASSUME NEW S, IsFiniteSet(S), S # {}, NEW g, NEW y, NEW d, NEW h, Lowered(S, g, y, d, h)
  PROVE  /\ Min(Values(g, S)) \in Nat
         /\ Min(Values(h, S \union {y})) = Least(Min(Values(g, S)), d)
<1> USE DEF Lowered, Values
<1> PICK A : A = Values(g, S)
  OBVIOUS
<1> PICK B : B = Values(h, S \union {y})
  OBVIOUS
<1>1. IsFiniteSet(A) /\ A \subseteq Nat /\ A # {}
  BY ImageFinite
<1> PICK m : m = Min(A)
  OBVIOUS
<1>2. m \in A /\ m \in Nat /\ \A a \in A : m <= a
  BY <1>1, MinOfFinite
<1>3. PICK z \in S : g[z] = m
  BY <1>2
<1>4. \A x \in S : m <= g[x]
  BY <1>2
<1> PICK b : b = Least(m, d)
  OBVIOUS
<1>5. b \in Nat /\ b <= m /\ b <= d /\ b \in {m, d}
  BY <1>2 DEF Least
<1>6. y \in S => m <= g[y] /\ h[y] \in Nat /\ b <= h[y] /\ (h[y] = g[y] \/ h[y] = d) /\ h[y] <= d /\ h[y] <= g[y]
  BY <1>2, <1>4, <1>5 DEF Least
<1>7. B \subseteq Nat /\ \A a \in B : b <= a
  <2>1. \A x \in S \union {y} : h[x] \in Nat /\ b <= h[x]
    BY <1>2, <1>4, <1>5, <1>6
  <2> QED
    BY <2>1
<1>8. b \in B
  <2>1. CASE b = d
    <3>1. h[y] = d
      BY <1>5, <1>6, <2>1
    <3> QED
      BY <2>1, <3>1
  <2>2. CASE b = m
    <3>1. h[z] = m
      BY <1>2, <1>3, <1>5, <1>6, <2>2
    <3> QED
      BY <2>2, <3>1
  <2> QED
    BY <1>5, <2>1, <2>2
<1>9. Min(B) = b
  BY <1>7, <1>8, MinIs
<1> QED
  BY <1>2, <1>9

(* A row folded into a bucket is folded into the aggregate of its hour.    *)
LEMMA AggregateGrows ==
  ASSUME NEW rows, IsTable(rows), IsFiniteSet(DOMAIN rows), DOMAIN rows # {},
         NEW y, NEW r \in Row, NEW new, IsTable(new), DOMAIN new = DOMAIN rows \union {y},
         \A k \in DOMAIN rows \ {y} : new[k] = rows[k],
         y \in DOMAIN rows => new[y] = Merge(rows[y], r),
         y \notin DOMAIN rows => new[y] = r
  PROVE  Aggregate(new) = Merge(Aggregate(rows), r) /\ Aggregate(rows) \in Row
<1> PICK S : S = DOMAIN rows
  OBVIOUS
<1> PICK T : T = DOMAIN new
  OBVIOUS
<1>1. IsFiniteSet(S) /\ IsFiniteSet(T) /\ T = S \union {y} /\ S # {}
  BY FS_AddElement
<1>2. \A k \in S : /\ rows[k].sum \in Nat /\ rows[k].n \in Nat /\ rows[k].n >= 1 /\ rows[k].peak \in Nat
                   /\ rows[k].low \in Nat /\ rows[k].healthy \in Nat /\ rows[k].total \in Nat
  BY FieldsNatural
<1>3. \A k \in T : /\ new[k].sum \in Nat /\ new[k].n \in Nat /\ new[k].peak \in Nat
                   /\ new[k].low \in Nat /\ new[k].healthy \in Nat /\ new[k].total \in Nat
  BY FieldsNatural
<1>4. /\ r.sum \in Nat /\ r.n \in Nat /\ r.n >= 1 /\ r.peak \in Nat
      /\ r.low \in Nat /\ r.healthy \in Nat /\ r.total \in Nat
  BY DEF Row
<1>5. y \in S =>
        /\ new[y].sum = rows[y].sum + r.sum /\ new[y].n = rows[y].n + r.n
        /\ new[y].peak = Greatest(rows[y].peak, r.peak) /\ new[y].low = Least(rows[y].low, r.low)
        /\ new[y].healthy = Least(rows[y].healthy, r.healthy)
        /\ new[y].total = Greatest(rows[y].total, r.total)
  BY DEF Merge
<1> PICK a : a = Aggregate(rows)
  OBVIOUS
<1> PICK b : b = Aggregate(new)
  OBVIOUS
<1>6. AggregateIs(a, rows) /\ AggregateIs(b, new)
  BY <1>1, AggregateParts
<1>16. IsFiniteSet(S) /\ S # {} /\ T = S \union {y}
  BY <1>1
<1>7. b.sum = a.sum + r.sum /\ a.sum \in Nat
  <2> PICK g : g = [k \in S |-> rows[k].sum]
    OBVIOUS
  <2> PICK h : h = [k \in T |-> new[k].sum]
    OBVIOUS
  <2>1. /\ \A x \in S : g[x] \in Nat
        /\ \A x \in S \ {y} : h[x] = g[x]
        /\ y \in S => h[y] = g[y] + r.sum
        /\ y \notin S => h[y] = r.sum
    BY <1>1, <1>2, <1>5
  <2>2. Total(h, T) = Total(g, S) + r.sum /\ Total(g, S) \in Nat
    <3>1. r.sum \in Nat
      BY <1>4
    <3>2. Added(S, g, y, r.sum, h)
      BY <2>1, <3>1 DEF Added
    <3>4. Total(h, S \union {y}) = Total(g, S) + r.sum
      BY <1>16, <3>2, TotalGrows
    <3>3. Total(g, S) \in Nat
      BY <1>16, <2>1, TotalIsNatural
    <3> QED
      BY <1>16, <3>3, <3>4
  <2> QED
    BY <1>6, <2>2 DEF AggregateIs
<1>8. b.n = a.n + r.n /\ a.n \in Nat \ {0}
  <2> PICK g : g = [k \in S |-> rows[k].n]
    OBVIOUS
  <2> PICK h : h = [k \in T |-> new[k].n]
    OBVIOUS
  <2>1. /\ \A x \in S : g[x] \in Nat /\ g[x] >= 1
        /\ \A x \in S \ {y} : h[x] = g[x]
        /\ y \in S => h[y] = g[y] + r.n
        /\ y \notin S => h[y] = r.n
    BY <1>1, <1>2, <1>5
  <2>2. Total(h, T) = Total(g, S) + r.n /\ Total(g, S) \in Nat
    <3>1. r.n \in Nat
      BY <1>4
    <3>2. Added(S, g, y, r.n, h)
      BY <2>1, <3>1 DEF Added
    <3>4. Total(h, S \union {y}) = Total(g, S) + r.n
      BY <1>16, <3>2, TotalGrows
    <3>3. Total(g, S) \in Nat
      BY <1>16, <2>1, TotalIsNatural
    <3> QED
      BY <1>16, <3>3, <3>4
  <2>3. Total(g, S) # 0
    <3>1. PICK x \in S : TRUE
      BY <1>1
    <3>2. Total(g, S) = g[x] + Total(g, S \ {x})
      BY <1>1, <2>1, TotalSplit
    <3>3. Total(g, S \ {x}) \in Nat
      <4>1. IsFiniteSet(S \ {x})
        BY <1>1, FS_Subset
      <4> QED
        BY <2>1, <4>1, TotalIsNatural
    <3> QED
      BY <2>1, <3>2, <3>3
  <2> QED
    BY <1>6, <2>2, <2>3 DEF AggregateIs
<1>9. b.peak = Greatest(a.peak, r.peak) /\ a.peak \in Nat
  <2>1. PICK g : g = [k \in S |-> rows[k].peak]
    OBVIOUS
  <2>2. PICK h : h = [k \in T |-> new[k].peak]
    OBVIOUS
  <2>3. /\ \A x \in S : g[x] \in Nat
        /\ \A x \in S \ {y} : h[x] = g[x]
        /\ y \in S => h[y] = Greatest(g[y], r.peak)
        /\ y \notin S => h[y] = r.peak
    BY <1>1, <1>2, <1>5, <2>1, <2>2
  <2>4. /\ Max(Values(g, S)) \in Nat
        /\ Max(Values(h, S \union {y})) = Greatest(Max(Values(g, S)), r.peak)
    <3>1. Raised(S, g, y, r.peak, h)
      BY <1>4, <2>3 DEF Raised
    <3> QED
      BY <1>16, <3>1, MaxGrows
  <2>5. Values(g, S) = {rows[k].peak : k \in S} /\ Values(h, S \union {y}) = {new[k].peak : k \in T}
    BY <1>1, <2>1, <2>2 DEF Values
  <2> QED
    BY <1>6, <2>4, <2>5 DEF AggregateIs
<1>10. b.total = Greatest(a.total, r.total) /\ a.total \in Nat
  <2>1. PICK g : g = [k \in S |-> rows[k].total]
    OBVIOUS
  <2>2. PICK h : h = [k \in T |-> new[k].total]
    OBVIOUS
  <2>3. /\ \A x \in S : g[x] \in Nat
        /\ \A x \in S \ {y} : h[x] = g[x]
        /\ y \in S => h[y] = Greatest(g[y], r.total)
        /\ y \notin S => h[y] = r.total
    BY <1>1, <1>2, <1>5, <2>1, <2>2
  <2>4. /\ Max(Values(g, S)) \in Nat
        /\ Max(Values(h, S \union {y})) = Greatest(Max(Values(g, S)), r.total)
    <3>1. Raised(S, g, y, r.total, h)
      BY <1>4, <2>3 DEF Raised
    <3> QED
      BY <1>16, <3>1, MaxGrows
  <2>5. Values(g, S) = {rows[k].total : k \in S} /\ Values(h, S \union {y}) = {new[k].total : k \in T}
    BY <1>1, <2>1, <2>2 DEF Values
  <2> QED
    BY <1>6, <2>4, <2>5 DEF AggregateIs
<1>11. b.low = Least(a.low, r.low) /\ a.low \in Nat
  <2>1. PICK g : g = [k \in S |-> rows[k].low]
    OBVIOUS
  <2>2. PICK h : h = [k \in T |-> new[k].low]
    OBVIOUS
  <2>3. /\ \A x \in S : g[x] \in Nat
        /\ \A x \in S \ {y} : h[x] = g[x]
        /\ y \in S => h[y] = Least(g[y], r.low)
        /\ y \notin S => h[y] = r.low
    BY <1>1, <1>2, <1>5, <2>1, <2>2
  <2>4. /\ Min(Values(g, S)) \in Nat
        /\ Min(Values(h, S \union {y})) = Least(Min(Values(g, S)), r.low)
    <3>1. Lowered(S, g, y, r.low, h)
      BY <1>4, <2>3 DEF Lowered
    <3> QED
      BY <1>16, <3>1, MinGrows
  <2>5. Values(g, S) = {rows[k].low : k \in S} /\ Values(h, S \union {y}) = {new[k].low : k \in T}
    BY <1>1, <2>1, <2>2 DEF Values
  <2> QED
    BY <1>6, <2>4, <2>5 DEF AggregateIs
<1>12. b.healthy = Least(a.healthy, r.healthy) /\ a.healthy \in Nat
  <2>1. PICK g : g = [k \in S |-> rows[k].healthy]
    OBVIOUS
  <2>2. PICK h : h = [k \in T |-> new[k].healthy]
    OBVIOUS
  <2>3. /\ \A x \in S : g[x] \in Nat
        /\ \A x \in S \ {y} : h[x] = g[x]
        /\ y \in S => h[y] = Least(g[y], r.healthy)
        /\ y \notin S => h[y] = r.healthy
    BY <1>1, <1>2, <1>5, <2>1, <2>2
  <2>4. /\ Min(Values(g, S)) \in Nat
        /\ Min(Values(h, S \union {y})) = Least(Min(Values(g, S)), r.healthy)
    <3>1. Lowered(S, g, y, r.healthy, h)
      BY <1>4, <2>3 DEF Lowered
    <3> QED
      BY <1>16, <3>1, MinGrows
  <2>5. Values(g, S) = {rows[k].healthy : k \in S}
        /\ Values(h, S \union {y}) = {new[k].healthy : k \in T}
    BY <1>1, <2>1, <2>2 DEF Values
  <2> QED
    BY <1>6, <2>4, <2>5 DEF AggregateIs
<1>13. /\ a = [sum |-> a.sum, n |-> a.n, peak |-> a.peak, low |-> a.low,
               healthy |-> a.healthy, total |-> a.total]
       /\ b = [sum |-> b.sum, n |-> b.n, peak |-> b.peak, low |-> b.low,
               healthy |-> b.healthy, total |-> b.total]
  BY DEF Aggregate
<1>14. a \in Row
  BY <1>7, <1>8, <1>9, <1>10, <1>11, <1>12, <1>13 DEF Row
<1>15. b = Merge(a, r)
  BY <1>7, <1>8, <1>9, <1>10, <1>11, <1>12, <1>13 DEF Merge
<1> QED
  BY <1>14, <1>15

LEMMA AggregateOne ==
  ASSUME NEW rows, IsTable(rows), NEW y, DOMAIN rows = {y}
  PROVE  Aggregate(rows) = rows[y]
<1> PICK a : a = Aggregate(rows)
  OBVIOUS
<1> PICK r : r = rows[y]
  OBVIOUS
<1>1. IsFiniteSet({y}) /\ IsFiniteSet({})
  BY FS_Singleton, FS_EmptySet
<1>2. AggregateIs(a, rows)
  BY <1>1, AggregateParts
<1>3. /\ r.sum \in Nat /\ r.n \in Nat /\ r.peak \in Nat
      /\ r.low \in Nat /\ r.healthy \in Nat /\ r.total \in Nat /\ r \in Row
  BY FieldsNatural DEF IsTable
<1>4. \A g : g[y] \in Nat => Total(g, {y}) = g[y]
  <2> SUFFICES ASSUME NEW g, g[y] \in Nat PROVE Total(g, {y}) = g[y]
    OBVIOUS
  <2>1. Total(g, {y}) = g[y] + Total(g, {y} \ {y})
    BY <1>1, TotalSplit
  <2>2. {y} \ {y} = {}
    OBVIOUS
  <2> QED
    BY <2>1, <2>2, TotalEmpty
<1>5. a.sum = r.sum /\ a.n = r.n
  <2> PICK g : g = [k \in {y} |-> rows[k].sum]
    OBVIOUS
  <2> PICK h : h = [k \in {y} |-> rows[k].n]
    OBVIOUS
  <2>1. Total(g, {y}) = r.sum /\ Total(h, {y}) = r.n
    BY <1>3, <1>4
  <2> QED
    BY <1>2, <2>1 DEF AggregateIs
<1>6. \A m \in Nat : Max({m}) = m /\ Min({m}) = m
  BY MaxIs, MinIs
<1>7. /\ {rows[k].peak : k \in {y}} = {r.peak} /\ {rows[k].low : k \in {y}} = {r.low}
      /\ {rows[k].healthy : k \in {y}} = {r.healthy} /\ {rows[k].total : k \in {y}} = {r.total}
  OBVIOUS
<1>8. a.peak = r.peak /\ a.low = r.low /\ a.healthy = r.healthy /\ a.total = r.total
  BY <1>2, <1>3, <1>6, <1>7 DEF AggregateIs
<1>9. a = [sum |-> a.sum, n |-> a.n, peak |-> a.peak, low |-> a.low,
           healthy |-> a.healthy, total |-> a.total]
  BY DEF Aggregate
<1> QED
  BY <1>3, <1>5, <1>8, <1>9 DEF Row
==============================================================================
