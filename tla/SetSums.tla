------------------------------- MODULE SetSums -------------------------------
(***************************************************************************)
(* Lemmas about finite sets that the proofs of several components need:    *)
(* least and greatest elements, subsets that are least, and the sums of    *)
(* the community modules, which take the elements in an order of their own *)
(* choice.                                                                 *)
(***************************************************************************)
EXTENDS Integers, FiniteSets, FiniteSetsExt, FiniteSetTheorems, WellFoundedInduction, TLAPS

(* The element that the sums of the community modules take first.          *)
AnyOf(s) == CHOOSE x \in s : TRUE

(* The sum of the values that f has on ids, in the form of the model.       *)
Sums(f, ids) == MapThenSumSet(LAMBDA x : f[x], ids)

(* The table of the sums of f over the subsets of ids.                      *)
Table(it, f, ids) ==
    it = [s \in SUBSET ids |-> IF s = {} THEN 0 ELSE f[AnyOf(s)] + it[s \ {AnyOf(s)}]]

(* A set of natural numbers that is not empty has a least one.             *)
LEMMA LeastOf ==
    ASSUME NEW N \in SUBSET Nat, N # {}
    PROVE  \E m \in N : \A n \in N : m <= n
<1>1. PICK m \in N : \A n \in N : <<n, m>> \notin OpToRel(<, Nat)
  BY NatLessThanWellFounded, WFMin
<1>2. \A n \in N : n \in Nat /\ m \in Nat /\ ~(n < m)
  BY <1>1 DEF OpToRel
<1> QED
  BY <1>2

(* It is what the community modules call the minimum.                      *)
LEMMA MinOfSet ==
    ASSUME NEW N \in SUBSET Nat, N # {}
    PROVE  Min(N) \in N /\ \A n \in N : Min(N) <= n
  BY LeastOf DEF Min

(* Among subsets of a finite set there is one of which no other of them is *)
(* a part.                                                                 *)
LEMMA LeastSubset ==
    ASSUME NEW ids, IsFiniteSet(ids), NEW B \in SUBSET (SUBSET ids), B # {}
    PROVE  \E s \in B : \A x \in s : s \ {x} \notin B
<1>1. \A s \in SUBSET ids : IsFiniteSet(s) /\ Cardinality(s) \in Nat
  BY FS_Subset, FS_CardinalityType
<1>2. PICK m \in {Cardinality(s) : s \in B} : \A n \in {Cardinality(s) : s \in B} : m <= n
  <2>1. {Cardinality(s) : s \in B} \in SUBSET Nat /\ {Cardinality(s) : s \in B} # {}
    BY <1>1
  <2> QED
    BY <2>1, LeastOf
<1>3. PICK s \in B : Cardinality(s) = m
  BY <1>2
<1>4. ASSUME NEW x \in s, s \ {x} \in B PROVE FALSE
  <2>1. Cardinality(s \ {x}) = Cardinality(s) - 1
    BY <1>1, <1>3, <1>4, FS_RemoveElement
  <2>2. Cardinality(s) <= Cardinality(s \ {x})
    BY <1>2, <1>3, <1>4
  <2> QED
    BY <1>1, <1>3, <2>1, <2>2
<1> QED
  BY <1>3, <1>4

(* The first element of a set that is not empty is in it.                  *)
LEMMA AnyOfIn == ASSUME NEW s, s # {} PROVE AnyOf(s) \in s
  BY DEF AnyOf

(* The table exists: it is filled from the smaller subsets to the larger.  *)
LEMMA TableExists ==
    ASSUME NEW ids, IsFiniteSet(ids), NEW f, \A x \in ids : f[x] \in Int
    PROVE  \E it \in [SUBSET ids -> Int] : Table(it, f, ids)
<1>1. \A s \in SUBSET ids : IsFiniteSet(s) /\ Cardinality(s) \in Nat /\ Cardinality(s) <= Cardinality(ids)
  BY FS_Subset, FS_CardinalityType
<1> DEFINE Upto(n) == {s \in SUBSET ids : Cardinality(s) <= n}
           Fill(g, s) == IF s = {} THEN 0 ELSE f[AnyOf(s)] + g[s \ {AnyOf(s)}]
           Filled(g, n) == \A s \in Upto(n) : g[s] = Fill(g, s)
           Bad == {n \in Nat : ~ \E g \in [Upto(n) -> Int] : Filled(g, n)}
<1>2. Cardinality({}) = 0 /\ \A s \in SUBSET ids : Cardinality(s) = 0 => s = {}
  BY <1>1, FS_EmptySet
<1>3. \A s \in SUBSET ids : s # {} =>
         /\ AnyOf(s) \in ids
         /\ s \ {AnyOf(s)} \in SUBSET ids
         /\ Cardinality(s \ {AnyOf(s)}) = Cardinality(s) - 1
         /\ Cardinality(s) > 0
  <2> TAKE s \in SUBSET ids
  <2> HAVE s # {}
  <2>1. AnyOf(s) \in s
    BY AnyOfIn
  <2>2. Cardinality(s \ {AnyOf(s)}) = Cardinality(s) - 1
    BY <1>1, <2>1, FS_RemoveElement
  <2> QED
    BY <1>1, <1>2, <2>1, <2>2
<1>4. Bad = {}
  <2> SUFFICES ASSUME Bad # {} PROVE FALSE
    OBVIOUS
  <2>1. PICK n \in Bad : \A k \in Bad : n <= k
    <3>1. Bad \in SUBSET Nat
      OBVIOUS
    <3> HIDE DEF Bad
    <3> QED
      BY <3>1, LeastOf
  <2>2. n \in Nat /\ ~ \E g \in [Upto(n) -> Int] : Filled(g, n)
    OBVIOUS
  <2>3. n # 0
    <3> SUFFICES ASSUME n = 0 PROVE FALSE
      OBVIOUS
    <3>1. \A s \in Upto(0) : s = {}
      BY <1>1, <1>2
    <3>2. [s \in Upto(0) |-> 0] \in [Upto(0) -> Int] /\ Filled([s \in Upto(0) |-> 0], 0)
      BY <3>1
    <3> QED
      BY <2>2, <3>2
  <2>4. PICK g \in [Upto(n - 1) -> Int] : Filled(g, n - 1)
    <3>1. n - 1 \in Nat /\ n - 1 \notin Bad
      <4>1. n - 1 \in Nat /\ ~(n <= n - 1)
        BY <2>2, <2>3
      <4> HIDE DEF Bad
      <4> QED
        BY <2>1, <4>1
    <3> QED
      BY <3>1
  <2> DEFINE h == [s \in Upto(n) |-> Fill(g, s)]
  <2>5. \A s \in Upto(n) : s # {} => s \ {AnyOf(s)} \in Upto(n - 1)
    BY <1>1, <1>3, <2>2
  <2>6. h \in [Upto(n) -> Int]
    <3>1. \A s \in Upto(n) : Fill(g, s) \in Int
      BY <1>3, <2>4, <2>5
    <3> HIDE DEF Fill
    <3> QED
      BY <3>1
  <2>7. \A s \in Upto(n - 1) : s \in Upto(n) /\ h[s] = g[s]
    BY <1>1, <2>2, <2>4
  <2>8. Filled(h, n)
    <3> SUFFICES ASSUME NEW s \in Upto(n) PROVE h[s] = Fill(h, s)
      OBVIOUS
    <3>1. h[s] = Fill(g, s)
      OBVIOUS
    <3>2. s # {} => h[s \ {AnyOf(s)}] = g[s \ {AnyOf(s)}]
      BY <2>5, <2>7
    <3> HIDE DEF h
    <3> QED
      BY <3>1, <3>2
  <2> QED
    BY <2>2, <2>6, <2>8
<1>5. PICK g \in [Upto(Cardinality(ids)) -> Int] : Filled(g, Cardinality(ids))
  BY <1>1, <1>4
<1>6. Upto(Cardinality(ids)) = SUBSET ids
  BY <1>1
<1>7. g \in [SUBSET ids -> Int] /\ Table(g, f, ids)
  BY <1>5, <1>6 DEF Table
<1> QED
  BY <1>7

(* The sum is what a table says of the whole set.                          *)
LEMMA SumsTable ==
    ASSUME NEW ids, IsFiniteSet(ids), NEW f, \A x \in ids : f[x] \in Int
    PROVE  \E it \in [SUBSET ids -> Int] : Table(it, f, ids) /\ Sums(f, ids) = it[ids]
<1> DEFINE it == CHOOSE it : Table(it, f, ids)
<1>1. Sums(f, ids) = it[ids]
  BY DEF Sums, MapThenSumSet, MapThenFoldSet, Table, AnyOf
<1>2. Table(it, f, ids)
  BY TableExists
<1> HIDE DEF it
<1>3. it = [s \in SUBSET ids |-> it[s]]
  BY <1>2 DEF Table
<1> DEFINE Bad == {s \in SUBSET ids : it[s] \notin Int}
<1>4. Bad = {}
  <2> SUFFICES ASSUME Bad # {} PROVE FALSE
    OBVIOUS
  <2>1. PICK s \in Bad : \A x \in s : s \ {x} \notin Bad
    <3> HIDE DEF Bad
    <3>1. Bad \in SUBSET (SUBSET ids)
      BY DEF Bad
    <3> QED
      BY <3>1, LeastSubset
  <2>2. s \in SUBSET ids /\ it[s] \notin Int
    OBVIOUS
  <2>3. it[s] = IF s = {} THEN 0 ELSE f[AnyOf(s)] + it[s \ {AnyOf(s)}]
    BY <1>2, <2>2 DEF Table
  <2>4. CASE s = {}
    BY <2>2, <2>3, <2>4
  <2>5. CASE s # {}
    <3>1. AnyOf(s) \in s
      BY <2>5, AnyOfIn
    <3>2. it[s \ {AnyOf(s)}] \in Int
      BY <2>1, <2>2, <3>1
    <3>3. f[AnyOf(s)] \in Int
      BY <2>2, <3>1
    <3> QED
      BY <2>2, <2>3, <2>5, <3>2, <3>3
  <2> QED
    BY <2>4, <2>5
<1>5. it \in [SUBSET ids -> Int]
  BY <1>3, <1>4
<1> QED
  BY <1>1, <1>2, <1>5

(* A sum of integers is an integer.                                        *)
LEMMA SumsInt ==
    ASSUME NEW ids, IsFiniteSet(ids), NEW f, \A x \in ids : f[x] \in Int
    PROVE  Sums(f, ids) \in Int
<1>1. PICK it \in [SUBSET ids -> Int] : Table(it, f, ids) /\ Sums(f, ids) = it[ids]
  BY SumsTable
<1> QED
  BY <1>1

(* Two tables agree on what both are about.                                *)
LEMMA TablesAgree ==
    ASSUME NEW ids, IsFiniteSet(ids), NEW f, NEW less \in SUBSET ids, NEW g, \A x \in less : g[x] = f[x],
           NEW it, Table(it, f, ids), NEW jt, Table(jt, g, less)
    PROVE  \A s \in SUBSET less : jt[s] = it[s]
<1> DEFINE Bad == {s \in SUBSET less : jt[s] # it[s]}
<1>1. SUFFICES ASSUME Bad # {} PROVE FALSE
  OBVIOUS
<1>2. PICK s \in Bad : \A x \in s : s \ {x} \notin Bad
  <2>1. Bad \in SUBSET (SUBSET less) /\ IsFiniteSet(less)
    BY FS_Subset
  <2> HIDE DEF Bad
  <2> QED
    BY <1>1, <2>1, LeastSubset
<1>3. s \in SUBSET less /\ jt[s] # it[s]
  OBVIOUS
<1>4. /\ it[s] = IF s = {} THEN 0 ELSE f[AnyOf(s)] + it[s \ {AnyOf(s)}]
      /\ jt[s] = IF s = {} THEN 0 ELSE g[AnyOf(s)] + jt[s \ {AnyOf(s)}]
  BY <1>3 DEF Table
<1>5. s # {} => AnyOf(s) \in s
  BY AnyOfIn
<1>6. s # {} => it[s \ {AnyOf(s)}] = jt[s \ {AnyOf(s)}] /\ f[AnyOf(s)] = g[AnyOf(s)]
  BY <1>2, <1>3, <1>5
<1> QED
  BY <1>3, <1>4, <1>6

InAnyOrder(it, f, ids) == \A s \in SUBSET ids : \A x \in s : it[s] = f[x] + it[s \ {x}]

(* A sum is taken in any order.                                            *)
LEMMA AnyOrder ==
    ASSUME NEW ids, IsFiniteSet(ids), NEW f, \A x \in ids : f[x] \in Int,
           NEW it \in [SUBSET ids -> Int], Table(it, f, ids)
    PROVE  InAnyOrder(it, f, ids)
<1> DEFINE Bad == {s \in SUBSET ids : \E x \in s : it[s] # f[x] + it[s \ {x}]}
<1>1. SUFFICES ASSUME Bad # {} PROVE FALSE
  BY DEF InAnyOrder
<1>2. PICK s \in Bad : \A x \in s : s \ {x} \notin Bad
  <2>1. Bad \in SUBSET (SUBSET ids)
    OBVIOUS
  <2> HIDE DEF Bad
  <2> QED
    BY <1>1, <2>1, LeastSubset
<1>3. s \in SUBSET ids
  OBVIOUS
<1>4. PICK x \in s : it[s] # f[x] + it[s \ {x}]
  OBVIOUS
<1>5. PICK a \in s : a = AnyOf(s)
  BY <1>4, AnyOfIn
<1>6. it[s] = f[a] + it[s \ {a}]
  BY <1>3, <1>5 DEF Table
<1>7. a # x
  BY <1>4, <1>6
<1>8. it[s \ {a}] = f[x] + it[(s \ {a}) \ {x}]
  BY <1>2, <1>3, <1>7
<1>9. it[s \ {x}] = f[a] + it[(s \ {x}) \ {a}]
  BY <1>2, <1>3, <1>7
<1>10. (s \ {a}) \ {x} = (s \ {x}) \ {a}
  OBVIOUS
<1>11. /\ f[a] \in Int /\ f[x] \in Int /\ it[(s \ {x}) \ {a}] \in Int
       /\ it[s] \in Int /\ it[s \ {x}] \in Int /\ it[s \ {a}] \in Int
  <2>1. (s \ {x}) \ {a} \in SUBSET ids /\ s \ {x} \in SUBSET ids /\ s \ {a} \in SUBSET ids
    BY <1>3
  <2> QED
    BY <1>3, <2>1
<1> DEFINE sx == s \ {x}
           sa == s \ {a}
           r == (s \ {x}) \ {a}
<1>12. it[s] # f[x] + it[sx] /\ it[s] = f[a] + it[sa] /\ it[sa] = f[x] + it[r] /\ it[sx] = f[a] + it[r]
  BY <1>4, <1>6, <1>8, <1>9, <1>10
<1>13. f[a] \in Int /\ f[x] \in Int /\ it[r] \in Int
  BY <1>11
<1> HIDE DEF sx, sa, r
<1> QED
  BY <1>12, <1>13

(* The sum of nothing, and of what is left with any one element.           *)
LEMMA SumsRec ==
    ASSUME NEW ids, IsFiniteSet(ids), NEW f, \A x \in ids : f[x] \in Int
    PROVE  /\ Sums(f, {}) = 0
           /\ \A x \in ids : Sums(f, ids) = f[x] + Sums(f, ids \ {x})
           /\ Sums(f, ids) \in Int
<1>1. Sums(f, {}) = 0
  <2>1. PICK it \in [SUBSET {} -> Int] : Table(it, f, {}) /\ Sums(f, {}) = it[{}]
    BY FS_EmptySet, SumsTable
  <2> QED
    BY <2>1 DEF Table
<1>2. PICK it \in [SUBSET ids -> Int] : Table(it, f, ids) /\ Sums(f, ids) = it[ids]
  BY SumsTable
<1>3. ASSUME NEW x \in ids PROVE Sums(f, ids) = f[x] + Sums(f, ids \ {x})
  <2> DEFINE less == ids \ {x}
  <2>1. less \in SUBSET ids /\ IsFiniteSet(less)
    BY FS_Subset
  <2> HIDE DEF less
  <2>2. PICK jt \in [SUBSET less -> Int] : Table(jt, f, less) /\ Sums(f, less) = jt[less]
    BY <2>1, SumsTable
  <2>3. jt[less] = it[less]
    BY <1>2, <2>1, <2>2, TablesAgree
  <2>4. InAnyOrder(it, f, ids)
    BY <1>2, AnyOrder
  <2>5. it[ids] = f[x] + it[less]
    BY <2>4 DEF less, InAnyOrder
  <2> QED
    BY <1>2, <2>2, <2>3, <2>5 DEF less
<1> QED
  BY <1>1, <1>2, <1>3

(* Sums over sets whose elements match.                                    *)
LEMMA SumsMatch ==
    ASSUME NEW A, IsFiniteSet(A), NEW B, NEW b \in Bijection(A, B),
           NEW f, \A y \in B : f[y] \in Int, NEW g, \A x \in A : g[x] = f[b[x]]
    PROVE  Sums(g, A) = Sums(f, B)
<1> DEFINE Image(s) == {b[x] : x \in s}
           Bad == {s \in SUBSET A : Sums(g, s) # Sums(f, Image(s))}
<1>1. b \in [A -> B] /\ \A x, y \in A : b[x] = b[y] => x = y
  BY DEF Bijection, Injection, IsInjective
<1>2. Image(A) = B
  BY <1>1 DEF Bijection, Surjection
<1>3. \A s \in SUBSET A : /\ IsFiniteSet(s) /\ IsFiniteSet(Image(s)) /\ Image(s) \in SUBSET B
                          /\ \A x \in s : Image(s \ {x}) = Image(s) \ {b[x]} /\ b[x] \in Image(s)
  <2> TAKE s \in SUBSET A
  <2>1. IsFiniteSet(s) /\ Image(s) \in SUBSET B
    BY <1>1, FS_Subset
  <2>2. IsFiniteSet(Image(s))
    <3> DEFINE c == [x \in s |-> b[x]]
    <3>1. c \in Surjection(s, Image(s))
      BY <1>1 DEF Surjection
    <3> HIDE DEF c, Image
    <3> QED
      BY <2>1, <3>1, FS_Surjection
  <2>3. ASSUME NEW x \in s PROVE Image(s \ {x}) = Image(s) \ {b[x]} /\ b[x] \in Image(s)
    BY <1>1
  <2> QED
    BY <2>1, <2>2, <2>3
<1>4. Bad = {}
  <2> SUFFICES ASSUME Bad # {} PROVE FALSE
    OBVIOUS
  <2>1. PICK s \in Bad : \A x \in s : s \ {x} \notin Bad
    <3>1. Bad \in SUBSET (SUBSET A)
      OBVIOUS
    <3> HIDE DEF Bad
    <3> QED
      BY <3>1, LeastSubset
  <2>2. s \in SUBSET A /\ Sums(g, s) # Sums(f, Image(s))
    OBVIOUS
  <2>3. \A x \in s : g[x] \in Int /\ g[x] = f[b[x]]
    BY <1>1, <2>2
  <2>4. \A y \in Image(s) : f[y] \in Int
    BY <1>3, <2>2
  <2>5. s = {} => FALSE
    BY <2>2, FS_EmptySet, SumsRec
  <2>6. PICK x \in s : TRUE
    BY <2>5
  <2>7. Sums(g, s \ {x}) = Sums(f, Image(s \ {x}))
    BY <2>1, <2>2
  <2> HIDE DEF Bad
  <2>8. Image(s \ {x}) = Image(s) \ {b[x]} /\ b[x] \in Image(s) /\ IsFiniteSet(s) /\ IsFiniteSet(Image(s))
    BY <1>3, <2>2
  <2> HIDE DEF Image
  <2>9. Sums(g, s) = g[x] + Sums(g, s \ {x})
    BY <2>3, <2>8, SumsRec
  <2>10. Sums(f, Image(s)) = f[b[x]] + Sums(f, Image(s) \ {b[x]})
    BY <2>4, <2>8, SumsRec
  <2> QED
    BY <2>2, <2>3, <2>7, <2>8, <2>9, <2>10
<1>5. A \in SUBSET A
  OBVIOUS
<1> HIDE DEF Image
<1> QED
  BY <1>2, <1>4, <1>5

(* A finite set of integers that is not empty has a largest.               *)
LEMMA MaxOf ==
    ASSUME NEW N \in SUBSET Int, IsFiniteSet(N), N # {}
    PROVE  Max(N) \in N /\ \A n \in N : Max(N) >= n
<1> DEFINE Tops(s) == {m \in s : \A n \in s : m >= n}
           Bad == {s \in SUBSET N : s # {} /\ Tops(s) = {}}
<1>1. Bad = {}
  <2> SUFFICES ASSUME Bad # {} PROVE FALSE
    OBVIOUS
  <2>1. PICK s \in Bad : \A x \in s : s \ {x} \notin Bad
    <3>1. Bad \in SUBSET (SUBSET N)
      OBVIOUS
    <3> HIDE DEF Bad
    <3> QED
      BY <3>1, LeastSubset
  <2>2. s \in SUBSET N /\ s # {} /\ Tops(s) = {}
    OBVIOUS
  <2>3. PICK x \in s : TRUE
    BY <2>2
  <2>4. x \in Int /\ s \ {x} \in SUBSET N
    BY <2>2
  <2>5. s \ {x} = {} => x \in Tops(s)
    BY <2>3, <2>4
  <2>6. s \ {x} # {}
    BY <2>2, <2>5
  <2>7. PICK m \in s \ {x} : \A n \in s \ {x} : m >= n
    BY <2>1, <2>3, <2>4, <2>6
  <2>8. m \in Int /\ \A n \in s : n \in Int /\ (n = x \/ m >= n)
    BY <2>2, <2>7
  <2>9. IF m >= x THEN m \in Tops(s) ELSE x \in Tops(s)
    BY <2>3, <2>4, <2>7, <2>8
  <2> QED
    BY <2>2, <2>9
<1>2. N \in SUBSET N /\ N \notin Bad
  BY <1>1
<1>3. \E m \in N : \A n \in N : m >= n
  BY <1>2
<1> QED
  BY <1>3 DEF Max

(* And a smallest.                                                         *)
LEMMA MinOf ==
    ASSUME NEW N \in SUBSET Int, IsFiniteSet(N), N # {}
    PROVE  Min(N) \in N /\ \A n \in N : Min(N) <= n
<1> DEFINE minus == [n \in N |-> 0 - n]
           M == {minus[n] : n \in N}
<1>1. \A n \in N : minus[n] = 0 - n /\ n \in Int
  OBVIOUS
<1>2. minus \in Surjection(N, M)
  BY DEF Surjection
<1>3. IsFiniteSet(M)
  <2> HIDE DEF minus, M
  <2> QED
    BY <1>2, FS_Surjection
<1>4. M \in SUBSET Int /\ M # {}
  BY <1>1
<1>5. Max(M) \in M /\ \A n \in M : Max(M) >= n
  <2> HIDE DEF minus, M
  <2> QED
    BY <1>3, <1>4, MaxOf
<1>6. PICK m \in N : Max(M) = 0 - m
  BY <1>1, <1>5
<1>7. ASSUME NEW n \in N PROVE m <= n
  <2>1. minus[n] \in M
    OBVIOUS
  <2> HIDE DEF minus, M
  <2>2. 0 - m >= 0 - n /\ m \in Int /\ n \in Int
    BY <1>1, <1>5, <1>6, <2>1
  <2> QED
    BY <2>2
<1> QED
  BY <1>7 DEF Min

(* Finitely many rows have finitely many values in a column.               *)
LEMMA ImageFinite ==
    ASSUME NEW ids, IsFiniteSet(ids), NEW f, f = [x \in ids |-> f[x]]
    PROVE  IsFiniteSet({f[x] : x \in ids})
<1> DEFINE image == {f[x] : x \in ids}
<1>1. f \in [ids -> image]
  OBVIOUS
<1>2. f \in Surjection(ids, image)
  BY <1>1 DEF Surjection
<1> HIDE DEF image
<1>3. IsFiniteSet(image)
  BY <1>2, FS_Surjection
<1> QED
  BY <1>3 DEF image

(* Sums over parts that have nothing in common.                            *)
LEMMA SumsUnion ==
    ASSUME NEW a, NEW b, IsFiniteSet(a), IsFiniteSet(b), a \cap b = {},
           NEW f, \A x \in a \cup b : f[x] \in Int
    PROVE  Sums(f, a \cup b) = Sums(f, a) + Sums(f, b)
<1> DEFINE Bad == {s \in SUBSET b : Sums(f, a \cup s) # Sums(f, a) + Sums(f, s)}
<1> SUFFICES ASSUME Bad # {} PROVE FALSE
  <2>1. b \in SUBSET b
    OBVIOUS
  <2> QED
    BY <2>1
<1>1. PICK s \in Bad : \A x \in s : s \ {x} \notin Bad
  <2>1. Bad \in SUBSET (SUBSET b)
    OBVIOUS
  <2> HIDE DEF Bad
  <2> QED
    BY <2>1, LeastSubset
<1>2. s \in SUBSET b /\ Sums(f, a \cup s) # Sums(f, a) + Sums(f, s)
  OBVIOUS
<1>3. IsFiniteSet(s) /\ IsFiniteSet(a \cup s)
  BY <1>2, FS_Subset, FS_Union
<1>4. Sums(f, a) \in Int /\ Sums(f, {}) = 0
  BY SumsRec
<1>5. s # {}
  <2>1. Sums(f, a \cup {}) = Sums(f, a) /\ Sums(f, a) = Sums(f, a) + 0
    <3>1. a \cup {} = a
      OBVIOUS
    <3> QED
      BY <1>4, <3>1
  <2> QED
    BY <1>2, <1>4, <2>1, Zenon
<1>6. PICK x \in s : TRUE
  BY <1>5
<1>7. Sums(f, a \cup (s \ {x})) = Sums(f, a) + Sums(f, s \ {x})
  BY <1>1, <1>2
<1>8. (a \cup s) \ {x} = a \cup (s \ {x})
  BY <1>2
<1>9. Sums(f, s) = f[x] + Sums(f, s \ {x})
  <2>1. \A y \in s : f[y] \in Int
    BY <1>2
  <2> QED
    BY <1>3, <1>6, <2>1, SumsRec
<1>10. Sums(f, a \cup s) = f[x] + Sums(f, (a \cup s) \ {x})
  <2>1. x \in a \cup s /\ \A y \in a \cup s : f[y] \in Int
    BY <1>2
  <2> QED
    BY <1>3, <2>1, SumsRec
<1>11. f[x] \in Int /\ Sums(f, s \ {x}) \in Int
  <2>1. IsFiniteSet(s \ {x}) /\ \A y \in s \ {x} : f[y] \in Int
    BY <1>2, <1>3, FS_Subset
  <2> QED
    BY <1>2, <2>1, SumsInt
<1> DEFINE all == Sums(f, a \cup s)
           sa == Sums(f, a)
           ss == Sums(f, s)
           rest == Sums(f, s \ {x})
<1>12. /\ all # sa + ss /\ all = f[x] + (sa + rest) /\ ss = f[x] + rest
       /\ sa \in Int /\ rest \in Int /\ f[x] \in Int
  BY <1>2, <1>4, <1>7, <1>8, <1>9, <1>10, <1>11
<1> HIDE DEF all, sa, ss, rest
<1> QED
  BY <1>12

(* A set is as large as the sum of ones over it.                           *)
LEMMA SumsOnes ==
    ASSUME NEW ids, IsFiniteSet(ids), NEW f, \A x \in ids : f[x] = 1
    PROVE  Sums(f, ids) = Cardinality(ids)
<1> DEFINE Bad == {s \in SUBSET ids : Sums(f, s) # Cardinality(s)}
<1> SUFFICES ASSUME Bad # {} PROVE FALSE
  <2>1. ids \in SUBSET ids
    OBVIOUS
  <2> QED
    BY <2>1
<1>1. PICK s \in Bad : \A x \in s : s \ {x} \notin Bad
  <2>1. Bad \in SUBSET (SUBSET ids)
    OBVIOUS
  <2> HIDE DEF Bad
  <2> QED
    BY <2>1, LeastSubset
<1>2. s \in SUBSET ids /\ Sums(f, s) # Cardinality(s)
  OBVIOUS
<1>3. IsFiniteSet(s) /\ \A x \in s : f[x] \in Int
  BY <1>2, FS_Subset
<1>4. s # {}
  BY <1>2, FS_EmptySet, SumsRec
<1>5. PICK x \in s : TRUE
  BY <1>4
<1>6. Sums(f, s \ {x}) = Cardinality(s \ {x})
  BY <1>1, <1>2
<1>7. Sums(f, s) = f[x] + Sums(f, s \ {x})
  BY <1>3, <1>5, SumsRec
<1>8. Cardinality(s \ {x}) = Cardinality(s) - 1 /\ Cardinality(s) \in Nat
  BY <1>3, <1>5, FS_RemoveElement, FS_CardinalityType
<1> HIDE DEF Bad
<1> QED
  BY <1>2, <1>6, <1>7, <1>8

Part(rows, key, k) == {r \in rows : key[r] = k}

(* What the elements of a finite set amount to is what its parts, told     *)
(* apart by a key, amount to.                                              *)
LEMMA SumsParts ==
    ASSUME NEW rows, IsFiniteSet(rows), NEW f, \A r \in rows : f[r] \in Int,
           NEW K, IsFiniteSet(K), NEW key, \A r \in rows : key[r] \in K,
           NEW g, \A k \in K : g[k] = Sums(f, Part(rows, key, k))
    PROVE  Sums(g, K) = Sums(f, rows)
<1> DEFINE Among(ks) == {r \in rows : key[r] \in ks}
           Bad == {ks \in SUBSET K : Sums(g, ks) # Sums(f, Among(ks))}
<1>1. \A ks \in SUBSET K : IsFiniteSet(ks) /\ Among(ks) \in SUBSET rows /\ IsFiniteSet(Among(ks))
  BY FS_Subset
<1>2. \A k \in K : g[k] \in Int
  <2> TAKE k \in K
  <2> DEFINE part == Part(rows, key, k)
  <2>1. part \in SUBSET rows
    BY DEF Part
  <2>2. IsFiniteSet(part) /\ \A r \in part : f[r] \in Int
    BY <2>1, FS_Subset
  <2>3. g[k] = Sums(f, part)
    OBVIOUS
  <2> HIDE DEF part
  <2> QED
    BY <2>2, <2>3, SumsInt
<1> SUFFICES ASSUME Bad # {} PROVE FALSE
  <2>1. Among(K) = rows /\ K \in SUBSET K
    OBVIOUS
  <2> QED
    BY <2>1
<1>3. PICK ks \in Bad : \A k \in ks : ks \ {k} \notin Bad
  <2>1. Bad \in SUBSET (SUBSET K)
    OBVIOUS
  <2> HIDE DEF Bad
  <2> QED
    BY <2>1, LeastSubset
<1>4. ks \in SUBSET K /\ Sums(g, ks) # Sums(f, Among(ks))
  OBVIOUS
<1>5. ks # {}
  <2>1. Sums(g, {}) = 0 /\ Sums(f, {}) = 0
    BY FS_EmptySet, SumsRec
  <2>2. Among({}) = {}
    OBVIOUS
  <2> QED
    BY <1>4, <2>1, <2>2
<1>6. PICK k \in ks : TRUE
  BY <1>5
<1>7. Sums(g, ks \ {k}) = Sums(f, Among(ks \ {k}))
  BY <1>3, <1>4
<1> DEFINE one == {r \in rows : key[r] = k}
<1>8. Sums(g, ks) = g[k] + Sums(g, ks \ {k})
  <2>1. IsFiniteSet(ks) /\ \A j \in ks : g[j] \in Int
    BY <1>1, <1>2, <1>4
  <2> QED
    BY <1>6, <2>1, SumsRec
<1>9. g[k] = Sums(f, one)
  BY <1>4 DEF Part
<1>10. /\ Among(ks) = Among(ks \ {k}) \cup one
       /\ Among(ks \ {k}) \cap one = {}
       /\ one \in SUBSET rows
  BY <1>4
<1>11. IsFiniteSet(Among(ks \ {k})) /\ IsFiniteSet(one) /\ Among(ks \ {k}) \in SUBSET rows
  BY <1>1, <1>4, <1>10, FS_Subset
<1>12. Sums(f, Among(ks)) = Sums(f, Among(ks \ {k})) + Sums(f, one)
  BY <1>10, <1>11, SumsUnion
<1>13. g[k] \in Int /\ Sums(f, Among(ks \ {k})) \in Int
  <2>1. \A r \in Among(ks \ {k}) : f[r] \in Int
    OBVIOUS
  <2> HIDE DEF Among
  <2> QED
    BY <1>2, <1>4, <1>11, <2>1, SumsInt
<1> HIDE DEF Bad, Among, one
<1> QED
  BY <1>4, <1>7, <1>8, <1>9, <1>12, <1>13

(* A sum of greater values is no less.                                     *)
LEMMA SumsMono ==
    ASSUME NEW ids, IsFiniteSet(ids), NEW f, \A x \in ids : f[x] \in Int,
           NEW g, \A x \in ids : g[x] \in Int /\ f[x] <= g[x]
    PROVE  Sums(f, ids) <= Sums(g, ids)
<1> DEFINE Bad == {s \in SUBSET ids : ~(Sums(f, s) <= Sums(g, s))}
<1> SUFFICES ASSUME Bad # {} PROVE FALSE
  <2>1. ids \in SUBSET ids
    OBVIOUS
  <2> QED
    BY <2>1
<1>1. PICK s \in Bad : \A x \in s : s \ {x} \notin Bad
  <2>1. Bad \in SUBSET (SUBSET ids)
    OBVIOUS
  <2> HIDE DEF Bad
  <2> QED
    BY <2>1, LeastSubset
<1>2. s \in SUBSET ids /\ ~(Sums(f, s) <= Sums(g, s))
  OBVIOUS
<1>3. IsFiniteSet(s) /\ \A x \in s : f[x] \in Int /\ g[x] \in Int /\ f[x] <= g[x]
  BY <1>2, FS_Subset
<1>4. Sums(f, {}) = 0 /\ Sums(g, {}) = 0
  BY <1>3, SumsRec
<1>5. PICK x \in s : TRUE
  BY <1>2, <1>4
<1>6. Sums(f, s \ {x}) <= Sums(g, s \ {x})
  BY <1>1, <1>2
<1>7. Sums(f, s) = f[x] + Sums(f, s \ {x}) /\ Sums(g, s) = g[x] + Sums(g, s \ {x})
  BY <1>3, <1>5, SumsRec
<1>8. Sums(f, s \ {x}) \in Int /\ Sums(g, s \ {x}) \in Int
  <2>1. IsFiniteSet(s \ {x}) /\ \A y \in s \ {x} : f[y] \in Int /\ g[y] \in Int
    BY <1>3, FS_Subset
  <2> QED
    BY <2>1, SumsInt
<1> DEFINE sf == Sums(f, s \ {x})
           sg == Sums(g, s \ {x})
<1>9. /\ ~(f[x] + sf <= g[x] + sg) /\ sf <= sg /\ sf \in Int /\ sg \in Int
      /\ f[x] \in Int /\ g[x] \in Int /\ f[x] <= g[x]
  BY <1>2, <1>3, <1>5, <1>6, <1>7, <1>8
<1> HIDE DEF Bad, sf, sg
<1> QED
  BY <1>9

(* The sum of values that are added up is the sum of the sums.             *)
LEMMA SumsAdd ==
    ASSUME NEW ids, IsFiniteSet(ids), NEW f, NEW g, NEW h,
           \A x \in ids : f[x] \in Int /\ g[x] \in Int /\ h[x] = f[x] + g[x]
    PROVE  Sums(h, ids) = Sums(f, ids) + Sums(g, ids)
<1> DEFINE Bad == {s \in SUBSET ids : Sums(h, s) # Sums(f, s) + Sums(g, s)}
<1> SUFFICES ASSUME Bad # {} PROVE FALSE
  <2>1. ids \in SUBSET ids
    OBVIOUS
  <2> QED
    BY <2>1
<1>1. PICK s \in Bad : \A x \in s : s \ {x} \notin Bad
  <2>1. Bad \in SUBSET (SUBSET ids)
    OBVIOUS
  <2> HIDE DEF Bad
  <2> QED
    BY <2>1, LeastSubset
<1>2. s \in SUBSET ids /\ Sums(h, s) # Sums(f, s) + Sums(g, s)
  OBVIOUS
<1>3. IsFiniteSet(s) /\ \A x \in s : f[x] \in Int /\ g[x] \in Int /\ h[x] \in Int /\ h[x] = f[x] + g[x]
  BY <1>2, FS_Subset
<1>4. Sums(f, {}) = 0 /\ Sums(g, {}) = 0 /\ Sums(h, {}) = 0
  BY <1>3, SumsRec
<1>5. s # {}
  <2> HIDE DEF Bad
  <2>1. s = {} => Sums(f, s) = 0 /\ Sums(g, s) = 0 /\ Sums(h, s) = 0
    BY <1>4
  <2> QED
    BY <1>2, <2>1
<1>6. PICK x \in s : TRUE
  BY <1>5
<1>7. Sums(h, s \ {x}) = Sums(f, s \ {x}) + Sums(g, s \ {x})
  BY <1>1, <1>2
<1>8. /\ Sums(f, s) = f[x] + Sums(f, s \ {x})
      /\ Sums(g, s) = g[x] + Sums(g, s \ {x})
      /\ Sums(h, s) = h[x] + Sums(h, s \ {x})
  <2>1. \A y \in s : f[y] \in Int /\ g[y] \in Int /\ h[y] \in Int
    BY <1>3
  <2> HIDE DEF Bad
  <2> QED
    BY <1>3, <1>6, <2>1, SumsRec
<1>9. Sums(f, s \ {x}) \in Int /\ Sums(g, s \ {x}) \in Int
  <2>1. IsFiniteSet(s \ {x}) /\ \A y \in s \ {x} : f[y] \in Int /\ g[y] \in Int
    BY <1>3, FS_Subset
  <2> QED
    BY <2>1, SumsInt
<1> DEFINE sf == Sums(f, s \ {x})
           sg == Sums(g, s \ {x})
<1>10. /\ h[x] + (sf + sg) # (f[x] + sf) + (g[x] + sg)
      /\ sf \in Int /\ sg \in Int /\ f[x] \in Int /\ g[x] \in Int /\ h[x] = f[x] + g[x]
  BY <1>2, <1>3, <1>6, <1>7, <1>8, <1>9
<1> HIDE DEF Bad, sf, sg
<1> QED
  BY <1>10

(* A sum of natural numbers is a natural number.                           *)
LEMMA SumsNat ==
    ASSUME NEW ids, IsFiniteSet(ids), NEW f, \A x \in ids : f[x] \in Nat
    PROVE  Sums(f, ids) \in Nat
<1> DEFINE Bad == {s \in SUBSET ids : Sums(f, s) \notin Nat}
<1> SUFFICES ASSUME Bad # {} PROVE FALSE
  <2>1. ids \in SUBSET ids
    OBVIOUS
  <2> QED
    BY <2>1
<1>1. PICK s \in Bad : \A x \in s : s \ {x} \notin Bad
  <2>1. Bad \in SUBSET (SUBSET ids)
    OBVIOUS
  <2> HIDE DEF Bad
  <2> QED
    BY <2>1, LeastSubset
<1>2. s \in SUBSET ids /\ Sums(f, s) \notin Nat
  OBVIOUS
<1>3. IsFiniteSet(s) /\ \A x \in s : f[x] \in Int /\ f[x] \in Nat
  BY <1>2, FS_Subset
<1>4. Sums(f, {}) = 0
  BY <1>3, SumsRec
<1>5. PICK x \in s : TRUE
  BY <1>2, <1>4
<1>6. Sums(f, s \ {x}) \in Nat
  BY <1>1, <1>2
<1>7. Sums(f, s) = f[x] + Sums(f, s \ {x})
  BY <1>3, <1>5, SumsRec
<1> HIDE DEF Bad
<1> QED
  BY <1>2, <1>3, <1>5, <1>6, <1>7

(* A sum of natural numbers is at least the sum over a part.               *)
LEMMA SumsPart ==
    ASSUME NEW ids, IsFiniteSet(ids), NEW f, \A x \in ids : f[x] \in Nat, NEW some \in SUBSET ids
    PROVE  Sums(f, some) \in Nat /\ Sums(f, some) <= Sums(f, ids)
<1> DEFINE rest == ids \ some
<1>1. IsFiniteSet(some) /\ IsFiniteSet(rest) /\ some \cap rest = {} /\ some \cup rest = ids
  BY FS_Subset
<1>2. Sums(f, some \cup rest) = Sums(f, some) + Sums(f, rest)
  <2>1. \A x \in some \cup rest : f[x] \in Int
    OBVIOUS
  <2> HIDE DEF rest
  <2> QED
    BY <1>1, <2>1, SumsUnion
<1>3. Sums(f, some) \in Nat /\ Sums(f, rest) \in Nat
  <2>1. \A x \in rest : f[x] \in Nat
    OBVIOUS
  <2> HIDE DEF rest
  <2> QED
    BY <1>1, <2>1, SumsNat
<1>4. Sums(f, ids) = Sums(f, some) + Sums(f, rest)
  BY <1>1, <1>2
<1> HIDE DEF rest
<1> QED
  BY <1>3, <1>4

(* A sum is at most the bound of the values for each that is not zero.     *)
LEMMA SumsBound ==
    ASSUME NEW ids, IsFiniteSet(ids), NEW b \in Nat, NEW f \in [ids -> 0..b]
    PROVE  Sums(f, ids) \in Nat /\ Sums(f, ids) <= b * Cardinality({x \in ids : f[x] > 0})
<1> DEFINE Pos(s) == {x \in s : f[x] > 0}
           Bad == {s \in SUBSET ids : ~(Sums(f, s) <= b * Cardinality(Pos(s)))}
<1>1. Sums(f, ids) \in Nat
  BY SumsNat
<1> SUFFICES ASSUME Bad # {} PROVE FALSE
  <2>1. ids \in SUBSET ids
    OBVIOUS
  <2> QED
    BY <1>1, <2>1
<1>2. PICK s \in Bad : \A x \in s : s \ {x} \notin Bad
  <2>1. Bad \in SUBSET (SUBSET ids)
    OBVIOUS
  <2> HIDE DEF Bad
  <2> QED
    BY <2>1, LeastSubset
<1>3. s \in SUBSET ids /\ ~(Sums(f, s) <= b * Cardinality(Pos(s)))
  OBVIOUS
<1>4. IsFiniteSet(s) /\ IsFiniteSet(Pos(s)) /\ Cardinality(Pos(s)) \in Nat
  <2>1. Pos(s) \in SUBSET ids
    BY <1>3
  <2> QED
    BY <1>3, <2>1, FS_Subset, FS_CardinalityType
<1>5. s # {}
  <2>1. Sums(f, {}) = 0
    BY <1>4, SumsRec, FS_EmptySet
  <2>2. b * Cardinality(Pos(s)) \in Nat
    BY <1>4
  <2>3. s = {} => Sums(f, s) <= b * Cardinality(Pos(s))
    <3> HIDE DEF Pos
    <3> QED
      BY <2>1, <2>2
  <2> QED
    BY <1>3, <2>3
<1>6. PICK x \in s : TRUE
  BY <1>5
<1>7. Sums(f, s \ {x}) <= b * Cardinality(Pos(s \ {x}))
  BY <1>2, <1>3
<1>8. f[x] \in 0..b /\ Sums(f, s \ {x}) \in Nat /\ Sums(f, s) = f[x] + Sums(f, s \ {x})
  <2>1. \A y \in s : f[y] \in Nat /\ f[y] \in Int
    BY <1>3
  <2>2. IsFiniteSet(s \ {x})
    BY <1>4, FS_Subset
  <2> QED
    BY <1>3, <1>4, <2>1, <2>2, SumsNat, SumsRec
<1>9. CASE f[x] = 0
  <2>1. Pos(s \ {x}) = Pos(s)
    BY <1>9
  <2> HIDE DEF Pos
  <2> QED
    BY <1>3, <1>7, <1>8, <1>9, <2>1
<1>10. CASE f[x] # 0
  <2>1. x \in Pos(s) /\ Pos(s \ {x}) = Pos(s) \ {x}
    BY <1>6, <1>8, <1>10
  <2>2. Cardinality(Pos(s \ {x})) = Cardinality(Pos(s)) - 1
    <3> HIDE DEF Pos
    <3> QED
      BY <1>4, <2>1, FS_RemoveElement
  <2> DEFINE n == Cardinality(Pos(s))
             less == Sums(f, s \ {x})
             all == Sums(f, s)
  <2>3. less <= b * (n - 1) /\ less \in Nat /\ all = f[x] + less /\ ~(all <= b * n) /\ n \in Nat
    BY <1>3, <1>4, <1>7, <1>8, <2>2
  <2> HIDE DEF Bad, Pos, n, less, all
  <2>4. b * (n - 1) = b * n - b /\ b * n \in Nat
    BY <2>3
  <2> QED
    BY <1>8, <2>3, <2>4
<1> QED
  BY <1>9, <1>10

(* A finite set has subsets of every size up to its own.                   *)
LEMMA SomeOfSize ==
    ASSUME NEW ids, IsFiniteSet(ids), NEW k \in Nat, k <= Cardinality(ids)
    PROVE  kSubset(k, ids) # {}
<1> DEFINE B == {s \in SUBSET ids : Cardinality(s) >= k}
<1>1. PICK s \in B : \A x \in s : s \ {x} \notin B
  <2>1. B \in SUBSET (SUBSET ids) /\ ids \in B
    BY FS_CardinalityType
  <2> HIDE DEF B
  <2> QED
    BY <2>1, LeastSubset
<1>2. s \in SUBSET ids /\ IsFiniteSet(s) /\ Cardinality(s) \in Nat /\ Cardinality(s) >= k
  BY FS_Subset, FS_CardinalityType
<1>3. CASE s = {}
  BY <1>2, <1>3, FS_EmptySet DEF kSubset
<1>4. CASE s # {}
  <2>1. PICK x \in s : TRUE
    BY <1>4
  <2>2. Cardinality(s \ {x}) = Cardinality(s) - 1 /\ ~(Cardinality(s \ {x}) >= k)
    BY <1>1, <1>2, <2>1, FS_RemoveElement
  <2> QED
    BY <1>2, <2>2 DEF kSubset
<1> QED
  BY <1>3, <1>4

=============================================================================
