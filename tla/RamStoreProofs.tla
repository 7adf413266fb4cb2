--------------------------- MODULE RamStoreProofs ---------------------------
(***************************************************************************)
(* Lemmas about the operators of RamStore, for every ticket set, payload   *)
(* size and log length: what each operator does to each field, that it     *)
(* yields a store, and what it preserves.  Before them, the folds over     *)
(* sets, ordered lists and sums that they rest on.  The proofs about       *)
(* MemoryStore, Broker and Monitor cite them by name.                      *)
(***************************************************************************)
EXTENDS StoreProperties, FiniteSetTheorems, SequenceTheorems,
        WellFoundedInduction, TLAPS

-----------------------------------------------------------------------------
(***************************************************************************)
(* Folds over finite sets.  A fold of the community modules is a recursive *)
(* function on the subsets of a set; that there is one, and only one,      *)
(* follows from the well-founded order of the subsets: a subset where it   *)
(* fails and that has none below it is a contradiction.                    *)
(***************************************************************************)

(* Of a non-empty set of finite subsets some member has none below it.     *)
LEMMA SmallestSubset ==
  ASSUME NEW S, IsFiniteSet(S), NEW F, F \subseteq SUBSET S, F # {}
  PROVE  \E T \in F : \A U \in F : U \subseteq T => U = T
<1>1. IsWellFoundedOn(StrictSubsetOrdering(S), SUBSET S)
  BY FS_StrictSubsetOrderingWellFounded, FS_FiniteSubsetsOfFinite
<1>2. \E T \in F : \A U \in F : ~(<<U, T>> \in StrictSubsetOrdering(S))
  BY <1>1, WFMin
<1> QED  BY <1>2 DEF StrictSubsetOrdering

\* c names an element of each non-empty subset: the next one to be added.
Picks(c, S) == \A s \in SUBSET S : s # {} => c[s] \in s

\* st[<<x, v>>] is what x makes of the value v of the others.
FoldStep(g, b, st, c, s) == IF s = {} THEN b ELSE st[<<c[s], g[s \ {c[s]}]>>]

IsFold(g, b, st, c, S) == g = [s \in SUBSET S |-> FoldStep(g, b, st, c, s)]

(* Two folds of the same steps, taken in the same order, are the same.     *)
LEMMA FoldIsUnique ==
  ASSUME NEW S, IsFiniteSet(S), NEW b, NEW st, NEW c, Picks(c, S),
         NEW T \in SUBSET S, NEW g, NEW h, IsFold(g, b, st, c, S), IsFold(h, b, st, c, T)
  PROVE  \A s \in SUBSET T : g[s] = h[s]
<1> DEFINE F == {s \in SUBSET T : g[s] # h[s]}
<1> SUFFICES ASSUME F # {} PROVE FALSE
  OBVIOUS
<1>1. IsFiniteSet(T)
  BY FS_Subset
<1>2. PICK s \in F : \A u \in F : u \subseteq s => u = s
  <2> HIDE DEF F
  <2>1. F \subseteq SUBSET T  BY DEF F
  <2> QED  BY <1>1, <2>1, SmallestSubset
<1>3. s \in SUBSET S /\ s \in SUBSET T
  OBVIOUS
<1>4. g[s] = FoldStep(g, b, st, c, s) /\ h[s] = FoldStep(h, b, st, c, s)
  BY <1>3 DEF IsFold
<1>5. CASE s = {}
  BY <1>4, <1>5 DEF FoldStep
<1>6. CASE s # {}
  <2>1. c[s] \in s  BY <1>3, <1>6 DEF Picks
  <2>2. s \ {c[s]} \notin F /\ s \ {c[s]} \in SUBSET T
    BY <1>2, <2>1
  <2>3. g[s \ {c[s]}] = h[s \ {c[s]}]  BY <2>2
  <2> QED  BY <1>4, <1>6, <2>3 DEF FoldStep
<1> QED  BY <1>5, <1>6

(* There is a fold: put together from those over the smaller sets.         *)
LEMMA FoldExists ==
  ASSUME NEW S, IsFiniteSet(S), NEW b, NEW st, NEW c, Picks(c, S)
  PROVE  \E g : IsFold(g, b, st, c, S)
<1> DEFINE F == {T \in SUBSET S : ~\E g : IsFold(g, b, st, c, T)}
<1> SUFFICES ASSUME F # {} PROVE FALSE
  OBVIOUS
<1>1. PICK T \in F : \A U \in F : U \subseteq T => U = T
  <2> HIDE DEF F
  <2>1. F \subseteq SUBSET S  BY DEF F
  <2> QED  BY <2>1, SmallestSubset
<1> DEFINE G(U) == CHOOSE g : IsFold(g, b, st, c, U)
           h == [s \in SUBSET T |->
                   IF s = {} THEN b
                   ELSE st[<<c[s], G(s \ {c[s]})[s \ {c[s]}]>>]]
<1>2. T \in SUBSET S /\ ~\E g : IsFold(g, b, st, c, T)
  OBVIOUS
<1>3. \A U \in SUBSET T : U # T => IsFold(G(U), b, st, c, U)
  <2> TAKE U \in SUBSET T
  <2> HAVE U # T
  <2>1. \E g : IsFold(g, b, st, c, U)
    BY <1>1
  <2> HIDE DEF F
  <2> QED  BY <2>1
<1>4. \A s \in SUBSET T : s # {} => c[s] \in s
  BY <1>2 DEF Picks
<1> HIDE DEF F, G
<1>5. \A r \in SUBSET T : r # T => h[r] = G(r)[r]
  <2> TAKE r \in SUBSET T
  <2> HAVE r # T
  <2>1. G(r)[r] = FoldStep(G(r), b, st, c, r)
    BY <1>3 DEF IsFold
  <2>2. CASE r = {}
    BY <2>1, <2>2 DEF FoldStep
  <2>3. CASE r # {}
    <3> DEFINE q == r \ {c[r]}
    <3>1. c[r] \in r  BY <1>4, <2>3
    <3>2. q \in SUBSET r /\ q \in SUBSET T /\ q # T
      BY <3>1
    <3>3. IsFold(G(q), b, st, c, q) /\ IsFold(G(r), b, st, c, r)
      BY <1>3, <3>2
    <3>4. Picks(c, r) /\ IsFiniteSet(r)
      BY <1>2, <1>4, FS_Subset DEF Picks
    <3> HIDE DEF q
    <3>5. G(r)[q] = G(q)[q]
      BY <3>2, <3>3, <3>4, FoldIsUnique
    <3>6. h[r] = st[<<c[r], G(q)[q]>>]
      BY <2>3 DEF q
    <3>7. G(r)[r] = st[<<c[r], G(r)[q]>>]
      BY <2>1, <2>3 DEF FoldStep, q
    <3> QED  BY <3>5, <3>6, <3>7
  <2> QED  BY <2>2, <2>3
<1>6. \A s \in SUBSET T : h[s] = FoldStep(h, b, st, c, s)
  <2> TAKE s \in SUBSET T
  <2>1. CASE s = {}
    BY <2>1 DEF FoldStep
  <2>2. CASE s # {}
    <3>1. c[s] \in s  BY <1>4, <2>2
    <3>2. s \ {c[s]} \in SUBSET T /\ s \ {c[s]} # T
      BY <3>1
    <3>3. h[s \ {c[s]}] = G(s \ {c[s]})[s \ {c[s]}]
      BY <1>5, <3>2
    <3>4. h[s] = st[<<c[s], G(s \ {c[s]})[s \ {c[s]}]>>]
      BY <2>2
    <3> HIDE DEF h
    <3> QED  BY <2>2, <3>3, <3>4 DEF FoldStep
  <2> QED  BY <2>1, <2>2
<1>7. IsFold(h, b, st, c, T)
  <2>1. h = [s \in SUBSET T |-> h[s]]
    OBVIOUS
  <2> HIDE DEF h
  <2> QED  BY <1>6, <2>1 DEF IsFold
<1> QED  BY <1>2, <1>7

\* The steps do not leave a set V of values.
StaysIn(st, S, V) == \A x \in S, v \in V : st[<<x, v>>] \in V

\* h takes these steps, at least as long as it has a value in V.
Takes(h, b, st, c, S, V) ==
  /\ h[{}] = b
  /\ \A s \in SUBSET S :
       s # {} /\ h[s \ {c[s]}] \in V => h[s] = st[<<c[s], h[s \ {c[s]}]>>]

(* Steps that keep to a set V of values keep the fold in it; and what      *)
(* takes the same steps as long as it is in V is the fold.                 *)
LEMMA FoldStaysIn ==
  ASSUME NEW S, IsFiniteSet(S), NEW V, NEW b \in V, NEW st, StaysIn(st, S, V),
         NEW c, Picks(c, S), NEW h, Takes(h, b, st, c, S, V)
  PROVE  \A s \in SUBSET S : h[s] \in V /\ h[s] = FoldStep(h, b, st, c, s)
<1>0. \A s \in SUBSET S : s # {} => c[s] \in s
  BY DEF Picks
<1>1. /\ h[{}] = b /\ \A x \in S, v \in V : st[<<x, v>>] \in V
      /\ \A s \in SUBSET S :
           s # {} /\ h[s \ {c[s]}] \in V => h[s] = st[<<c[s], h[s \ {c[s]}]>>]
  BY DEF Takes, StaysIn
<1>2. \A s \in SUBSET S : h[s] \in V
  <2> DEFINE F == {s \in SUBSET S : h[s] \notin V}
  <2> SUFFICES ASSUME F # {} PROVE FALSE
    OBVIOUS
  <2>1. PICK s \in F : \A u \in F : u \subseteq s => u = s
    <3> HIDE DEF F
    <3>1. F \subseteq SUBSET S  BY DEF F
    <3> QED  BY <3>1, SmallestSubset
  <2>2. s \in SUBSET S /\ h[s] \notin V /\ s # {}
    BY <1>1
  <2>3. c[s] \in s /\ s \ {c[s]} \in SUBSET S /\ s \ {c[s]} # s
    BY <1>0, <2>2
  <2>4. h[s \ {c[s]}] \in V
    BY <2>1, <2>3
  <2> HIDE DEF F
  <2> QED  BY <1>1, <2>2, <2>3, <2>4
<1>3. \A s \in SUBSET S : h[s] = FoldStep(h, b, st, c, s)
  <2> TAKE s \in SUBSET S
  <2>1. s \ {c[s]} \in SUBSET S
    OBVIOUS
  <2>2. h[s \ {c[s]}] \in V
    BY <1>2, <2>1
  <2> QED  BY <1>1, <2>2 DEF FoldStep
<1> QED  BY <1>2, <1>3

-----------------------------------------------------------------------------
(***************************************************************************)
(* Finite sets in order                                                    *)
(***************************************************************************)

\* R relates each two elements of S in one direction, without a cycle.
Orders(R, S) ==
  /\ \A x \in S : <<x, x>> \notin R
  /\ \A x, y \in S : x = y \/ <<x, y>> \in R \/ <<y, x>> \in R
  /\ \A x, y, z \in S : <<x, y>> \in R /\ <<y, z>> \in R => <<x, z>> \in R

(* A finite set that is not empty has a last element.                      *)
LEMMA LastElement ==
  ASSUME NEW S, IsFiniteSet(S), NEW R, Orders(R, S)
  PROVE  \A T \in SUBSET S : T # {} => \E m \in T : \A x \in T : x = m \/ <<x, m>> \in R
<1> DEFINE Last(T, m) == m \in T /\ \A x \in T : x = m \/ <<x, m>> \in R
           F == {T \in SUBSET S : T # {} /\ ~\E m : Last(T, m)}
<1> SUFFICES ASSUME F # {} PROVE FALSE
  OBVIOUS
<1>1. PICK T \in F : \A U \in F : U \subseteq T => U = T
  <2> HIDE DEF F
  <2>1. F \subseteq SUBSET S  BY DEF F
  <2> QED  BY <2>1, SmallestSubset
<1>2. PICK y : y \in T
  OBVIOUS
<1>3. CASE T \ {y} = {}
  <2>1. Last(T, y)
    BY <1>2, <1>3
  <2> QED  BY <2>1
<1>4. CASE T \ {y} # {}
  <2>1. T \ {y} \in SUBSET S /\ T \ {y} \notin F
    BY <1>1, <1>2
  <2>2. PICK m : Last(T \ {y}, m)
    BY <1>4, <2>1
  <2>3. CASE <<y, m>> \in R
    <3>1. Last(T, m)
      BY <2>2, <2>3
    <3> QED  BY <3>1
  <2>4. CASE <<m, y>> \in R
    <3>1. Last(T, y)
      BY <1>2, <2>1, <2>2, <2>4 DEF Orders
    <3> QED  BY <3>1
  <2>5. y \in S /\ m \in S /\ y # m
    BY <1>2, <2>1, <2>2
  <2> QED  BY <2>3, <2>4, <2>5 DEF Orders
<1> QED  BY <1>3, <1>4

\* q lists the elements of S in order.
ListsInOrder(q, R, S) ==
  /\ q \in [1..Cardinality(S) -> S]
  /\ \A m, n \in 1..Cardinality(S) : m < n => <<q[m], q[n]>> \in R

(* A finite set can be listed in order ...                                 *)
LEMMA OrderedListExists ==
  ASSUME NEW S, IsFiniteSet(S), NEW R, Orders(R, S)
  PROVE  \E q : ListsInOrder(q, R, S)
<1> DEFINE F == {T \in SUBSET S : ~\E q : ListsInOrder(q, R, T)}
<1> SUFFICES ASSUME F # {} PROVE FALSE
  OBVIOUS
<1>1. PICK T \in F : \A U \in F : U \subseteq T => U = T
  <2> HIDE DEF F
  <2>1. F \subseteq SUBSET S  BY DEF F
  <2> QED  BY <2>1, SmallestSubset
<1>2. T \in SUBSET S /\ IsFiniteSet(T) /\ ~\E q : ListsInOrder(q, R, T)
  BY FS_Subset
<1>3. CASE T = {}
  <2>1. Cardinality(T) = 0
    BY <1>3, FS_EmptySet
  <2>2. ListsInOrder([n \in 1..Cardinality(T) |-> n], R, T)
    BY <2>1 DEF ListsInOrder
  <2> QED  BY <1>2, <2>2
<1>4. CASE T # {}
  <2>1. PICK x \in T : \A y \in T : y = x \/ <<y, x>> \in R
    BY <1>2, <1>4, LastElement
  <2> DEFINE U == T \ {x}
             k == Cardinality(T)
  <2>2. /\ U \in SUBSET S /\ U # T /\ U \subseteq T /\ x \notin U
        /\ k \in Nat /\ Cardinality(U) = k - 1 /\ Cardinality(U) \in Nat
    BY <1>2, <2>1, FS_RemoveElement, FS_CardinalityType
  <2>3. PICK q : ListsInOrder(q, R, U)
    BY <1>1, <2>2
  <2> HIDE DEF U, k
  <2> DEFINE p == [n \in 1..k |-> IF n = k THEN x ELSE q[n]]
  <2>4. \A n \in 1..k : n # k => q[n] \in U
    BY <2>2, <2>3 DEF ListsInOrder
  <2>5. p \in [1..k -> T]
    BY <2>1, <2>2, <2>4
  <2>6. ASSUME NEW m \in 1..k, NEW n \in 1..k, m < n
        PROVE  <<p[m], p[n]>> \in R
    <3>1. m # k /\ p[m] = q[m] /\ q[m] \in U
      BY <2>2, <2>4, <2>6
    <3>2. CASE n = k
      BY <2>1, <2>2, <3>1, <3>2
    <3>3. CASE n # k
      BY <2>2, <2>3, <2>6, <3>1, <3>3 DEF ListsInOrder
    <3> QED  BY <3>2, <3>3
  <2>7. ListsInOrder(p, R, T)
    BY <2>5, <2>6 DEF ListsInOrder, k
  <2> QED  BY <1>2, <2>7
<1> QED  BY <1>3, <1>4

(* ... and then each element comes once.                                   *)
LEMMA OrderedListIsBijective ==
  ASSUME NEW S, IsFiniteSet(S), NEW R, Orders(R, S), NEW q, ListsInOrder(q, R, S)
  PROVE  /\ Cardinality(S) \in Nat
         /\ \A m, n \in 1..Cardinality(S) : q[m] = q[n] => m = n
         /\ \A x \in S : \E n \in 1..Cardinality(S) : q[n] = x
<1> DEFINE D == 1..Cardinality(S)
<1>1. Cardinality(S) \in Nat
  BY FS_CardinalityType
<1>2. ASSUME NEW m \in D, NEW n \in D, q[m] = q[n]
      PROVE  m = n
  <2>1. q[m] \in S
    BY DEF ListsInOrder
  <2>2. ~(m < n) /\ ~(n < m)
    BY <1>2, <2>1 DEF ListsInOrder, Orders
  <2> QED  BY <1>1, <2>2
<1>3. q \in Injection(D, S)
  BY <1>2 DEF Injection, IsInjective, ListsInOrder
<1>4. Cardinality(D) = Cardinality(S)
  BY <1>1, FS_Interval
<1>5. q \in Surjection(D, S)
  BY <1>3, <1>4, FS_Injection
<1> QED  BY <1>1, <1>2, <1>5 DEF Surjection

-----------------------------------------------------------------------------
(***************************************************************************)
(* Sums over finite sets: folds whose order does not matter.               *)
(***************************************************************************)

SumStep(g, w, c, s) == IF s = {} THEN 0 ELSE w[c[s]] + g[s \ {c[s]}]

IsSum(g, w, c, S) == g = [s \in SUBSET S |-> SumStep(g, w, c, s)]

Adds(w, S) == [p \in S \X Nat |-> w[p[1]] + p[2]]

(* A sum of natural numbers is a fold, and a natural number.               *)
LEMMA SumIsFold ==
  ASSUME NEW S, IsFiniteSet(S), NEW w, \A x \in S : w[x] \in Nat,
         NEW T \in SUBSET S, NEW c, Picks(c, S), NEW g
  PROVE  /\ IsSum(g, w, c, T) <=> IsFold(g, 0, Adds(w, S), c, T)
         /\ IsSum(g, w, c, T) => \A s \in SUBSET T : g[s] \in Nat
<1> DEFINE st == Adds(w, S)
           N == Nat
<1>1. \A x \in S, v \in N : st[<<x, v>>] = w[x] + v
  BY DEF Adds
<1>2. /\ IsFiniteSet(T) /\ Picks(c, T) /\ 0 \in N
      /\ StaysIn(st, T, N)
      /\ \A s \in SUBSET T : s # {} => c[s] \in S
  BY <1>1, FS_Subset DEF Picks, StaysIn
<1> HIDE DEF st, N
<1>3. ASSUME IsSum(g, w, c, T)
      PROVE  IsFold(g, 0, st, c, T) /\ \A s \in SUBSET T : g[s] \in N
  <2>1. g = [s \in SUBSET T |-> g[s]] /\ \A s \in SUBSET T : g[s] = SumStep(g, w, c, s)
    BY <1>3 DEF IsSum
  <2>2. Takes(g, 0, st, c, T, N)
    BY <1>1, <1>2, <2>1 DEF SumStep, Takes
  <2>3. \A s \in SUBSET T : g[s] \in N /\ g[s] = FoldStep(g, 0, st, c, s)
    BY <1>2, <2>2, FoldStaysIn
  <2> QED  BY <2>1, <2>3 DEF IsFold
<1>4. ASSUME IsFold(g, 0, st, c, T)
      PROVE  IsSum(g, w, c, T)
  <2>1. g = [s \in SUBSET T |-> g[s]] /\ \A s \in SUBSET T : g[s] = FoldStep(g, 0, st, c, s)
    BY <1>4 DEF IsFold
  <2>2. \A s \in SUBSET T : g[s] \in N
    <3>1. Takes(g, 0, st, c, T, N)
      BY <2>1 DEF FoldStep, Takes
    <3> QED  BY <1>2, <3>1, FoldStaysIn
  <2>3. \A s \in SUBSET T : FoldStep(g, 0, st, c, s) = SumStep(g, w, c, s)
    <3> TAKE s \in SUBSET T
    <3>1. s \ {c[s]} \in SUBSET T
      OBVIOUS
    <3>2. g[s \ {c[s]}] \in N
      BY <2>2, <3>1
    <3> QED  BY <1>1, <1>2, <3>2 DEF SumStep, FoldStep
  <2> QED  BY <2>1, <2>3 DEF IsSum
<1> QED  BY <1>3, <1>4 DEF st, N

(* Two sums of the same numbers, taken in the same order, are the same.    *)
LEMMA SumIsUnique ==
  ASSUME NEW S, IsFiniteSet(S), NEW w, \A x \in S : w[x] \in Nat, NEW c, Picks(c, S),
         NEW T \in SUBSET S, NEW g, NEW h, IsSum(g, w, c, S), IsSum(h, w, c, T)
  PROVE  \A s \in SUBSET T : g[s] = h[s]
<1>1. IsFold(g, 0, Adds(w, S), c, S) /\ IsFold(h, 0, Adds(w, S), c, T)
  BY SumIsFold
<1> QED  BY <1>1, FoldIsUnique

LEMMA SumExists ==
  ASSUME NEW S, IsFiniteSet(S), NEW w, \A x \in S : w[x] \in Nat, NEW c, Picks(c, S)
  PROVE  \E g : IsSum(g, w, c, S)
<1>1. \E g : IsFold(g, 0, Adds(w, S), c, S)
  BY FoldExists
<1> QED  BY <1>1, SumIsFold

(* The sum is a number, and any element may be taken out first.            *)
LEMMA SumTakes ==
  ASSUME NEW S, IsFiniteSet(S), NEW w, \A x \in S : w[x] \in Nat,
         NEW c, Picks(c, S), NEW g, IsSum(g, w, c, S)
  PROVE  /\ \A s \in SUBSET S : g[s] \in Nat
         /\ \A s \in SUBSET S : \A x \in s : g[s] = w[x] + g[s \ {x}]
<1>0. /\ \A s \in SUBSET S : g[s] = SumStep(g, w, c, s)
      /\ \A s \in SUBSET S : s # {} => c[s] \in s
  BY DEF IsSum, Picks
<1>1. \A s \in SUBSET S : g[s] \in Nat
  BY SumIsFold
<1>2. \A s \in SUBSET S : \A x \in s : g[s] = w[x] + g[s \ {x}]
  <2> DEFINE F == {s \in SUBSET S : \E x \in s : g[s] # w[x] + g[s \ {x}]}
  <2> SUFFICES ASSUME F # {} PROVE FALSE
    OBVIOUS
  <2>1. PICK s \in F : \A u \in F : u \subseteq s => u = s
    <3> HIDE DEF F
    <3>1. F \subseteq SUBSET S  BY DEF F
    <3> QED  BY <3>1, SmallestSubset
  <2>2. PICK x \in s : g[s] # w[x] + g[s \ {x}]
    OBVIOUS
  <2> DEFINE y == c[s]
  <2>3. y \in s
    BY <1>0
  <2>4. g[s] = w[y] + g[s \ {y}]
    BY <1>0 DEF SumStep
  <2>5. x # y
    BY <2>2, <2>4
  <2>6. s \ {y} \notin F /\ s \ {x} \notin F
    BY <2>1, <2>2, <2>3
  <2> HIDE DEF y
  <2>7. /\ g[s \ {y}] = w[x] + g[(s \ {y}) \ {x}]
        /\ g[s \ {x}] = w[y] + g[(s \ {x}) \ {y}]
    BY <2>2, <2>3, <2>5, <2>6
  <2>8. (s \ {y}) \ {x} = (s \ {x}) \ {y}
    OBVIOUS
  <2>9. w[x] \in Nat /\ w[y] \in Nat /\ g[(s \ {x}) \ {y}] \in Nat
    BY <1>1, <2>2, <2>3
  <2>10. w[y] + (w[x] + g[(s \ {x}) \ {y}]) = w[x] + (w[y] + g[(s \ {x}) \ {y}])
    BY <2>9
  <2> HIDE DEF F
  <2> QED  BY <2>2, <2>4, <2>7, <2>8, <2>10
<1> QED  BY <1>1, <1>2

\* The sum of w[t] for the t in S.
Total(w, S) == MapThenSumSet(LAMBDA t : w[t], S)

AnyOf(S) == [s \in SUBSET S |-> CHOOSE x \in s : TRUE]

(* CHOOSE is one way to pick.                                              *)
LEMMA AnyPicks == \A S : Picks(AnyOf(S), S)
BY DEF Picks, AnyOf

(* The fold is the function that the lemmas above are about.               *)
LEMMA TotalIsSum ==
  ASSUME NEW S, IsFiniteSet(S), NEW w, \A x \in S : w[x] \in Nat,
         NEW g, IsSum(g, w, AnyOf(S), S)
  PROVE  Total(w, S) = g[S]
<1> DEFINE P(h) == h = [s \in SUBSET S |->
                     IF s = {} THEN 0
                     ELSE w[CHOOSE x \in s : TRUE] + h[s \ {CHOOSE x \in s : TRUE}]]
<1>1. Total(w, S) = (CHOOSE h : P(h))[S]
  BY DEF Total, MapThenSumSet, MapThenFoldSet
<1>2. \A h : P(h) <=> IsSum(h, w, AnyOf(S), S)
  <2> TAKE h
  <2> DEFINE a(s) == CHOOSE x \in s : TRUE
  <2>1. \A s \in SUBSET S : AnyOf(S)[s] = a(s)
    BY DEF AnyOf
  <2>2. P(h) <=> h = [s \in SUBSET S |-> IF s = {} THEN 0 ELSE w[a(s)] + h[s \ {a(s)}]]
    OBVIOUS
  <2> HIDE DEF a, P
  <2>3. \A s \in SUBSET S : SumStep(h, w, AnyOf(S), s) = IF s = {} THEN 0 ELSE w[a(s)] + h[s \ {a(s)}]
    BY <2>1 DEF SumStep
  <2> QED  BY <2>2, <2>3 DEF IsSum
<1> HIDE DEF P
<1>3. P(CHOOSE h : P(h))
  BY <1>2
<1>4. (CHOOSE h : P(h))[S] = g[S]
  BY <1>2, <1>3, SumIsUnique, AnyPicks
<1> QED  BY <1>1, <1>4

(* What a sum is: a natural number, zero for nothing, and otherwise any    *)
(* element and the sum of the others.                                      *)
LEMMA TotalFacts ==
  ASSUME NEW S, IsFiniteSet(S), NEW w, \A x \in S : w[x] \in Nat
  PROVE  /\ Total(w, S) \in Nat
         /\ S = {} => Total(w, S) = 0
         /\ \A x \in S : Total(w, S) = w[x] + Total(w, S \ {x})
<1>1. PICK g : IsSum(g, w, AnyOf(S), S)
  BY SumExists, AnyPicks
<1>2. Total(w, S) = g[S]
  BY <1>1, TotalIsSum
<1>3. /\ \A s \in SUBSET S : g[s] \in Nat
      /\ \A s \in SUBSET S : \A x \in s : g[s] = w[x] + g[s \ {x}]
  BY <1>1, SumTakes, AnyPicks
<1>4. S = {} => g[S] = 0
  BY <1>1 DEF IsSum, SumStep
<1>5. ASSUME NEW x \in S
      PROVE  Total(w, S \ {x}) = g[S \ {x}]
  <2> DEFINE T == S \ {x}
  <2>1. IsFiniteSet(T) /\ T \in SUBSET S
    BY FS_Subset
  <2> HIDE DEF T
  <2>2. PICK h : IsSum(h, w, AnyOf(T), T)
    BY <2>1, SumExists, AnyPicks
  <2>3. IsSum(h, w, AnyOf(S), T)
    <3>1. \A s \in SUBSET T : AnyOf(T)[s] = AnyOf(S)[s]
      BY <2>1 DEF AnyOf
    <3>2. \A s \in SUBSET T : SumStep(h, w, AnyOf(T), s) = SumStep(h, w, AnyOf(S), s)
      BY <3>1 DEF SumStep
    <3> QED  BY <2>2, <3>2 DEF IsSum
  <2>4. g[T] = h[T]
    BY <1>1, <2>1, <2>3, SumIsUnique, AnyPicks
  <2> QED  BY <2>1, <2>2, <2>4, TotalIsSum DEF T
<1> QED  BY <1>2, <1>3, <1>4, <1>5

(* The order of the additions does not matter.                             *)
LEMMA TotalInAnyOrder ==
  ASSUME NEW S, IsFiniteSet(S), NEW w, \A x \in S : w[x] \in Nat,
         NEW c, Picks(c, S), NEW g, IsSum(g, w, c, S)
  PROVE  Total(w, S) = g[S]
<1>1. /\ \A s \in SUBSET S : g[s] \in Nat
      /\ \A s \in SUBSET S : \A x \in s : g[s] = w[x] + g[s \ {x}]
  BY SumTakes
<1>2. \A s \in SUBSET S : SumStep(g, w, c, s) = SumStep(g, w, AnyOf(S), s)
  <2> TAKE s \in SUBSET S
  <2>1. s # {} => c[s] \in s /\ AnyOf(S)[s] \in s
    BY AnyPicks DEF Picks
  <2> QED  BY <1>1, <2>1 DEF SumStep
<1>3. IsSum(g, w, AnyOf(S), S)
  BY <1>2 DEF IsSum
<1> QED  BY <1>3, TotalIsSum

(* A sum depends on the numbers of its elements and on nothing else.       *)
LEMMA TotalDepends ==
  ASSUME NEW S, IsFiniteSet(S), NEW w, \A x \in S : w[x] \in Nat,
         NEW v, \A x \in S : w[x] = v[x]
  PROVE  Total(w, S) = Total(v, S)
<1>1. PICK g : IsSum(g, w, AnyOf(S), S)
  BY SumExists, AnyPicks
<1>2. \A s \in SUBSET S : SumStep(g, w, AnyOf(S), s) = SumStep(g, v, AnyOf(S), s)
  <2> TAKE s \in SUBSET S
  <2>1. s # {} => AnyOf(S)[s] \in S
    BY AnyPicks DEF Picks
  <2> QED  BY <2>1 DEF SumStep
<1>3. IsSum(g, v, AnyOf(S), S)
  BY <1>1, <1>2 DEF IsSum
<1> QED  BY <1>1, <1>3, TotalIsSum

(* What is added up along a list of a set adds up to the sum over the set. *)
LEMMA TotalOfList ==
  ASSUME NEW S, IsFiniteSet(S), NEW w, \A x \in S : w[x] \in Nat,
         NEW k \in Nat, NEW q \in [1..k -> S],
         \A m, n \in 1..k : q[m] = q[n] => m = n,
         \A x \in S : \E n \in 1..k : q[n] = x,
         NEW v, \A n \in 1..k : v[n] = w[q[n]]
  PROVE  Total(v, 1..k) = Total(w, S)
<1> DEFINE D == 1..k
           At(T) == {q[n] : n \in T}
           F == {T \in SUBSET D : Total(v, T) # Total(w, At(T))}
<1>1. IsFiniteSet(D) /\ \A n \in D : v[n] \in Nat
  <2>1. IsFiniteSet(D)
    BY FS_Interval
  <2>2. \A n \in D : v[n] \in Nat
    OBVIOUS
  <2> QED  BY <2>1, <2>2
<1>2. At(D) = S
  OBVIOUS
<1> SUFFICES ASSUME F # {} PROVE FALSE
  BY <1>2
<1> HIDE DEF D
<1>3. PICK T \in F : \A U \in F : U \subseteq T => U = T
  <2> HIDE DEF F
  <2>1. F \subseteq SUBSET D  BY DEF F
  <2> QED  BY <1>1, <2>1, SmallestSubset
<1>4. T \in SUBSET D /\ Total(v, T) # Total(w, At(T))
  OBVIOUS
<1>5. /\ IsFiniteSet(T) /\ \A n \in T : v[n] \in Nat
      /\ At(T) \subseteq S /\ IsFiniteSet(At(T)) /\ \A x \in At(T) : w[x] \in Nat
  <2>1. At(T) \subseteq S  BY <1>4 DEF D
  <2>2. IsFiniteSet(At(T))  BY <2>1, FS_Subset
  <2> QED  BY <1>1, <1>4, <2>1, <2>2, FS_Subset
<1>6. CASE T = {}
  <2>1. At(T) = {}
    BY <1>6
  <2> HIDE DEF At
  <2> QED  BY <1>4, <1>5, <1>6, <2>1, TotalFacts
<1>7. CASE T # {}
  <2>1. PICK n \in T : TRUE
    BY <1>7
  <2>2. T \ {n} \in SUBSET D /\ T \ {n} \notin F
    BY <1>3, <1>4, <2>1
  <2>3. At(T \ {n}) = At(T) \ {q[n]} /\ q[n] \in At(T)
    BY <1>4, <2>1 DEF D
  <2>4. Total(v, T) = v[n] + Total(v, T \ {n})
    BY <1>5, <2>1, TotalFacts
  <2>5. Total(v, T \ {n}) = Total(w, At(T \ {n}))
    BY <2>2
  <2> HIDE DEF At, F
  <2>6. Total(w, At(T)) = w[q[n]] + Total(w, At(T) \ {q[n]})
    <3> DEFINE I == At(T)
               y == q[n]
    <3>1. IsFiniteSet(I) /\ (\A x \in I : w[x] \in Nat) /\ y \in I
      BY <1>5, <2>3
    <3> HIDE DEF I, y
    <3>2. Total(w, I) = w[y] + Total(w, I \ {y})
      BY <3>1, TotalFacts
    <3> QED  BY <3>2 DEF I, y
  <2> QED  BY <1>4, <2>1, <2>3, <2>4, <2>5, <2>6 DEF D
<1> QED  BY <1>6, <1>7

-----------------------------------------------------------------------------

(* The event a removal logs.                                               *)
PurgeEvent(s, t, r) ==
  [seq |-> s.seq + 1, action |-> r, tx_id |-> t,
   size_bytes |-> Size[s.data[t].payload]]

StageEvent(s, t, p) ==
  [seq |-> s.seq + 1, action |-> "STAGE", tx_id |-> t, size_bytes |-> Size[p]]

(* Pushing keeps the log a sequence of events of bounded length, at least  *)
(* one long (deque(maxlen), memory_store.py:74).                           *)
LEMMA PushType ==
  ASSUME NEW log \in Seq(Event), NEW e \in Event, Len(log) <= RAM_EVENT_LOG_SIZE
  PROVE  /\ Push(log, e) \in Seq(Event)
         /\ Len(Push(log, e)) = IF Len(log) < RAM_EVENT_LOG_SIZE
                                THEN Len(log) + 1 ELSE Len(log)
         /\ \A i \in 1..Len(Push(log, e)) :
              Push(log, e)[i] =
                IF i = Len(Push(log, e)) THEN e
                ELSE IF Len(log) < RAM_EVENT_LOG_SIZE THEN log[i] ELSE log[i + 1]
<1>1. Len(log) \in Nat /\ RAM_EVENT_LOG_SIZE \in Nat \ {0}
  BY RamStoreAssumption
<1>2. CASE Len(log) < RAM_EVENT_LOG_SIZE
  BY <1>1, <1>2 DEF Push
<1>3. CASE ~(Len(log) < RAM_EVENT_LOG_SIZE)
  <2>1. log # <<>> /\ Len(log) = RAM_EVENT_LOG_SIZE
    BY <1>1, <1>3
  <2>2. /\ Tail(log) \in Seq(Event)
        /\ Len(Tail(log)) = Len(log) - 1
        /\ \A i \in 1..Len(Tail(log)) : Tail(log)[i] = log[i + 1]
    BY <2>1
  <2> QED  BY <1>1, <1>3, <2>1, <2>2 DEF Push
<1> QED  BY <1>2, <1>3

(* The same, seen as a shift: log2 is log moved down by d places (d = 1    *)
(* once the deque is full) with the event at its end.                      *)
Shifted(log, log2, e, d) ==
  /\ d = 0 <=> Len(log) < RAM_EVENT_LOG_SIZE
  /\ Len(log2) = Len(log) + 1 - d
  /\ log2[Len(log2)] = e
  /\ \A i \in 1..Len(log2) :
       i # Len(log2) => i + d \in 1..Len(log) /\ log2[i] = log[i + d]

LEMMA PushShift ==
  ASSUME NEW log \in Seq(Event), NEW log2, NEW e \in Event,
         Len(log) <= RAM_EVENT_LOG_SIZE, log2 = Push(log, e)
  PROVE  \E d \in {0, 1} : Shifted(log, log2, e, d)
<1>0. /\ Len(log) \in Nat /\ RAM_EVENT_LOG_SIZE \in Nat \ {0}
      /\ log2 \in Seq(Event)
      /\ Len(log2) = IF Len(log) < RAM_EVENT_LOG_SIZE THEN Len(log) + 1 ELSE Len(log)
  BY PushType, RamStoreAssumption
<1>1. \A i \in 1..Len(log2) :
        log2[i] = IF i = Len(log2) THEN e
                  ELSE IF Len(log) < RAM_EVENT_LOG_SIZE THEN log[i] ELSE log[i + 1]
  BY PushType
<1>2. CASE Len(log) < RAM_EVENT_LOG_SIZE
  <2>1. Len(log2) = Len(log) + 1 - 0 /\ log2[Len(log2)] = e
    BY <1>0, <1>1, <1>2
  <2>2. \A i \in 1..Len(log2) :
          i # Len(log2) => i + 0 \in 1..Len(log) /\ log2[i] = log[i + 0]
    BY <1>0, <1>1, <1>2, <2>1
  <2> QED  BY <1>2, <2>1, <2>2 DEF Shifted
<1>3. CASE ~(Len(log) < RAM_EVENT_LOG_SIZE)
  <2>1. Len(log2) = Len(log) + 1 - 1 /\ log2[Len(log2)] = e
    BY <1>0, <1>1, <1>3
  <2>2. \A i \in 1..Len(log2) :
          i # Len(log2) => i + 1 \in 1..Len(log) /\ log2[i] = log[i + 1]
    BY <1>0, <1>1, <1>3, <2>1
  <2> QED  BY <1>3, <2>1, <2>2 DEF Shifted
<1> QED  BY <1>2, <1>3

(* Logging changes the log and the sequence number, nothing else           *)
(* (_log_event, memory_store.py:83-102).                                   *)
LEMMA LogEventFields ==
  ASSUME NEW s \in Store, NEW action \in Reasons \cup {"STAGE"},
         NEW t \in TxIds, NEW size \in Nat
  PROVE  LET s2 == LogEvent(s, action, t, size)
             e  == [seq |-> s.seq + 1, action |-> action, tx_id |-> t,
                    size_bytes |-> size] IN
         /\ s2.data = s.data
         /\ s2.total_staged = s.total_staged
         /\ s2.total_retrieved = s.total_retrieved
         /\ s2.total_purged_expired = s.total_purged_expired
         /\ s2.bytes_staged = s.bytes_staged
         /\ s2.bytes_wiped = s.bytes_wiped
         /\ s2.seq = s.seq + 1
         /\ s2.events = Push(s.events, e)
         /\ e \in Event
BY DEF LogEvent, Store, Event

LEMMA LogEventType ==
  ASSUME NEW s \in Store, NEW action \in Reasons \cup {"STAGE"},
         NEW t \in TxIds, NEW size \in Nat,
         Len(s.events) <= RAM_EVENT_LOG_SIZE
  PROVE  /\ LogEvent(s, action, t, size) \in Store
         /\ Len(LogEvent(s, action, t, size).events) <= RAM_EVENT_LOG_SIZE
<1> DEFINE e == [seq |-> s.seq + 1, action |-> action, tx_id |-> t,
                 size_bytes |-> size]
           log == Push(s.events, e)
           n == s.seq + 1
<1>1. e \in Event  BY DEF Store, Event
<1>2. /\ s.events \in Seq(Event) /\ Len(s.events) \in Nat
      /\ n \in Nat /\ RAM_EVENT_LOG_SIZE \in Nat
  BY RamStoreAssumption DEF Store
<1>3. LogEvent(s, action, t, size) = [s EXCEPT !.seq = n, !.events = log]
  BY DEF LogEvent
<1> HIDE DEF e, n
<1>4. log \in Seq(Event) /\ Len(log) <= RAM_EVENT_LOG_SIZE
  BY <1>1, <1>2, PushType
<1> HIDE DEF log
<1>5. /\ [s EXCEPT !.seq = n, !.events = log] \in Store
      /\ [s EXCEPT !.seq = n, !.events = log].events = log
  BY <1>2, <1>4 DEF Store
<1> QED  BY <1>3, <1>4, <1>5

(* What wiping a held entry does to each field (_purge_one,                *)
(* memory_store.py:237-262).                                               *)
LEMMA PurgeHeldFields ==
  ASSUME NEW s \in Store, NEW t \in Held(s), NEW r \in Reasons
  PROVE  LET s2 == PurgeOne(s, t, r) IN
         /\ s2.data = [s.data EXCEPT ![t] = None]
         /\ s2.total_staged = s.total_staged
         /\ s2.total_retrieved = s.total_retrieved
         /\ s2.total_purged_expired = s.total_purged_expired
         /\ s2.events = Push(s.events, PurgeEvent(s, t, r))
         /\ s2.seq = s.seq + 1
         /\ PurgeEvent(s, t, r) \in Event
         /\ Len(s.events) <= RAM_EVENT_LOG_SIZE =>
              s2 \in Store /\ Len(s2.events) <= RAM_EVENT_LOG_SIZE
<1> DEFINE size == Size[s.data[t].payload]
           d  == [s.data EXCEPT ![t] = None]
           n == s.bytes_wiped + size
           s1 == [s EXCEPT !.data = d, !.bytes_wiped = n]
<1>1. t \in TxIds /\ size \in Nat
  BY RamStoreAssumption DEF Held, Store, Entry
<1>0. d \in [TxIds -> Entry \cup {None}] /\ n \in Nat
  BY <1>1 DEF Store
<1>2. PurgeOne(s, t, r) = LogEvent(s1, r, t, size)
  BY DEF Held, PurgeOne, PurgeHeld
<1>3. PurgeEvent(s, t, r) = [seq |-> s.seq + 1, action |-> r, tx_id |-> t,
                             size_bytes |-> size]
  BY DEF PurgeEvent
<1> HIDE DEF size, d, n
<1>4. /\ s1 \in Store
      /\ s1.data = d
      /\ s1.total_staged = s.total_staged
      /\ s1.total_retrieved = s.total_retrieved
      /\ s1.total_purged_expired = s.total_purged_expired
      /\ s1.events = s.events
      /\ s1.seq = s.seq
  BY <1>0 DEF Store
<1> HIDE DEF s1
<1>5. /\ LogEvent(s1, r, t, size).data = d
      /\ LogEvent(s1, r, t, size).total_staged = s.total_staged
      /\ LogEvent(s1, r, t, size).total_retrieved = s.total_retrieved
      /\ LogEvent(s1, r, t, size).total_purged_expired = s.total_purged_expired
      /\ LogEvent(s1, r, t, size).events = Push(s.events, PurgeEvent(s, t, r))
      /\ LogEvent(s1, r, t, size).seq = s.seq + 1
      /\ PurgeEvent(s, t, r) \in Event
  BY <1>1, <1>3, <1>4, LogEventFields
<1>6. Len(s.events) <= RAM_EVENT_LOG_SIZE =>
        /\ LogEvent(s1, r, t, size) \in Store
        /\ Len(LogEvent(s1, r, t, size).events) <= RAM_EVENT_LOG_SIZE
  BY <1>1, <1>4, LogEventType
<1> QED  BY <1>2, <1>5, <1>6 DEF d

LEMMA PurgeOneType ==
  ASSUME NEW s \in Store, NEW t \in TxIds, NEW r \in Reasons,
         Len(s.events) <= RAM_EVENT_LOG_SIZE
  PROVE  /\ PurgeOne(s, t, r) \in Store
         /\ Len(PurgeOne(s, t, r).events) <= RAM_EVENT_LOG_SIZE
         /\ t \notin Held(PurgeOne(s, t, r))
<1>1. CASE t \notin Held(s)
  BY <1>1 DEF Held, PurgeOne
<1>2. CASE t \in Held(s)
  <2>1. /\ PurgeOne(s, t, r) \in Store
        /\ Len(PurgeOne(s, t, r).events) <= RAM_EVENT_LOG_SIZE
        /\ PurgeOne(s, t, r).data = [s.data EXCEPT ![t] = None]
    BY <1>2, PurgeHeldFields
  <2>2. PurgeOne(s, t, r).data[t] = None
    BY <2>1 DEF Store
  <2> QED  BY <2>1, <2>2 DEF Held
<1> QED  BY <1>1, <1>2

(* What inserting a staging does to each field (stage,                     *)
(* memory_store.py:171-188).                                               *)
(* One predicate for the outcome, so that the lemma is used by name.       *)
Inserted(s, s2, t, a, p, x) ==
  /\ s2.data = [s.data EXCEPT ![t] = NewEntry(s, a, p, x)]
  /\ s2.total_staged = s.total_staged + 1
  /\ s2.total_retrieved = s.total_retrieved
  /\ s2.total_purged_expired = s.total_purged_expired
  /\ s2.events = Push(s.events, StageEvent(s, t, p))
  /\ s2.seq = s.seq + 1
  /\ StageEvent(s, t, p) \in Event
  /\ NewEntry(s, a, p, x) \in Entry /\ NewEntry(s, a, p, x) # None
  /\ Len(s.events) <= RAM_EVENT_LOG_SIZE =>
       s2 \in Store /\ Len(s2.events) <= RAM_EVENT_LOG_SIZE

LEMMA InsertFields ==
  ASSUME NEW s \in Store, NEW t \in TxIds, NEW a \in Addresses,
         NEW p \in Payloads, NEW x \in Nat
  PROVE  Inserted(s, Insert(s, t, a, p, x), t, a, p, x)
<1> DEFINE size == Size[p]
           e == NewEntry(s, a, p, x)
           d  == [s.data EXCEPT ![t] = e]
           n == s.total_staged + 1
           m == s.bytes_staged + size
           s1 == [s EXCEPT !.data = d, !.total_staged = n, !.bytes_staged = m]
<1>1. size \in Nat /\ e \in Entry
  BY RamStoreAssumption DEF Store, Entry, NewEntry
<1>0. /\ d \in [TxIds -> Entry \cup {None}]
      /\ n \in Nat /\ m \in Nat
  BY <1>1 DEF Store
<1>2. e # None
  BY <1>1, RamStoreAssumption
<1>3. Insert(s, t, a, p, x) = LogEvent(s1, "STAGE", t, size)
  BY DEF Insert
<1>4. StageEvent(s, t, p) = [seq |-> s.seq + 1, action |-> "STAGE", tx_id |-> t,
                             size_bytes |-> size]
  BY DEF StageEvent
<1> HIDE DEF size, d, n, m
<1>5. /\ s1 \in Store
      /\ s1.data = d
      /\ s1.total_staged = n
      /\ s1.total_retrieved = s.total_retrieved
      /\ s1.total_purged_expired = s.total_purged_expired
      /\ s1.events = s.events
      /\ s1.seq = s.seq
  BY <1>0 DEF Store
<1> HIDE DEF s1
<1>6. /\ LogEvent(s1, "STAGE", t, size).data = d
      /\ LogEvent(s1, "STAGE", t, size).total_staged = n
      /\ LogEvent(s1, "STAGE", t, size).total_retrieved = s.total_retrieved
      /\ LogEvent(s1, "STAGE", t, size).total_purged_expired = s.total_purged_expired
      /\ LogEvent(s1, "STAGE", t, size).events = Push(s.events, StageEvent(s, t, p))
      /\ LogEvent(s1, "STAGE", t, size).seq = s.seq + 1
      /\ StageEvent(s, t, p) \in Event
  BY <1>1, <1>4, <1>5, LogEventFields
<1>7. Len(s.events) <= RAM_EVENT_LOG_SIZE =>
        /\ LogEvent(s1, "STAGE", t, size) \in Store
        /\ Len(LogEvent(s1, "STAGE", t, size).events) <= RAM_EVENT_LOG_SIZE
  BY <1>1, <1>5, LogEventType
<1> QED  BY <1>1, <1>2, <1>3, <1>6, <1>7 DEF d, n, Inserted

LEMMA StageType ==
  ASSUME NEW s \in Store, NEW t \in TxIds, NEW a \in Addresses,
         NEW p \in Payloads, NEW x \in Nat,
         Len(s.events) <= RAM_EVENT_LOG_SIZE
  PROVE  /\ Stage(s, t, a, p, x) \in Store
         /\ Len(Stage(s, t, a, p, x).events) <= RAM_EVENT_LOG_SIZE
BY PurgeOneType, InsertFields DEF Stage, Reasons, Inserted

LEMMA CountExpiredType ==
  ASSUME NEW s \in Store, NEW n \in Nat
  PROVE  /\ CountExpired(s, n) \in Store
         /\ CountExpired(s, n).events = s.events
BY DEF CountExpired, Store

LEMMA RetrieveType ==
  ASSUME NEW s \in Store, NEW t \in TxIds, NEW now \in Nat,
         Len(s.events) <= RAM_EVENT_LOG_SIZE
  PROVE  /\ Retrieve(s, t, now) \in Store
         /\ Len(Retrieve(s, t, now).events) <= RAM_EVENT_LOG_SIZE
<1>1. CASE s.data[t] = None
  BY <1>1 DEF Retrieve
<1>2. CASE s.data[t] # None /\ t \in Expired(s, now)
  <2> DEFINE s2 == PurgeOne(s, t, "EXPIRE")
  <2>1. s2 \in Store /\ Len(s2.events) <= RAM_EVENT_LOG_SIZE
    BY PurgeOneType DEF Reasons
  <2>2. Retrieve(s, t, now) = CountExpired(s2, 1)
    BY <1>2 DEF Retrieve
  <2> HIDE DEF s2
  <2> QED  BY <2>1, <2>2, CountExpiredType
<1>3. CASE s.data[t] # None /\ t \notin Expired(s, now)
  <2>1. Retrieve(s, t, now) = [s EXCEPT !.total_retrieved = @ + 1]
    BY <1>3 DEF Retrieve
  <2> QED  BY <2>1 DEF Store
<1> QED  BY <1>1, <1>2, <1>3

LEMMA EmptyStoreType == EmptyStore \in Store /\ EmptyStore.events = <<>>
BY DEF EmptyStore, Store

(* The tickets held are finite in number.                                  *)
LEMMA HeldFinite ==
  ASSUME NEW s
  PROVE  IsFiniteSet(Held(s)) /\ Cardinality(Held(s)) \in Nat
BY RamStoreAssumption, FS_Subset, FS_CardinalityType DEF Held

-----------------------------------------------------------------------------
(***************************************************************************)
(* The event ledger                                                        *)
(***************************************************************************)

LEMMA PurgeOneLedger ==
  ASSUME NEW s \in Store, NEW t \in TxIds, NEW r \in Reasons, PayloadsAccounted(s)
  PROVE  PayloadsAccounted(PurgeOne(s, t, r))
<1>1. CASE t \notin Held(s)
  BY <1>1 DEF Held, PurgeOne
<1>2. CASE t \in Held(s)
  <2> DEFINE s2 == PurgeOne(s, t, r)
  <2>1. /\ s2.data = [s.data EXCEPT ![t] = None]
        /\ s2.seq = s.seq + 1
        /\ s2.total_staged = s.total_staged
    BY <1>2, PurgeHeldFields
  <2> HIDE DEF s2
  <2>2. Held(s2) = Held(s) \ {t}
    BY <2>1 DEF Held, Store
  <2>3. Cardinality(Held(s2)) = Cardinality(Held(s)) - 1
    BY <1>2, <2>2, HeldFinite, FS_RemoveElement
  <2>4. Cardinality(Held(s)) \in Nat /\ s.seq \in Nat /\ s.total_staged \in Nat
    BY HeldFinite DEF Store
  <2>5. PayloadsAccounted(s2)
    BY <2>1, <2>3, <2>4 DEF PayloadsAccounted
  <2> QED  BY <2>5 DEF s2
<1> QED  BY <1>1, <1>2

LEMMA InsertLedger ==
  ASSUME NEW s \in Store, NEW t \in TxIds \ Held(s), NEW a \in Addresses,
         NEW p \in Payloads, NEW x \in Nat, PayloadsAccounted(s)
  PROVE  PayloadsAccounted(Insert(s, t, a, p, x))
<1> DEFINE s2 == Insert(s, t, a, p, x)
           e == NewEntry(s, a, p, x)
<1>1. /\ s2.data = [s.data EXCEPT ![t] = e]
      /\ s2.seq = s.seq + 1
      /\ s2.total_staged = s.total_staged + 1
      /\ e # None
  <2>1. t \in TxIds
    OBVIOUS
  <2>2. Inserted(s, s2, t, a, p, x)
    BY <2>1, InsertFields
  <2> QED  BY <2>2 DEF Inserted
<1> HIDE DEF s2, e
<1>2. Held(s2) = Held(s) \cup {t}
  BY <1>1 DEF Held, Store
<1>3. Cardinality(Held(s2)) = Cardinality(Held(s)) + 1
  <2>1. t \notin Held(s) /\ IsFiniteSet(Held(s))
    BY HeldFinite
  <2> QED  BY <1>2, <2>1, FS_AddElement
<1>4. Cardinality(Held(s)) \in Nat /\ s.seq \in Nat /\ s.total_staged \in Nat
  BY HeldFinite DEF Store
<1>5. PayloadsAccounted(s2)
  BY <1>1, <1>3, <1>4 DEF PayloadsAccounted
<1> QED  BY <1>5 DEF s2

LEMMA StageLedger ==
  ASSUME NEW s \in Store, NEW t \in TxIds, NEW a \in Addresses,
         NEW p \in Payloads, NEW x \in Nat,
         Len(s.events) <= RAM_EVENT_LOG_SIZE, PayloadsAccounted(s)
  PROVE  PayloadsAccounted(Stage(s, t, a, p, x))
<1> DEFINE s1 == PurgeOne(s, t, "WIPE")
<1>1. s1 \in Store /\ t \notin Held(s1) /\ PayloadsAccounted(s1)
  BY PurgeOneType, PurgeOneLedger DEF Reasons
<1>2. Stage(s, t, a, p, x) = Insert(s1, t, a, p, x)
  BY DEF Stage
<1> HIDE DEF s1
<1> QED  BY <1>1, <1>2, InsertLedger

LEMMA CountExpiredLedger ==
  ASSUME NEW s \in Store, NEW n \in Nat, PayloadsAccounted(s)
  PROVE  PayloadsAccounted(CountExpired(s, n))
<1>1. /\ CountExpired(s, n).data = s.data
      /\ CountExpired(s, n).seq = s.seq
      /\ CountExpired(s, n).total_staged = s.total_staged
  BY DEF CountExpired, Store
<1> QED  BY <1>1 DEF PayloadsAccounted, Held

LEMMA RetrieveLedger ==
  ASSUME NEW s \in Store, NEW t \in TxIds, NEW now \in Nat,
         Len(s.events) <= RAM_EVENT_LOG_SIZE, PayloadsAccounted(s)
  PROVE  PayloadsAccounted(Retrieve(s, t, now))
<1>1. CASE s.data[t] = None
  BY <1>1 DEF Retrieve
<1>2. CASE s.data[t] # None /\ t \in Expired(s, now)
  <2> DEFINE s2 == PurgeOne(s, t, "EXPIRE")
  <2>1. s2 \in Store /\ PayloadsAccounted(s2)
    BY PurgeOneType, PurgeOneLedger DEF Reasons
  <2>2. Retrieve(s, t, now) = CountExpired(s2, 1)
    BY <1>2 DEF Retrieve
  <2> HIDE DEF s2
  <2> QED  BY <2>1, <2>2, CountExpiredLedger
<1>3. CASE s.data[t] # None /\ t \notin Expired(s, now)
  <2> DEFINE s2 == Retrieve(s, t, now)
  <2>1. s2 = [s EXCEPT !.total_retrieved = @ + 1]
    BY <1>3 DEF Retrieve
  <2>2. s2.data = s.data /\ s2.seq = s.seq /\ s2.total_staged = s.total_staged
    BY <2>1 DEF Store
  <2> QED  BY <2>2 DEF PayloadsAccounted, Held
<1> QED  BY <1>1, <1>2, <1>3

LEMMA EmptyLedger == PayloadsAccounted(EmptyStore)
<1>1. Held(EmptyStore) = {}
  BY DEF Held, EmptyStore
<1> QED  BY <1>1, FS_EmptySet DEF PayloadsAccounted, EmptyStore

-----------------------------------------------------------------------------
(***************************************************************************)
(* The byte ledger                                                         *)
(***************************************************************************)

\* The sizes of what is held, by ticket.
BytesOf(s) == [t \in Held(s) |-> Size[s.data[t].payload]]

LEMMA BytesAreNat ==
  ASSUME NEW s, s.data \in [TxIds -> Entry \cup {None}]
  PROVE  \A t \in Held(s) : BytesOf(s)[t] \in Nat
BY RamStoreAssumption DEF Held, BytesOf, Entry

(* The sum in BytesAccounted is one the lemmas about sums speak of.        *)
LEMMA HeldBytes ==
  ASSUME NEW s, s.data \in [TxIds -> Entry \cup {None}]
  PROVE  MapThenSumSet(LAMBDA t : Size[s.data[t].payload], Held(s))
           = Total(BytesOf(s), Held(s))
<1> DEFINE H == Held(s)
           P(h) == h = [r \in SUBSET Held(s) |->
                     IF r = {} THEN 0
                     ELSE Size[s.data[CHOOSE x \in r : TRUE].payload]
                            + h[r \ {CHOOSE x \in r : TRUE}]]
<1>0. \A t \in H : BytesOf(s)[t] \in Nat
  BY BytesAreNat
<1>1. PICK g : IsSum(g, BytesOf(s), AnyOf(H), H)
  BY <1>0, HeldFinite, SumExists, AnyPicks
<1>2. Total(BytesOf(s), H) = g[H]
  BY <1>0, <1>1, HeldFinite, TotalIsSum
<1>3. MapThenSumSet(LAMBDA t : Size[s.data[t].payload], Held(s)) = (CHOOSE h : P(h))[H]
  BY DEF MapThenSumSet, MapThenFoldSet
<1>4. \A h : P(h) <=> IsSum(h, BytesOf(s), AnyOf(H), H)
  <2> TAKE h
  <2> DEFINE a(r) == CHOOSE x \in r : TRUE
  <2>1. \A r \in SUBSET H : AnyOf(H)[r] = a(r) /\ (r # {} => a(r) \in H)
    BY DEF AnyOf
  <2>2. P(h) <=> h = [r \in SUBSET H |->
                        IF r = {} THEN 0 ELSE Size[s.data[a(r)].payload] + h[r \ {a(r)}]]
    OBVIOUS
  <2>3. \A t \in H : BytesOf(s)[t] = Size[s.data[t].payload]
    BY DEF BytesOf
  <2> HIDE DEF a, P, H
  <2>4. \A r \in SUBSET H :
          SumStep(h, BytesOf(s), AnyOf(H), r)
            = IF r = {} THEN 0 ELSE Size[s.data[a(r)].payload] + h[r \ {a(r)}]
    BY <2>1, <2>3 DEF SumStep
  <2> QED  BY <2>2, <2>4 DEF IsSum
<1> HIDE DEF P, H
<1>5. P(CHOOSE h : P(h))
  BY <1>1, <1>4
<1>6. IsFiniteSet(H)
  BY HeldFinite DEF H
<1>7. \A t \in H : BytesOf(s)[t] \in Nat
  BY <1>0 DEF H
<1> QED  BY <1>1, <1>2, <1>3, <1>4, <1>5, <1>6, <1>7, SumIsUnique, AnyPicks DEF H

SumHeld(s) == Total(BytesOf(s), Held(s))

LEMMA AccountedIsSum ==
  ASSUME NEW s, s.data \in [TxIds -> Entry \cup {None}]
  PROVE  BytesAccounted(s) <=> s.bytes_staged = s.bytes_wiped + SumHeld(s)
BY HeldBytes DEF BytesAccounted, SumHeld

(* When one ticket leaves, its size leaves the sum.                        *)
LEMMA SumWithout ==
  ASSUME NEW s, NEW s2, s.data \in [TxIds -> Entry \cup {None}],
         NEW t \in Held(s), s2.data = [s.data EXCEPT ![t] = None]
  PROVE  /\ SumHeld(s) = Size[s.data[t].payload] + SumHeld(s2)
         /\ SumHeld(s) \in Nat /\ SumHeld(s2) \in Nat
<1>1. /\ Held(s2) = Held(s) \ {t}
      /\ \A u \in Held(s2) : BytesOf(s)[u] = BytesOf(s2)[u]
  BY DEF Held, BytesOf
<1>2. /\ \A u \in Held(s) : BytesOf(s)[u] \in Nat
      /\ \A u \in Held(s2) : BytesOf(s2)[u] \in Nat
  BY RamStoreAssumption DEF Held, BytesOf, Entry
<1>3. SumHeld(s) = BytesOf(s)[t] + Total(BytesOf(s), Held(s2))
  BY <1>1, <1>2, HeldFinite, TotalFacts DEF SumHeld
<1>4. Total(BytesOf(s), Held(s2)) = SumHeld(s2)
  BY <1>1, <1>2, HeldFinite, TotalDepends DEF SumHeld
<1>5. SumHeld(s) \in Nat /\ SumHeld(s2) \in Nat
  BY <1>2, HeldFinite, TotalFacts DEF SumHeld
<1>6. BytesOf(s)[t] = Size[s.data[t].payload]
  BY DEF BytesOf
<1> QED  BY <1>3, <1>4, <1>5, <1>6

(* Stores that hold the same and have the same two counters are accounted  *)
(* for alike.                                                              *)
LEMMA SameBytes ==
  ASSUME NEW s, NEW s2, s.data \in [TxIds -> Entry \cup {None}],
         s2.data = s.data, s2.bytes_staged = s.bytes_staged,
         s2.bytes_wiped = s.bytes_wiped, BytesAccounted(s)
  PROVE  BytesAccounted(s2)
<1>1. Held(s2) = Held(s) /\ BytesOf(s2) = BytesOf(s)
  BY DEF Held, BytesOf
<1> QED  BY <1>1, AccountedIsSum DEF SumHeld

(* Logging touches no byte.                                                *)
LEMMA LogEventBytes ==
  ASSUME NEW s \in Store, NEW action, NEW t, NEW size
  PROVE  /\ LogEvent(s, action, t, size).data = s.data
         /\ LogEvent(s, action, t, size).bytes_staged = s.bytes_staged
         /\ LogEvent(s, action, t, size).bytes_wiped = s.bytes_wiped
BY DEF LogEvent, Store

LEMMA PurgeOneBytes ==
  ASSUME NEW s \in Store, NEW t \in TxIds, NEW r \in Reasons, BytesAccounted(s)
  PROVE  BytesAccounted(PurgeOne(s, t, r))
<1>1. CASE t \notin Held(s)
  BY <1>1 DEF Held, PurgeOne
<1>2. CASE t \in Held(s)
  <2> DEFINE size == Size[s.data[t].payload]
             d == [s.data EXCEPT ![t] = None]
             n == s.bytes_wiped + size
             s1 == [s EXCEPT !.data = d, !.bytes_wiped = n]
             s2 == PurgeOne(s, t, r)
  <2>1. size \in Nat
    BY <1>2, RamStoreAssumption DEF Held, Store, Entry
  <2>2. s2 = LogEvent(s1, r, t, size)
    BY <1>2 DEF Held, PurgeOne, PurgeHeld
  <2>3. d \in [TxIds -> Entry \cup {None}] /\ n \in Nat
    BY <2>1 DEF Store
  <2> HIDE DEF size, d, n
  <2>8. /\ s1.data = d
        /\ s1.bytes_staged = s.bytes_staged
        /\ s1.bytes_wiped = n
        /\ s1 \in Store
    BY <2>3 DEF Store
  <2> HIDE DEF s1, s2
  <2>4. s2.data = d /\ s2.bytes_staged = s.bytes_staged /\ s2.bytes_wiped = s.bytes_wiped + size
    <3>1. /\ LogEvent(s1, r, t, size).data = d
          /\ LogEvent(s1, r, t, size).bytes_staged = s.bytes_staged
          /\ LogEvent(s1, r, t, size).bytes_wiped = n
      BY <2>1, <2>8, LogEventBytes DEF Reasons
    <3> QED  BY <2>2, <3>1 DEF n
  <2>5. /\ SumHeld(s) = size + SumHeld(s2)
        /\ SumHeld(s) \in Nat /\ SumHeld(s2) \in Nat
    BY <1>2, <2>4, SumWithout DEF Store, size, d
  <2>6. s.bytes_staged \in Nat /\ s.bytes_wiped \in Nat /\ s.data \in [TxIds -> Entry \cup {None}]
    BY DEF Store
  <2>7. s2.bytes_staged = s2.bytes_wiped + SumHeld(s2)
    BY <2>1, <2>4, <2>5, <2>6, AccountedIsSum
  <2> QED  BY <2>3, <2>4, <2>7, AccountedIsSum DEF s2
<1> QED  BY <1>1, <1>2

LEMMA InsertBytes ==
  ASSUME NEW s \in Store, NEW t \in TxIds \ Held(s), NEW a \in Addresses,
         NEW p \in Payloads, NEW x \in Nat, BytesAccounted(s)
  PROVE  BytesAccounted(Insert(s, t, a, p, x))
<1> DEFINE size == Size[p]
           e == NewEntry(s, a, p, x)
           d == [s.data EXCEPT ![t] = e]
           k == s.total_staged + 1
           n == s.bytes_staged + size
           s1 == [s EXCEPT !.data = d, !.total_staged = k, !.bytes_staged = n]
           s2 == Insert(s, t, a, p, x)
<1>1. /\ size \in Nat /\ e \in Entry /\ e # None /\ e.payload = p
      /\ t \in TxIds /\ s.data[t] = None
  BY RamStoreAssumption DEF Store, Entry, NewEntry, Held
<1>2. s2 = LogEvent(s1, "STAGE", t, size)
  BY DEF Insert
<1> HIDE DEF e
<1>9. d \in [TxIds -> Entry \cup {None}] /\ k \in Nat /\ n \in Nat
  BY <1>1 DEF Store
<1> HIDE DEF size, d, k, n
<1>3. /\ s1.data = d
      /\ s1.bytes_staged = n
      /\ s1.bytes_wiped = s.bytes_wiped
      /\ s1 \in Store
  BY <1>9 DEF Store
<1> HIDE DEF s1, s2
<1>4. s2.data = d /\ s2.bytes_staged = s.bytes_staged + size /\ s2.bytes_wiped = s.bytes_wiped
  <2>1. /\ LogEvent(s1, "STAGE", t, size).data = d
        /\ LogEvent(s1, "STAGE", t, size).bytes_staged = n
        /\ LogEvent(s1, "STAGE", t, size).bytes_wiped = s.bytes_wiped
    BY <1>1, <1>3, LogEventBytes
  <2> QED  BY <1>2, <2>1 DEF n
<1>5. /\ s2.data \in [TxIds -> Entry \cup {None}]
      /\ t \in Held(s2) /\ s2.data[t] = e
      /\ s.data = [s2.data EXCEPT ![t] = None]
  BY <1>1, <1>4, <1>9 DEF Held, Store, d
<1>6. /\ SumHeld(s2) = Size[e.payload] + SumHeld(s)
      /\ SumHeld(s) \in Nat /\ SumHeld(s2) \in Nat
  BY <1>5, SumWithout
<1>7. s.bytes_staged \in Nat /\ s.bytes_wiped \in Nat /\ s.data \in [TxIds -> Entry \cup {None}]
  BY DEF Store
<1>8. s2.bytes_staged = s2.bytes_wiped + SumHeld(s2)
  BY <1>1, <1>4, <1>6, <1>7, AccountedIsSum DEF size
<1> QED  BY <1>5, <1>8, AccountedIsSum DEF s2

LEMMA StageBytes ==
  ASSUME NEW s \in Store, NEW t \in TxIds, NEW a \in Addresses,
         NEW p \in Payloads, NEW x \in Nat,
         Len(s.events) <= RAM_EVENT_LOG_SIZE, BytesAccounted(s)
  PROVE  BytesAccounted(Stage(s, t, a, p, x))
<1> DEFINE s1 == PurgeOne(s, t, "WIPE")
<1>1. s1 \in Store /\ t \notin Held(s1) /\ BytesAccounted(s1)
  BY PurgeOneType, PurgeOneBytes DEF Reasons
<1>2. Stage(s, t, a, p, x) = Insert(s1, t, a, p, x)
  BY DEF Stage
<1> HIDE DEF s1
<1> QED  BY <1>1, <1>2, InsertBytes

LEMMA CountExpiredBytes ==
  ASSUME NEW s \in Store, NEW n \in Nat, BytesAccounted(s)
  PROVE  BytesAccounted(CountExpired(s, n))
<1>1. /\ CountExpired(s, n).data = s.data
      /\ CountExpired(s, n).bytes_staged = s.bytes_staged
      /\ CountExpired(s, n).bytes_wiped = s.bytes_wiped
  BY DEF CountExpired, Store
<1> QED  BY <1>1, SameBytes DEF Store

LEMMA RetrieveBytes ==
  ASSUME NEW s \in Store, NEW t \in TxIds, NEW now \in Nat,
         Len(s.events) <= RAM_EVENT_LOG_SIZE, BytesAccounted(s)
  PROVE  BytesAccounted(Retrieve(s, t, now))
<1>1. CASE s.data[t] = None
  BY <1>1 DEF Retrieve
<1>2. CASE s.data[t] # None /\ t \in Expired(s, now)
  <2> DEFINE s2 == PurgeOne(s, t, "EXPIRE")
  <2>1. s2 \in Store /\ BytesAccounted(s2)
    BY PurgeOneType, PurgeOneBytes DEF Reasons
  <2>2. Retrieve(s, t, now) = CountExpired(s2, 1)
    BY <1>2 DEF Retrieve
  <2> HIDE DEF s2
  <2> QED  BY <2>1, <2>2, CountExpiredBytes
<1>3. CASE s.data[t] # None /\ t \notin Expired(s, now)
  <2> DEFINE s2 == Retrieve(s, t, now)
  <2>1. s2 = [s EXCEPT !.total_retrieved = @ + 1]
    BY <1>3 DEF Retrieve
  <2>2. /\ s2.data = s.data /\ s2.bytes_staged = s.bytes_staged
        /\ s2.bytes_wiped = s.bytes_wiped
    BY <2>1 DEF Store
  <2> HIDE DEF s2
  <2>3. BytesAccounted(s2)
    BY <2>2, SameBytes DEF Store
  <2> QED  BY <2>3 DEF s2
<1> QED  BY <1>1, <1>2, <1>3

LEMMA EmptyBytes == BytesAccounted(EmptyStore)
<1>1. Held(EmptyStore) = {} /\ EmptyStore.bytes_staged = 0 /\ EmptyStore.bytes_wiped = 0
  BY DEF Held, EmptyStore
<1>2. SumHeld(EmptyStore) = 0
  BY <1>1, HeldFinite, TotalFacts DEF SumHeld
<1> QED  BY <1>1, <1>2, EmptyStoreType, AccountedIsSum DEF Store

-----------------------------------------------------------------------------
(***************************************************************************)
(* The event log and the entries in RAM                                    *)
(***************************************************************************)

(* Pushing the event numbered seq + 1 keeps the log a gap-free suffix.     *)
LEMMA PushSuffix ==
  ASSUME NEW s \in Store, NEW s2 \in Store, NEW e \in Event,
         LogIsSuffix(s), e.seq = s.seq + 1,
         s2.seq = s.seq + 1, s2.events = Push(s.events, e)
  PROVE  LogIsSuffix(s2)
<1> DEFINE log == s.events
           log2 == s2.events
           n == Len(log)
           n2 == Len(log2)
           N == RAM_EVENT_LOG_SIZE
<1>1. /\ log \in Seq(Event) /\ log2 \in Seq(Event)
      /\ DOMAIN log = 1..n /\ DOMAIN log2 = 1..n2
      /\ s.seq \in Nat /\ n \in Nat /\ n2 \in Nat /\ N \in Nat \ {0}
  BY RamStoreAssumption DEF Store
<1>2. /\ n = IF s.seq < N THEN s.seq ELSE N
      /\ \A i \in 1..n : log[i].seq = s.seq - n + i
  BY <1>1 DEF LogIsSuffix
<1> HIDE DEF log, log2
<1>3. n <= N
  BY <1>1, <1>2
<1>4. PICK d \in {0, 1} : Shifted(log, log2, e, d)
  <2>1. log2 = Push(log, e)
    BY DEF log, log2
  <2> QED  BY <1>1, <1>3, <2>1, PushShift
<1>41. /\ d = 0 <=> n < N
       /\ n2 = n + 1 - d
       /\ log2[n2] = e
       /\ \A i \in 1..n2 : i # n2 => i + d \in 1..n /\ log2[i] = log[i + d]
  BY <1>4 DEF Shifted
<1> HIDE DEF n, n2, N
<1>5. n2 = IF s2.seq < N THEN s2.seq ELSE N
  BY <1>1, <1>2, <1>41
<1>6. ASSUME NEW i \in 1..n2
      PROVE  log2[i].seq = s2.seq - n2 + i
  <2>1. CASE i = n2
    BY <1>1, <1>41, <2>1
  <2>2. CASE i # n2
    <3>1. log2[i] = log[i + d] /\ log[i + d].seq = s.seq - n + (i + d)
      BY <1>2, <1>41, <2>2
    <3> QED  BY <1>1, <1>41, <3>1
  <2> QED  BY <2>1, <2>2
<1> QED  BY <1>1, <1>5, <1>6 DEF LogIsSuffix, log2, n2, N

(* An event about one ticket, pushed when only that ticket's entry changes *)
(* and says what became of it, keeps the log and the entries in step.      *)
LEMMA PushShowsHeld ==
  ASSUME NEW s \in Store, NEW s2 \in Store, NEW e \in Event,
         Len(s.events) <= RAM_EVENT_LOG_SIZE,
         s2.events = Push(s.events, e),
         \A u \in TxIds \ {e.tx_id} : s2.data[u] = s.data[u],
         IF e.action = "STAGE"
         THEN e.tx_id \in Held(s2) /\ e.size_bytes = Size[s2.data[e.tx_id].payload]
         ELSE e.tx_id \notin Held(s2),
         LogShowsHeld(s)
  PROVE  LogShowsHeld(s2)
<1> DEFINE log == s.events
           log2 == s2.events
           n == Len(log)
           n2 == Len(log2)
           Shows(st, v) ==
             IF v.action = "STAGE"
             THEN v.tx_id \in Held(st) /\ v.size_bytes = Size[st.data[v.tx_id].payload]
             ELSE v.tx_id \notin Held(st)
<1>1. /\ log \in Seq(Event) /\ log2 \in Seq(Event)
      /\ DOMAIN log = 1..n /\ DOMAIN log2 = 1..n2
      /\ n \in Nat /\ n2 \in Nat
  BY DEF Store
<1>2. ASSUME NEW i \in 1..n,
             \A j \in 1..n : j > i => log[j].tx_id # log[i].tx_id
      PROVE  Shows(s, log[i])
  BY <1>1, <1>2 DEF LogShowsHeld, IsLatest
<1>3. SUFFICES ASSUME NEW i \in 1..n2,
                      \A j \in 1..n2 : j > i => log2[j].tx_id # log2[i].tx_id
               PROVE  Shows(s2, log2[i])
  BY <1>1 DEF LogShowsHeld, IsLatest
<1> HIDE DEF log, log2
<1>4. PICK d \in {0, 1} : Shifted(log, log2, e, d)
  <2>1. log2 = Push(log, e) /\ Len(log) <= RAM_EVENT_LOG_SIZE
    BY DEF log, log2
  <2> QED  BY <1>1, <2>1, PushShift
<1>41. /\ n2 = n + 1 - d
       /\ log2[n2] = e
       /\ \A j \in 1..n2 : j # n2 => j + d \in 1..n /\ log2[j] = log[j + d]
  BY <1>4 DEF Shifted
<1>5. CASE i = n2
  BY <1>41, <1>5
<1>6. CASE i # n2
  <2> HIDE DEF n, n2, Shows
  <2>1. i + d \in 1..n /\ log2[i] = log[i + d]
    BY <1>41, <1>6
  <2>2. ASSUME NEW j \in 1..n, j > i + d
        PROVE  log[j].tx_id # log[i + d].tx_id
    <3>1. j - d \in 1..n2 /\ j - d > i /\ (j - d) + d = j
      BY <1>1, <1>41, <2>1, <2>2
    <3>2. CASE j - d = n2
      BY <1>1, <1>41, <2>1, <2>2, <3>1, <3>2
    <3>3. CASE j - d # n2
      <4>1. log2[j - d] = log[j]
        BY <1>41, <3>1, <3>3
      <4> QED  BY <1>3, <2>1, <3>1, <4>1
    <3> QED  BY <3>2, <3>3
  <2>3. Shows(s, log[i + d])
    BY <1>2, <2>1, <2>2
  <2>4. log2[i].tx_id # e.tx_id
    <3>1. n2 \in 1..n2 /\ n2 > i
      BY <1>1, <1>6
    <3> QED  BY <1>3, <1>41, <3>1
  <2>5. log2[i].tx_id \in TxIds
    <3>1. log2[i] \in Event
      BY <1>1 DEF n2
    <3> QED  BY <3>1 DEF Event
  <2>6. s2.data[log2[i].tx_id] = s.data[log2[i].tx_id]
    BY <2>4, <2>5
  <2> QED  BY <2>1, <2>3, <2>6 DEF Held, Shows
<1> QED  BY <1>5, <1>6

LEMMA PurgeOneLog ==
  ASSUME NEW s \in Store, NEW t \in TxIds, NEW r \in Reasons,
         Len(s.events) <= RAM_EVENT_LOG_SIZE, LogAgreesWithRam(s)
  PROVE  LogAgreesWithRam(PurgeOne(s, t, r))
<1>1. CASE t \notin Held(s)
  BY <1>1 DEF Held, PurgeOne
<1>2. CASE t \in Held(s)
  <2> DEFINE s2 == PurgeOne(s, t, r)
             e  == PurgeEvent(s, t, r)
  <2>1. /\ s2 \in Store /\ e \in Event
        /\ s2.data = [s.data EXCEPT ![t] = None]
        /\ s2.events = Push(s.events, e)
        /\ s2.seq = s.seq + 1
    BY <1>2, PurgeHeldFields
  <2>2. e.seq = s.seq + 1 /\ e.action = r /\ e.tx_id = t /\ r # "STAGE"
    BY DEF PurgeEvent, Reasons
  <2> HIDE DEF s2, e
  <2>3. /\ t \notin Held(s2)
        /\ \A u \in TxIds \ {t} : s2.data[u] = s.data[u]
    BY <2>1 DEF Held, Store
  <2>4. LogIsSuffix(s2)
    BY <2>1, <2>2, PushSuffix DEF LogAgreesWithRam
  <2>5. LogShowsHeld(s2)
    BY <2>1, <2>2, <2>3, PushShowsHeld DEF LogAgreesWithRam
  <2> QED  BY <2>4, <2>5 DEF LogAgreesWithRam, s2
<1> QED  BY <1>1, <1>2

LEMMA InsertLog ==
  ASSUME NEW s \in Store, NEW t \in TxIds, NEW a \in Addresses,
         NEW p \in Payloads, NEW x \in Nat,
         Len(s.events) <= RAM_EVENT_LOG_SIZE, LogAgreesWithRam(s)
  PROVE  LogAgreesWithRam(Insert(s, t, a, p, x))
<1> DEFINE s2 == Insert(s, t, a, p, x)
           e  == StageEvent(s, t, p)
           d  == NewEntry(s, a, p, x)
<1>1. /\ s2 \in Store /\ e \in Event
      /\ s2.data = [s.data EXCEPT ![t] = d]
      /\ d # None
      /\ s2.events = Push(s.events, e)
      /\ s2.seq = s.seq + 1
  <2>1. Inserted(s, s2, t, a, p, x)
    BY InsertFields
  <2> QED  BY <2>1 DEF Inserted
<1>2. /\ e.seq = s.seq + 1 /\ e.action = "STAGE" /\ e.tx_id = t
      /\ e.size_bytes = Size[p] /\ d.payload = p
  BY DEF StageEvent, NewEntry
<1> HIDE DEF s2, e, d
<1>3. /\ t \in Held(s2) /\ s2.data[t] = d
      /\ \A u \in TxIds \ {t} : s2.data[u] = s.data[u]
  BY <1>1 DEF Held, Store
<1>4. LogIsSuffix(s2)
  BY <1>1, <1>2, PushSuffix DEF LogAgreesWithRam
<1>5. LogShowsHeld(s2)
  BY <1>1, <1>2, <1>3, PushShowsHeld DEF LogAgreesWithRam
<1> QED  BY <1>4, <1>5 DEF LogAgreesWithRam, s2

(* Neither half of the agreement reads the counters.                       *)
LEMMA SameLog ==
  ASSUME NEW s, NEW s2, s2.data = s.data, s2.events = s.events, s2.seq = s.seq,
         LogAgreesWithRam(s)
  PROVE  LogAgreesWithRam(s2)
BY DEF LogAgreesWithRam, LogIsSuffix, LogShowsHeld, IsLatest, Held

-----------------------------------------------------------------------------
(***************************************************************************)
(* Places in the dict                                                      *)
(***************************************************************************)

\* No two entries have one place: the dict has an order.
Numbered(s) ==
  /\ \A t \in Held(s) : s.data[t].order \in 1..s.total_staged
  /\ \A t, u \in Held(s) : s.data[t].order = s.data[u].order => t = u

(* Entries that only leave keep their places.                              *)
LEMMA StillNumbered ==
  ASSUME NEW s, NEW s2, Numbered(s), s2.total_staged = s.total_staged,
         \A t \in Held(s2) : t \in Held(s) /\ s2.data[t] = s.data[t]
  PROVE  Numbered(s2)
BY DEF Numbered

LEMMA PurgeOneNumbered ==
  ASSUME NEW s \in Store, NEW t \in TxIds, NEW r \in Reasons, Numbered(s)
  PROVE  Numbered(PurgeOne(s, t, r))
<1>1. CASE t \notin Held(s)
  BY <1>1 DEF Held, PurgeOne
<1>2. CASE t \in Held(s)
  <2> DEFINE s2 == PurgeOne(s, t, r)
  <2>1. s2.data = [s.data EXCEPT ![t] = None] /\ s2.total_staged = s.total_staged
    BY <1>2, PurgeHeldFields
  <2>2. s.data \in [TxIds -> Entry \cup {None}]
    BY DEF Store
  <2> HIDE DEF s2
  <2>3. \A u \in Held(s2) : u \in Held(s) /\ s2.data[u] = s.data[u]
    BY <2>1, <2>2 DEF Held
  <2>4. Numbered(s2)
    BY <2>1, <2>3, StillNumbered
  <2> QED  BY <2>4 DEF s2
<1> QED  BY <1>1, <1>2

LEMMA StageNumbered ==
  ASSUME NEW s \in Store, NEW t \in TxIds, NEW a \in Addresses,
         NEW p \in Payloads, NEW x \in Nat,
         Len(s.events) <= RAM_EVENT_LOG_SIZE, Numbered(s)
  PROVE  Numbered(Stage(s, t, a, p, x))
<1> DEFINE s1 == PurgeOne(s, t, "WIPE")
           s2 == Insert(s1, t, a, p, x)
<1>1. s1 \in Store /\ Numbered(s1) /\ t \notin Held(s1)
  BY PurgeOneType, PurgeOneNumbered DEF Reasons
<1>2. Stage(s, t, a, p, x) = s2
  BY DEF Stage
<1> HIDE DEF s1
<1>3. /\ s2.data = [s1.data EXCEPT ![t] = NewEntry(s1, a, p, x)]
      /\ s2.total_staged = s1.total_staged + 1
  BY <1>1, InsertFields DEF Inserted
<1>4. /\ s1.data \in [TxIds -> Entry \cup {None}] /\ s1.total_staged \in Nat
      /\ NewEntry(s1, a, p, x).order = s1.total_staged + 1
  BY <1>1 DEF Store, NewEntry
<1> HIDE DEF s2
<1>5. /\ \A u \in Held(s2) \ {t} : u \in Held(s1) /\ s2.data[u] = s1.data[u]
      /\ s2.data[t].order = s1.total_staged + 1
  BY <1>3, <1>4 DEF Held
<1>6. ASSUME NEW u \in Held(s2)
      PROVE  s2.data[u].order \in 1..s2.total_staged
  <2>1. CASE u = t
    BY <1>3, <1>4, <1>5, <2>1
  <2>2. CASE u # t
    <3>1. s2.data[u].order \in 1..s1.total_staged
      BY <1>1, <1>5, <2>2 DEF Numbered
    <3> QED  BY <1>3, <1>4, <3>1
  <2> QED  BY <2>1, <2>2
<1>7. ASSUME NEW u \in Held(s2), NEW v \in Held(s2), s2.data[u].order = s2.data[v].order
      PROVE  u = v
  <2>1. \A y \in Held(s2) \ {t} : s2.data[y].order \in 1..s1.total_staged
    BY <1>1, <1>5 DEF Numbered
  <2>2. CASE u # t /\ v # t
    BY <1>1, <1>5, <1>7, <2>2 DEF Numbered
  <2>3. CASE u = t \/ v = t
    BY <1>4, <1>5, <1>7, <2>1, <2>3
  <2> QED  BY <2>2, <2>3
<1> QED  BY <1>2, <1>6, <1>7 DEF Numbered

LEMMA RetrieveNumbered ==
  ASSUME NEW s \in Store, NEW t \in TxIds, NEW now, Numbered(s)
  PROVE  Numbered(Retrieve(s, t, now))
<1>1. CASE s.data[t] # None /\ t \in Expired(s, now)
  <2> DEFINE s1 == PurgeOne(s, t, "EXPIRE")
  <2>1. Numbered(s1)
    BY PurgeOneNumbered DEF Reasons
  <2>2. Retrieve(s, t, now).data = s1.data /\ Retrieve(s, t, now).total_staged = s1.total_staged
    BY <1>1 DEF Retrieve, CountExpired, PurgeOne, PurgeHeld, LogEvent, Store
  <2> HIDE DEF s1
  <2> QED  BY <2>1, <2>2, StillNumbered DEF Held
<1>2. CASE s.data[t] # None /\ t \notin Expired(s, now)
  <2>1. Retrieve(s, t, now).data = s.data /\ Retrieve(s, t, now).total_staged = s.total_staged
    BY <1>2 DEF Retrieve, Store
  <2> QED  BY <2>1, StillNumbered DEF Held
<1>3. CASE s.data[t] = None
  BY <1>3 DEF Retrieve
<1> QED  BY <1>1, <1>2, <1>3

-----------------------------------------------------------------------------
(***************************************************************************)
(* A consistent store stays consistent under every method.                 *)
(***************************************************************************)

Consistent(s) ==
  /\ s \in Store
  /\ PayloadsAccounted(s) /\ BytesAccounted(s)
  /\ LogAgreesWithRam(s)
  /\ Numbered(s)

LEMMA ConsistentLogBounded ==
  ASSUME NEW s, Consistent(s)
  PROVE  Len(s.events) <= RAM_EVENT_LOG_SIZE
<1>1. s.seq \in Nat /\ RAM_EVENT_LOG_SIZE \in Nat
  BY RamStoreAssumption DEF Consistent, Store
<1> QED  BY <1>1 DEF Consistent, LogAgreesWithRam, LogIsSuffix

LEMMA EmptyConsistent == Consistent(EmptyStore)
<1>1. LogAgreesWithRam(EmptyStore)
  <2>1. EmptyStore.events = <<>> /\ EmptyStore.seq = 0
    BY DEF EmptyStore
  <2>2. Len(EmptyStore.events) = 0 /\ DOMAIN EmptyStore.events = {}
    BY <2>1
  <2> QED  BY <2>1, <2>2, RamStoreAssumption
           DEF LogAgreesWithRam, LogIsSuffix, LogShowsHeld
<1>2. Numbered(EmptyStore)
  BY DEF Numbered, Held, EmptyStore
<1> QED  BY <1>1, <1>2, EmptyStoreType, EmptyLedger, EmptyBytes DEF Consistent

LEMMA PurgeOneConsistent ==
  ASSUME NEW s, Consistent(s), NEW t \in TxIds, NEW r \in Reasons
  PROVE  Consistent(PurgeOne(s, t, r))
BY ConsistentLogBounded, PurgeOneType, PurgeOneLedger, PurgeOneBytes, PurgeOneLog,
   PurgeOneNumbered DEF Consistent

LEMMA CountExpiredConsistent ==
  ASSUME NEW s, Consistent(s), NEW n \in Nat
  PROVE  Consistent(CountExpired(s, n))
<1>1. /\ CountExpired(s, n).data = s.data
      /\ CountExpired(s, n).events = s.events
      /\ CountExpired(s, n).seq = s.seq
      /\ CountExpired(s, n).total_staged = s.total_staged
  BY DEF CountExpired, Consistent, Store
<1>2. Numbered(CountExpired(s, n))
  BY <1>1, StillNumbered DEF Consistent, Held
<1> QED  BY <1>1, <1>2, SameLog, CountExpiredType, CountExpiredLedger, CountExpiredBytes
         DEF Consistent

LEMMA StageConsistent ==
  ASSUME NEW s, Consistent(s), NEW t \in TxIds, NEW a \in Addresses,
         NEW p \in Payloads, NEW x \in Nat
  PROVE  Consistent(Stage(s, t, a, p, x))
<1> DEFINE s1 == PurgeOne(s, t, "WIPE")
<1>1. Consistent(s1) /\ Len(s1.events) <= RAM_EVENT_LOG_SIZE
  BY PurgeOneConsistent, ConsistentLogBounded DEF Reasons
<1>2. Stage(s, t, a, p, x) = Insert(s1, t, a, p, x)
  BY DEF Stage
<1>3. Len(s.events) <= RAM_EVENT_LOG_SIZE
  BY ConsistentLogBounded
<1> HIDE DEF s1
<1>4. LogAgreesWithRam(Stage(s, t, a, p, x))
  BY <1>1, <1>2, InsertLog DEF Consistent
<1> QED  BY <1>3, <1>4, StageType, StageLedger, StageBytes, StageNumbered DEF Consistent

LEMMA RetrieveConsistent ==
  ASSUME NEW s, Consistent(s), NEW t \in TxIds, NEW now \in Nat
  PROVE  Consistent(Retrieve(s, t, now))
<1>1. CASE s.data[t] = None
  BY <1>1 DEF Retrieve
<1>2. CASE s.data[t] # None /\ t \in Expired(s, now)
  <2> DEFINE s1 == PurgeOne(s, t, "EXPIRE")
  <2>1. Consistent(s1)
    BY PurgeOneConsistent DEF Reasons
  <2>2. Retrieve(s, t, now) = CountExpired(s1, 1)
    BY <1>2 DEF Retrieve
  <2> HIDE DEF s1
  <2> QED  BY <2>1, <2>2, CountExpiredConsistent
<1>3. CASE s.data[t] # None /\ t \notin Expired(s, now)
  <2>1. Retrieve(s, t, now) = [s EXCEPT !.total_retrieved = @ + 1]
    BY <1>3 DEF Retrieve
  <2>2. /\ Retrieve(s, t, now).data = s.data
        /\ Retrieve(s, t, now).events = s.events
        /\ Retrieve(s, t, now).seq = s.seq
    BY <2>1 DEF Consistent, Store
  <2>3. LogAgreesWithRam(Retrieve(s, t, now))
    BY <2>2, SameLog DEF Consistent
  <2> QED  BY <2>3, ConsistentLogBounded, RetrieveType, RetrieveLedger, RetrieveBytes,
              RetrieveNumbered DEF Consistent
<1> QED  BY <1>1, <1>2, <1>3

-----------------------------------------------------------------------------
(***************************************************************************)
(* The expiry counter                                                      *)
(***************************************************************************)

\* total_purged_expired lags behind the log by n removals: those of a purge
\* that has not counted them yet.
Lags(s, n) ==
  s.seq <= RAM_EVENT_LOG_SIZE =>
    s.total_purged_expired + n = Cardinality(Logged(s, "EXPIRE"))

LEMMA NoLag ==
  ASSUME NEW s \in Store
  PROVE  Lags(s, 0) <=> ExpiriesCounted(s)
BY DEF Lags, ExpiriesCounted, Store

(* An event more is an expiry more or none.                                *)
LEMMA PushLags ==
  ASSUME NEW s \in Store, NEW s2 \in Store, NEW e \in Event, LogIsSuffix(s),
         s2.events = Push(s.events, e), s2.seq = s.seq + 1,
         s2.total_purged_expired = s.total_purged_expired,
         NEW n \in Nat, Lags(s, n)
  PROVE  Lags(s2, IF e.action = "EXPIRE" THEN n + 1 ELSE n)
<1> SUFFICES ASSUME s2.seq <= RAM_EVENT_LOG_SIZE
             PROVE  s2.total_purged_expired + (IF e.action = "EXPIRE" THEN n + 1 ELSE n)
                      = Cardinality(Logged(s2, "EXPIRE"))
  BY DEF Lags
<1> DEFINE L == Len(s.events)
<1>1. /\ s.seq \in Nat /\ RAM_EVENT_LOG_SIZE \in Nat /\ s.total_purged_expired \in Nat
      /\ s.events \in Seq(Event) /\ L \in Nat
  BY RamStoreAssumption DEF Store
<1>2. L = s.seq /\ L < RAM_EVENT_LOG_SIZE
  BY <1>1 DEF LogIsSuffix
<1>3. s2.events = Append(s.events, e)
  BY <1>2 DEF Push
<1>4. /\ DOMAIN s.events = 1..L /\ DOMAIN s2.events = 1..(L + 1)
      /\ s2.events[L + 1] = e
      /\ \A i \in 1..L : s2.events[i] = s.events[i]
  BY <1>1, <1>3
<1> HIDE DEF L
<1>5. Logged(s2, "EXPIRE") = IF e.action = "EXPIRE" THEN Logged(s, "EXPIRE") \cup {L + 1}
                             ELSE Logged(s, "EXPIRE")
  BY <1>1, <1>4 DEF Logged
<1>6. /\ IsFiniteSet(Logged(s, "EXPIRE")) /\ L + 1 \notin Logged(s, "EXPIRE")
      /\ Cardinality(Logged(s, "EXPIRE")) \in Nat
  <2>1. Logged(s, "EXPIRE") \in SUBSET (1..L)
    BY <1>4 DEF Logged
  <2>2. IsFiniteSet(1..L) /\ L + 1 \notin 1..L
    BY <1>1, FS_Interval
  <2> QED  BY <2>1, <2>2, FS_Subset, FS_CardinalityType
<1>7. s.total_purged_expired + n = Cardinality(Logged(s, "EXPIRE"))
  BY <1>1, <1>2 DEF Lags
<1>8. CASE e.action = "EXPIRE"
  <2>1. Cardinality(Logged(s2, "EXPIRE")) = Cardinality(Logged(s, "EXPIRE")) + 1
    BY <1>5, <1>6, <1>8, FS_AddElement
  <2> QED  BY <1>1, <1>6, <1>7, <1>8, <2>1
<1>9. CASE e.action # "EXPIRE"
  BY <1>5, <1>7, <1>9
<1> QED  BY <1>8, <1>9

LEMMA PurgeHeldLags ==
  ASSUME NEW s, Consistent(s), NEW t \in Held(s), NEW r \in Reasons,
         NEW n \in Nat, Lags(s, n)
  PROVE  Lags(PurgeOne(s, t, r), IF r = "EXPIRE" THEN n + 1 ELSE n)
<1> DEFINE s2 == PurgeOne(s, t, r)
           e == PurgeEvent(s, t, r)
<1>1. /\ s2.events = Push(s.events, e) /\ s2.seq = s.seq + 1 /\ e \in Event
      /\ s2.total_purged_expired = s.total_purged_expired
  BY PurgeHeldFields DEF Consistent
<1>2. s \in Store /\ s2 \in Store /\ LogIsSuffix(s)
  <2>1. t \in TxIds  BY DEF Held
  <2> QED  BY <2>1, PurgeOneConsistent DEF Consistent, LogAgreesWithRam
<1>3. e.action = r
  BY DEF PurgeEvent
<1> HIDE DEF s2, e
<1>4. Lags(s2, IF e.action = "EXPIRE" THEN n + 1 ELSE n)
  BY <1>1, <1>2, PushLags
<1> QED  BY <1>3, <1>4 DEF s2

\* A wipe is no expiry, whether it finds something or not.
LEMMA WipeLags ==
  ASSUME NEW s, Consistent(s), NEW t \in TxIds, NEW n \in Nat, Lags(s, n)
  PROVE  Lags(PurgeOne(s, t, "WIPE"), n)
<1>1. CASE t \notin Held(s)
  BY <1>1 DEF Held, PurgeOne
<1>2. CASE t \in Held(s)
  BY <1>2, PurgeHeldLags DEF Reasons
<1> QED  BY <1>1, <1>2

LEMMA StageLags ==
  ASSUME NEW s, Consistent(s), NEW t \in TxIds, NEW a \in Addresses,
         NEW p \in Payloads, NEW x \in Nat, NEW n \in Nat, Lags(s, n)
  PROVE  Lags(Stage(s, t, a, p, x), n)
<1> DEFINE s1 == PurgeOne(s, t, "WIPE")
           s2 == Insert(s1, t, a, p, x)
           e == StageEvent(s1, t, p)
<1>1. Consistent(s1) /\ Lags(s1, n)
  BY PurgeOneConsistent, WipeLags DEF Reasons
<1>2. Stage(s, t, a, p, x) = s2 /\ Consistent(Stage(s, t, a, p, x))
  BY StageConsistent DEF Stage
<1> HIDE DEF s1
<1>3. s1 \in Store /\ LogIsSuffix(s1)
  BY <1>1 DEF Consistent, LogAgreesWithRam
<1>4. /\ s2.events = Push(s1.events, e) /\ s2.seq = s1.seq + 1 /\ e \in Event
      /\ s2.total_purged_expired = s1.total_purged_expired
  <2>1. Inserted(s1, Insert(s1, t, a, p, x), t, a, p, x)
    BY <1>3, InsertFields
  <2> QED  BY <2>1 DEF Inserted
<1>5. e.action # "EXPIRE"
  BY DEF StageEvent
<1> HIDE DEF s2, e
<1>6. s2 \in Store
  BY <1>2 DEF Consistent
<1>7. Lags(s2, IF e.action = "EXPIRE" THEN n + 1 ELSE n)
  BY <1>1, <1>3, <1>4, <1>6, PushLags
<1> QED  BY <1>2, <1>5, <1>7

(* Counting n removals catches up by n.                                    *)
LEMMA CountExpiredLags ==
  ASSUME NEW s \in Store, NEW n \in Nat, Lags(s, n)
  PROVE  Lags(CountExpired(s, n), 0)
<1>1. /\ CountExpired(s, n).events = s.events
      /\ CountExpired(s, n).seq = s.seq
      /\ CountExpired(s, n).total_purged_expired = s.total_purged_expired + n
      /\ s.total_purged_expired \in Nat
  BY DEF CountExpired, Store
<1> QED  BY <1>1 DEF Lags, Logged

LEMMA RetrieveLags ==
  ASSUME NEW s, Consistent(s), NEW t \in TxIds, NEW now \in Nat, Lags(s, 0)
  PROVE  Lags(Retrieve(s, t, now), 0)
<1>1. CASE s.data[t] = None
  BY <1>1 DEF Retrieve
<1>2. CASE s.data[t] # None /\ t \in Expired(s, now)
  <2> DEFINE s1 == PurgeOne(s, t, "EXPIRE")
  <2>1. s1 \in Store /\ Lags(s1, 1)
    <3>1. t \in Held(s)  BY <1>2 DEF Held
    <3>2. Lags(s1, 0 + 1)  BY <3>1, PurgeHeldLags DEF Reasons
    <3>3. Consistent(s1)  BY PurgeOneConsistent DEF Reasons
    <3> QED  BY <3>2, <3>3 DEF Consistent
  <2>2. Retrieve(s, t, now) = CountExpired(s1, 1)
    BY <1>2 DEF Retrieve
  <2> HIDE DEF s1
  <2> QED  BY <2>1, <2>2, CountExpiredLags
<1>3. CASE s.data[t] # None /\ t \notin Expired(s, now)
  <2>1. Retrieve(s, t, now) = [s EXCEPT !.total_retrieved = @ + 1]
    BY <1>3 DEF Retrieve
  <2>2. /\ Retrieve(s, t, now).total_purged_expired = s.total_purged_expired
        /\ Retrieve(s, t, now).events = s.events
        /\ Retrieve(s, t, now).seq = s.seq
    BY <2>1 DEF Consistent, Store
  <2> QED  BY <2>2 DEF Lags, Logged
<1> QED  BY <1>1, <1>2, <1>3

LEMMA EmptyLags == Lags(EmptyStore, 0)
<1>1. Logged(EmptyStore, "EXPIRE") = {}
  BY EmptyStoreType DEF Logged
<1>2. EmptyStore.total_purged_expired = 0 /\ Cardinality(Logged(EmptyStore, "EXPIRE")) = 0
  BY <1>1, FS_EmptySet DEF EmptyStore
<1> QED  BY <1>2 DEF Lags

=============================================================================
