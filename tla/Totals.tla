------------------------------- MODULE Totals -------------------------------
(***************************************************************************)
(* Sums over finite sets, as the folds of the community modules define     *)
(* them, finite sets listed in order, sequences taken apart and put        *)
(* together, and the two least-element principles every proof by induction *)
(* in this project rests on: the provers cannot instantiate an induction   *)
(* theorem's operator, but they can name the set of the counterexamples    *)
(* and look at a least one.                                                *)
(***************************************************************************)
EXTENDS Integers, Sequences, SequencesExt, FiniteSets, FiniteSetTheorems,
        SequenceTheorems, TLAPS, Reach

-----------------------------------------------------------------------------
(* Least elements.                                                         *)

\* A collection of subsets of a finite set that is not empty has a smallest
\* member: one none of the others lies within.
LEMMA MinSubset ==
  ASSUME NEW S, IsFiniteSet(S), NEW U \in SUBSET SUBSET S, U # {}
  PROVE  \E T \in U : \A V \in U : ~(V \subseteq T /\ V # T)
<1>1. IsWellFoundedOn(StrictSubsetOrdering(S), SUBSET S)
  BY FS_StrictSubsetOrderingWellFounded, FS_FiniteSubsetsOfFinite
<1>2. PICK T \in U : \A V \in U : ~(<<V, T>> \in StrictSubsetOrdering(S))
  BY <1>1, WFMin
<1> QED
  BY <1>2 DEF StrictSubsetOrdering

\* A set of natural numbers that is not empty has a least element.
LEMMA LeastNumber ==
  ASSUME NEW N \in SUBSET Nat, N # {}
  PROVE  \E n \in N : \A m \in N : n <= m
<1>1. PICK n \in N : \A m \in N : ~(<<m, n>> \in OpToRel(<, Nat))
  BY NatLessThanWellFounded, WFMin
<1>2. \A m \in N : ~(m < n)
  BY <1>1 DEF OpToRel
<1> QED
  BY <1>2

-----------------------------------------------------------------------------
(* Sums.                                                                   *)

\* The element a fold takes first, and the sum it computes: the total of
\* w[x] for x in S.
Pick(s) == CHOOSE x \in s : TRUE
Unfolded(w, S, g) == [s \in SUBSET S |-> IF s = {} THEN 0 ELSE w[Pick(s)] + g[s \ {Pick(s)}]]
Table(w, S) == CHOOSE g : g = Unfolded(w, S, g)
Total(w, S) == Table(w, S)[S]

\* What the fold takes next is in the set.
LEMMA PickIn == \A s : s # {} => Pick(s) \in s
  BY DEF Pick

\* Two tables of partial sums agree wherever both are defined.
LEMMA TablesAgree ==
  ASSUME NEW S, IsFiniteSet(S), NEW w, NEW T \in SUBSET S, NEW V \in SUBSET T,
         NEW g, g = Unfolded(w, T, g), NEW h, h = Unfolded(w, V, h)
  PROVE  \A s \in SUBSET V : g[s] = h[s]
<1> DEFINE U == {s \in SUBSET V : g[s] # h[s]}
<1>1. SUFFICES ASSUME U # {} PROVE FALSE
  OBVIOUS
<1>2. U \in SUBSET SUBSET S
  OBVIOUS
<1>3. PICK s \in U : \A r \in U : ~(r \subseteq s /\ r # s)
  <2> HIDE DEF U
  <2> QED
    BY <1>1, <1>2, MinSubset
<1>4. s \in SUBSET V /\ s \in SUBSET T /\ g[s] # h[s]
  BY <1>3
<1>5. /\ g[s] = IF s = {} THEN 0 ELSE w[Pick(s)] + g[s \ {Pick(s)}]
      /\ h[s] = IF s = {} THEN 0 ELSE w[Pick(s)] + h[s \ {Pick(s)}]
  BY <1>4 DEF Unfolded
<1>6. s # {} => s \ {Pick(s)} \notin U
  BY <1>3, PickIn
<1>7. s # {} => g[s \ {Pick(s)}] = h[s \ {Pick(s)}]
  BY <1>4, <1>6
<1> QED
  BY <1>4, <1>5, <1>7

\* The recursion has a solution: the table is what its equation says.
LEMMA TableUnfolds ==
  ASSUME NEW S, IsFiniteSet(S), NEW w
  PROVE  Table(w, S) = Unfolded(w, S, Table(w, S))
<1> DEFINE Has(T) == Table(w, T) = Unfolded(w, T, Table(w, T))
           U == {T \in SUBSET S : ~Has(T)}
<1>1. SUFFICES ASSUME U # {} PROVE FALSE
  OBVIOUS
<1>2. U \in SUBSET SUBSET S
  OBVIOUS
<1>3. PICK T \in U : \A V \in U : ~(V \subseteq T /\ V # T)
  <2> HIDE DEF U
  <2> QED
    BY <1>1, <1>2, MinSubset
<1>4. ASSUME NEW V \in SUBSET T, V # T PROVE Has(V)
  BY <1>3, <1>4
<1> DEFINE Less(s) == s \ {Pick(s)}
           h == [s \in SUBSET T |-> IF s = {} THEN 0 ELSE w[Pick(s)] + Total(w, Less(s))]
<1>5. ASSUME NEW s \in SUBSET T, s # {} PROVE h[Less(s)] = Total(w, Less(s))
  <2> DEFINE r == Less(s)
  <2>1. r \in SUBSET T /\ r # T
    BY <1>5, PickIn
  <2>2. Has(r)
    BY <1>4, <2>1
  <2>3. Total(w, r) = IF r = {} THEN 0 ELSE w[Pick(r)] + Table(w, r)[Less(r)]
    BY <2>2 DEF Total, Unfolded
  <2>4. h[r] = IF r = {} THEN 0 ELSE w[Pick(r)] + Total(w, Less(r))
    BY <2>1
  <2>5. r # {} => Table(w, r)[Less(r)] = Table(w, Less(r))[Less(r)]
    <3> SUFFICES ASSUME r # {} PROVE Table(w, r)[Less(r)] = Table(w, Less(r))[Less(r)]
      OBVIOUS
    <3>1. Less(r) \in SUBSET r /\ Less(r) \in SUBSET T /\ Less(r) # T
      BY <2>1, PickIn
    <3>2. Has(Less(r))
      BY <1>4, <3>1
    <3>3. r \in SUBSET S
      BY <2>1, <1>3
    <3> HIDE DEF Less, h, r
    <3> QED
      BY <2>2, <3>1, <3>2, <3>3, TablesAgree
  <2> QED
    BY <2>3, <2>4, <2>5 DEF Total
<1>6. h = Unfolded(w, T, h)
  BY <1>5 DEF Unfolded
<1>7. Has(T)
  <2> HIDE DEF h
  <2> QED
    BY <1>6 DEF Table
<1> QED
  BY <1>3, <1>7

\* Nothing sums to nothing.
LEMMA TotalEmpty ==
  ASSUME NEW w
  PROVE  Total(w, {}) = 0
<1>1. Table(w, {}) = Unfolded(w, {}, Table(w, {}))
  BY TableUnfolds, FS_EmptySet
<1> QED
  BY <1>1 DEF Unfolded, Total

\* A sum is its first summand and the sum of the rest.
LEMMA TotalStep ==
  ASSUME NEW S, IsFiniteSet(S), NEW w, S # {}
  PROVE  Total(w, S) = w[Pick(S)] + Total(w, S \ {Pick(S)})
<1> DEFINE R == S \ {Pick(S)}
<1>1. Table(w, S) = Unfolded(w, S, Table(w, S)) /\ Table(w, R) = Unfolded(w, R, Table(w, R))
  BY TableUnfolds, FS_Subset
<1>2. Total(w, S) = w[Pick(S)] + Table(w, S)[R]
  BY <1>1 DEF Total, Unfolded
<1>3. Table(w, S)[R] = Table(w, R)[R]
  <2>1. R \in SUBSET S /\ S \in SUBSET S
    OBVIOUS
  <2> HIDE DEF R
  <2> QED
    BY <1>1, <2>1, TablesAgree
<1> QED
  BY <1>2, <1>3 DEF Total

\* A sum of natural numbers is one.
LEMMA TotalNat ==
  ASSUME NEW S, IsFiniteSet(S), NEW w, \A x \in S : w[x] \in Nat
  PROVE  Total(w, S) \in Nat
<1> DEFINE U == {T \in SUBSET S : Total(w, T) \notin Nat}
<1>1. SUFFICES ASSUME U # {} PROVE FALSE
  OBVIOUS
<1>2. PICK T \in U : \A V \in U : ~(V \subseteq T /\ V # T)
  <2>1. U \in SUBSET SUBSET S
    OBVIOUS
  <2> HIDE DEF U
  <2> QED
    BY <1>1, <2>1, MinSubset
<1>3. T # {} => Pick(T) \in T /\ Total(w, T \ {Pick(T)}) \in Nat
  BY <1>2, PickIn
<1>4. /\ T \in SUBSET S /\ Total(w, T) \notin Nat
      /\ Total(w, {}) = 0
      /\ T # {} => Total(w, T) = w[Pick(T)] + Total(w, T \ {Pick(T)})
  BY <1>2, TotalEmpty, TotalStep, FS_Subset
<1>5. T # {} => w[Pick(T)] \in Nat
  BY <1>3, <1>4
<1> QED
  BY <1>3, <1>4, <1>5

\* ... and so it is for any summand: the order of the fold does not matter.
LEMMA TotalRemove ==
  ASSUME NEW S, IsFiniteSet(S), NEW w, \A y \in S : w[y] \in Nat, NEW x \in S
  PROVE  Total(w, S) = w[x] + Total(w, S \ {x})
<1> DEFINE Bad(T) == \E y \in T : Total(w, T) # w[y] + Total(w, T \ {y})
           U == {T \in SUBSET S : Bad(T)}
<1>1. SUFFICES ASSUME U # {} PROVE FALSE
  OBVIOUS
<1>2. PICK T \in U : \A V \in U : ~(V \subseteq T /\ V # T)
  <2>1. U \in SUBSET SUBSET S
    OBVIOUS
  <2> HIDE DEF U
  <2> QED
    BY <1>1, <2>1, MinSubset
<1>3. PICK y \in T : Total(w, T) # w[y] + Total(w, T \ {y})
  BY <1>2
<1>n. \A V \in SUBSET T : Total(w, V) \in Nat
  BY <1>2, TotalNat, FS_Subset
<1> DEFINE p == Pick(T)
           V == T \ {p}
           W == T \ {y}
<1>4. /\ p \in T /\ T \in SUBSET S
      /\ Total(w, T) = w[p] + Total(w, V)
  BY <1>2, PickIn, TotalStep, FS_Subset
<1>5. CASE p = y
  BY <1>3, <1>4, <1>5
<1>6. CASE p # y
  <2>1. V \notin U /\ W \notin U
    BY <1>2, <1>3, <1>4
  <2>2. ~Bad(V) /\ ~Bad(W)
    BY <2>1, <1>4
  <2>3. Total(w, V) = w[y] + Total(w, V \ {y})
    BY <2>2, <1>3, <1>6
  <2>4. Total(w, W) = w[p] + Total(w, W \ {p})
    BY <2>2, <1>4, <1>6
  <2>5. V \ {y} = W \ {p}
    OBVIOUS
  <2>6. /\ w[y] \in Nat /\ w[p] \in Nat
        /\ Total(w, V \ {y}) \in Nat
    BY <1>3, <1>4, <1>n
  <2>7. Total(w, T) # w[y] + Total(w, W)
    BY <1>3
  <2> HIDE DEF p, V, W
  <2> QED
    BY <1>3, <1>4, <2>3, <2>4, <2>5, <2>6, <2>7
<1> QED
  BY <1>5, <1>6

\* A part weighs no more than the whole.
LEMMA TotalMonotone ==
  ASSUME NEW S, IsFiniteSet(S), NEW w, \A x \in S : w[x] \in Nat, NEW V \in SUBSET S
  PROVE  Total(w, V) <= Total(w, S)
<1> DEFINE U == {T \in SUBSET S : V \subseteq T /\ ~(Total(w, V) <= Total(w, T))}
<1>1. SUFFICES ASSUME U # {} PROVE FALSE
  OBVIOUS
<1>2. PICK T \in U : \A R \in U : ~(R \subseteq T /\ R # T)
  <2>1. U \in SUBSET SUBSET S
    OBVIOUS
  <2> HIDE DEF U
  <2> QED
    BY <1>1, <2>1, MinSubset
<1>n. \A R \in SUBSET S : Total(w, R) \in Nat /\ IsFiniteSet(R)
  BY TotalNat, FS_Subset
<1>3. V # T
  BY <1>2, <1>n
<1>4. PICK x \in T : x \notin V
  BY <1>2, <1>3
<1>5. Total(w, V) <= Total(w, T \ {x})
  BY <1>2, <1>4
<1>6. Total(w, T) = w[x] + Total(w, T \ {x})
  BY <1>2, <1>n, TotalRemove
<1>7. w[x] \in Nat
  BY <1>2
<1> QED
  BY <1>2, <1>5, <1>6, <1>7, <1>n

-----------------------------------------------------------------------------
(* Sorted sequences.                                                       *)

\* R orders the elements of S, one way or the other, and is transitive.
Orders(R, S) ==
  /\ \A x, y \in S : x = y \/ <<x, y>> \in R \/ <<y, x>> \in R
  /\ \A x, y, z \in S : (<<x, y>> \in R /\ <<y, z>> \in R) => <<x, z>> \in R

\* A finite set that is not empty has a last element.
LEMMA LastElement ==
  ASSUME NEW S, IsFiniteSet(S), S # {}, NEW R, Orders(R, S)
  PROVE  \E m \in S : \A x \in S : x = m \/ <<x, m>> \in R
<1> DEFINE Has(T) == \E m \in T : \A x \in T : x = m \/ <<x, m>> \in R
           U == {T \in SUBSET S : T # {} /\ ~Has(T)}
<1>1. SUFFICES ASSUME U # {} PROVE FALSE
  OBVIOUS
<1>2. PICK T \in U : \A V \in U : ~(V \subseteq T /\ V # T)
  <2>1. U \in SUBSET SUBSET S
    OBVIOUS
  <2> HIDE DEF U
  <2> QED
    BY <1>1, <2>1, MinSubset
<1>3. PICK y \in T : TRUE
  BY <1>2
<1> DEFINE V == T \ {y}
<1>4. V = {} \/ Has(V)
  <2>1. V \in SUBSET S /\ V \subseteq T /\ V # T
    BY <1>2, <1>3
  <2> HIDE DEF Has, V
  <2> QED
    BY <1>2, <2>1
<1>5. CASE V = {}
  BY <1>2, <1>3, <1>5
<1>6. CASE Has(V)
  <2>1. PICK m \in V : \A x \in V : x = m \/ <<x, m>> \in R
    BY <1>6
  <2>2. CASE <<y, m>> \in R
    <3>1. \A x \in T : x = m \/ <<x, m>> \in R
      BY <2>1, <2>2
    <3> QED
      BY <1>2, <2>1, <3>1
  <2>3. CASE <<m, y>> \in R
    <3>1. \A x \in T : x = y \/ <<x, y>> \in R
      BY <1>2, <1>3, <2>1, <2>3 DEF Orders
    <3> QED
      BY <1>2, <1>3, <3>1
  <2>4. <<y, m>> \in R \/ <<m, y>> \in R
    BY <1>2, <1>3, <2>1 DEF Orders
  <2> QED
    BY <2>2, <2>3, <2>4
<1> QED
  BY <1>4, <1>5, <1>6

\* A finite set can be listed in order, each element once.
LEMMA Listed ==
  ASSUME NEW S, IsFiniteSet(S), NEW R, Orders(R, S)
  PROVE  \E f \in [1..Cardinality(S) -> S] :
           /\ \A i, j \in 1..Cardinality(S) : i # j => f[i] # f[j]
           /\ \A i, j \in 1..Cardinality(S) : i < j => <<f[i], f[j]>> \in R
<1> DEFINE Lists(f, T) ==
             /\ f \in [1..Cardinality(T) -> T]
             /\ \A i, j \in 1..Cardinality(T) : i # j => f[i] # f[j]
             /\ \A i, j \in 1..Cardinality(T) : i < j => <<f[i], f[j]>> \in R
           U == {T \in SUBSET S : ~\E f : Lists(f, T)}
<1>1. SUFFICES ASSUME U # {} PROVE FALSE
  <2>1. S \notin U => \E f : Lists(f, S)
    OBVIOUS
  <2> QED
    BY <2>1
<1>2. PICK T \in U : \A V \in U : ~(V \subseteq T /\ V # T)
  <2>1. U \in SUBSET SUBSET S
    OBVIOUS
  <2> HIDE DEF U
  <2> QED
    BY <1>1, <2>1, MinSubset
<1>3. IsFiniteSet(T) /\ Orders(R, T)
  BY <1>2, FS_Subset DEF Orders
<1>4. CASE T = {}
  <2>1. Cardinality(T) = 0
    BY <1>4, FS_EmptySet
  <2>2. Lists([i \in 1..0 |-> i], T)
    BY <2>1
  <2> QED
    BY <1>2, <2>2
<1>5. CASE T # {}
  <2>1. PICK m \in T : \A x \in T : x = m \/ <<x, m>> \in R
    BY <1>3, <1>5, LastElement
  <2> DEFINE V == T \ {m}
  <2>2. PICK f : Lists(f, V)
    <3>1. V \in SUBSET S /\ V \subseteq T /\ V # T
      BY <1>2, <2>1
    <3> HIDE DEF Lists, V
    <3> QED
      BY <1>2, <3>1
  <2>3. PICK n \in Nat : Cardinality(V) = n /\ Cardinality(T) = n + 1
    <3>1. IsFiniteSet(V) /\ m \notin V /\ V \cup {m} = T
      BY <1>3, <2>1, FS_RemoveElement
    <3> HIDE DEF V
    <3> QED
      BY <3>1, FS_AddElement, FS_CardinalityType
  <2> DEFINE g == [i \in 1..(n + 1) |-> IF i = n + 1 THEN m ELSE f[i]]
  <2>4. /\ f \in [1..n -> V]
        /\ \A i, j \in 1..n : i # j => f[i] # f[j]
        /\ \A i, j \in 1..n : i < j => <<f[i], f[j]>> \in R
    BY <2>2, <2>3
  <2>5. \A i \in 1..(n + 1) : i = n + 1 \/ i \in 1..n
    OBVIOUS
  <2>6. g \in [1..(n + 1) -> T]
    BY <2>1, <2>4, <2>5
  <2>7. ASSUME NEW i \in 1..(n + 1), NEW j \in 1..(n + 1), i # j PROVE g[i] # g[j]
    BY <2>4, <2>5, <2>7
  <2>8. ASSUME NEW i \in 1..(n + 1), NEW j \in 1..(n + 1), i < j PROVE <<g[i], g[j]>> \in R
    <3>1. i \in 1..n /\ g[i] = f[i] /\ f[i] \in V
      BY <2>4, <2>8
    <3>2. CASE j = n + 1
      BY <2>1, <3>1, <3>2
    <3>3. CASE j \in 1..n
      <4>1. g[j] = f[j]
        BY <3>3
      <4> QED
        BY <2>4, <2>8, <3>1, <3>3, <4>1
    <3> QED
      BY <2>5, <3>2, <3>3
  <2>9. Lists(g, T)
    <3> HIDE DEF g
    <3> QED
      BY <2>3, <2>6, <2>7, <2>8
  <2> HIDE DEF g, Lists
  <2> QED
    BY <1>2, <2>9
<1> QED
  BY <1>4, <1>5

-----------------------------------------------------------------------------
(* What can be reached.                                                    *)

\* The least set of nodes that holds s and where steps lead from it, and the
\* recursion that Reached is.
Closed(next, T) == \A n \in T : next[n] \subseteq T
Least(next, s) ==
  {n \in DOMAIN next : \A T \in SUBSET DOMAIN next : (s \subseteq T /\ Closed(next, T)) => n \in T}
Growing(next, g) == [t \in SUBSET DOMAIN next |-> IF Onward(next, t) = t THEN t ELSE g[Onward(next, t)]]
Reacher(next) == CHOOSE g : g = Growing(next, g)

\* The recursion by its name.
LEMMA ReachedByTable == \A next, s : Reached(next, s) = Reacher(next)[s]
  BY DEF Reached, Reacher, Growing

\* What one step adds is reached; a set that does not grow is all there is.
LEMMA LeastGrows ==
  ASSUME NEW next, \A n \in DOMAIN next : next[n] \subseteq DOMAIN next,
         NEW t \in SUBSET DOMAIN next
  PROVE  /\ Onward(next, t) \in SUBSET DOMAIN next /\ t \subseteq Onward(next, t)
         /\ Least(next, Onward(next, t)) = Least(next, t)
         /\ Onward(next, t) = t => Least(next, t) = t
         /\ t \subseteq Least(next, t) /\ Closed(next, Least(next, t))
<1>1. Onward(next, t) \in SUBSET DOMAIN next /\ t \subseteq Onward(next, t)
  BY DEF Onward
<1>2. \A T \in SUBSET DOMAIN next : Closed(next, T) => (t \subseteq T <=> Onward(next, t) \subseteq T)
  BY DEF Closed, Onward
<1>3. Least(next, Onward(next, t)) = Least(next, t)
  BY <1>2 DEF Least
<1>4. ASSUME Onward(next, t) = t PROVE Least(next, t) = t
  <2>1. Closed(next, t)
    BY <1>4 DEF Closed, Onward
  <2> QED
    BY <2>1 DEF Least
<1>5. t \subseteq Least(next, t)
  BY DEF Least
<1>6. Closed(next, Least(next, t))
  <2> SUFFICES ASSUME NEW n \in Least(next, t), NEW m \in next[n] PROVE m \in Least(next, t)
    BY DEF Closed
  <2>1. n \in DOMAIN next /\ m \in DOMAIN next
    BY DEF Least
  <2>2. ASSUME NEW T \in SUBSET DOMAIN next, t \subseteq T, Closed(next, T) PROVE m \in T
    <3>1. n \in T
      BY <2>2 DEF Least
    <3> QED
      BY <2>2, <3>1 DEF Closed
  <2> QED
    BY <2>1, <2>2 DEF Least
<1> QED
  BY <1>1, <1>3, <1>4, <1>5, <1>6

\* The recursion has a solution.
LEMMA ReacherGrows ==
  ASSUME NEW next, \A n \in DOMAIN next : next[n] \subseteq DOMAIN next
  PROVE  Reacher(next) = Growing(next, Reacher(next))
<1> DEFINE h == [t \in SUBSET DOMAIN next |-> Least(next, t)]
<1>1. ASSUME NEW t \in SUBSET DOMAIN next
      PROVE  h[t] = IF Onward(next, t) = t THEN t ELSE h[Onward(next, t)]
  BY LeastGrows
<1>2. h = Growing(next, h)
  <2>1. h = [t \in SUBSET DOMAIN next |-> h[t]]
    OBVIOUS
  <2> HIDE DEF h
  <2> QED
    BY <1>1, <2>1 DEF Growing
<1> HIDE DEF h
<1> QED
  BY <1>2 DEF Reacher

\* Within a finite set that no step leaves, what is reached is the least set
\* that holds s and that no step leaves.
LEMMA ReachedIsLeast ==
  ASSUME NEW next, \A n \in DOMAIN next : next[n] \subseteq DOMAIN next,
         NEW F \in SUBSET DOMAIN next, IsFiniteSet(F), Closed(next, F), NEW s \in SUBSET F
  PROVE  /\ s \subseteq Reached(next, s) /\ Reached(next, s) \subseteq F
         /\ Closed(next, Reached(next, s))
         /\ \A T : (s \subseteq T /\ \A n \in T \cap Reached(next, s) : next[n] \subseteq T)
                     => Reached(next, s) \subseteq T
<1> DEFINE g == Reacher(next)
           U == {V \in SUBSET F : g[F \ V] # Least(next, F \ V)}
<1>1. \A t \in SUBSET DOMAIN next : g[t] = IF Onward(next, t) = t THEN t ELSE g[Onward(next, t)]
  <2>1. g = Growing(next, g)
    BY ReacherGrows
  <2> HIDE DEF g
  <2> QED
    BY <2>1 DEF Growing
<1> HIDE DEF g
<1>2. U = {}
  <2> SUFFICES ASSUME U # {} PROVE FALSE
    OBVIOUS
  <2>1. U \in SUBSET SUBSET F
    OBVIOUS
  <2>2. PICK V \in U : \A W \in U : ~(W \subseteq V /\ W # V)
    <3> HIDE DEF U
    <3> QED
      BY <2>1, MinSubset
  <2> DEFINE t == F \ V
             w == F \ Onward(next, t)
  <2>3. t \in SUBSET F /\ t \in SUBSET DOMAIN next /\ g[t] # Least(next, t)
    OBVIOUS
  <2>4. Onward(next, t) # t
    BY <1>1, <2>3, LeastGrows
  <2>5. Onward(next, t) \in SUBSET F /\ t \subseteq Onward(next, t)
    BY <2>3 DEF Onward, Closed
  <2>6. w \in SUBSET F /\ w \subseteq V /\ w # V /\ F \ w = Onward(next, t)
    BY <2>4, <2>5
  <2>7. w \notin U
    BY <2>2, <2>6
  <2>8. g[Onward(next, t)] = Least(next, Onward(next, t))
    BY <2>6, <2>7
  <2> QED
    BY <1>1, <2>3, <2>4, <2>8, LeastGrows
<1>3. F \ (F \ s) = s /\ F \ s \in SUBSET F
  OBVIOUS
<1>4. g[s] = Least(next, s)
  BY <1>2, <1>3
<1>5. Reached(next, s) = Least(next, s)
  BY <1>4, ReachedByTable DEF g
<1>6. s \subseteq Least(next, s) /\ Closed(next, Least(next, s)) /\ Least(next, s) \in SUBSET DOMAIN next
  <2>1. s \in SUBSET DOMAIN next
    OBVIOUS
  <2>2. s \subseteq Least(next, s) /\ Closed(next, Least(next, s))
    BY <2>1, LeastGrows
  <2>3. Least(next, s) \in SUBSET DOMAIN next
    BY DEF Least
  <2> QED
    BY <2>2, <2>3
<1>7. Least(next, s) \subseteq F
  BY DEF Least
<1>8. ASSUME NEW T, s \subseteq T, \A n \in T \cap Least(next, s) : next[n] \subseteq T
      PROVE  Least(next, s) \subseteq T
  <2> DEFINE R == T \cap Least(next, s)
  <2>1. R \in SUBSET DOMAIN next /\ s \subseteq R /\ Closed(next, R)
    BY <1>6, <1>8 DEF Closed
  <2>2. Least(next, s) \subseteq R
    BY <2>1 DEF Least
  <2> QED
    BY <2>2
<1> QED
  BY <1>5, <1>6, <1>7, <1>8

\* A function has finitely many values on a finite set.
LEMMA ImageFinite ==
  ASSUME NEW f, IsFiniteSet(DOMAIN f)
  PROVE  IsFiniteSet({f[x] : x \in DOMAIN f})
<1> DEFINE T == {f[x] : x \in DOMAIN f}
<1>1. PICK g : g = [x \in DOMAIN f |-> f[x]]
  OBVIOUS
<1>2. g \in Surjection(DOMAIN f, T)
  BY <1>1 DEF Surjection
<1> QED
  BY <1>2, FS_Surjection

-----------------------------------------------------------------------------
(* Sequences.                                                              *)

\* A prefix, element by element.
LEMMA PrefixOf ==
  ASSUME NEW S, NEW p \in Seq(S), NEW q \in Seq(S)
  PROVE  IsPrefix(p, q) <=> Len(p) <= Len(q) /\ \A k \in 1..Len(p) : p[k] = q[k]
<1>1. ASSUME Len(p) <= Len(q)
      PROVE  /\ SubSeq(p, 1, Len(p)) = [k \in 1..Len(p) |-> p[k]]
             /\ SubSeq(q, 1, Len(p)) = [k \in 1..Len(p) |-> q[k]]
  BY <1>1
<1> QED
  BY <1>1 DEF IsPrefix

\* What is appended leaves the prefixes.
LEMMA PrefixGrows ==
  ASSUME NEW S, NEW p \in Seq(S), NEW q \in Seq(S), NEW e \in S
  PROVE  /\ IsPrefix(p, p) /\ Append(q, e) \in Seq(S)
         /\ IsPrefix(p, q) => IsPrefix(p, Append(q, e))
<1>1. IsPrefix(p, p)
  BY PrefixOf
<1>2. PICK r : r = Append(q, e)
  OBVIOUS
<1>3. r \in Seq(S)
  BY <1>2
<1>4. Len(r) = Len(q) + 1 /\ \A k \in 1..Len(q) : r[k] = q[k]
  BY <1>2
<1>5. IsPrefix(p, q) => IsPrefix(p, r)
  <2> SUFFICES ASSUME IsPrefix(p, q) PROVE IsPrefix(p, r)
    OBVIOUS
  <2>1. Len(p) <= Len(q) /\ \A k \in 1..Len(p) : p[k] = q[k]
    BY PrefixOf
  <2>2. \A k \in 1..Len(p) : k \in 1..Len(q)
    BY <2>1
  <2>3. Len(p) <= Len(r) /\ \A k \in 1..Len(p) : p[k] = r[k]
    BY <1>4, <2>1, <2>2
  <2> QED
    BY <1>3, <2>3, PrefixOf
<1> QED
  BY <1>1, <1>2, <1>3, <1>5

\* A prefix of a prefix.
LEMMA PrefixAfter ==
  ASSUME NEW S, NEW p \in Seq(S), NEW q \in Seq(S), NEW r \in Seq(S), IsPrefix(p, q), IsPrefix(q, r)
  PROVE  IsPrefix(p, r)
<1>1. /\ Len(p) <= Len(q) /\ \A k \in 1..Len(p) : p[k] = q[k]
      /\ Len(q) <= Len(r) /\ \A k \in 1..Len(q) : q[k] = r[k]
  BY PrefixOf
<1>2. \A k \in 1..Len(p) : k \in 1..Len(q)
  BY <1>1
<1>3. Len(p) <= Len(r) /\ \A k \in 1..Len(p) : p[k] = r[k]
  BY <1>1, <1>2
<1> QED
  BY <1>3, PrefixOf

\* A finite set as a sequence.
LEMMA AsSequence ==
  ASSUME NEW S, IsFiniteSet(S)
  PROVE  SetToSeq(S) \in Seq(S) /\ \A i \in DOMAIN SetToSeq(S) : SetToSeq(S)[i] \in S
<1>1. PICK f \in Bijection(1..Cardinality(S), S) : TRUE
  BY FS_CardinalityType DEF ExistsBijection
<1>2. f \in [1..Cardinality(S) -> S] /\ IsInjective(f)
  BY <1>1 DEF Bijection, Injection, IsInjective
<1>3. SetToSeq(S) \in [1..Cardinality(S) -> S]
  BY <1>2 DEF SetToSeq
<1>4. Cardinality(S) \in Nat
  BY FS_CardinalityType
<1> QED
  BY <1>3, <1>4

\* A finite set as a sequence has its elements.
LEMMA ListsAll ==
  ASSUME NEW S, IsFiniteSet(S)
  PROVE  SetToSeq(S) \in Seq(S) /\ ToSet(SetToSeq(S)) = S
<1>1. Cardinality(S) \in Nat
  BY FS_CardinalityType
<1>2. PICK f \in Bijection(1..Cardinality(S), S) : TRUE
  BY FS_CardinalityType DEF ExistsBijection
<1>3. f \in [1..Cardinality(S) -> S] /\ IsInjective(f)
  BY <1>2 DEF Bijection, Injection, IsInjective
<1>4. PICK list : list = SetToSeq(S)
  OBVIOUS
<1>5. list \in [1..Cardinality(S) -> S] /\ IsInjective(list)
  BY <1>3, <1>4 DEF SetToSeq
<1>6. list \in Injection(1..Cardinality(S), S)
  BY <1>5 DEF Injection, IsInjective
<1>7. Cardinality(1..Cardinality(S)) = Cardinality(S)
  <2>1. 1 \in Int /\ Cardinality(S) \in Int
    BY <1>1
  <2>2. Cardinality(1..Cardinality(S)) = IF 1 > Cardinality(S) THEN 0 ELSE Cardinality(S) - 1 + 1
    BY <2>1, FS_Interval, Zenon
  <2> QED
    BY <1>1, <2>2
<1>8. list \in Surjection(1..Cardinality(S), S)
  BY <1>6, <1>7, FS_Injection
<1>9. \A x \in S : \E i \in DOMAIN list : list[i] = x
  BY <1>5, <1>8 DEF Surjection
<1>10. ToSet(list) = S
  BY <1>5, <1>9 DEF ToSet
<1>11. list \in Seq(S)
  BY <1>1, <1>5
<1> QED
  BY <1>4, <1>10, <1>11

\* A stack that is not empty is its last element and the rest.
LEMMA StackTop ==
  ASSUME NEW S, NEW s \in Seq(S), s # <<>>
  PROVE  Front(s) \in Seq(S) /\ Last(s) \in S /\ ToSet(s) = {Last(s)} \cup ToSet(Front(s))
<1>1. Len(s) \in Nat /\ Len(s) # 0 /\ DOMAIN s = 1..Len(s)
  OBVIOUS
<1>2. PICK n \in Nat : Len(s) = n + 1
  <2>1. Len(s) - 1 \in Nat /\ Len(s) = (Len(s) - 1) + 1
    BY <1>1
  <2> QED
    BY <2>1
<1>3. Front(s) = SubSeq(s, 1, n)
  BY <1>2 DEF Front
<1>4. PICK r : r = SubSeq(s, 1, n)
  OBVIOUS
<1>5. r \in Seq(S) /\ DOMAIN r = 1..n /\ \A i \in 1..n : r[i] = s[i]
  BY <1>2, <1>4
<1>6. Last(s) = s[n + 1] /\ n + 1 \in DOMAIN s
  BY <1>1, <1>2 DEF Last
<1>7. \A i \in DOMAIN s : i = n + 1 \/ i \in 1..n
  BY <1>1, <1>2
<1>8. \A i \in 1..n : i \in DOMAIN s
  BY <1>1, <1>2
<1>9. ToSet(s) = {Last(s)} \cup ToSet(r)
  BY <1>5, <1>6, <1>7, <1>8 DEF ToSet
<1> QED
  BY <1>3, <1>4, <1>5, <1>6, <1>9

\* What is on a stack when others are put on it.
LEMMA StackAdds ==
  ASSUME NEW S, NEW s \in Seq(S), NEW t \in Seq(S)
  PROVE  s \o t \in Seq(S) /\ ToSet(s \o t) = ToSet(s) \cup ToSet(t)
<1>1. PICK r : r = s \o t
  OBVIOUS
<1>2. /\ r \in Seq(S) /\ Len(r) = Len(s) + Len(t)
      /\ \A i \in 1..Len(s) : r[i] = s[i]
      /\ \A i \in 1..Len(t) : r[Len(s) + i] = t[i]
  BY <1>1
<1>3. /\ Len(s) \in Nat /\ Len(t) \in Nat /\ DOMAIN s = 1..Len(s) /\ DOMAIN t = 1..Len(t)
      /\ DOMAIN r = 1..(Len(s) + Len(t))
  BY <1>2
<1>4. \A i \in DOMAIN r : i \in DOMAIN s \/ \E k \in DOMAIN t : i = Len(s) + k
  <2> TAKE i \in DOMAIN r
  <2>1. i > Len(s) => i - Len(s) \in 1..Len(t) /\ i = Len(s) + (i - Len(s))
    BY <1>3
  <2>2. i <= Len(s) => i \in 1..Len(s)
    BY <1>3
  <2> QED
    BY <1>3, <2>1, <2>2
<1>5. (\A i \in DOMAIN s : i \in DOMAIN r) /\ \A k \in DOMAIN t : Len(s) + k \in DOMAIN r
  BY <1>3
<1>6. ToSet(r) = ToSet(s) \cup ToSet(t)
  <2>1. ASSUME NEW x \in ToSet(r) PROVE x \in ToSet(s) \cup ToSet(t)
    <3>1. PICK i \in DOMAIN r : x = r[i]
      BY DEF ToSet
    <3> QED
      BY <1>2, <1>3, <1>4, <3>1 DEF ToSet
  <2>2. ASSUME NEW x \in ToSet(s) PROVE x \in ToSet(r)
    BY <1>2, <1>3, <1>5 DEF ToSet
  <2>3. ASSUME NEW x \in ToSet(t) PROVE x \in ToSet(r)
    BY <1>2, <1>3, <1>5 DEF ToSet
  <2> QED
    BY <2>1, <2>2, <2>3
<1> QED
  BY <1>1, <1>2, <1>6

\* One element on top of others.
LEMMA OneOnTop ==
  ASSUME NEW S, NEW c \in S, NEW s \in Seq(S), NEW t, t = <<c>> \o s
  PROVE  /\ t \in Seq(S) /\ Len(t) = Len(s) + 1 /\ t # <<>> /\ Head(t) = c /\ Tail(t) = s
         /\ t[1] = c /\ \A i \in 1..Len(s) : t[i + 1] = s[i]
         /\ DOMAIN t = {1} \cup {i + 1 : i \in DOMAIN s}
<1>1. Len(s) \in Nat /\ DOMAIN s = 1..Len(s) /\ <<c>> \in Seq(S) /\ Len(<<c>>) = 1 /\ <<c>>[1] = c
  OBVIOUS
<1>2. t \in Seq(S)
  OBVIOUS
<1>3. Len(t) = Len(s) + 1
  BY <1>1
<1>4. t[1] = c
  BY <1>1
<1>5. ASSUME NEW i \in 1..Len(s) PROVE t[i + 1] = s[i]
  <2>1. i + 1 \in 2..(Len(s) + 1)
    BY <1>1
  <2> QED
    BY <1>1, <2>1
<1>6. DOMAIN t = 1..(Len(s) + 1)
  BY <1>1, <1>2, <1>3
<1>7. DOMAIN t = {1} \cup {i + 1 : i \in DOMAIN s}
  <2>1. ASSUME NEW j \in DOMAIN t PROVE j \in {1} \cup {i + 1 : i \in DOMAIN s}
    <3>1. j # 1 => j - 1 \in DOMAIN s /\ j = (j - 1) + 1
      BY <1>1, <1>6
    <3> QED
      BY <3>1
  <2>2. ASSUME NEW i \in DOMAIN s PROVE i + 1 \in DOMAIN t
    BY <1>1, <1>6
  <2>3. 1 \in DOMAIN t
    BY <1>1, <1>6
  <2> QED
    BY <2>1, <2>2, <2>3
<1>8. t # <<>>
  BY <1>1, <1>3
<1>9. Head(t) = c
  BY <1>2, <1>4, <1>8
<1>10. Tail(t) = s
  <2>1. PICK u : u = Tail(t)
    OBVIOUS
  <2>2. u \in Seq(S) /\ Len(u) = Len(s) /\ \A i \in 1..Len(u) : u[i] = t[i + 1]
    BY <1>1, <1>2, <1>3, <1>8, <2>1
  <2>3. \A i \in 1..Len(s) : u[i] = s[i]
    BY <1>5, <2>2
  <2>4. u = s
    BY <1>1, <2>2, <2>3, SeqEqual
  <2> QED
    BY <2>1, <2>4
<1> QED
  BY <1>2, <1>3, <1>4, <1>5, <1>7, <1>8, <1>9, <1>10

\* A sequence that is not empty is one element on top of the others.
LEMMA OneBelow ==
  ASSUME NEW S, NEW s \in Seq(S), s # <<>>
  PROVE  /\ Head(s) \in S /\ Tail(s) \in Seq(S) /\ s = <<Head(s)>> \o Tail(s)
         /\ Len(s) = Len(Tail(s)) + 1
<1>1. Head(s) \in S /\ Tail(s) \in Seq(S)
  OBVIOUS
<1>2. Len(s) = Len(Tail(s)) + 1
  <2>1. Len(s) \in Nat /\ Len(s) # 0
    OBVIOUS
  <2> QED
    BY <2>1
<1>3. PICK t : t = <<Head(s)>> \o Tail(s)
  OBVIOUS
<1>4. PICK u : u = Tail(s)
  OBVIOUS
<1>5. /\ t \in Seq(S) /\ Len(t) = Len(u) + 1 /\ t[1] = Head(s)
      /\ \A i \in 1..Len(u) : t[i + 1] = u[i]
  BY <1>1, <1>3, <1>4, OneOnTop
<1>6. \A i \in 1..Len(u) : u[i] = s[i + 1]
  BY <1>4
<1>7. Len(t) = Len(s) /\ Len(u) \in Nat
  BY <1>1, <1>2, <1>4, <1>5
<1>8. ASSUME NEW i \in 1..Len(t) PROVE t[i] = s[i]
  <2>1. CASE i = 1
    BY <1>5, <2>1
  <2>2. CASE i # 1
    <3>1. i - 1 \in 1..Len(u) /\ i = (i - 1) + 1
      BY <1>5, <1>7, <2>2
    <3> QED
      BY <1>5, <1>6, <3>1
  <2> QED
    BY <2>1, <2>2
<1>9. t = s
  BY <1>5, <1>7, <1>8
<1> QED
  BY <1>1, <1>2, <1>3, <1>9

\* There are finitely many sequences of a length.
LEMMA FewSequences ==
  ASSUME NEW S, IsFiniteSet(S), NEW n \in Nat
  PROVE  IsFiniteSet({s \in Seq(S) : Len(s) <= n})
<1> DEFINE Short(k) == {s \in Seq(S) : Len(s) <= k}
           U == {k \in Nat : ~IsFiniteSet(Short(k))}
<1>1. SUFFICES ASSUME U # {} PROVE FALSE
  BY <1>1
<1>2. PICK k \in U : \A m \in U : k <= m
  <2>1. U \in SUBSET Nat
    OBVIOUS
  <2> HIDE DEF U
  <2> QED
    BY <1>1, <2>1, LeastNumber
<1>3. k \in Nat /\ ~IsFiniteSet(Short(k))
  BY <1>2
<1>4. CASE k = 0
  <2>1. Short(k) \subseteq {<<>>}
    <3>1. ASSUME NEW s \in Seq(S), Len(s) <= 0 PROVE s = <<>>
      BY <3>1, EmptySeq
    <3> QED
      BY <1>4, <3>1
  <2>2. IsFiniteSet({<<>>})
    BY FS_Singleton
  <2> HIDE DEF Short
  <2> QED
    BY <1>3, <2>1, <2>2, FS_Subset
<1>5. CASE k # 0
  <2>1. PICK j \in Nat : k = j + 1
    <3>1. k - 1 \in Nat /\ k = (k - 1) + 1
      BY <1>3, <1>5
    <3> QED
      BY <3>1
  <2>2. IsFiniteSet(Short(j))
    <3>1. ~(k <= j)
      BY <2>1
    <3> HIDE DEF Short
    <3> QED
      BY <1>2, <2>1, <3>1
  <2>3. PICK D : D = S \X Short(j)
    OBVIOUS
  <2>4. PICK put : put = [p \in D |-> <<p[1]>> \o p[2]]
    OBVIOUS
  <2>5. IsFiniteSet(DOMAIN put)
    <3> HIDE DEF Short
    <3>1. IsFiniteSet(D)
      BY <2>2, <2>3, FS_Product
    <3> QED
      BY <2>4, <3>1
  <2>6. IsFiniteSet({put[p] : p \in DOMAIN put})
    BY <2>5, ImageFinite
  <2>7. IsFiniteSet({put[p] : p \in DOMAIN put} \cup {<<>>})
    BY <2>6, FS_AddElement
  <2>8. ASSUME NEW s \in Short(k) PROVE s \in {put[p] : p \in DOMAIN put} \cup {<<>>}
    <3>1. s = <<>> \/ s # <<>>
      OBVIOUS
    <3>2. CASE s # <<>>
      <4>1. s \in Seq(S) /\ Len(s) <= k
        BY <2>8
      <4>2. /\ Head(s) \in S /\ Tail(s) \in Seq(S) /\ s = <<Head(s)>> \o Tail(s)
            /\ Len(s) = Len(Tail(s)) + 1
        BY <3>2, <4>1, OneBelow
      <4>3. Len(Tail(s)) <= j
        <5>1. Len(Tail(s)) \in Nat
          BY <4>2
        <5> QED
          BY <2>1, <4>1, <4>2, <5>1
      <4>4. PICK p : p = <<Head(s), Tail(s)>>
        OBVIOUS
      <4>5. p \in D /\ p[1] = Head(s) /\ p[2] = Tail(s)
        BY <2>3, <4>2, <4>3, <4>4
      <4>6. put[p] = <<p[1]>> \o p[2] /\ p \in DOMAIN put
        BY <2>4, <4>5
      <4>7. put[p] = s
        BY <4>2, <4>5, <4>6
      <4> QED
        BY <4>6, <4>7
    <3> QED
      BY <3>1, <3>2
  <2>9. Short(k) \in SUBSET ({put[p] : p \in DOMAIN put} \cup {<<>>})
    BY <2>8
  <2> HIDE DEF Short
  <2> QED
    BY <1>3, <2>7, <2>9, FS_Subset
<1> QED
  BY <1>4, <1>5

\* The elements of a sequence are finitely many.
LEMMA ElementsFinite ==
  ASSUME NEW S, NEW s \in Seq(S)
  PROVE  IsFiniteSet(ToSet(s)) /\ ToSet(s) \subseteq S
<1>1. Len(s) \in Nat /\ DOMAIN s = 1..Len(s) /\ ToSet(s) \subseteq S
  BY DEF ToSet
<1>2. IsFiniteSet(DOMAIN s)
  <2>1. 1 \in Int /\ Len(s) \in Int
    BY <1>1
  <2>2. IsFiniteSet(1..Len(s))
    BY <2>1, FS_Interval, Zenon
  <2> QED
    BY <1>1, <2>2
<1>3. IsFiniteSet({s[i] : i \in DOMAIN s})
  BY <1>2, ImageFinite
<1> QED
  BY <1>1, <1>3 DEF ToSet

-----------------------------------------------------------------------------
(* Sequences put together one step at a time.                              *)

\* A value for every step, each made from the one before.
Stages(g, n, D, base, into) ==
  /\ g \in [0..n -> D] /\ g[0] = base
  /\ \A i \in 1..n : g[i] = into[<<i, g[i - 1]>>]
Passes(into, n, D) == into \in [(1..n) \X D -> D]

\* There are such values.
LEMMA InTurn ==
  ASSUME NEW n \in Nat, NEW D, NEW base \in D, NEW into, Passes(into, n, D)
  PROVE  \E g : Stages(g, n, D, base, into)
<1> USE DEF Passes
<1> DEFINE Chained(k, g) == Stages(g, k, D, base, into)
           U == {k \in 0..n : ~\E g : Chained(k, g)}
<1>1. SUFFICES ASSUME U # {} PROVE FALSE
  <2>1. n \in 0..n
    OBVIOUS
  <2>2. n \notin U => \E g : Chained(n, g)
    BY <2>1
  <2> QED
    BY <2>2
<1>2. PICK k \in U : \A m \in U : k <= m
  <2>1. U \in SUBSET Nat
    OBVIOUS
  <2> HIDE DEF U
  <2> QED
    BY <1>1, <2>1, LeastNumber
<1>3. k \in 0..n /\ ~\E g : Chained(k, g)
  BY <1>2
<1>4. CASE k = 0
  <2>1. Chained(0, [i \in 0..0 |-> base])
    BY DEF Stages
  <2> QED
    BY <1>3, <1>4, <2>1
<1>5. CASE k # 0
  <2>1. k - 1 \in 0..n /\ ~(k <= k - 1) /\ k \in 1..n
    BY <1>3, <1>5
  <2>2. PICK g : Chained(k - 1, g)
    <3> HIDE DEF Chained
    <3> QED
      BY <1>2, <2>1
  <2>3. PICK h : h = [i \in 0..k |-> IF i = k THEN into[<<k, g[k - 1]>>] ELSE g[i]]
    OBVIOUS
  <2>4. g[k - 1] \in D /\ into[<<k, g[k - 1]>>] \in D
    <3>1. g[k - 1] \in D
      BY <2>1, <2>2 DEF Stages
    <3> QED
      BY <2>1, <3>1
  <2>5. \A i \in 0..k : i = k \/ i \in 0..(k - 1)
    BY <2>1
  <2>6. h \in [0..k -> D]
    BY <2>2, <2>3, <2>4, <2>5 DEF Stages
  <2>7. h[0] = base
    BY <1>3, <1>5, <2>2, <2>3 DEF Stages
  <2>8. ASSUME NEW i \in 1..k PROVE h[i] = into[<<i, h[i - 1]>>]
    <3>1. i - 1 \in 0..(k - 1) /\ i - 1 \in 0..k /\ i \in 0..k /\ i - 1 # k
      BY <2>1
    <3>2. h[i - 1] = g[i - 1]
      BY <2>3, <3>1
    <3>3. CASE i = k
      BY <2>3, <3>1, <3>2, <3>3
    <3>4. CASE i # k
      <4>1. i \in 1..(k - 1)
        BY <2>1, <3>4
      <4> QED
        BY <2>2, <2>3, <3>1, <3>2, <3>4, <4>1 DEF Stages
    <3> QED
      BY <3>3, <3>4
  <2>9. Chained(k, h)
    BY <2>6, <2>7, <2>8 DEF Stages
  <2> QED
    BY <1>3, <2>9
<1> QED
  BY <1>4, <1>5

\* FlattenSeq puts its rows behind one another.
LEMMA Flattened ==
  ASSUME NEW S, NEW rows \in Seq(Seq(S)), NEW n, n = Len(rows)
  PROVE  /\ FlattenSeq(rows) \in Seq(S)
         /\ ToSet(FlattenSeq(rows)) = UNION {ToSet(rows[i]) : i \in DOMAIN rows}
<1> DEFINE Flattening(g) == [i \in 1..n |-> IF i = 1 THEN rows[i] ELSE g[i - 1] \o rows[i]]
<1>1. n \in Nat /\ DOMAIN rows = 1..n /\ n = Len(rows) /\ \A i \in 1..n : rows[i] \in Seq(S)
  OBVIOUS
<1>2. CASE n = 0
  <2>0. Len(rows) = 0
    BY <1>1, <1>2
  <2>1. rows = <<>> /\ FlattenSeq(rows) = rows
    <3>1. rows = <<>>
      BY <2>0, EmptySeq
    <3>2. FlattenSeq(rows) = rows
      BY <2>0, Zenon DEF FlattenSeq
    <3> QED
      BY <3>1, <3>2
  <2>2. rows \in Seq(S) /\ DOMAIN rows = {}
    BY <2>1
  <2>3. ToSet(rows) = {} /\ {ToSet(rows[i]) : i \in DOMAIN rows} = {}
    BY <2>2 DEF ToSet
  <2> QED
    BY <2>1, <2>2, <2>3
<1>3. CASE n # 0
  <2>1. PICK into : into = [p \in (1..n) \X Seq(S) |-> p[2] \o rows[p[1]]]
    OBVIOUS
  <2>2. into \in [(1..n) \X Seq(S) -> Seq(S)]
    <3>1. ASSUME NEW p \in (1..n) \X Seq(S) PROVE p[2] \o rows[p[1]] \in Seq(S)
      <4>1. p[2] \in Seq(S) /\ rows[p[1]] \in Seq(S)
        BY <1>1
      <4> QED
        BY <4>1
    <3> QED
      BY <2>1, <3>1
  <2>3. <<>> \in Seq(S)
    OBVIOUS
  <2>4. PICK g \in [0..n -> Seq(S)] : g[0] = <<>> /\ \A i \in 1..n : g[i] = into[<<i, g[i - 1]>>]
    <3>1. Passes(into, n, Seq(S)) /\ n \in Nat
      BY <1>1, <2>2 DEF Passes
    <3>2. \E g : Stages(g, n, Seq(S), <<>>, into)
      BY <2>3, <3>1, InTurn
    <3> QED
      BY <3>2 DEF Stages
  <2>5. ASSUME NEW i \in 1..n PROVE g[i - 1] \in Seq(S) /\ g[i] = g[i - 1] \o rows[i]
    <3>1. i - 1 \in 0..n
      BY <1>1
    <3>2. g[i - 1] \in Seq(S)
      BY <3>1
    <3> QED
      BY <2>1, <2>4, <3>2
  <2>6. PICK h : h = [i \in 1..n |-> g[i]]
    OBVIOUS
  <2>7. h = Flattening(h)
    <3>1. ASSUME NEW i \in 1..n PROVE g[i] = IF i = 1 THEN rows[i] ELSE h[i - 1] \o rows[i]
      <4>1. CASE i = 1
        <5>1. g[i - 1] = <<>>
          BY <2>4, <4>1
        <5>2. rows[i] \in Seq(S)
          BY <1>1
        <5>3. g[i] = <<>> \o rows[i] /\ <<>> \o rows[i] = rows[i]
          BY <2>5, <5>1, <5>2, ConcatEmptySeq, Zenon
        <5> QED
          BY <4>1, <5>3
      <4>2. CASE i # 1
        <5>1. i - 1 \in 1..n
          BY <1>1, <4>2
        <5> QED
          BY <2>5, <2>6, <4>2, <5>1
      <4> QED
        BY <4>1, <4>2
    <3> QED
      BY <2>6, <3>1
  <2> DEFINE flat == CHOOSE f : f = Flattening(f)
  <2>8. flat = Flattening(flat)
    <3> HIDE DEF Flattening
    <3> QED
      BY <2>7
  <2>9. FlattenSeq(rows) = flat[n]
    BY <1>3 DEF FlattenSeq
  <2> HIDE DEF flat
  <2> DEFINE FlatTo(k) == /\ flat[k] \in Seq(S)
                           /\ ToSet(flat[k]) = UNION {ToSet(rows[i]) : i \in 1..k}
             U == {k \in 1..n : ~FlatTo(k)}
  <2>10. U = {}
    <3> SUFFICES ASSUME U # {} PROVE FALSE
      OBVIOUS
    <3>1. PICK k \in U : \A m \in U : k <= m
      <4>1. U \in SUBSET Nat
        OBVIOUS
      <4> HIDE DEF U
      <4> QED
        BY <4>1, LeastNumber
    <3>2. k \in 1..n /\ ~FlatTo(k)
      BY <3>1
    <3>3. flat[k] = IF k = 1 THEN rows[k] ELSE flat[k - 1] \o rows[k]
      <4> QED
        BY <2>8, <3>2
    <3>4. CASE k = 1
      <4>1. {ToSet(rows[i]) : i \in 1..1} = {ToSet(rows[1])}
        OBVIOUS
      <4> QED
        BY <1>1, <3>2, <3>3, <3>4, <4>1
    <3>5. CASE k # 1
      <4>1. k - 1 \in 1..n /\ ~(k <= k - 1)
        BY <1>1, <3>2, <3>5
      <4>2. FlatTo(k - 1)
        <5> HIDE DEF FlatTo
        <5> QED
          BY <3>1, <4>1
      <4>3. flat[k - 1] \in Seq(S) /\ rows[k] \in Seq(S)
        BY <1>1, <3>2, <4>2
      <4>4. flat[k] \in Seq(S) /\ ToSet(flat[k]) = ToSet(flat[k - 1]) \cup ToSet(rows[k])
        BY <3>3, <3>5, <4>3, StackAdds
      <4>5. \A i \in 1..k : i = k \/ i \in 1..(k - 1)
        BY <3>2
      <4>6. \A i \in 1..(k - 1) : i \in 1..k
        BY <3>2
      <4>7. UNION {ToSet(rows[i]) : i \in 1..k} = (UNION {ToSet(rows[i]) : i \in 1..(k - 1)}) \cup ToSet(rows[k])
        <5>1. k \in 1..k
          BY <3>2
        <5> QED
          BY <4>5, <4>6, <5>1
      <4> QED
        BY <3>2, <4>2, <4>4, <4>7
    <3> QED
      BY <3>4, <3>5
  <2>11. n \in 1..n
    BY <1>1, <1>3
  <2>12. FlatTo(n)
    BY <2>10, <2>11
  <2> QED
    BY <1>1, <2>9, <2>12
<1> QED
  BY <1>2, <1>3

\* A sequence of one and of two.
LEMMA Singly ==
  ASSUME NEW S, NEW x \in S, NEW y \in S
  PROVE  /\ <<x>> \in Seq(S) /\ Len(<<x>>) = 1 /\ <<x>>[1] = x /\ ToSet(<<x>>) = {x}
         /\ <<x, y>> \in Seq(S) /\ Len(<<x, y>>) = 2 /\ <<x, y>>[1] = x /\ <<x, y>>[2] = y
<1>1. <<x>> \in Seq(S) /\ Len(<<x>>) = 1 /\ <<x>>[1] = x
  OBVIOUS
<1>2. ToSet(<<x>>) = {x}
  <2>1. DOMAIN <<x>> = {1}
    OBVIOUS
  <2> QED
    BY <1>1, <2>1 DEF ToSet
<1>3. <<x, y>> \in Seq(S) /\ Len(<<x, y>>) = 2 /\ <<x, y>>[1] = x /\ <<x, y>>[2] = y
  OBVIOUS
<1> QED
  BY <1>1, <1>2, <1>3

\* What holds of the empty sequence, and of any sequence that is one longer,
\* holds of all.
LEMMA ByAppending ==
  ASSUME NEW S, NEW G, <<>> \in G, \A s \in Seq(S), x \in S : s \in G => Append(s, x) \in G
  PROVE  Seq(S) \subseteq G
<1> DEFINE U == {n \in Nat : \E s \in Seq(S) : Len(s) = n /\ s \notin G}
<1>1. SUFFICES ASSUME U # {} PROVE FALSE
  <2>1. ASSUME NEW s \in Seq(S), s \notin G PROVE Len(s) \in U
    BY <2>1
  <2> QED
    BY <2>1
<1>2. PICK n \in U : \A m \in U : n <= m
  <2>1. U \in SUBSET Nat
    OBVIOUS
  <2> HIDE DEF U
  <2> QED
    BY <1>1, <2>1, LeastNumber
<1>3. PICK s \in Seq(S) : Len(s) = n /\ s \notin G
  BY <1>2
<1>4. s # <<>>
  BY <1>3
<1>5. PICK r \in Seq(S), x \in S : s = Append(r, x)
  BY <1>4, SequenceEmptyOrAppend
<1>6. Len(r) \in Nat /\ Len(s) = Len(r) + 1
  BY <1>5, AppendProperties
<1>7. Len(r) \notin U
  BY <1>2, <1>3, <1>6
<1>8. r \in G
  BY <1>6, <1>7
<1> QED
  BY <1>3, <1>5, <1>8

\* The greatest of some of the first numbers.
LEMMA MaxIn ==
  ASSUME NEW n \in Nat, NEW s \in SUBSET (1..n), s # {}
  PROVE  Max(s) \in s /\ \A y \in s : Max(s) >= y
<1> DEFINE D == {d \in Nat : \E x \in s : d = n - x}
<1>1. PICK z \in s : TRUE
  OBVIOUS
<1>2. n - z \in D
  <2>1. n - z \in Nat
    OBVIOUS
  <2> QED
    BY <2>1
<1>3. PICK d \in D : \A e \in D : d <= e
  <2> HIDE DEF D
  <2>1. D \in SUBSET Nat
    BY DEF D
  <2> QED
    BY <1>2, <2>1, LeastNumber
<1>4. PICK x \in s : d = n - x
  BY <1>3
<1>5. ASSUME NEW y \in s
      PROVE  x >= y
  <2>1. n - y \in D
    <3>1. n - y \in Nat
      OBVIOUS
    <3> QED
      BY <3>1
  <2>2. d <= n - y
    BY <1>3, <2>1
  <2>3. x \in Int /\ y \in Int
    OBVIOUS
  <2> QED
    BY <1>4, <2>2, <2>3
<1> QED
  BY <1>4, <1>5 DEF Max

\* A sequence is a prefix of what others are put behind it.
LEMMA PrefixBelow ==
  ASSUME NEW S, NEW s \in Seq(S), NEW t \in Seq(S)
  PROVE  IsPrefix(s, s \o t)
<1>1. PICK r : r = s \o t
  OBVIOUS
<1>2. /\ r \in Seq(S) /\ Len(r) = Len(s) + Len(t)
      /\ \A i \in 1..(Len(s) + Len(t)) : r[i] = IF i <= Len(s) THEN s[i] ELSE t[i - Len(s)]
  BY <1>1, ConcatProperties
<1>3. Len(s) \in Nat /\ Len(t) \in Nat
  OBVIOUS
<1>4. ASSUME NEW i \in 1..Len(s) PROVE r[i] = s[i]
  <2>1. i \in 1..(Len(s) + Len(t)) /\ i <= Len(s)
    BY <1>3
  <2> QED
    BY <1>2, <2>1
<1>5. Len(s) <= Len(r)
  BY <1>2, <1>3
<1> QED
  BY <1>1, <1>2, <1>4, <1>5, PrefixOf

\* A row with a value in S for each element of a sequence.
LEMMA RowOf ==
  ASSUME NEW S, NEW s, s \in Seq(ToSet(s)), NEW r, r = [i \in DOMAIN s |-> r[i]], \A i \in DOMAIN s : r[i] \in S
  PROVE  r \in Seq(S)
<1>1. Len(s) \in Nat /\ DOMAIN s = 1..Len(s)
  OBVIOUS
<1>2. PICK n \in Nat : n = Len(s)
  BY <1>1
<1>3. r \in [1..n -> S]
  BY <1>1, <1>2
<1> QED
  BY <1>3, SeqDef

\* What lies between the first a elements and the last.
LEMMA FrontBetween ==
  ASSUME NEW S, NEW f \in Seq(S), f # <<>>, NEW a \in Nat, a <= Len(f)
  PROVE  /\ SubSeq(Front(f), a + 1, Len(f) - 1) \in Seq(S)
         /\ Front(SubSeq(f, a + 1, Len(f))) = SubSeq(Front(f), a + 1, Len(f) - 1)
         /\ ToSet(SubSeq(Front(f), a + 1, Len(f) - 1)) \subseteq ToSet(f)
<1> DEFINE n == Len(f)
           d == SubSeq(Front(f), a + 1, n - 1)
           r == SubSeq(f, a + 1, n)
<1>1. a \in Nat /\ n \in Nat /\ f \in Seq(S) /\ a <= n /\ n # 0
  BY EmptySeq
<1>2. Front(f) \in Seq(S) /\ Len(Front(f)) = n - 1 /\ \A k \in 1..(n - 1) : Front(f)[k] = f[k]
  <2>1. \A k \in 1..(n - 1) : f[k] \in S
    BY <1>1
  <2>2. PICK q : q = SubSeq(f, 1, n - 1)
    OBVIOUS
  <2>3. /\ q \in Seq(S) /\ Len(q) = IF 1 <= n - 1 THEN (n - 1) - 1 + 1 ELSE 0
        /\ \A k \in 1..((n - 1) - 1 + 1) : q[k] = f[1 + k - 1]
    BY <1>1, <2>1, <2>2, SubSeqProperties
  <2>4. Len(q) = n - 1
    <3>1. Len(q) = IF 1 <= n - 1 THEN (n - 1) - 1 + 1 ELSE 0
      BY <2>3
    <3> HIDE DEF n
    <3> QED
      BY <1>1, <3>1
  <2>5. \A k \in 1..(n - 1) : k \in 1..((n - 1) - 1 + 1) /\ 1 + k - 1 = k
    BY <1>1
  <2>6. q = Front(f)
    BY <2>2 DEF Front
  <2> QED
    BY <2>3, <2>4, <2>5, <2>6
<1> DEFINE g == Front(f)
<1>3. CASE a = n
  <2>1. d = <<>> /\ r = <<>>
    BY <1>1, <1>3, SubSeqEmpty
  <2>2. Front(<<>>) = <<>>
    <3>1. SubSeq(<<>>, 1, -1) = <<>>
      BY SubSeqEmpty
    <3>2. Len(<<>>) - 1 = -1
      OBVIOUS
    <3> QED
      BY <3>1, <3>2 DEF Front
  <2>3. <<>> \in Seq(S) /\ ToSet(<<>>) = {}
    BY DEF ToSet
  <2> QED
    BY <2>1, <2>2, <2>3
<1>4. CASE a < n
  <2> HIDE DEF g
  <2>1. d \in Seq(S) /\ Len(d) = n - 1 - a /\ \A k \in 1..(n - 1 - a) : d[k] = f[a + k]
    <3>1. \A k \in (a + 1)..(n - 1) : g[k] \in S /\ k \in 1..(n - 1)
      BY <1>1, <1>2 DEF g
    <3>2. d = SubSeq(g, a + 1, n - 1)
      BY DEF d, g
    <3> HIDE DEF d
    <3>3. /\ d \in Seq(S) /\ Len(d) = IF a + 1 <= n - 1 THEN (n - 1) - (a + 1) + 1 ELSE 0
          /\ \A k \in 1..((n - 1) - (a + 1) + 1) : d[k] = g[(a + 1) + k - 1]
      BY <1>1, <3>1, <3>2, SubSeqProperties
    <3>4. Len(d) = n - 1 - a
      BY <1>1, <1>4, <3>3
    <3>5. ASSUME NEW k \in 1..(n - 1 - a)
          PROVE  k \in 1..((n - 1) - (a + 1) + 1) /\ (a + 1) + k - 1 = a + k /\ a + k \in 1..(n - 1)
      BY <1>1, <1>4
    <3>6. \A k \in 1..(n - 1) : g[k] = f[k]
      BY <1>2 DEF g
    <3> HIDE DEF n
    <3> QED
      BY <3>3, <3>4, <3>5, <3>6
  <2>2. r \in Seq(S) /\ Len(r) = n - a /\ \A k \in 1..(n - a) : r[k] = f[a + k]
    <3>1. \A k \in (a + 1)..n : f[k] \in S
      BY <1>1
    <3>2. /\ r \in Seq(S) /\ Len(r) = IF a + 1 <= n THEN n - (a + 1) + 1 ELSE 0
          /\ \A k \in 1..(n - (a + 1) + 1) : r[k] = f[(a + 1) + k - 1]
      BY <1>1, <3>1, SubSeqProperties
    <3> HIDE DEF r
    <3>3. Len(r) = n - a
      BY <1>1, <1>4, <3>2
    <3>4. ASSUME NEW k \in 1..(n - a)
          PROVE  k \in 1..(n - (a + 1) + 1) /\ (a + 1) + k - 1 = a + k
      BY <1>1, <1>4
    <3> HIDE DEF n
    <3> QED
      BY <3>2, <3>3, <3>4
  <2>3. PICK q : q = Front(r)
    OBVIOUS
  <2> HIDE DEF r
  <2>4. q \in Seq(S) /\ Len(q) = n - 1 - a /\ \A k \in 1..(n - 1 - a) : q[k] = r[k]
    <3>1. q = SubSeq(r, 1, (n - a) - 1)
      BY <2>2, <2>3 DEF Front
    <3>2. \A k \in 1..((n - a) - 1) : r[k] \in S
      BY <1>1, <1>4, <2>2
    <3>3. /\ q \in Seq(S) /\ Len(q) = IF 1 <= (n - a) - 1 THEN ((n - a) - 1) - 1 + 1 ELSE 0
          /\ \A k \in 1..(((n - a) - 1) - 1 + 1) : q[k] = r[1 + k - 1]
      BY <1>1, <3>1, <3>2, SubSeqProperties
    <3>4. Len(q) = n - 1 - a
      BY <1>1, <1>4, <3>3
    <3>5. ASSUME NEW k \in 1..(n - 1 - a)
          PROVE  k \in 1..(((n - a) - 1) - 1 + 1) /\ 1 + k - 1 = k
      BY <1>1, <1>4
    <3> HIDE DEF n
    <3> QED
      BY <3>3, <3>4, <3>5
  <2>5. q = d
    <3>1. \A k \in 1..(n - 1 - a) : k \in 1..(n - a)
      BY <1>1, <1>4
    <3> HIDE DEF d, n
    <3> QED
      BY <2>1, <2>2, <2>4, <3>1, SeqEqual
  <2>6. ToSet(d) \subseteq ToSet(f)
    <3>1. ASSUME NEW k \in DOMAIN d PROVE d[k] \in ToSet(f)
      <4>1. k \in 1..(n - 1 - a)
        <5> HIDE DEF d, n
        <5> QED
          BY <2>1
      <4>2. a + k \in DOMAIN f
        BY <1>1, <1>4, <4>1
      <4>3. d[k] = f[a + k]
        BY <2>1, <4>1
      <4> HIDE DEF d
      <4> QED
        BY <4>2, <4>3 DEF ToSet
    <3> HIDE DEF d
    <3> QED
      BY <3>1 DEF ToSet
  <2> QED
    BY <2>1, <2>3, <2>5, <2>6 DEF r
<1> QED
  BY <1>1, <1>3, <1>4

Behind(b, f, v) == Append(b \o f, v) = b \o Append(f, v)

\* A value behind values.
LEMMA Concats ==
  ASSUME NEW S, NEW b \in Seq(S), NEW f \in Seq(S), NEW v \in S
  PROVE  Behind(b, f, v)
<1>1. PICK g : g = b \o f
  OBVIOUS
<1>2. PICK h : h = Append(f, v)
  OBVIOUS
<1>3. /\ g \in Seq(S) /\ Len(g) = Len(b) + Len(f)
      /\ \A i \in 1..(Len(b) + Len(f)) : g[i] = IF i <= Len(b) THEN b[i] ELSE f[i - Len(b)]
  BY <1>1, ConcatProperties, Zenon
<1>4. /\ h \in Seq(S) /\ Len(h) = Len(f) + 1 /\ h[Len(f) + 1] = v
      /\ \A i \in 1..Len(f) : h[i] = f[i]
  BY <1>2, AppendProperties, Zenon
<1>5. PICK p : p = Append(g, v)
  OBVIOUS
<1>6. PICK q : q = b \o h
  OBVIOUS
<1>7. /\ p \in Seq(S) /\ Len(p) = Len(g) + 1 /\ p[Len(g) + 1] = v
      /\ \A i \in 1..Len(g) : p[i] = g[i]
  BY <1>3, <1>5, AppendProperties, Zenon
<1>8. /\ q \in Seq(S) /\ Len(q) = Len(b) + Len(h)
      /\ \A i \in 1..(Len(b) + Len(h)) : q[i] = IF i <= Len(b) THEN b[i] ELSE h[i - Len(b)]
  <2>1. h \in Seq(S)
    BY <1>4
  <2> QED
    BY <1>6, <2>1, ConcatProperties, Zenon
<1>9. Len(b) \in Nat /\ Len(f) \in Nat
  BY LenProperties
<1>10. Len(p) = Len(q)
  BY <1>3, <1>4, <1>7, <1>8, <1>9
<1>11. ASSUME NEW i \in 1..Len(p) PROVE p[i] = q[i]
  <2>1. CASE i <= Len(b)
    <3>1. i \in 1..Len(g) /\ i \in 1..(Len(b) + Len(f)) /\ i \in 1..(Len(b) + Len(h))
      BY <1>3, <1>4, <1>7, <1>9, <2>1
    <3> QED
      BY <1>3, <1>7, <1>8, <2>1, <3>1
  <2>2. CASE ~(i <= Len(b)) /\ i # Len(g) + 1
    <3>1. /\ i \in 1..Len(g) /\ i \in 1..(Len(b) + Len(f)) /\ i \in 1..(Len(b) + Len(h))
          /\ i - Len(b) \in 1..Len(f)
      BY <1>3, <1>4, <1>7, <1>9, <2>2
    <3>2. p[i] = f[i - Len(b)] /\ q[i] = h[i - Len(b)]
      BY <1>3, <1>7, <1>8, <2>2, <3>1
    <3> QED
      BY <1>4, <3>1, <3>2
  <2>3. CASE i = Len(g) + 1
    <3>1. i - Len(b) = Len(f) + 1 /\ ~(i <= Len(b)) /\ i \in 1..(Len(b) + Len(h))
      BY <1>3, <1>4, <1>9, <2>3
    <3> QED
      BY <1>4, <1>7, <1>8, <2>3, <3>1
  <2> QED
    BY <2>1, <2>2, <2>3
<1>12. p = q
  BY <1>7, <1>8, <1>10, <1>11, SeqEqual, Zenon
<1> QED
  BY <1>1, <1>2, <1>5, <1>6, <1>12 DEF Behind

\* What is cut off the end of two sequences is cut off the second, if that is long enough.
LEMMA CutOff ==
  ASSUME NEW S, NEW b \in Seq(S), NEW f \in Seq(S), NEW n \in 1..Len(f)
  PROVE  /\ SubSeq(b \o f, 1, IF Len(b \o f) > n THEN Len(b \o f) - n ELSE 0) = b \o SubSeq(f, 1, Len(f) - n)
         /\ \A T : f \in Seq(T) => SubSeq(f, 1, Len(f) - n) \in Seq(T)
<1>1. PICK g : g = b \o f
  OBVIOUS
<1>2. PICK h : h = SubSeq(f, 1, Len(f) - n)
  OBVIOUS
<1>3. /\ g \in Seq(S) /\ Len(g) = Len(b) + Len(f)
      /\ \A i \in 1..(Len(b) + Len(f)) : g[i] = IF i <= Len(b) THEN b[i] ELSE f[i - Len(b)]
  BY <1>1, ConcatProperties, Zenon
<1>4. Len(b) \in Nat /\ Len(f) \in Nat /\ n \in Nat /\ n <= Len(f) /\ n >= 1
  BY LenProperties
<1>5. PICK k \in Nat : k = Len(f) - n
  BY <1>4
<1>6. ASSUME NEW T, f \in Seq(T)
      PROVE  h \in Seq(T) /\ Len(h) = k /\ \A i \in 1..k : h[i] = f[i]
  BY <1>2, <1>4, <1>5, <1>6
<1>7. PICK m \in Nat : m = Len(g) - n
  <2>1. Len(g) = Len(b) + Len(f)
    BY <1>3
  <2>2. Len(g) - n \in Nat
    BY <1>4, <2>1
  <2> QED
    BY <2>2
<1>8. SubSeq(g, 1, IF Len(g) > n THEN Len(g) - n ELSE 0) = SubSeq(g, 1, m)
  <2>1. IF Len(g) > n THEN Len(g) - n = m ELSE m = 0
    BY <1>3, <1>4, <1>7
  <2> QED
    BY <2>1
<1>9. PICK p : p = SubSeq(g, 1, m)
  OBVIOUS
<1>10. p \in Seq(S) /\ Len(p) = m /\ \A i \in 1..m : p[i] = g[i]
  BY <1>3, <1>4, <1>7, <1>9
<1>11. PICK q : q = b \o h
  OBVIOUS
<1>12. h \in Seq(S) /\ Len(h) = k /\ \A i \in 1..k : h[i] = f[i]
  BY <1>6
<1>13. /\ q \in Seq(S) /\ Len(q) = Len(b) + Len(h)
       /\ \A i \in 1..(Len(b) + Len(h)) : q[i] = IF i <= Len(b) THEN b[i] ELSE h[i - Len(b)]
  BY <1>11, <1>12, ConcatProperties, Zenon
<1>14. Len(p) = Len(q) /\ m = Len(b) + k
  BY <1>3, <1>4, <1>5, <1>7, <1>10, <1>12, <1>13
<1>15. ASSUME NEW i \in 1..Len(p) PROVE p[i] = q[i]
  <2>1. i \in 1..m /\ i \in 1..(Len(b) + Len(f)) /\ i \in 1..(Len(b) + Len(h))
    <3>1. Len(p) = m /\ Len(h) = k /\ m = Len(b) + k
      BY <1>10, <1>12, <1>14
    <3> QED
      BY <1>4, <1>5, <3>1
  <2>2. CASE i <= Len(b)
    BY <1>3, <1>10, <1>13, <2>1, <2>2
  <2>3. CASE ~(i <= Len(b))
    <3>1. i - Len(b) \in 1..k
      BY <1>4, <1>14, <2>1, <2>3
    <3>2. p[i] = f[i - Len(b)] /\ q[i] = h[i - Len(b)]
      BY <1>3, <1>10, <1>13, <2>1, <2>3
    <3> QED
      BY <1>12, <3>1, <3>2
  <2> QED
    BY <2>2, <2>3
<1>16. p = q
  BY <1>10, <1>13, <1>14, <1>15, SeqEqual, Zenon
<1> QED
  BY <1>1, <1>2, <1>6, <1>8, <1>9, <1>11, <1>16

\* The values on top are those of the sequence behind.
LEMMA OnTopOf ==
  ASSUME NEW S, NEW b \in Seq(S), NEW f \in Seq(S), f # <<>>
  PROVE  /\ b \o f # <<>> /\ Last(b \o f) = Last(f) /\ Len(b \o f) >= Len(f)
         /\ \A T : f \in Seq(T) => Last(f) \in T
         /\ Len(f) >= 2 => (b \o f)[Len(b \o f) - 1] = f[Len(f) - 1]
<1>1. PICK g : g = b \o f
  OBVIOUS
<1>2. /\ g \in Seq(S) /\ Len(g) = Len(b) + Len(f)
      /\ \A i \in 1..(Len(b) + Len(f)) : g[i] = IF i <= Len(b) THEN b[i] ELSE f[i - Len(b)]
  BY <1>1, ConcatProperties, Zenon
<1>3. Len(b) \in Nat /\ Len(f) \in Nat \ {0}
  BY EmptySeq, LenProperties, Zenon
<1>4. /\ Len(g) \in 1..(Len(b) + Len(f)) /\ ~(Len(g) <= Len(b)) /\ Len(g) - Len(b) = Len(f)
      /\ Len(g) # 0 /\ Len(g) >= Len(f)
  BY <1>2, <1>3
<1>5. g[Len(g)] = f[Len(f)]
  BY <1>2, <1>4
<1>6. ASSUME Len(f) >= 2 PROVE g[Len(g) - 1] = f[Len(f) - 1]
  <2>1. /\ Len(g) - 1 \in 1..(Len(b) + Len(f)) /\ ~(Len(g) - 1 <= Len(b))
        /\ (Len(g) - 1) - Len(b) = Len(f) - 1
    BY <1>2, <1>3, <1>6
  <2> QED
    BY <1>2, <2>1
<1>7. g # <<>>
  <2>1. Len(<<>>) = 0
    OBVIOUS
  <2> QED
    BY <1>4, <2>1
<1>8. ASSUME NEW T, f \in Seq(T) PROVE f[Len(f)] \in T
  <2>1. Len(f) \in 1..Len(f)
    BY <1>3
  <2> QED
    BY <1>8, <2>1, ElementOfSeq, Zenon
<1> QED
  BY <1>1, <1>4, <1>5, <1>6, <1>7, <1>8 DEF Last
=============================================================================
