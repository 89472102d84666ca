-------------------------------- MODULE Sums --------------------------------
(***************************************************************************)
(* Sums of integers over a finite set, and what the proofs about stock,    *)
(* claims and reservations need to know of them.  The models write a sum   *)
(* with MapThenSumSet of the community modules, whose definition takes the *)
(* elements in the order CHOOSE picks them; SumOver is that definition for *)
(* a function f, and the lemmas say that the order does not matter.        *)
(*                                                                         *)
(* The library's induction theorems take an operator as a parameter.  The  *)
(* arguments here go by a smallest counter-example instead, which needs    *)
(* sets only (LEMMA MinimalSet).                                           *)
(***************************************************************************)
EXTENDS Integers, FiniteSets, FiniteSetTheorems, WellFoundedInduction, TLAPS

Picked(s) == CHOOSE x \in s : TRUE

\* "it" is the table of the sums of f over the subsets of S.
IsTable(it, f, S) ==
    it = [s \in SUBSET S |->
            IF s = {} THEN 0 ELSE f[Picked(s)] + it[s \ {Picked(s)}]]

SumOver(f, S) == (CHOOSE it : IsTable(it, f, S))[S]

-----------------------------------------------------------------------------
(* Smallest counter-examples. *)

LEMMA Smallest ==
    ASSUME NEW S, S \subseteq Nat, S # {}
    PROVE  \E i \in S : \A j \in S : i <= j
<1> DEFINE R == OpToRel(<, Nat)
<1>1. IsWellFoundedOn(R, Nat)
  BY NatLessThanWellFounded, Zenon
<1>2. R = {ss \in Nat \X Nat : ss[1] < ss[2]}
  BY Zenon DEF OpToRel
<1> HIDE DEF R
<1>3. \E i \in S : \A j \in S : ~ (<<j, i>> \in R)
  BY <1>1, WFMin, Zenon
<1>4. \A i, j \in Nat : ~ (<<j, i>> \in R) => i <= j
  BY <1>2
<1> QED BY <1>3, <1>4

\* Every non-empty collection of finite sets has a member none of whose proper
\* subsets belongs to it.
LEMMA MinimalSet ==
    ASSUME NEW Q, Q # {}, \A T \in Q : IsFiniteSet(T)
    PROVE  \E T \in Q : \A U \in Q : U \subseteq T => U = T
<1> DEFINE Sizes == {Cardinality(T) : T \in Q}
<1>1. Sizes \subseteq Nat /\ Sizes # {}
  BY FS_CardinalityType
<1>2. \E i \in Sizes : \A j \in Sizes : i <= j
  <2> HIDE DEF Sizes
  <2> QED BY <1>1, Smallest
<1>3. PICK T \in Q : \A U \in Q : Cardinality(T) <= Cardinality(U)
  BY <1>2
<1>4. ASSUME NEW U \in Q, U \subseteq T
      PROVE  U = T
  <2>1. IsFiniteSet(T) /\ U \in SUBSET T
    BY <1>4
  <2>2. Cardinality(U) <= Cardinality(T) /\ (Cardinality(T) = Cardinality(U) => T = U)
    BY <2>1, FS_Subset
  <2>3. Cardinality(U) \in Nat /\ Cardinality(T) \in Nat
    BY FS_CardinalityType
  <2> QED BY <1>3, <2>2, <2>3
<1> QED BY <1>4

LEMMA PickedIn == \A s : s # {} => Picked(s) \in s
BY DEF Picked

-----------------------------------------------------------------------------
(* The table exists, and two tables agree where both are defined. *)

LEMMA TablesAgree ==
    ASSUME NEW f, NEW S1, NEW S2, NEW it1, NEW it2,
           IsTable(it1, f, S1), IsTable(it2, f, S2),
           NEW T, IsFiniteSet(T), T \subseteq S1, T \subseteq S2
    PROVE  it1[T] = it2[T]
<1> DEFINE Q == {U \in SUBSET T : it1[U] # it2[U]}
<1>1. \A U \in SUBSET T : IsFiniteSet(U)
  BY FS_Subset
<1>2. SUFFICES ASSUME Q # {} PROVE FALSE
  OBVIOUS
<1>3. PICK U \in Q : \A V \in Q : V \subseteq U => V = U
  <2>1. \A V \in Q : IsFiniteSet(V)
    BY <1>1
  <2> HIDE DEF Q
  <2> QED BY <1>2, <2>1, MinimalSet
<1>4. U \in SUBSET S1 /\ U \in SUBSET S2 /\ U \in SUBSET T
  OBVIOUS
<1>5. /\ it1[U] = IF U = {} THEN 0 ELSE f[Picked(U)] + it1[U \ {Picked(U)}]
      /\ it2[U] = IF U = {} THEN 0 ELSE f[Picked(U)] + it2[U \ {Picked(U)}]
  BY <1>4, Zenon DEF IsTable
<1>6. U # {}
  BY <1>3, <1>5
<1>7. Picked(U) \in U
  BY <1>6, PickedIn
<1>8. it1[U \ {Picked(U)}] = it2[U \ {Picked(U)}]
  BY <1>3, <1>4, <1>7
<1> QED BY <1>3, <1>5, <1>6, <1>8

LEMMA TableExists ==
    ASSUME NEW f, NEW S, IsFiniteSet(S)
    PROVE  \E it : IsTable(it, f, S)
<1> DEFINE Q == {T \in SUBSET S : ~ \E it : IsTable(it, f, T)}
<1>1. SUFFICES ASSUME Q # {} PROVE FALSE
  OBVIOUS
<1>2. \A U \in SUBSET S : IsFiniteSet(U)
  BY FS_Subset
<1>3. PICK T \in Q : \A U \in Q : U \subseteq T => U = T
  <2>1. \A V \in Q : IsFiniteSet(V)
    BY <1>2
  <2> HIDE DEF Q
  <2> QED BY <1>1, <2>1, MinimalSet
<1> DEFINE Table(X) == CHOOSE it : IsTable(it, f, X)
           it == [s \in SUBSET T |->
                    IF s = {} THEN 0
                    ELSE f[Picked(s)] + SumOver(f, s \ {Picked(s)})]
<1>4. ASSUME NEW X \in SUBSET T, X # T
      PROVE  IsTable(Table(X), f, X)
  <2>1. \E jt : IsTable(jt, f, X)
    BY <1>3, <1>4
  <2> QED BY <2>1
<1>5. ASSUME NEW s \in SUBSET T, s # {}
      PROVE  it[s \ {Picked(s)}] = SumOver(f, s \ {Picked(s)})
  <2> DEFINE r == s \ {Picked(s)}
             p == Picked(r)
  <2>1. Picked(s) \in s
    BY <1>5, PickedIn
  <2>2. r \in SUBSET T /\ r # T
    BY <2>1
  <2>3. IsTable(Table(r), f, r) /\ SumOver(f, r) = Table(r)[r]
    BY <1>4, <2>2 DEF SumOver
  <2>4. Table(r)[r] = IF r = {} THEN 0 ELSE f[p] + Table(r)[r \ {p}]
    <3> HIDE DEF Table, r, p
    <3>1. r \in SUBSET r
      OBVIOUS
    <3> QED BY <2>3, <3>1, Zenon DEF IsTable, p
  <2>5. CASE r = {}
    BY <2>2, <2>3, <2>4, <2>5
  <2>6. CASE r # {}
    <3>1. p \in r
      BY <2>6, PickedIn
    <3>2. r \ {p} \in SUBSET T /\ r \ {p} # T
      BY <2>2, <3>1
    <3>3. IsTable(Table(r \ {p}), f, r \ {p})
      BY <1>4, <3>2
    <3>4. IsFiniteSet(r \ {p})
      BY <1>2, <3>2
    <3>5. Table(r)[r \ {p}] = Table(r \ {p})[r \ {p}]
      <4> HIDE DEF Table, r, p
      <4> QED BY <2>3, <3>3, <3>4, TablesAgree
    <3>6. SumOver(f, r \ {p}) = Table(r \ {p})[r \ {p}]
      BY DEF SumOver
    <3>7. it[r] = f[p] + SumOver(f, r \ {p})
      <4> HIDE DEF Table, r
      <4> QED BY <2>2, <2>6
    <3>8. it[r] = SumOver(f, r)
      <4> HIDE DEF Table, r, p, it
      <4> QED BY <2>3, <2>4, <2>6, <3>5, <3>6, <3>7
    <3> QED BY <3>8
  <2> QED BY <2>5, <2>6
<1>6. IsTable(it, f, T)
  <2>1. \A s \in SUBSET T :
          (IF s = {} THEN 0 ELSE f[Picked(s)] + SumOver(f, s \ {Picked(s)}))
          = (IF s = {} THEN 0 ELSE f[Picked(s)] + it[s \ {Picked(s)}])
    <3> HIDE DEF it
    <3> QED BY <1>5
  <2>2. \A jt : jt = it => jt = [s \in SUBSET T |->
            IF s = {} THEN 0 ELSE f[Picked(s)] + jt[s \ {Picked(s)}]]
    BY <2>1
  <2> HIDE DEF it
  <2> QED BY <2>2 DEF IsTable
<1> QED BY <1>3, <1>6

LEMMA ChosenTable ==
    ASSUME NEW f, NEW S, IsFiniteSet(S)
    PROVE  IsTable(CHOOSE it : IsTable(it, f, S), f, S)
BY TableExists

-----------------------------------------------------------------------------
(* How a sum is computed. *)

LEMMA SumEmpty == \A f : SumOver(f, {}) = 0
<1> SUFFICES ASSUME NEW f PROVE SumOver(f, {}) = 0
  OBVIOUS
<1> DEFINE it == CHOOSE it : IsTable(it, f, {})
<1>1. IsTable(it, f, {})
  BY FS_EmptySet, ChosenTable
<1>2. it[{}] = 0
  <2> HIDE DEF it
  <2> QED BY <1>1 DEF IsTable
<1> QED BY <1>2 DEF SumOver

LEMMA SumPicked ==
    ASSUME NEW f, NEW S, IsFiniteSet(S), S # {}
    PROVE  SumOver(f, S) = f[Picked(S)] + SumOver(f, S \ {Picked(S)})
<1> DEFINE p == Picked(S)
           it == CHOOSE it : IsTable(it, f, S)
           jt == CHOOSE jt : IsTable(jt, f, S \ {p})
<1>1. IsTable(it, f, S) /\ SumOver(f, S) = it[S]
  BY ChosenTable DEF SumOver
<1>2. IsFiniteSet(S \ {p})
  BY FS_RemoveElement
<1>3. IsTable(jt, f, S \ {p}) /\ SumOver(f, S \ {p}) = jt[S \ {p}]
  BY <1>2, ChosenTable DEF SumOver
<1>4. it[S \ {p}] = jt[S \ {p}]
  <2> HIDE DEF it, jt, p
  <2> QED BY <1>1, <1>2, <1>3, TablesAgree
<1>5. it[S] = f[p] + it[S \ {p}]
  <2> HIDE DEF it
  <2>1. S \in SUBSET S
    OBVIOUS
  <2> QED BY <1>1, <2>1, Zenon DEF IsTable
<1> QED BY <1>1, <1>3, <1>4, <1>5

LEMMA SumType ==
    ASSUME NEW f, NEW S, IsFiniteSet(S), \A x \in S : f[x] \in Int
    PROVE  SumOver(f, S) \in Int
<1> DEFINE Q == {T \in SUBSET S : SumOver(f, T) \notin Int}
<1>1. SUFFICES ASSUME Q # {} PROVE FALSE
  OBVIOUS
<1>2. \A V \in SUBSET S : IsFiniteSet(V)
  BY FS_Subset
<1>3. PICK T \in Q : \A U \in Q : U \subseteq T => U = T
  <2>1. \A V \in Q : IsFiniteSet(V)
    BY <1>2
  <2> HIDE DEF Q
  <2> QED BY <1>1, <2>1, MinimalSet
<1>4. T # {}
  BY SumEmpty
<1>5. Picked(T) \in T
  BY <1>4, PickedIn
<1>6. SumOver(f, T) = f[Picked(T)] + SumOver(f, T \ {Picked(T)})
  BY <1>2, <1>4, SumPicked
<1>7. SumOver(f, T \ {Picked(T)}) \in Int
  BY <1>3, <1>5
<1> QED BY <1>5, <1>6, <1>7

\* Any element can be taken out first.
LEMMA SumWithout ==
    ASSUME NEW f, NEW S, IsFiniteSet(S), \A x \in S : f[x] \in Int, NEW a \in S
    PROVE  /\ SumOver(f, S) = f[a] + SumOver(f, S \ {a})
           /\ SumOver(f, S \ {a}) \in Int
<1> DEFINE Q == {T \in SUBSET S :
                   \E b \in T : SumOver(f, T) # f[b] + SumOver(f, T \ {b})}
<1>1. \A V \in SUBSET S : IsFiniteSet(V)
  BY FS_Subset
<1>2. \A V \in SUBSET S : SumOver(f, V) \in Int
  BY <1>1, SumType
<1>3. SUFFICES ASSUME Q # {} PROVE FALSE
  BY <1>2
<1>4. PICK T \in Q : \A U \in Q : U \subseteq T => U = T
  <2>1. \A V \in Q : IsFiniteSet(V)
    BY <1>1
  <2> HIDE DEF Q
  <2> QED BY <1>3, <2>1, MinimalSet
<1>5. PICK b \in T : SumOver(f, T) # f[b] + SumOver(f, T \ {b})
  OBVIOUS
<1> DEFINE p == Picked(T)
<1>6. p \in T
  BY <1>5, PickedIn
<1>7. SumOver(f, T) = f[p] + SumOver(f, T \ {p})
  BY <1>1, <1>5, SumPicked
<1> HIDE DEF p
<1>8. p # b
  BY <1>5, <1>7
<1>9. ASSUME NEW x \in T, NEW y \in T, x # y
      PROVE  SumOver(f, T \ {x}) = f[y] + SumOver(f, T \ {x, y})
  <2>1. T \ {x} \in SUBSET S /\ T \ {x} \notin Q /\ y \in T \ {x}
    BY <1>4, <1>9
  <2>2. (T \ {x}) \ {y} = T \ {x, y}
    OBVIOUS
  <2> QED BY <2>1, <2>2
<1>10. T \ {p, b} = T \ {b, p}
  OBVIOUS
<1>11. /\ SumOver(f, T \ {p}) = f[b] + SumOver(f, T \ {p, b})
       /\ SumOver(f, T \ {b}) = f[p] + SumOver(f, T \ {p, b})
  BY <1>5, <1>6, <1>8, <1>9, <1>10
<1>12. SumOver(f, T \ {p, b}) \in Int /\ f[p] \in Int /\ f[b] \in Int
  BY <1>2, <1>6
<1> QED BY <1>5, <1>7, <1>11, <1>12

LEMMA SumWith ==
    ASSUME NEW f, NEW S, IsFiniteSet(S), NEW a, a \notin S,
           \A x \in S \cup {a} : f[x] \in Int
    PROVE  SumOver(f, S \cup {a}) = f[a] + SumOver(f, S)
<1>1. IsFiniteSet(S \cup {a}) /\ a \in S \cup {a} /\ (S \cup {a}) \ {a} = S
  BY FS_AddElement
<1> DEFINE R == S \cup {a}
<1>2. SumOver(f, R) = f[a] + SumOver(f, R \ {a})
  <2>1. IsFiniteSet(R) /\ a \in R /\ \A x \in R : f[x] \in Int
    BY <1>1
  <2> HIDE DEF R
  <2> QED BY <2>1, SumWithout
<1> QED BY <1>1, <1>2

LEMMA SumSingle ==
    ASSUME NEW f, NEW a, f[a] \in Int
    PROVE  SumOver(f, {a}) = f[a]
<1>1. SumOver(f, {} \cup {a}) = f[a] + SumOver(f, {})
  BY FS_EmptySet, SumWith
<1>2. {} \cup {a} = {a}
  OBVIOUS
<1> QED BY <1>1, <1>2, SumEmpty

\* Only the values on the set count.
LEMMA SumSame ==
    ASSUME NEW f, NEW g, NEW S, IsFiniteSet(S), \A x \in S : f[x] = g[x]
    PROVE  SumOver(f, S) = SumOver(g, S)
<1> DEFINE Q == {T \in SUBSET S : SumOver(f, T) # SumOver(g, T)}
<1>1. SUFFICES ASSUME Q # {} PROVE FALSE
  OBVIOUS
<1>2. \A V \in SUBSET S : IsFiniteSet(V)
  BY FS_Subset
<1>3. PICK T \in Q : \A U \in Q : U \subseteq T => U = T
  <2>1. \A V \in Q : IsFiniteSet(V)
    BY <1>2
  <2> HIDE DEF Q
  <2> QED BY <1>1, <2>1, MinimalSet
<1>4. T # {}
  BY SumEmpty
<1>5. Picked(T) \in T
  BY <1>4, PickedIn
<1>6. /\ SumOver(f, T) = f[Picked(T)] + SumOver(f, T \ {Picked(T)})
      /\ SumOver(g, T) = g[Picked(T)] + SumOver(g, T \ {Picked(T)})
  BY <1>2, <1>4, SumPicked
<1>7. SumOver(f, T \ {Picked(T)}) = SumOver(g, T \ {Picked(T)})
  BY <1>3, <1>5
<1>8. f[Picked(T)] = g[Picked(T)]
  BY <1>5
<1> QED BY <1>3, <1>6, <1>7, <1>8

\* When one value changes, the sum changes by as much.
LEMMA SumChanged ==
    ASSUME NEW f, NEW g, NEW S, IsFiniteSet(S), NEW a \in S,
           \A x \in S : f[x] \in Int /\ g[x] \in Int,
           \A x \in S \ {a} : f[x] = g[x]
    PROVE  /\ SumOver(g, S) = SumOver(f, S) - f[a] + g[a]
           /\ SumOver(f, S) \in Int /\ SumOver(g, S) \in Int
<1>0. (\A x \in S : f[x] \in Int) /\ (\A x \in S : g[x] \in Int)
  OBVIOUS
<1>1. /\ SumOver(f, S) = f[a] + SumOver(f, S \ {a})
      /\ SumOver(f, S \ {a}) \in Int
  BY <1>0, SumWithout
<1>b. SumOver(g, S) = g[a] + SumOver(g, S \ {a})
  BY <1>0, SumWithout
<1>2. SumOver(f, S \ {a}) = SumOver(g, S \ {a})
  <2>1. IsFiniteSet(S \ {a})
    BY FS_RemoveElement
  <2> QED BY <2>1, SumSame
<1>3. f[a] \in Int /\ g[a] \in Int
  OBVIOUS
<1>4. SumOver(f, S) \in Int /\ SumOver(g, S) \in Int
  BY SumType
<1> QED BY <1>1, <1>b, <1>2, <1>3, <1>4

\* A sum is monotone in the function and, for naturals, in the set.
LEMMA SumMonotone ==
    ASSUME NEW f, NEW g, NEW S, IsFiniteSet(S),
           \A x \in S : f[x] \in Int /\ g[x] \in Int /\ f[x] <= g[x]
    PROVE  SumOver(f, S) <= SumOver(g, S)
<1> DEFINE Q == {T \in SUBSET S : ~ (SumOver(f, T) <= SumOver(g, T))}
<1>1. SUFFICES ASSUME Q # {} PROVE FALSE
  OBVIOUS
<1>2. \A V \in SUBSET S : IsFiniteSet(V)
  BY FS_Subset
<1>3. PICK T \in Q : \A U \in Q : U \subseteq T => U = T
  <2>1. \A V \in Q : IsFiniteSet(V)
    BY <1>2
  <2> HIDE DEF Q
  <2> QED BY <1>1, <2>1, MinimalSet
<1> DEFINE p == Picked(T)
<1>4. T # {}
  BY SumEmpty
<1>5. p \in T
  BY <1>4, PickedIn
<1>6. /\ SumOver(f, T) = f[p] + SumOver(f, T \ {p})
      /\ SumOver(g, T) = g[p] + SumOver(g, T \ {p})
  BY <1>2, <1>4, SumPicked
<1> HIDE DEF p
<1>7. SumOver(f, T \ {p}) <= SumOver(g, T \ {p})
  BY <1>3, <1>5
<1>8. SumOver(f, T \ {p}) \in Int /\ SumOver(g, T \ {p}) \in Int
  <2>1. T \ {p} \in SUBSET S
    OBVIOUS
  <2> QED BY <1>2, <2>1, SumType
<1>9. f[p] \in Int /\ g[p] \in Int /\ f[p] <= g[p]
  BY <1>5
<1> QED BY <1>3, <1>6, <1>7, <1>8, <1>9

LEMMA SumOfZeros ==
    ASSUME NEW f, NEW S, IsFiniteSet(S), \A x \in S : f[x] = 0
    PROVE  SumOver(f, S) = 0
<1> DEFINE Q == {T \in SUBSET S : SumOver(f, T) # 0}
<1>1. SUFFICES ASSUME Q # {} PROVE FALSE
  OBVIOUS
<1>2. \A V \in SUBSET S : IsFiniteSet(V)
  BY FS_Subset
<1>3. PICK T \in Q : \A U \in Q : U \subseteq T => U = T
  <2>1. \A V \in Q : IsFiniteSet(V)
    BY <1>2
  <2> HIDE DEF Q
  <2> QED BY <1>1, <2>1, MinimalSet
<1> DEFINE p == Picked(T)
<1>4. T # {}
  BY SumEmpty
<1>5. p \in T
  BY <1>4, PickedIn
<1>6. SumOver(f, T) = f[p] + SumOver(f, T \ {p})
  BY <1>2, <1>4, SumPicked
<1> HIDE DEF p
<1>7. SumOver(f, T \ {p}) = 0 /\ f[p] = 0
  BY <1>3, <1>5
<1> QED BY <1>3, <1>6, <1>7

LEMMA SumNat ==
    ASSUME NEW f, NEW S, IsFiniteSet(S), \A x \in S : f[x] \in Nat
    PROVE  SumOver(f, S) \in Nat
<1> DEFINE zero == [x \in S |-> 0]
<1>1. SumOver(zero, S) = 0
  BY SumOfZeros
<1>2. SumOver(zero, S) <= SumOver(f, S)
  <2>1. \A x \in S : zero[x] \in Int /\ f[x] \in Int /\ zero[x] <= f[x]
    OBVIOUS
  <2> HIDE DEF zero
  <2> QED BY <2>1, SumMonotone
<1>3. SumOver(f, S) \in Int
  BY SumType
<1> QED BY <1>1, <1>2, <1>3

\* A sum over part of a set is a sum over the set that counts zero elsewhere.
LEMMA SumPart ==
    ASSUME NEW f, NEW g, NEW S, IsFiniteSet(S), NEW T \in SUBSET S,
           \A x \in T : f[x] \in Int,
           \A x \in S : g[x] = IF x \in T THEN f[x] ELSE 0
    PROVE  SumOver(f, T) = SumOver(g, S)
<1> DEFINE Q == {V \in SUBSET S : SumOver(g, V) # SumOver(f, V \cap T)}
<1>1. S \cap T = T
  OBVIOUS
<1>2. SUFFICES ASSUME Q # {} PROVE FALSE
  BY <1>1
<1>3. \A V \in SUBSET S : IsFiniteSet(V)
  BY FS_Subset
<1>4. PICK V \in Q : \A U \in Q : U \subseteq V => U = V
  <2>1. \A U \in Q : IsFiniteSet(U)
    BY <1>3
  <2> HIDE DEF Q
  <2> QED BY <1>2, <2>1, MinimalSet
<1> DEFINE p == Picked(V)
<1>5. V # {}
  <2>1. {} \cap T = {}
    OBVIOUS
  <2> QED BY <2>1, SumEmpty
<1>6. p \in V
  BY <1>5, PickedIn
<1>7. SumOver(g, V) = g[p] + SumOver(g, V \ {p})
  BY <1>3, <1>5, SumPicked
<1> HIDE DEF p
<1>8. SumOver(g, V \ {p}) = SumOver(f, (V \ {p}) \cap T)
  BY <1>4, <1>6
<1>9. IsFiniteSet(V \cap T) /\ IsFiniteSet((V \ {p}) \cap T)
  BY <1>3
<1>10. SumOver(f, (V \ {p}) \cap T) \in Int
  <2>1. \A x \in (V \ {p}) \cap T : f[x] \in Int
    OBVIOUS
  <2> QED BY <1>9, <2>1, SumType
<1>11. CASE p \in T
  <2>1. (V \cap T) \ {p} = (V \ {p}) \cap T /\ p \in V \cap T
    BY <1>6, <1>11
  <2>2. \A x \in V \cap T : f[x] \in Int
    OBVIOUS
  <2>3. SumOver(f, V \cap T) = f[p] + SumOver(f, (V \cap T) \ {p})
    BY <1>9, <2>1, <2>2, SumWithout
  <2>4. g[p] = f[p]
    BY <1>6, <1>11
  <2> QED BY <1>4, <1>7, <1>8, <2>1, <2>3, <2>4
<1>12. CASE p \notin T
  <2>1. V \cap T = (V \ {p}) \cap T
    BY <1>12
  <2>2. g[p] = 0
    BY <1>6, <1>12
  <2>3. SumOver(g, V) = SumOver(g, V \ {p})
    BY <1>7, <1>8, <1>10, <2>2
  <2> QED BY <1>4, <1>8, <2>1, <2>3
<1> QED BY <1>11, <1>12

LEMMA SumTogether ==
    ASSUME NEW f, NEW g, NEW h, NEW S, IsFiniteSet(S),
           \A x \in S : f[x] \in Int /\ g[x] \in Int /\ h[x] = f[x] + g[x]
    PROVE  SumOver(h, S) = SumOver(f, S) + SumOver(g, S)
<1> DEFINE Q == {T \in SUBSET S : SumOver(h, T) # SumOver(f, T) + SumOver(g, T)}
<1>1. SUFFICES ASSUME Q # {} PROVE FALSE
  OBVIOUS
<1>2. \A V \in SUBSET S : IsFiniteSet(V)
  BY FS_Subset
<1>3. PICK T \in Q : \A U \in Q : U \subseteq T => U = T
  <2>1. \A V \in Q : IsFiniteSet(V)
    BY <1>2
  <2> HIDE DEF Q
  <2> QED BY <1>1, <2>1, MinimalSet
<1> DEFINE p == Picked(T)
<1>4. T # {}
  <2>1. SumOver(h, {}) = 0 /\ SumOver(f, {}) = 0 /\ SumOver(g, {}) = 0
    BY SumEmpty
  <2>2. SumOver(h, {}) = SumOver(f, {}) + SumOver(g, {})
    BY <2>1
  <2> QED BY <2>2
<1>5. p \in T
  BY <1>4, PickedIn
<1>6. SumOver(f, T) = f[p] + SumOver(f, T \ {p})
  BY <1>2, <1>4, SumPicked
<1>7. SumOver(g, T) = g[p] + SumOver(g, T \ {p})
  BY <1>2, <1>4, SumPicked
<1>8. SumOver(h, T) = h[p] + SumOver(h, T \ {p})
  BY <1>2, <1>4, SumPicked
<1> HIDE DEF p
<1>9. SumOver(h, T \ {p}) = SumOver(f, T \ {p}) + SumOver(g, T \ {p})
  BY <1>3, <1>5
<1>10. SumOver(f, T \ {p}) \in Int /\ SumOver(g, T \ {p}) \in Int
  <2>1. T \ {p} \in SUBSET S
    OBVIOUS
  <2> QED BY <1>2, <2>1, SumType
<1>11. f[p] \in Int /\ g[p] \in Int /\ h[p] = f[p] + g[p]
  BY <1>5
<1> QED BY <1>3, <1>6, <1>7, <1>8, <1>9, <1>10, <1>11

=============================================================================
