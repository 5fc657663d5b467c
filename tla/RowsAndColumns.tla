--------------------------- MODULE RowsAndColumns ---------------------------
(***************************************************************************)
(* Arithmetic for layouts: places numbered row by row in a table with x    *)
(* columns, the row and column of a number, least elements, sums, the      *)
(* offsets of an IOR file, which is such a table, and numbered sets.       *)
(***************************************************************************)
EXTENDS IorLayout, Integers, FiniteSets, FiniteSetsExt, FiniteSetTheorems, SequenceTheorems, WellFoundedInduction,
        TLAPS

LEMMA Monotone ==
    ASSUME NEW a \in Int, NEW b \in Int, NEW x \in Nat, a <= b
    PROVE  a * x <= b * x
<1>1. (b - a) * x >= 0
  OBVIOUS
<1>2. (b - a) * x = b * x - a * x
  OBVIOUS
<1> QED
  BY <1>1, <1>2

LEMMA QuotientIs ==
    ASSUME NEW k \in Nat, NEW x \in Nat \ {0}
    PROVE  /\ k \div x \in Nat
           /\ k % x \in 0 .. x - 1
           /\ k = (k \div x) * x + (k % x)
OBVIOUS

\* Row and column determine each other.
LEMMA RowColumn ==
    ASSUME NEW a \in Nat, NEW c \in Nat, NEW x \in Nat \ {0},
           NEW b \in 0 .. x - 1, NEW d \in 0 .. x - 1,
           a * x + b = c * x + d
    PROVE  a = c /\ b = d
<1>1. ~(a < c)
  <2> SUFFICES ASSUME a < c PROVE FALSE
    OBVIOUS
  <2>1. (a + 1) * x <= c * x
    BY Monotone
  <2>2. (a + 1) * x = a * x + x
    OBVIOUS
  <2> QED
    BY <2>1, <2>2
<1>2. ~(c < a)
  <2> SUFFICES ASSUME c < a PROVE FALSE
    OBVIOUS
  <2>1. (c + 1) * x <= a * x
    BY Monotone
  <2>2. (c + 1) * x = c * x + x
    OBVIOUS
  <2> QED
    BY <2>1, <2>2
<1> QED
  BY <1>1, <1>2

\* A place in row a, column b of a table of rows and columns.
LEMMA InTable ==
    ASSUME NEW a \in Nat, NEW rows \in Nat, NEW x \in Nat \ {0},
           NEW b \in 0 .. x - 1, a < rows
    PROVE  a * x + b \in 0 .. rows * x - 1
<1>1. (a + 1) * x <= rows * x
  BY Monotone
<1>2. (a + 1) * x = a * x + x /\ a * x \in Nat /\ rows * x \in Nat
  OBVIOUS
<1> QED
  BY <1>1, <1>2

\* Every place of a table of so many rows is in one of its rows.
LEMMA FromTable ==
    ASSUME NEW rows \in Nat, NEW x \in Nat \ {0}, NEW i \in 0 .. rows * x - 1
    PROVE  /\ i \div x \in 0 .. rows - 1 /\ i % x \in 0 .. x - 1
           /\ i = (i \div x) * x + (i % x)
<1> DEFINE a == i \div x
           b == i % x
<1>1. a \in Nat /\ b \in 0 .. x - 1 /\ i = a * x + b
  <2>1. rows * x \in Int
    OBVIOUS
  <2>2. i \in Nat
    BY <2>1
  <2> QED
    BY <2>2, QuotientIs
<1> HIDE DEF a, b
<1>2. rows <= a => rows * x <= a * x
  BY <1>1, Monotone
<1>3. a * x \in Int /\ rows * x \in Int
  BY <1>1
<1>4. a < rows
  BY <1>1, <1>2, <1>3
<1> QED
  BY <1>1, <1>4 DEF a, b

\* Its row and column are what division and remainder give back.
LEMMA BackFromTable ==
    ASSUME NEW a \in Nat, NEW x \in Nat \ {0}, NEW b \in 0 .. x - 1
    PROVE  (a * x + b) \div x = a /\ (a * x + b) % x = b
<1> DEFINE k == a * x + b
<1>1. k \in Nat
  OBVIOUS
<1>2. /\ k \div x \in Nat /\ k % x \in 0 .. x - 1
      /\ k = (k \div x) * x + (k % x)
  BY <1>1, QuotientIs
<1> HIDE DEF k
<1>3. k = a * x + b
  BY DEF k
<1>4. a = k \div x /\ b = k % x
  BY <1>2, <1>3, RowColumn
<1> QED
  BY <1>4 DEF k

\* A set of natural numbers has a least one.
LEMMA Least ==
    ASSUME NEW T \in SUBSET Nat, T # {}
    PROVE  \E x \in T : \A y \in T : x <= y
<1> DEFINE R == {ss \in Nat \X Nat : ss[1] < ss[2]}
<1>1. IsWellFoundedOn(R, Nat)
  BY NatLessThanWellFounded DEF OpToRel
<1>2. PICK x \in T : \A y \in T : ~ (<<y, x>> \in R)
  <2> HIDE DEF R
  <2> QED
    BY <1>1, WFMin
<1>3. ASSUME NEW y \in T PROVE x <= y
  <2>1. x \in Nat /\ y \in Nat /\ ~(<<y, x>> \in R)
    BY <1>2
  <2> QED
    BY <2>1
<1> QED
  BY <1>3
-----------------------------------------------------------------------------
(* Sums over finite sets.  MapThenSumSet computes one with a recursive      *)
(* function, of which the lemmas need only that there is such a function;   *)
(* that is shown for ever larger sets, by a least counterexample.           *)

\* The sum of f over a set, and the function that MapThenSumSet computes it with.
SumOn(f, S) == MapThenSumSet(LAMBDA x : f[x], S)
Chosen(s) == CHOOSE x \in s : TRUE
Added(f, g, s) == IF s = {} THEN 0 ELSE f[Chosen(s)] + g[s \ {Chosen(s)}]
SumTable(f, S) == CHOOSE g : g = [s \in SUBSET S |-> Added(f, g, s)]

LEMMA SumOnIs == ASSUME NEW f, NEW S PROVE SumOn(f, S) = SumTable(f, S)[S]
  BY Zenon DEF SumOn, MapThenSumSet, MapThenFoldSet, SumTable, Added, Chosen

LEMMA ChosenIsIn == ASSUME NEW s, s # {} PROVE Chosen(s) \in s
  BY DEF Chosen

LEMMA OneLess ==
    ASSUME NEW S, IsFiniteSet(S), NEW s \in SUBSET S, s # {}, NEW x \in s
    PROVE  /\ s \ {x} \in SUBSET S /\ Cardinality(s) \in Nat \ {0}
           /\ Cardinality(s \ {x}) = Cardinality(s) - 1
           /\ Cardinality(s) <= Cardinality(S) /\ Cardinality(S) \in Nat
<1>1. IsFiniteSet(s) /\ Cardinality(s) <= Cardinality(S)
  BY FS_Subset
<1>2. Cardinality(s) \in Nat /\ Cardinality(S) \in Nat
  BY <1>1, FS_CardinalityType
<1>3. Cardinality(s) # 0
  BY <1>1, FS_EmptySet
<1>4. Cardinality(s \ {x}) = Cardinality(s) - 1
  BY <1>1, FS_RemoveElement
<1> QED
  BY <1>1, <1>2, <1>3, <1>4

\* There is such a function: right for ever larger sets.
LEMMA SumsExist ==
    ASSUME NEW f, NEW S, IsFiniteSet(S)
    PROVE  /\ DOMAIN SumTable(f, S) = SUBSET S
           /\ \A s \in SUBSET S : SumTable(f, S)[s] = Added(f, SumTable(f, S), s)
<1> DEFINE Right(g, n) == \A s \in SUBSET S : Cardinality(s) <= n => g[s] = Added(f, g, s)
           Wrong == {n \in Nat : ~ \E g : g = [s \in SUBSET S |-> g[s]] /\ Right(g, n)}
<1>1. \A s \in SUBSET S : Cardinality(s) \in Nat /\ Cardinality(s) <= Cardinality(S)
                          /\ (Cardinality(s) = 0 <=> s = {}) /\ Cardinality(S) \in Nat
  BY FS_Subset, FS_CardinalityType, FS_EmptySet
<1>2. Wrong = {}
  <2> SUFFICES ASSUME Wrong # {} PROVE FALSE
    OBVIOUS
  <2>1. PICK n \in Wrong : \A y \in Wrong : n <= y
    BY Least
  <2>2. n \in Nat /\ ~ \E g : g = [s \in SUBSET S |-> g[s]] /\ Right(g, n)
    OBVIOUS
  <2>3. CASE n = 0
    <3> DEFINE g == [s \in SUBSET S |-> 0]
    <3>1. Right(g, 0)
      BY <1>1 DEF Added
    <3>2. g = [s \in SUBSET S |-> g[s]]
      OBVIOUS
    <3> HIDE DEF g, Right
    <3> QED
      BY <2>2, <2>3, <3>1, <3>2
  <2>4. CASE n # 0
    <3>1. n - 1 \in Nat /\ ~(n <= n - 1)
      BY <2>2, <2>4
    <3>6. n - 1 \notin Wrong
      BY <2>1, <3>1
    <3>2. PICK g : g = [s \in SUBSET S |-> g[s]] /\ Right(g, n - 1)
      BY <3>1, <3>6
    <3> DEFINE k == [s \in SUBSET S |-> IF Cardinality(s) <= n - 1 THEN g[s] ELSE Added(f, g, s)]
    <3>3. ASSUME NEW s \in SUBSET S, Cardinality(s) <= n PROVE k[s] = Added(f, k, s)
      <4>1. k[s] = Added(f, g, s)
        BY <3>2
      <4>2. CASE s = {}
        BY <4>1, <4>2 DEF Added
      <4>3. CASE s # {}
        <5> DEFINE q == s \ {Chosen(s)}
        <5>1. q \in SUBSET S /\ Cardinality(q) <= n - 1
          <6>1. /\ q \in SUBSET S /\ Cardinality(s) \in Nat
                /\ Cardinality(q) = Cardinality(s) - 1
            BY <4>3, ChosenIsIn, OneLess
          <6> HIDE DEF q
          <6> QED
            BY <2>2, <3>3, <6>1
        <5>2. k[q] = g[q]
          BY <5>1
        <5> QED
          BY <4>1, <4>3, <5>2 DEF Added
      <4> QED
        BY <4>2, <4>3
    <3>4. k = [s \in SUBSET S |-> k[s]]
      OBVIOUS
    <3>5. Right(k, n)
      BY <3>3
    <3> HIDE DEF k, Right
    <3> QED
      BY <2>2, <3>4, <3>5
  <2> QED
    BY <2>3, <2>4
<1>3. Cardinality(S) \in Nat
  BY FS_CardinalityType
<1>4. PICK g : g = [s \in SUBSET S |-> g[s]] /\ Right(g, Cardinality(S))
  BY <1>2, <1>3
<1>5. \A s \in SUBSET S : g[s] = Added(f, g, s)
  BY <1>1, <1>4
<1>6. g = [s \in SUBSET S |-> Added(f, g, s)]
  BY <1>4, <1>5
<1>7. SumTable(f, S) = [s \in SUBSET S |-> Added(f, SumTable(f, S), s)]
  BY <1>6 DEF SumTable
<1> QED
  BY <1>7

\* Two such functions agree where both are defined, and on values that agree.
LEMMA SumsAgree ==
    ASSUME NEW f, NEW k, NEW S, NEW T, IsFiniteSet(S), IsFiniteSet(T),
           \A x \in S \cap T : f[x] = k[x]
    PROVE  \A s \in SUBSET (S \cap T) : SumTable(f, S)[s] = SumTable(k, T)[s]
<1> DEFINE g == SumTable(f, S)
           h == SumTable(k, T)
           Wrong == {n \in Nat : \E s \in SUBSET (S \cap T) : Cardinality(s) = n /\ g[s] # h[s]}
<1>1. IsFiniteSet(S \cap T)
  BY FS_Subset
<1>2. \A s \in SUBSET (S \cap T) : g[s] = Added(f, g, s) /\ h[s] = Added(k, h, s)
  <2>1. \A s \in SUBSET S : g[s] = Added(f, g, s)
    BY SumsExist
  <2>2. \A s \in SUBSET T : h[s] = Added(k, h, s)
    BY SumsExist
  <2> QED
    BY <2>1, <2>2
<1> HIDE DEF g, h
<1>3. Wrong = {}
  <2> SUFFICES ASSUME Wrong # {} PROVE FALSE
    OBVIOUS
  <2>1. PICK n \in Wrong : \A y \in Wrong : n <= y
    BY Least
  <2>2. PICK s \in SUBSET (S \cap T) : Cardinality(s) = n /\ g[s] # h[s]
    OBVIOUS
  <2>3. s # {}
    BY <1>2, <2>2 DEF Added
  <2> DEFINE q == s \ {Chosen(s)}
  <2>4. Chosen(s) \in s
    BY <2>3, ChosenIsIn
  <2>5. q \in SUBSET (S \cap T) /\ Cardinality(q) = n - 1 /\ n \in Nat \ {0}
    <3>1. /\ s \ {Chosen(s)} \in SUBSET (S \cap T) /\ Cardinality(s) \in Nat \ {0}
          /\ Cardinality(s \ {Chosen(s)}) = Cardinality(s) - 1
      <4> DEFINE B == S \cap T
                 x == Chosen(s)
      <4>1. IsFiniteSet(B) /\ s \in SUBSET B /\ s # {} /\ x \in s
        BY <1>1, <2>3, <2>4
      <4> HIDE DEF B, x
      <4>2. /\ s \ {x} \in SUBSET B /\ Cardinality(s) \in Nat \ {0}
            /\ Cardinality(s \ {x}) = Cardinality(s) - 1
        BY <4>1, OneLess
      <4> QED
        BY <4>2 DEF B, x
    <3> QED
      BY <2>2, <3>1
  <2>6. g[q] = h[q]
    <3>1. n - 1 \in Nat /\ ~(n <= n - 1)
      BY <2>5
    <3>2. n - 1 \notin Wrong
      BY <2>1, <3>1
    <3> HIDE DEF q
    <3> QED
      BY <2>5, <3>1, <3>2
  <2>7. f[Chosen(s)] = k[Chosen(s)]
    BY <2>4
  <2> QED
    BY <1>2, <2>2, <2>3, <2>6, <2>7 DEF Added
<1> SUFFICES ASSUME NEW s \in SUBSET (S \cap T) PROVE g[s] = h[s]
  BY DEF g, h
<1>4. Cardinality(s) \in Nat
  BY <1>1, FS_Subset, FS_CardinalityType
<1> QED
  BY <1>3, <1>4

\* Only the values in the set count.
LEMMA SameSum ==
    ASSUME NEW f, NEW g, NEW S, IsFiniteSet(S), \A x \in S : f[x] = g[x]
    PROVE  SumOn(f, S) = SumOn(g, S)
<1>1. SumTable(f, S)[S] = SumTable(g, S)[S]
  BY SumsAgree
<1> QED
  BY <1>1, SumOnIs

LEMMA SumOfNone == ASSUME NEW f PROVE SumOn(f, {}) = 0
<1>1. SumTable(f, {})[{}] = Added(f, SumTable(f, {}), {})
  BY SumsExist, FS_EmptySet
<1> QED
  BY <1>1, SumOnIs DEF Added

LEMMA SumIsChosenAndRest ==
    ASSUME NEW f, NEW S, IsFiniteSet(S), S # {}
    PROVE  SumOn(f, S) = f[Chosen(S)] + SumOn(f, S \ {Chosen(S)})
<1> DEFINE R == S \ {Chosen(S)}
<1>1. IsFiniteSet(R) /\ R \in SUBSET (S \cap R)
  BY FS_Subset
<1>2. SumTable(f, S)[R] = SumTable(f, R)[R]
  BY <1>1, SumsAgree
<1>3. SumTable(f, S)[S] = Added(f, SumTable(f, S), S)
  BY SumsExist
<1> QED
  BY <1>2, <1>3, SumOnIs DEF Added

\* It is a number, and any element may be taken for the first.
LEMMA SumsAreSums ==
    ASSUME NEW f, NEW S, IsFiniteSet(S), \A x \in S : f[x] \in Int
    PROVE  \A s \in SUBSET S : /\ SumOn(f, s) \in Int
                               /\ \A x \in s : SumOn(f, s) = f[x] + SumOn(f, s \ {x})
<1> DEFINE Good(s) == /\ SumOn(f, s) \in Int
                      /\ \A x \in s : SumOn(f, s) = f[x] + SumOn(f, s \ {x})
           Wrong == {n \in Nat : \E s \in SUBSET S : Cardinality(s) = n /\ ~Good(s)}
<1>1. Wrong = {}
  <2> SUFFICES ASSUME Wrong # {} PROVE FALSE
    OBVIOUS
  <2>1. PICK n \in Wrong : \A y \in Wrong : n <= y
    BY Least
  <2>2. PICK s \in SUBSET S : Cardinality(s) = n /\ ~Good(s)
    OBVIOUS
  <2> HIDE DEF Good
  <2>3. s # {}
    <3> SUFFICES ASSUME s = {} PROVE FALSE
      OBVIOUS
    <3>1. SumOn(f, s) = 0
      BY SumOfNone
    <3> QED
      BY <2>2, <3>1 DEF Good
  <2>4. n \in Nat \ {0} /\ \A x \in s : s \ {x} \in SUBSET S /\ Cardinality(s \ {x}) = n - 1
    BY <2>2, <2>3, OneLess
  <2>5. n - 1 \in Nat /\ ~(n <= n - 1)
    BY <2>4
  <2>6. n - 1 \notin Wrong
    BY <2>1, <2>5
  <2>7. \A x \in s : Good(s \ {x})
    BY <2>4, <2>5, <2>6
  <2> DEFINE c == Chosen(s)
  <2>8. c \in s /\ SumOn(f, s) = f[c] + SumOn(f, s \ {c})
    BY <2>3, ChosenIsIn, SumIsChosenAndRest, FS_Subset
  <2> HIDE DEF c
  <2>9. SumOn(f, s) \in Int
    BY <2>7, <2>8 DEF Good
  <2>10. ASSUME NEW x \in s PROVE SumOn(f, s) = f[x] + SumOn(f, s \ {x})
    <3>1. CASE x = c
      BY <2>8, <3>1
    <3>2. CASE x # c
      <4>1. x \in s \ {c} /\ c \in s \ {x} /\ (s \ {c}) \ {x} = (s \ {x}) \ {c}
        BY <2>8, <3>2
      <4> DEFINE both == SumOn(f, (s \ {c}) \ {x})
      <4>2. SumOn(f, s \ {c}) = f[x] + both /\ SumOn(f, s \ {c}) \in Int
        BY <2>7, <2>8, <4>1 DEF Good
      <4>3. SumOn(f, s \ {x}) = f[c] + both
        BY <2>7, <4>1 DEF Good
      <4>4. both \in Int
        <5>1. CASE s \ {c} = {}
          BY <4>1, <5>1
        <5>2. (s \ {c}) \ {x} \in SUBSET S
          OBVIOUS
        <5>3. Cardinality((s \ {c}) \ {x}) = n - 2 /\ n - 2 \in Nat /\ ~(n <= n - 2)
          <6>1. s \ {c} # {} /\ s \ {c} \in SUBSET S /\ Cardinality(s \ {c}) = n - 1
            BY <2>4, <2>8, <4>1
          <6>2. Cardinality((s \ {c}) \ {x}) = (n - 1) - 1 /\ n - 1 \in Nat \ {0}
            <7> DEFINE d == s \ {c}
            <7>1. d # {} /\ d \in SUBSET S /\ x \in d /\ Cardinality(d) = n - 1
              BY <4>1, <6>1
            <7> HIDE DEF d
            <7>2. Cardinality(d) \in Nat \ {0} /\ Cardinality(d \ {x}) = Cardinality(d) - 1
              BY <7>1, OneLess
            <7> QED
              BY <7>1, <7>2 DEF d
          <6> QED
            BY <2>4, <6>2
        <5>4. n - 2 \notin Wrong
          BY <2>1, <5>3
        <5> QED
          BY <5>2, <5>3, <5>4 DEF Good
      <4>5. f[x] \in Int /\ f[c] \in Int
        BY <2>8
      <4> HIDE DEF both
      <4> QED
        BY <2>8, <4>2, <4>3, <4>4, <4>5
    <3> QED
      BY <3>1, <3>2
  <2> QED
    BY <2>2, <2>9, <2>10 DEF Good
<1> SUFFICES ASSUME NEW s \in SUBSET S PROVE Good(s)
  OBVIOUS
<1>2. Cardinality(s) \in Nat
  BY FS_Subset, FS_CardinalityType
<1> HIDE DEF Good
<1> QED
  BY <1>1, <1>2

LEMMA SumIsInt ==
    ASSUME NEW f, NEW S, IsFiniteSet(S), \A x \in S : f[x] \in Int
    PROVE  SumOn(f, S) \in Int
  BY SumsAreSums

LEMMA SumOfAdded ==
    ASSUME NEW f, NEW S, IsFiniteSet(S), NEW y, y \notin S, \A x \in S \cup {y} : f[x] \in Int
    PROVE  SumOn(f, S \cup {y}) = f[y] + SumOn(f, S)
<1> DEFINE T == S \cup {y}
<1>1. IsFiniteSet(T) /\ T \ {y} = S /\ y \in T
  BY FS_AddElement
<1>2. SumOn(f, T) = f[y] + SumOn(f, T \ {y})
  <2> HIDE DEF T
  <2>1. \A x \in T : f[x] \in Int
    BY DEF T
  <2> QED
    BY <1>1, <2>1, SumsAreSums
<1> QED
  BY <1>1, <1>2

\* SumTable of natural numbers: of more of them, more.
LEMMA SumsGrow ==
    ASSUME NEW f, NEW S, IsFiniteSet(S), \A x \in S : f[x] \in Nat
    PROVE  \A s \in SUBSET S : SumOn(f, s) \in Nat /\ SumOn(f, s) <= SumOn(f, S)
<1>0. \A x \in S : f[x] \in Int
  OBVIOUS
<1> DEFINE Good(n) == \A t, s \in SUBSET S :
               (s \subseteq t /\ Cardinality(t) = n) => 0 <= SumOn(f, s) /\ SumOn(f, s) <= SumOn(f, t)
           Wrong == {n \in Nat : ~Good(n)}
<1>1. Wrong = {}
  <2> SUFFICES ASSUME Wrong # {} PROVE FALSE
    OBVIOUS
  <2>1. PICK n \in Wrong : \A y \in Wrong : n <= y
    BY Least
  <2>2. PICK t \in SUBSET S, s \in SUBSET S :
           s \subseteq t /\ Cardinality(t) = n /\ ~(0 <= SumOn(f, s) /\ SumOn(f, s) <= SumOn(f, t))
    OBVIOUS
  <2>3. n \in Nat /\ IsFiniteSet(t) /\ IsFiniteSet(s)
    BY FS_Subset
  <2>4. SumOn(f, t) \in Int /\ SumOn(f, s) \in Int
    BY <1>0, SumsAreSums
  <2>5. t # {}
    <3> SUFFICES ASSUME t = {} PROVE FALSE
      OBVIOUS
    <3>1. s = {} /\ SumOn(f, s) = 0 /\ SumOn(f, t) = 0
      BY <2>2, SumOfNone
    <3> QED
      BY <2>2, <3>1
  <2>6. ASSUME NEW x \in t
        PROVE  /\ t \ {x} \in SUBSET S /\ n - 1 \in Nat /\ Cardinality(t \ {x}) = n - 1
               /\ Good(n - 1) /\ f[x] \in Nat /\ SumOn(f, t) = f[x] + SumOn(f, t \ {x})
               /\ SumOn(f, t \ {x}) \in Int
    <3>1. t \ {x} \in SUBSET S /\ n - 1 \in Nat /\ Cardinality(t \ {x}) = n - 1 /\ ~(n <= n - 1)
      BY <2>2, <2>3, <2>5, OneLess
    <3> HIDE DEF Good
    <3>2. n - 1 \notin Wrong
      BY <2>1, <3>1
    <3>3. Good(n - 1)
      BY <3>1, <3>2
    <3>4. f[x] \in Nat /\ SumOn(f, t) = f[x] + SumOn(f, t \ {x}) /\ SumOn(f, t \ {x}) \in Int
      BY <1>0, <3>1, SumsAreSums
    <3> QED
      BY <3>1, <3>3, <3>4
  <2>7. CASE s = t
    <3>1. PICK x \in t : TRUE
      BY <2>5
    <3>2. 0 <= SumOn(f, t \ {x})
      BY <2>6
    <3>3. SumOn(f, t) = f[x] + SumOn(f, t \ {x}) /\ f[x] \in Nat /\ SumOn(f, t \ {x}) \in Int
      BY <2>6
    <3> QED
      BY <2>2, <2>4, <2>7, <3>2, <3>3
  <2>8. CASE s # t
    <3>1. PICK x \in t : x \notin s
      BY <2>2, <2>8
    <3>2. s \subseteq t \ {x}
      BY <2>2, <3>1
    <3>3. 0 <= SumOn(f, s) /\ SumOn(f, s) <= SumOn(f, t \ {x})
      BY <2>6, <3>2
    <3>4. SumOn(f, t) = f[x] + SumOn(f, t \ {x}) /\ f[x] \in Nat /\ SumOn(f, t \ {x}) \in Int
      BY <2>6
    <3> QED
      BY <2>2, <2>4, <3>3, <3>4
  <2> QED
    BY <2>7, <2>8
<1> SUFFICES ASSUME NEW s \in SUBSET S PROVE SumOn(f, s) \in Nat /\ SumOn(f, s) <= SumOn(f, S)
  OBVIOUS
<1>2. Cardinality(S) \in Nat
  BY FS_CardinalityType
<1>3. SumOn(f, s) \in Int
  BY <1>0, SumsAreSums
<1> QED
  BY <1>1, <1>2, <1>3

\* SumTable over the numbers up to n.
LEMMA SumUpTo ==
    ASSUME NEW n \in Nat, NEW f, \A x \in 0 .. n : f[x] \in Int
    PROVE  /\ SumOn(f, 0 .. n - 1) \in Int
           /\ SumOn(f, 0 .. n) = SumOn(f, 0 .. n - 1) + f[n]
<1>1. IsFiniteSet(0 .. n - 1) /\ n \notin 0 .. n - 1 /\ 0 .. n = (0 .. n - 1) \cup {n}
  <2>1. n - 1 \in Int
    OBVIOUS
  <2>2. IsFiniteSet(0 .. n - 1)
    BY <2>1, FS_Interval
  <2>3. n \notin 0 .. n - 1
    OBVIOUS
  <2>4. \A x : x \in 0 .. n <=> x \in 0 .. n - 1 \/ x = n
    OBVIOUS
  <2> QED
    BY <2>2, <2>3, <2>4
<1>2. \A x \in (0 .. n - 1) \cup {n} : f[x] \in Int
  BY <1>1
<1>3. SumOn(f, (0 .. n - 1) \cup {n}) = f[n] + SumOn(f, 0 .. n - 1)
  BY <1>1, <1>2, SumOfAdded
<1>4. SumOn(f, 0 .. n - 1) \in Int
  BY <1>1, <1>2, SumIsInt
<1> QED
  <2>1. SumOn(f, 0 .. n) = f[n] + SumOn(f, 0 .. n - 1)
    BY <1>1, <1>3, Zenon
  <2>2. f[n] \in Int
    OBVIOUS
  <2> QED
    BY <1>4, <2>1, <2>2

\* A sum of a number with itself.
LEMMA SumOfSame ==
    ASSUME NEW n \in Nat, NEW f, NEW c \in Int, \A x \in 0 .. n - 1 : f[x] = c
    PROVE  SumOn(f, 0 .. n - 1) = n * c
<1> DEFINE Good(m) == SumOn(f, 0 .. m - 1) = m * c
           Wrong == {m \in Nat : m <= n /\ ~Good(m)}
<1> SUFFICES ASSUME Wrong # {} PROVE FALSE
  <2>1. Wrong = {} => Good(n)
    <3> HIDE DEF Good
    <3> QED
      OBVIOUS
  <2> QED
    BY <2>1
<1>1. PICK m \in Wrong : \A y \in Wrong : m <= y
  <2>1. Wrong \in SUBSET Nat
    OBVIOUS
  <2> QED
    BY <2>1, Least
<1>2. m \in Nat /\ m <= n /\ ~Good(m)
  OBVIOUS
<1>3. m # 0
  <2> SUFFICES ASSUME m = 0 PROVE FALSE
    OBVIOUS
  <2>1. 0 .. m - 1 = {} /\ m * c = 0
    OBVIOUS
  <2> QED
    BY <1>2, <2>1, SumOfNone
<1> DEFINE k == m - 1
<1>4. k \in Nat /\ k <= n /\ k < m /\ m = k + 1
  BY <1>2, <1>3
<1>5. Good(k)
  <2> HIDE DEF Good
  <2>1. k \notin Wrong
    BY <1>1, <1>2, <1>4
  <2> QED
    BY <1>4, <2>1
<1> HIDE DEF k, Wrong
<1>6. \A x \in 0 .. k : f[x] = c
  BY <1>2, <1>4
<1>7. SumOn(f, 0 .. k) = SumOn(f, 0 .. k - 1) + f[k]
  BY <1>4, <1>6, SumUpTo
<1>8. SumOn(f, 0 .. m - 1) = k * c + c
  BY <1>4, <1>5, <1>6, <1>7
<1>9. k * c + c = m * c
  <2>1. (k + 1) * c = k * c + c
    BY <1>4
  <2> QED
    BY <1>4, <2>1
<1> QED
  BY <1>2, <1>8, <1>9

\* Rows laid one behind the other do not overlap and leave no place out.
LEMMA RowsFollow ==
    ASSUME NEW f, NEW a \in Nat, NEW b \in Nat, a < b, \A x \in 0 .. b - 1 : f[x] \in Nat
    PROVE  /\ SumOn(f, 0 .. a - 1) \in Nat /\ SumOn(f, 0 .. b - 1) \in Nat
           /\ SumOn(f, 0 .. a - 1) + f[a] <= SumOn(f, 0 .. b - 1)
<1> DEFINE S == 0 .. b - 1
<1>1. IsFiniteSet(S)
  BY FS_Interval
<1>2. 0 .. a - 1 \in SUBSET S /\ 0 .. a \in SUBSET S /\ S \in SUBSET S
  OBVIOUS
<1>3. \A x \in 0 .. a : f[x] \in Int
  OBVIOUS
<1>4. SumOn(f, 0 .. a) = SumOn(f, 0 .. a - 1) + f[a]
  BY <1>3, SumUpTo
<1> HIDE DEF S
<1>5. \A s \in SUBSET S : SumOn(f, s) \in Nat /\ SumOn(f, s) <= SumOn(f, S)
  <2>1. \A x \in S : f[x] \in Nat
    BY DEF S
  <2> QED
    BY <1>1, <2>1, SumsGrow
<1>6. SumOn(f, 0 .. a) <= SumOn(f, S) /\ SumOn(f, 0 .. a - 1) \in Nat /\ SumOn(f, S) \in Nat
  BY <1>2, <1>5
<1> QED
  BY <1>4, <1>6 DEF S

LEMMA RowsCover ==
    ASSUME NEW f, NEW n \in Nat, \A x \in 0 .. n - 1 : f[x] \in Nat,
           NEW k \in 0 .. SumOn(f, 0 .. n - 1) - 1
    PROVE  \E x \in 0 .. n - 1, j \in Nat : j < f[x] /\ k = SumOn(f, 0 .. x - 1) + j
<1> DEFINE From(m) == SumOn(f, 0 .. m - 1)
<1>1. ASSUME NEW m \in Nat, m <= n PROVE From(m) \in Int
  <2>1. m - 1 \in Int /\ 0 \in Int
    OBVIOUS
  <2>2. IsFiniteSet(0 .. m - 1)
    BY <2>1, FS_Interval
  <2>3. \A x \in 0 .. m - 1 : f[x] \in Int
    BY <1>1
  <2> QED
    BY <2>2, <2>3, SumIsInt
<1>2. k \in Nat /\ k < From(n)
  BY <1>1
<1> DEFINE T == {m \in Nat : m <= n /\ k < From(m)}
<1>3. PICK m \in T : \A y \in T : m <= y
  <2>1. n \in T /\ T \in SUBSET Nat
    BY <1>2
  <2> HIDE DEF T
  <2> QED
    BY <2>1, Least
<1>4. m \in Nat /\ m <= n /\ k < From(m)
  OBVIOUS
<1>5. m # 0
  <2> SUFFICES ASSUME m = 0 PROVE FALSE
    OBVIOUS
  <2>1. 0 .. m - 1 = {}
    OBVIOUS
  <2> QED
    BY <1>2, <1>4, <2>1, SumOfNone
<1> DEFINE x == m - 1
<1>6. x \in Nat /\ x <= n /\ x < m /\ x \in 0 .. n - 1 /\ 0 .. m - 1 = 0 .. x
  BY <1>4, <1>5
<1> HIDE DEF x
<1>7. x \notin T
  <2> HIDE DEF T
  <2>1. x \in T => m <= x
    BY <1>3
  <2> QED
    BY <1>4, <1>6, <2>1
<1>8. From(x) \in Int /\ From(x) <= k
  BY <1>1, <1>2, <1>6, <1>7
<1>9. From(m) = From(x) + f[x]
  <2>1. \A y \in 0 .. x : f[y] \in Int
    BY <1>6
  <2>2. SumOn(f, 0 .. x) = SumOn(f, 0 .. x - 1) + f[x]
    BY <1>6, <2>1, SumUpTo
  <2> QED
    BY <1>6, <2>2
<1> DEFINE j == k - From(x)
<1>10. f[x] \in Nat
  BY <1>6
<1> HIDE DEF From, T
<1>11. j \in Nat /\ j < f[x] /\ k = From(x) + j
  BY <1>2, <1>4, <1>8, <1>9, <1>10
<1> HIDE DEF j
<1> QED
  BY <1>6, <1>11 DEF From

\* So many columns in each row: a sum counts the places.
Under(f, n) == {c \in (0 .. n - 1) \X Nat : c[2] < f[c[1]]}

LEMMA SumIsCount ==
    ASSUME NEW n \in Nat, NEW f, \A x \in 0 .. n - 1 : f[x] \in Nat
    PROVE  IsFiniteSet(Under(f, n)) /\ Cardinality(Under(f, n)) = SumOn(f, 0 .. n - 1)
<1> DEFINE Good(m) == IsFiniteSet(Under(f, m)) /\ Cardinality(Under(f, m)) = SumOn(f, 0 .. m - 1)
           Wrong == {m \in Nat : m <= n /\ ~Good(m)}
<1> SUFFICES ASSUME Wrong # {} PROVE FALSE
  OBVIOUS
<1>1. PICK m \in Wrong : \A y \in Wrong : m <= y
  <2>1. Wrong \in SUBSET Nat
    OBVIOUS
  <2> QED
    BY <2>1, Least
<1>2. m \in Nat /\ m <= n /\ ~Good(m)
  OBVIOUS
<1>3. m # 0
  <2> SUFFICES ASSUME m = 0 PROVE FALSE
    OBVIOUS
  <2>1. 0 .. m - 1 = {}
    OBVIOUS
  <2>2. Under(f, m) = {}
    BY <2>1 DEF Under
  <2> QED
    BY <1>2, <2>1, <2>2, SumOfNone, FS_EmptySet
<1> DEFINE k == m - 1
<1>4. k \in Nat /\ k <= n /\ k < m /\ m = k + 1
  BY <1>2, <1>3
<1>5. Good(k)
  <2>1. k \notin Wrong
    BY <1>1, <1>2, <1>4
  <2> QED
    BY <1>4, <2>1
<1> HIDE DEF k, Wrong
<1> DEFINE row == {k} \X (0 .. f[k] - 1)
<1>6. f[k] \in Nat /\ (\A x \in 0 .. k : f[x] \in Int)
  BY <1>2, <1>4
<1>7. IsFiniteSet(row) /\ Cardinality(row) = f[k]
  <2>1. IsFiniteSet({k}) /\ Cardinality({k}) = 1
    BY FS_Singleton
  <2>2. IsFiniteSet(0 .. f[k] - 1) /\ Cardinality(0 .. f[k] - 1) = f[k]
    <3>1. f[k] - 1 \in Int
      BY <1>6
    <3>2. /\ IsFiniteSet(0 .. f[k] - 1)
          /\ Cardinality(0 .. f[k] - 1) = IF 0 > f[k] - 1 THEN 0 ELSE (f[k] - 1) - 0 + 1
      BY <3>1, FS_Interval
    <3> QED
      BY <1>6, <3>2
  <2>3. IsFiniteSet(row) /\ Cardinality(row) = Cardinality({k}) * Cardinality(0 .. f[k] - 1)
    BY <2>1, <2>2, FS_Product
  <2> QED
    BY <1>6, <2>1, <2>2, <2>3
<1>8. Under(f, m) = Under(f, k) \cup row /\ Under(f, k) \cap row = {}
  <2>1. \A a, b : a \in 0 .. m - 1 /\ b \in Nat /\ b < f[a]
           <=> (a \in 0 .. k - 1 /\ b \in Nat /\ b < f[a]) \/ (a = k /\ b \in 0 .. f[k] - 1)
    BY <1>2, <1>4, <1>6
  <2>2. k \notin 0 .. k - 1
    BY <1>4
  <2>3. ASSUME NEW c PROVE c \in Under(f, m) <=> c \in Under(f, k) \cup row
    BY <2>1 DEF Under
  <2>4. Under(f, k) \cap row = {}
    BY <2>2 DEF Under
  <2> QED
    BY <2>3, <2>4
<1>9. /\ IsFiniteSet(Under(f, m))
      /\ Cardinality(Under(f, m)) = Cardinality(Under(f, k)) + Cardinality(row) - Cardinality({})
  BY <1>5, <1>7, <1>8, FS_Union
<1>10. SumOn(f, 0 .. k) = SumOn(f, 0 .. k - 1) + f[k] /\ SumOn(f, 0 .. k - 1) \in Int
  BY <1>4, <1>6, SumUpTo
<1>11. Cardinality({}) = 0
  BY FS_EmptySet
<1>12. 0 .. m - 1 = 0 .. k
  BY <1>4
<1> QED
  BY <1>2, <1>5, <1>6, <1>7, <1>9, <1>10, <1>11, <1>12
-----------------------------------------------------------------------------
(* Ranks: how many elements of a set are below one of them.                 *)

LowerOf(T, i) == {k \in T : k < i}

LEMMA RankIs ==
    ASSUME NEW T \in SUBSET Int, IsFiniteSet(T)
    PROVE  /\ Cardinality(T) \in Nat
           /\ \A i \in T : Cardinality(LowerOf(T, i)) \in 0 .. Cardinality(T) - 1
           /\ \A i, j \in T : Cardinality(LowerOf(T, i)) = Cardinality(LowerOf(T, j)) => i = j
           /\ \A r \in 0 .. Cardinality(T) - 1 : \E i \in T : Cardinality(LowerOf(T, i)) = r
<1> DEFINE n == Cardinality(T)
           rank == [i \in T |-> Cardinality(LowerOf(T, i))]
<1>1. n \in Nat
  BY FS_CardinalityType
<1>2. ASSUME NEW i \in T
      PROVE  IsFiniteSet(LowerOf(T, i)) /\ rank[i] \in 0 .. n - 1
  <2>1. LowerOf(T, i) \in SUBSET (T \ {i})
    BY DEF LowerOf
  <2>2. IsFiniteSet(T \ {i}) /\ Cardinality(T \ {i}) = n - 1
    BY FS_RemoveElement
  <2>3. IsFiniteSet(LowerOf(T, i)) /\ Cardinality(LowerOf(T, i)) <= n - 1
    BY <2>1, <2>2, FS_Subset
  <2>4. Cardinality(LowerOf(T, i)) \in Nat
    BY <2>3, FS_CardinalityType
  <2> QED
    BY <1>1, <2>3, <2>4
<1>3. ASSUME NEW i \in T, NEW j \in T, i < j PROVE rank[i] < rank[j]
  <2>1. LowerOf(T, i) \cup {i} \in SUBSET LowerOf(T, j) /\ i \notin LowerOf(T, i)
    <3>1. i \in Int /\ j \in Int /\ \A k \in T : k \in Int /\ (k < i => k < j)
      BY <1>3
    <3>2. ~(i < i)
      BY <3>1
    <3>3. LowerOf(T, i) \subseteq LowerOf(T, j)
      BY <3>1 DEF LowerOf
    <3> QED
      BY <1>3, <3>2, <3>3, Zenon DEF LowerOf
  <2>2. Cardinality(LowerOf(T, i) \cup {i}) = Cardinality(LowerOf(T, i)) + 1
    BY <1>2, <2>1, FS_AddElement
  <2>3. Cardinality(LowerOf(T, i) \cup {i}) <= Cardinality(LowerOf(T, j))
    BY <1>2, <2>1, FS_Subset
  <2>4. rank[i] \in Nat /\ rank[j] \in Nat
    BY <1>2
  <2> QED
    BY <2>2, <2>3, <2>4
<1>4. \A i, j \in T : rank[i] = rank[j] => i = j
  <2> SUFFICES ASSUME NEW i \in T, NEW j \in T, rank[i] = rank[j] PROVE i = j
    OBVIOUS
  <2>1. ~(i < j) /\ ~(j < i)
    <3>1. rank[i] \in Int /\ rank[j] \in Int
      BY <1>2
    <3> HIDE DEF rank
    <3> QED
      BY <1>3, <3>1
  <2> QED
    BY <2>1
<1>5. \A r \in 0 .. n - 1 : \E i \in T : rank[i] = r
  <2> DEFINE R == 0 .. n - 1
  <2>1. IsFiniteSet(R) /\ Cardinality(R) = n
    <3>1. IsFiniteSet(R) /\ Cardinality(R) = IF 0 > n - 1 THEN 0 ELSE (n - 1) - 0 + 1
      BY <1>1, FS_Interval
    <3> QED
      BY <1>1, <3>1
  <2>2. rank \in [T -> R]
    BY <1>2
  <2>3. rank \in Injection(T, R)
    BY <1>4, <2>2 DEF Injection, IsInjective
  <2> HIDE DEF R, rank
  <2>4. rank \in Surjection(T, R)
    BY <2>1, <2>3, FS_Injection
  <2> QED
    BY <2>4 DEF Surjection, R
<1>6. \A i \in T : rank[i] = Cardinality(LowerOf(T, i))
  OBVIOUS
<1> HIDE DEF rank
<1> QED
  BY <1>1, <1>2, <1>4, <1>5, <1>6

\* The last of them is the greatest.
LEMMA MaxIs ==
    ASSUME NEW T \in SUBSET Int, IsFiniteSet(T), T # {}
    PROVE  Max(T) \in T /\ \A y \in T : y <= Max(T)
<1>1. Cardinality(T) - 1 \in 0 .. Cardinality(T) - 1
  BY FS_CardinalityType, FS_EmptySet
<1>2. PICK i \in T : Cardinality(LowerOf(T, i)) = Cardinality(T) - 1
  BY <1>1, RankIs
<1>3. \A y \in T : y <= i
  <2> SUFFICES ASSUME NEW y \in T, ~(y <= i) PROVE FALSE
    OBVIOUS
  <2>1. LowerOf(T, i) \in SUBSET ((T \ {i}) \ {y}) /\ y \in T \ {i}
    BY DEF LowerOf
  <2>2. IsFiniteSet(T \ {i}) /\ Cardinality(T \ {i}) = Cardinality(T) - 1
    BY FS_RemoveElement
  <2>3. IsFiniteSet((T \ {i}) \ {y}) /\ Cardinality((T \ {i}) \ {y}) = Cardinality(T) - 1 - 1
    BY <2>1, <2>2, FS_RemoveElement
  <2>4. Cardinality(LowerOf(T, i)) <= Cardinality(T) - 1 - 1
    BY <2>1, <2>3, FS_Subset
  <2>5. Cardinality(T) \in Nat
    BY FS_CardinalityType
  <2> QED
    BY <1>2, <2>4, <2>5
<1>4. \E x \in T : \A y \in T : x >= y
  BY <1>3
<1>5. Max(T) \in T /\ \A y \in T : Max(T) >= y
  BY <1>4 DEF Max
<1> QED
  BY <1>5

-----------------------------------------------------------------------------
(* The offsets the driver asks for (IorLayout), for any number of tasks and *)
(* any block and segment counts: they lie inside the file, no two transfers *)
(* share one (DisjointAssumption), and the offset ReadCheck computes for    *)
(* its second read is the one the task further on would have computed.      *)

\* What ValidateTests guarantees of the counts.
Strided(p) ==
    /\ p.filePerProc \in BOOLEAN
    /\ p.xfersPerBlock \in Nat \ {0}
    /\ p.segmentCount \in Nat

\* The k-th transfer is in a segment of the test, at a place in its block.
LEMMA TransferPlace ==
    ASSUME NEW p, Strided(p), NEW k \in 0 .. XfersOf(p) - 1
    PROVE  /\ k \div p.xfersPerBlock \in 0 .. p.segmentCount - 1
           /\ k % p.xfersPerBlock \in 0 .. p.xfersPerBlock - 1
<1> DEFINE x == p.xfersPerBlock
           s == p.segmentCount
           q == k \div x
<1>1. /\ x \in Nat \ {0} /\ s \in Nat /\ k \in Nat /\ k < x * s
  BY DEF Strided, XfersOf
<1>2. /\ q \in Nat /\ k % x \in 0 .. x - 1
      /\ k = q * x + (k % x)
  BY <1>1, QuotientIs
<1>3. q < s
  <2> SUFFICES ASSUME s <= q PROVE FALSE
    BY <1>1, <1>2
  <2> HIDE DEF x, s, q
  <2>1. s * x <= q * x
    BY <1>1, <1>2, Monotone
  <2>2. s * x = x * s /\ q * x \in Nat
    BY <1>1, <1>2
  <2> QED
    BY <1>1, <1>2, <2>1, <2>2
<1> QED
  BY <1>1, <1>2, <1>3

\* In a shared file: which segment, which block of it, which place of that.
LEMMA SharedPlace ==
    ASSUME NEW p, Strided(p), ~p.filePerProc, NEW n \in Nat \ {0},
           NEW r \in 0 .. n - 1, NEW k \in 0 .. XfersOf(p) - 1
    PROVE  /\ OffsetIn(p, n, r, k) =
                ((k \div p.xfersPerBlock) * n + r) * p.xfersPerBlock + (k % p.xfersPerBlock)
           /\ (k \div p.xfersPerBlock) * n + r \in 0 .. p.segmentCount * n - 1
           /\ r * p.xfersPerBlock + (k % p.xfersPerBlock) \in 0 .. n * p.xfersPerBlock - 1
<1>1. /\ k \div p.xfersPerBlock \in 0 .. p.segmentCount - 1
      /\ k % p.xfersPerBlock \in 0 .. p.xfersPerBlock - 1
  BY TransferPlace
<1>2. OffsetIn(p, n, r, k) =
         ((k \div p.xfersPerBlock) * n + r) * p.xfersPerBlock + (k % p.xfersPerBlock)
  BY DEF OffsetIn
<1>3. (k \div p.xfersPerBlock) * n + r \in 0 .. p.segmentCount * n - 1
  BY <1>1, InTable DEF Strided
<1>4. r * p.xfersPerBlock + (k % p.xfersPerBlock) \in 0 .. n * p.xfersPerBlock - 1
  BY <1>1, InTable DEF Strided
<1> QED
  BY <1>2, <1>3, <1>4

(* Every transfer of every task lies inside the file whose row             *)
(* CheckFileSize expects (GetOffsetArraySequential, ior.c).                  *)
THEOREM OffsetsInFile ==
    ASSUME NEW p, Strided(p), NEW n \in Nat \ {0},
           NEW r \in 0 .. n - 1, NEW k \in 0 .. XfersOf(p) - 1
    PROVE  OffsetIn(p, n, r, k) \in 0 .. FileLength(p, n) - 1
<1> DEFINE x == p.xfersPerBlock
           q == k \div x
<1>1. x \in Nat \ {0} /\ p.segmentCount \in Nat
  BY DEF Strided
<1>2. q \in 0 .. p.segmentCount - 1 /\ k % x \in 0 .. x - 1
  BY TransferPlace
<1>3. CASE p.filePerProc
  <2>1. OffsetIn(p, n, r, k) = q * x + (k % x)
    BY <1>3 DEF OffsetIn
  <2>2. FileLength(p, n) = p.segmentCount * x
    BY <1>1, <1>3 DEF FileLength, SegmentSize, BlocksPerSegment
  <2> HIDE DEF x, q
  <2>3. q * x + (k % x) \in 0 .. p.segmentCount * x - 1
    BY <1>1, <1>2, InTable
  <2> QED
    BY <2>1, <2>2, <2>3
<1>4. CASE ~p.filePerProc
  <2>1. /\ OffsetIn(p, n, r, k) = (q * n + r) * x + (k % x)
        /\ q * n + r \in 0 .. p.segmentCount * n - 1
    BY <1>4, SharedPlace
  <2>2. FileLength(p, n) = p.segmentCount * (n * x)
    BY <1>4 DEF FileLength, SegmentSize, BlocksPerSegment
  <2> HIDE DEF x, q
  <2>3. p.segmentCount * (n * x) = (p.segmentCount * n) * x /\ p.segmentCount * n \in Nat
    BY <1>1
  <2>4. (q * n + r) * x + (k % x) \in 0 .. (p.segmentCount * n) * x - 1
    BY <1>1, <1>2, <2>1, <2>3, InTable
  <2> QED
    BY <2>1, <2>2, <2>3, <2>4
<1> QED
  BY <1>3, <1>4 DEF Strided

(* No two transfers of a shared file have the same offset, and none of a    *)
(* task's own file: what PosixXfer assumes of the regions of its tasks.     *)
THEOREM OffsetsApart ==
    ASSUME NEW p, Strided(p), NEW n \in Nat \ {0},
           NEW r \in 0 .. n - 1, NEW k \in 0 .. XfersOf(p) - 1,
           NEW s \in 0 .. n - 1, NEW l \in 0 .. XfersOf(p) - 1,
           OffsetIn(p, n, r, k) = OffsetIn(p, n, s, l)
    PROVE  k = l /\ (p.filePerProc \/ r = s)
<1> DEFINE x == p.xfersPerBlock
<1>1. /\ x \in Nat \ {0} /\ k \in Nat /\ l \in Nat
      /\ k \div x \in Nat /\ k % x \in 0 .. x - 1
      /\ l \div x \in Nat /\ l % x \in 0 .. x - 1
      /\ k = (k \div x) * x + (k % x)
      /\ l = (l \div x) * x + (l % x)
  <2>1. x \in Nat \ {0} /\ k \in Nat /\ l \in Nat
    BY DEF Strided, XfersOf
  <2> HIDE DEF x
  <2> QED
    BY <2>1, QuotientIs
<1>2. (k \div x = l \div x /\ k % x = l % x) => k = l
  BY <1>1
<1>3. CASE p.filePerProc
  <2>1. (k \div x) * x + (k % x) = (l \div x) * x + (l % x)
    BY <1>3 DEF OffsetIn
  <2> QED
    BY <1>1, <1>3, <2>1
<1>4. CASE ~p.filePerProc
  <2>1. /\ ((k \div x) * n + r) * x + (k % x) = ((l \div x) * n + s) * x + (l % x)
        /\ (k \div x) * n + r \in Nat
        /\ (l \div x) * n + s \in Nat
    BY <1>4, SharedPlace
  <2> DEFINE a == k \div x
             b == k % x
             c == l \div x
             d == l % x
  <2>2. /\ a \in Nat /\ c \in Nat /\ b \in 0 .. x - 1 /\ d \in 0 .. x - 1
        /\ (a * n + r) * x + b = (c * n + s) * x + d
        /\ a * n + r \in Nat /\ c * n + s \in Nat
    BY <1>1, <2>1
  <2> HIDE DEF x, a, b, c, d
  <2>3. a * n + r = c * n + s /\ b = d
    BY <1>1, <2>2, RowColumn
  <2>4. a = c /\ r = s
    BY <2>2, <2>3, RowColumn
  <2> QED
    BY <1>2, <2>3, <2>4 DEF a, b, c, d, x
<1> QED
  BY <1>3, <1>4 DEF Strided

(* With these offsets, counted in transfers of Length bytes, the tasks of a *)
(* shared file have regions as PosixXfer assumes them (BaseAssumption,      *)
(* DisjointAssumption), whichever transfer each of them is at.              *)
THEOREM OffsetsFitTheLoop ==
    ASSUME NEW p, Strided(p), ~p.filePerProc, NEW n \in Nat \ {0}, NEW L \in Nat \ {0},
           NEW r \in 0 .. n - 1, NEW k \in 0 .. XfersOf(p) - 1,
           NEW s \in 0 .. n - 1, NEW l \in 0 .. XfersOf(p) - 1
    PROVE  /\ OffsetIn(p, n, r, k) * L + L <= FileLength(p, n) * L
           /\ r # s => \/ OffsetIn(p, n, r, k) * L + L <= OffsetIn(p, n, s, l) * L
                       \/ OffsetIn(p, n, s, l) * L + L <= OffsetIn(p, n, r, k) * L
<1> DEFINE a == OffsetIn(p, n, r, k)
           b == OffsetIn(p, n, s, l)
           len == FileLength(p, n)
<1>1. a \in 0 .. len - 1 /\ b \in 0 .. len - 1
  BY OffsetsInFile
<1>2. r # s => a # b
  BY OffsetsApart
<1>3. len \in Int
  BY DEF FileLength, SegmentSize, BlocksPerSegment, Strided
<1> HIDE DEF a, b, len
<1>4. \A x, y \in Int : x + 1 <= y => x * L + L <= y * L
  <2> SUFFICES ASSUME NEW x \in Int, NEW y \in Int, x + 1 <= y PROVE x * L + L <= y * L
    OBVIOUS
  <2>1. (x + 1) * L <= y * L
    BY Monotone
  <2>2. (x + 1) * L = x * L + L
    OBVIOUS
  <2> QED
    BY <2>1, <2>2
<1>5. a + 1 <= len /\ (r # s => a + 1 <= b \/ b + 1 <= a) /\ a \in Int /\ b \in Int
  BY <1>1, <1>2, <1>3
<1>6. a * L + L <= len * L /\ (r # s => a * L + L <= b * L \/ b * L + L <= a * L)
  BY ONLY <1>3, <1>4, <1>5
<1> QED
  BY <1>6 DEF a, b, len

(* ReadCheck derives the offset of its second read from its own; it is the  *)
(* offset the task `shift` ranks further has for the same transfer, so that *)
(* reading there and passing the result on compares like with like.         *)
THEOREM RereadIsNeighbours ==
    ASSUME NEW p, Strided(p), ~p.filePerProc, NEW n \in Nat \ {0},
           NEW r \in 0 .. n - 1, NEW k \in 0 .. XfersOf(p) - 1, NEW shift \in Nat
    PROVE  RereadOffsetIn(p, n, shift, OffsetIn(p, n, r, k)) =
               OffsetIn(p, n, (r + shift) % n, k)
<1> DEFINE x == p.xfersPerBlock
           q == k \div x
           m == k % x
           u == (r + shift) % n
           w == (r + shift) \div n
           off == OffsetIn(p, n, r, k)
           row == n * x
<1>1. /\ x \in Nat \ {0} /\ q \in Nat /\ m \in 0 .. x - 1
      /\ SegmentSize(p, n) = row
  BY TransferPlace DEF Strided, SegmentSize, BlocksPerSegment
<1>2. u \in 0 .. n - 1 /\ w \in Nat /\ r + shift = w * n + u
  <2>1. r + shift \in Nat
    OBVIOUS
  <2> QED
    BY <2>1, QuotientIs
<1>3. off = (q * n + r) * x + m /\ OffsetIn(p, n, u, k) = (q * n + u) * x + m
  BY <1>2, SharedPlace
<1>4. RereadOffsetIn(p, n, shift, off) =
         (((off % row) + shift * x) % row) + (off \div row) * row
  BY <1>1 DEF RereadOffsetIn
<1> HIDE DEF x, q, m, u, w, off
<1>5. row \in Nat \ {0}
  BY <1>1
<1>6. r * x + m \in 0 .. row - 1 /\ u * x + m \in 0 .. row - 1
  BY <1>1, <1>2, InTable
<1>7. off = q * row + (r * x + m)
  <2>1. (q * n + r) * x = q * (n * x) + r * x
    BY <1>1
  <2> QED
    BY <1>1, <1>3, <2>1
<1>8. off \div row = q /\ off % row = r * x + m
  <2> DEFINE b == r * x + m
  <2>1. b \in 0 .. row - 1 /\ q \in Nat /\ row \in Nat \ {0}
    BY <1>1, <1>5, <1>6
  <2> HIDE DEF row, b
  <2>2. (q * row + b) \div row = q /\ (q * row + b) % row = b
    BY <2>1, BackFromTable
  <2>3. off = q * row + b
    BY <1>7 DEF b
  <2> QED
    BY <2>2, <2>3 DEF b
<1>9. (r * x + m) + shift * x = w * row + (u * x + m)
  <2>1. (r + shift) * x = (w * n + u) * x
    BY <1>2
  <2>2. (r + shift) * x = r * x + shift * x /\ (w * n + u) * x = w * (n * x) + u * x
    BY <1>1, <1>2
  <2>3. r * x \in Int /\ shift * x \in Int /\ u * x \in Int /\ w * (n * x) \in Int
    BY <1>1, <1>2
  <2> QED
    BY <1>1, <2>1, <2>2, <2>3
<1>10. ((r * x + m) + shift * x) % row = u * x + m
  BY <1>2, <1>5, <1>6, <1>9, BackFromTable
<1>11. RereadOffsetIn(p, n, shift, off) = (u * x + m) + q * row
  BY <1>4, <1>8, <1>10
<1>12. (u * x + m) + q * row = (q * n + u) * x + m
  BY <1>1, <1>2
<1>13. RereadOffsetIn(p, n, shift, off) = OffsetIn(p, n, u, k)
  BY <1>3, <1>11, <1>12
<1> QED
  BY <1>13 DEF u, off

\* The second read of a read check stays inside the file.
LEMMA RereadInFile ==
    ASSUME NEW p, Strided(p), NEW n \in Nat \ {0}, NEW shift \in Int, NEW off \in 0 .. FileLength(p, n) - 1
    PROVE  RereadOffsetIn(p, n, shift, off) \in 0 .. FileLength(p, n) - 1
<1> DEFINE c == p.segmentCount
           s == SegmentSize(p, n)
           a == off \div s
           b == ((off % s) + shift * p.xfersPerBlock) % s
<1>1. c \in Nat /\ s \in Nat \ {0} /\ p.xfersPerBlock \in Int /\ FileLength(p, n) = c * s
  BY DEF Strided, SegmentSize, BlocksPerSegment, FileLength
<1>2. RereadOffsetIn(p, n, shift, off) = IF p.filePerProc THEN off ELSE b + a * s
  BY DEF RereadOffsetIn
<1>3. a \in 0 .. c - 1 /\ b \in 0 .. s - 1
  <2>1. a \in 0 .. c - 1 /\ off % s \in Int
    <3>1. off \in 0 .. c * s - 1 /\ c \in Nat /\ s \in Nat \ {0}
      BY <1>1
    <3> HIDE DEF c, s
    <3>2. a \in 0 .. c - 1 /\ off % s \in 0 .. s - 1
      BY <3>1, FromTable
    <3> QED
      BY <3>1, <3>2
  <2>2. shift * p.xfersPerBlock \in Int
    BY <1>1
  <2>3. \A i \in Int : i % s \in 0 .. s - 1
    BY <1>1
  <2> QED
    BY <2>1, <2>2, <2>3
<1>4. b + a * s \in 0 .. c * s - 1
  <2> HIDE DEF a, b, c, s
  <2> QED
    BY <1>1, <1>3, InTable
<1> QED
  BY <1>1, <1>2, <1>4

-----------------------------------------------------------------------------
(* Numbering a finite set, and changing one place of a sequence              *)

\* Names can be told apart by numbers, and then every number is some name's.
LEMMA Numbered ==
    ASSUME NEW S, IsFiniteSet(S)
    PROVE  /\ Cardinality(S) \in Nat
           /\ \E g \in [S -> 1 .. Cardinality(S)] : \A m, n \in S : m # n => g[m] # g[n]
<1> DEFINE c == Cardinality(S)
           T == 1 .. c
<1>1. c \in Nat /\ ExistsBijection(T, S)
  BY FS_CardinalityType
<1>2. PICK b \in [T -> S] : \A s \in S : \E i \in T : b[i] = s
  BY <1>1 DEF ExistsBijection, Bijection, Surjection
<1> HIDE DEF c, T
<1> DEFINE h == [s \in S |-> CHOOSE i \in T : b[i] = s]
<1>3. h \in [S -> T] /\ \A s \in S : b[h[s]] = s
  BY <1>2
<1>4. \A m, n \in S : m # n => h[m] # h[n]
  BY <1>3
<1> HIDE DEF h
<1> QED
  BY <1>1, <1>3, <1>4 DEF T, c

LEMMA AllNumbers ==
    ASSUME NEW S, IsFiniteSet(S), NEW f \in [S -> 1 .. Cardinality(S)], \A m, n \in S : m # n => f[m] # f[n]
    PROVE  \A i \in 1 .. Cardinality(S) : \E n \in S : f[n] = i
<1> DEFINE c == Cardinality(S)
           T == 1 .. c
<1>1. f \in Injection(S, T)
  BY DEF Injection, IsInjective
<1>2. c \in Nat
  BY FS_CardinalityType
<1>3. IsFiniteSet(T) /\ Cardinality(T) = c
  <2> HIDE DEF c
  <2>1. IsFiniteSet(1 .. c) /\ Cardinality(1 .. c) = IF 1 > c THEN 0 ELSE c - 1 + 1
    BY <1>2, FS_Interval
  <2> QED
    BY <1>2, <2>1
<1>4. f \in Surjection(S, T)
  <2> HIDE DEF T
  <2>1. Cardinality(S) = Cardinality(T)
    BY <1>3 DEF c
  <2> QED
    BY <1>1, <1>3, <2>1, FS_Injection
<1> QED
  BY <1>4 DEF Surjection

\* One cell of a sequence of arrays is written.
LEMMA OneCell ==
    ASSUME NEW F, NEW V, NEW d \in Seq([F -> V]), NEW i \in 1 .. Len(d), NEW o \in F, NEW v \in V
    PROVE  LET e == [d EXCEPT ![i][o] = v]
           IN  /\ e \in Seq([F -> V]) /\ Len(e) = Len(d) /\ e[i][o] = v
               /\ \A j \in 1 .. Len(d) : \A q \in F : (j # i \/ q # o) => e[j][q] = d[j][q]
<1>1. d[i] \in [F -> V]
  OBVIOUS
<1> DEFINE g == [d[i] EXCEPT ![o] = v]
           e == [d EXCEPT ![i] = g]
<1>2. g \in [F -> V] /\ g[o] = v /\ \A q \in F \ {o} : g[q] = d[i][q]
  BY <1>1
<1> HIDE DEF g
<1>3. e \in Seq([F -> V]) /\ Len(e) = Len(d) /\ e[i] = g /\ \A j \in 1 .. Len(d) \ {i} : e[j] = d[j]
  BY <1>2
<1>4. [d EXCEPT ![i][o] = v] = e
  BY DEF g
<1> HIDE DEF e
<1>5. \A j \in 1 .. Len(d) : \A q \in F : (j # i \/ q # o) => e[j][q] = d[j][q]
  BY <1>2, <1>3
<1> QED
  BY <1>2, <1>3, <1>4, <1>5

\* One element is replaced, if it is there.
LEMMA CellWritten ==
    ASSUME NEW S, NEW d \in Seq(S), NEW i, NEW v
    PROVE  [d EXCEPT ![i] = v] \in Seq(S \cup {v}) /\ Len([d EXCEPT ![i] = v]) = Len(d)
<1> DEFINE e == [d EXCEPT ![i] = v]
<1>1. Len(d) \in Nat /\ DOMAIN d = 1 .. Len(d) /\ \A j \in 1 .. Len(d) : d[j] \in S
  BY LenProperties, ElementOfSeq
<1>2. e \in [1 .. Len(d) -> S \cup {v}]
  BY <1>1
<1>3. e \in Seq(S \cup {v})
  BY <1>1, <1>2, SeqDef
<1> HIDE DEF e
<1>4. Len(e) = Len(d)
  BY <1>1, <1>2, <1>3, LenProperties
<1> QED
  BY <1>3, <1>4 DEF e
=============================================================================
