----------------------------- MODULE DebtsProofs -----------------------------
(***************************************************************************)
(* What the two books promise for any entries, transactions, papers and    *)
(* requests: an entry and its transaction stay one value, partners name    *)
(* each other, a statement adds up, and two books kept together mirror     *)
(* each other.                                                             *)
(*                                                                         *)
(* The invariant is IInv: both tables are `Good', whatever the order of    *)
(* the requests, and what a caught request has read was a row.  A lemma    *)
(* per operation of the code shows that it keeps them so; the ones that    *)
(* change a row and its transaction are put together from one row, then    *)
(* one transaction (RowPut, RowSet, TxPut, Revalued).  And they are        *)
(* `Kept': amounts are whole, debts of papers are fair until a write in    *)
(* one book only, and the told repayments of both come to nothing; a       *)
(* second lemma per operation shows that (CreateEntryKept and the rest).   *)
(***************************************************************************)
EXTENDS Debts, TLAPS, FiniteSetTheorems, WellFoundedInduction

-----------------------------------------------------------------------------
(* Sums over finite sets, as the books add up lines (MapThenSumSet).  Where *)
(* an induction over sets would be used, a smallest set of those that fail *)
(* leads to a smaller one.  HomeProofs has the same library.                *)

SumIn(f, S) == MapThenSumSet(LAMBDA x : f[x], S)
OneOf(S) == CHOOSE x \in S : TRUE

\* Of the subsets of a finite set that fail at something, one has no other inside it.
LEMMA SmallestSet ==
  ASSUME NEW S, IsFiniteSet(S), NEW F, F \subseteq SUBSET S, F # {}
  PROVE  \E T \in F : \A U \in F : U \subseteq T => U = T
<1>1. F \subseteq FiniteSubsetsOf(S)
  <2> SUFFICES ASSUME NEW T \in F PROVE T \in FiniteSubsetsOf(S)
    OBVIOUS
  <2>1. T \in SUBSET S
    OBVIOUS
  <2>2. IsFiniteSet(T)
    BY <2>1, FS_Subset
  <2> QED BY <2>1, <2>2 DEF FiniteSubsetsOf
<1>2. IsWellFoundedOn(StrictSubsetOrdering(S), FiniteSubsetsOf(S))
  BY FS_StrictSubsetOrderingWellFounded
<1>3. PICK T \in F : \A U \in F : <<U, T>> \notin StrictSubsetOrdering(S)
  BY <1>1, <1>2, WFMin, Zenon
<1> SUFFICES ASSUME NEW U \in F, U \subseteq T, U # T PROVE FALSE
  BY Zenon
<1>4. <<U, T>> \in StrictSubsetOrdering(S)
  BY DEF StrictSubsetOrdering
<1> QED BY <1>3, <1>4, Zenon

\* A table of the sums over every subset, as the fold makes it.
Runs(g, f, S) ==
  g = [T \in SUBSET S |-> IF T = {} THEN 0 ELSE f[OneOf(T)] + g[T \ {OneOf(T)}]]

\* The sum is the last entry of the table.
LEMMA SumUnfold ==
  ASSUME NEW f, NEW S
  PROVE  SumIn(f, S) = (CHOOSE g : Runs(g, f, S))[S]
BY DEF SumIn, Runs, MapThenSumSet, MapThenFoldSet, OneOf

\* A set that is not empty has the element that is taken.
LEMMA OneOfIn == ASSUME NEW T, T # {} PROVE OneOf(T) \in T /\ T \ {OneOf(T)} \subseteq T
  BY DEF OneOf

\* The table of a set holds that of its subsets.
LEMMA RunsInside ==
  ASSUME NEW S, NEW f, NEW g, Runs(g, f, S), NEW V \in SUBSET S
  PROVE  Runs([T \in SUBSET V |-> g[T]], f, V)
<1> DEFINE h == [T \in SUBSET V |-> g[T]]
           r == [T \in SUBSET V |-> IF T = {} THEN 0 ELSE f[OneOf(T)] + h[T \ {OneOf(T)}]]
<1>1. \A T \in SUBSET V : h[T] = r[T]
  <2> SUFFICES ASSUME NEW T \in SUBSET V PROVE h[T] = r[T]
    OBVIOUS
  <2>1. T \in SUBSET S
    OBVIOUS
  <2>2. g[T] = IF T = {} THEN 0 ELSE f[OneOf(T)] + g[T \ {OneOf(T)}]
    BY <2>1 DEF Runs
  <2>3. T \ {OneOf(T)} \in SUBSET V
    OBVIOUS
  <2> QED BY <2>2, <2>3
<1>2. h = r
  BY <1>1
<1> QED BY <1>2 DEF Runs

\* There is one table at most.
LEMMA RunsOnce ==
  ASSUME NEW S, IsFiniteSet(S), NEW f, NEW g, NEW h, Runs(g, f, S), Runs(h, f, S)
  PROVE  g = h
<1> DEFINE F == {T \in SUBSET S : g[T] # h[T]}
<1>1. F = {}
  <2> SUFFICES ASSUME F # {} PROVE FALSE
    OBVIOUS
  <2>0. F \subseteq SUBSET S
    OBVIOUS
  <2>1. PICK T \in F : \A U \in F : U \subseteq T => U = T
    <3> HIDE DEF F
    <3> QED BY <2>0, SmallestSet
  <2>2. /\ g[T] = IF T = {} THEN 0 ELSE f[OneOf(T)] + g[T \ {OneOf(T)}]
        /\ h[T] = IF T = {} THEN 0 ELSE f[OneOf(T)] + h[T \ {OneOf(T)}]
    BY DEF Runs
  <2>3. T # {} /\ g[T \ {OneOf(T)}] # h[T \ {OneOf(T)}]
    BY <2>2
  <2>4. T \ {OneOf(T)} \in F /\ T \ {OneOf(T)} # T
    BY <2>3, OneOfIn
  <2> QED BY <2>1, <2>4
<1>2. \A T \in SUBSET S : g[T] = h[T]
  BY <1>1
<1>3. /\ g = [T \in SUBSET S |-> g[T]]
      /\ h = [T \in SUBSET S |-> h[T]]
  BY DEF Runs
<1> QED BY <1>2, <1>3

\* What a table says of a subset is that subset's sum.
LEMMA RunsSay ==
  ASSUME NEW S, IsFiniteSet(S), NEW f, NEW g, Runs(g, f, S), NEW V \in SUBSET S
  PROVE  SumIn(f, V) = g[V]
<1>1. IsFiniteSet(V)
  BY FS_Subset
<1> DEFINE h == [T \in SUBSET V |-> g[T]]
<1>2. Runs(h, f, V)
  BY RunsInside
<1>3. h[V] = g[V]
  OBVIOUS
<1> HIDE DEF h
<1>4. PICK k : k = CHOOSE q : Runs(q, f, V)
  OBVIOUS
<1>5. Runs(k, f, V)
  BY <1>2, <1>4, Zenon
<1>6. k = h
  BY <1>1, <1>2, <1>5, RunsOnce
<1> QED BY <1>3, <1>4, <1>6, SumUnfold

\* There is a table for every finite set.
LEMMA RunsThere ==
  ASSUME NEW S, IsFiniteSet(S), NEW f
  PROVE  \E g : Runs(g, f, S)
<1> DEFINE F == {T \in SUBSET S : ~\E g : Runs(g, f, T)}
<1>1. F = {}
  <2> SUFFICES ASSUME F # {} PROVE FALSE
    OBVIOUS
  <2>0. F \subseteq SUBSET S
    OBVIOUS
  <2>1. PICK T \in F : \A U \in F : U \subseteq T => U = T
    <3> HIDE DEF F
    <3> QED BY <2>0, SmallestSet
  <2>2. T \in SUBSET S /\ IsFiniteSet(T)
    BY FS_Subset
  <2> DEFINE g == [U \in SUBSET T |-> IF U = {} THEN 0 ELSE f[OneOf(U)] + SumIn(f, U \ {OneOf(U)})]
             r == [U \in SUBSET T |-> IF U = {} THEN 0 ELSE f[OneOf(U)] + g[U \ {OneOf(U)}]]
  <2>3. \A V \in SUBSET T : V # T => SumIn(f, V) = g[V]
    <3> SUFFICES ASSUME NEW V \in SUBSET T, V # T PROVE SumIn(f, V) = g[V]
      OBVIOUS
    <3>1. IsFiniteSet(V) /\ V \notin F /\ V \in SUBSET S
      BY <2>1, <2>2, FS_Subset
    <3>2. PICK h : Runs(h, f, V)
      BY <3>1
    <3>3. SumIn(f, V) = h[V]
      BY <3>1, <3>2, RunsSay
    <3>4. h[V] = IF V = {} THEN 0 ELSE f[OneOf(V)] + h[V \ {OneOf(V)}]
      BY <3>2 DEF Runs
    <3>5. V # {} => SumIn(f, V \ {OneOf(V)}) = h[V \ {OneOf(V)}]
      BY <3>1, <3>2, RunsSay
    <3> QED BY <3>3, <3>4, <3>5
  <2>4. \A U \in SUBSET T : g[U] = r[U]
    <3> SUFFICES ASSUME NEW U \in SUBSET T, U # {} PROVE g[U] = r[U]
      OBVIOUS
    <3>1. U \ {OneOf(U)} \in SUBSET T /\ U \ {OneOf(U)} # T
      BY OneOfIn
    <3>2. SumIn(f, U \ {OneOf(U)}) = g[U \ {OneOf(U)}]
      BY <2>3, <3>1
    <3> QED BY <3>2
  <2>5. g = r
    BY <2>4
  <2>6. Runs(g, f, T)
    BY <2>5 DEF Runs
  <2> QED BY <2>6
<1> QED BY <1>1

\* The fold takes one element at a time.
LEMMA SumStep ==
  ASSUME NEW S, IsFiniteSet(S), NEW f
  PROVE  SumIn(f, S) = IF S = {} THEN 0 ELSE f[OneOf(S)] + SumIn(f, S \ {OneOf(S)})
<1>1. PICK g : Runs(g, f, S)
  BY RunsThere
<1>2. SumIn(f, S) = g[S] /\ SumIn(f, S \ {OneOf(S)}) = g[S \ {OneOf(S)}]
  BY <1>1, RunsSay
<1>3. g[S] = IF S = {} THEN 0 ELSE f[OneOf(S)] + g[S \ {OneOf(S)}]
  BY <1>1 DEF Runs
<1> QED BY <1>2, <1>3

\* A sum of integers is one.
LEMMA SumType ==
  ASSUME NEW S, IsFiniteSet(S), NEW f, \A x \in S : f[x] \in Int
  PROVE  SumIn(f, S) \in Int
<1> DEFINE F == {T \in SUBSET S : SumIn(f, T) \notin Int}
<1>1. F = {}
  <2> SUFFICES ASSUME F # {} PROVE FALSE
    OBVIOUS
  <2>0. F \subseteq SUBSET S
    OBVIOUS
  <2>1. PICK T \in F : \A U \in F : U \subseteq T => U = T
    <3> HIDE DEF F
    <3> QED BY <2>0, SmallestSet
  <2>2. SumIn(f, T) = IF T = {} THEN 0 ELSE f[OneOf(T)] + SumIn(f, T \ {OneOf(T)})
    BY FS_Subset, SumStep
  <2>3. T # {} /\ SumIn(f, T \ {OneOf(T)}) \notin Int
    BY <2>2, OneOfIn
  <2> QED BY <2>1, <2>3, OneOfIn
<1> QED BY <1>1

\* It may take any of its elements first.
LEMMA SumTakes ==
  ASSUME NEW S, IsFiniteSet(S), NEW f, \A x \in S : f[x] \in Int
  PROVE  \A x \in S : SumIn(f, S) = f[x] + SumIn(f, S \ {x})
<1> DEFINE F == {T \in SUBSET S : \E x \in T : SumIn(f, T) # f[x] + SumIn(f, T \ {x})}
<1>1. F = {}
  <2> SUFFICES ASSUME F # {} PROVE FALSE
    OBVIOUS
  <2>0. F \subseteq SUBSET S
    OBVIOUS
  <2>1. PICK T \in F : \A U \in F : U \subseteq T => U = T
    <3> HIDE DEF F
    <3> QED BY <2>0, SmallestSet
  <2>2. PICK x \in T : SumIn(f, T) # f[x] + SumIn(f, T \ {x})
    OBVIOUS
  <2> DEFINE y == OneOf(T)
  <2>3. SumIn(f, T) = f[y] + SumIn(f, T \ {y}) /\ y \in T /\ x # y
    BY <2>2, FS_Subset, SumStep, OneOfIn
  <2> HIDE DEF y
  <2>4. T \ {x} \notin F /\ T \ {y} \notin F
    BY <2>1, <2>3
  <2>5. SumIn(f, T \ {y}) = f[x] + SumIn(f, (T \ {y}) \ {x})
    BY <2>3, <2>4
  <2>6. SumIn(f, T \ {x}) = f[y] + SumIn(f, (T \ {x}) \ {y})
    BY <2>3, <2>4
  <2>7. (T \ {x}) \ {y} = (T \ {y}) \ {x} /\ IsFiniteSet((T \ {x}) \ {y})
    BY FS_Subset
  <2>8. SumIn(f, (T \ {y}) \ {x}) \in Int /\ f[x] \in Int /\ f[y] \in Int
    BY <2>3, <2>7, SumType
  <2>9. SumIn(f, (T \ {x}) \ {y}) = SumIn(f, (T \ {y}) \ {x})
    BY <2>7
  <2> QED BY <2>2, <2>3, <2>5, <2>6, <2>8, <2>9
<1>2. S \notin F
  BY <1>1
<1> QED BY <1>2

\* Nothing adds up to nothing.
LEMMA SumNone == ASSUME NEW f PROVE SumIn(f, {}) = 0
  BY FS_EmptySet, SumStep

\* A sum of sums is the sum of both.
LEMMA SumPlus ==
  ASSUME NEW S, IsFiniteSet(S), NEW f, NEW g, NEW h,
         \A x \in S : f[x] \in Int /\ g[x] \in Int /\ h[x] = f[x] + g[x]
  PROVE  SumIn(h, S) = SumIn(f, S) + SumIn(g, S)
<1> DEFINE F == {T \in SUBSET S : SumIn(h, T) # SumIn(f, T) + SumIn(g, T)}
<1>1. F = {}
  <2> SUFFICES ASSUME F # {} PROVE FALSE
    OBVIOUS
  <2>0. F \subseteq SUBSET S
    OBVIOUS
  <2>1. PICK T \in F : \A U \in F : U \subseteq T => U = T
    <3> HIDE DEF F
    <3> QED BY <2>0, SmallestSet
  <2>2. IsFiniteSet(T) /\ T \in SUBSET S
    BY FS_Subset
  <2>3. T # {}
    <3> SUFFICES ASSUME T = {} PROVE FALSE
      OBVIOUS
    <3>1. SumIn(f, T) = 0 /\ SumIn(g, T) = 0 /\ SumIn(h, T) = 0
      BY SumNone
    <3> QED BY <3>1
  <2>4. PICK x \in T : TRUE
    BY <2>3
  <2>5. T \ {x} \notin F /\ IsFiniteSet(T \ {x})
    BY <2>1, <2>2, FS_Subset
  <2>6. /\ SumIn(f, T) = f[x] + SumIn(f, T \ {x})
        /\ SumIn(g, T) = g[x] + SumIn(g, T \ {x})
    BY <2>2, SumTakes
  <2>7. \A y \in T : h[y] \in Int
    BY <2>2
  <2>8. SumIn(h, T) = h[x] + SumIn(h, T \ {x})
    BY <2>2, <2>7, SumTakes
  <2>9. SumIn(f, T \ {x}) \in Int /\ SumIn(g, T \ {x}) \in Int
    BY <2>2, <2>5, SumType
  <2>10. SumIn(h, T \ {x}) = SumIn(f, T \ {x}) + SumIn(g, T \ {x})
    BY <2>2, <2>5
  <2> QED BY <2>2, <2>6, <2>8, <2>9, <2>10
<1> QED BY <1>1

\* What is no greater anywhere adds up to no more.
LEMMA SumAtMost ==
  ASSUME NEW S, IsFiniteSet(S), NEW f, NEW g, \A x \in S : f[x] \in Int /\ g[x] \in Int /\ f[x] <= g[x]
  PROVE  SumIn(f, S) <= SumIn(g, S)
<1> DEFINE F == {T \in SUBSET S : ~(SumIn(f, T) <= SumIn(g, T))}
<1>1. F = {}
  <2> SUFFICES ASSUME F # {} PROVE FALSE
    OBVIOUS
  <2>0. F \subseteq SUBSET S
    OBVIOUS
  <2>1. PICK T \in F : \A U \in F : U \subseteq T => U = T
    <3> HIDE DEF F
    <3> QED BY <2>0, SmallestSet
  <2>2. IsFiniteSet(T) /\ T \in SUBSET S
    BY FS_Subset
  <2>3. T # {}
    BY SumNone
  <2>4. PICK x \in T : TRUE
    BY <2>3
  <2>5. T \ {x} \notin F /\ IsFiniteSet(T \ {x})
    BY <2>1, <2>2, FS_Subset
  <2>6. /\ SumIn(f, T) = f[x] + SumIn(f, T \ {x})
        /\ SumIn(g, T) = g[x] + SumIn(g, T \ {x})
    BY <2>2, SumTakes
  <2>9. SumIn(f, T \ {x}) \in Int /\ SumIn(g, T \ {x}) \in Int
    BY <2>2, <2>5, SumType
  <2>10. SumIn(f, T \ {x}) <= SumIn(g, T \ {x})
    BY <2>2, <2>5
  <2> QED BY <2>2, <2>6, <2>9, <2>10
<1> QED BY <1>1

\* The same amounts add up to the same.
LEMMA SumSame ==
  ASSUME NEW S, IsFiniteSet(S), NEW f, NEW g, \A x \in S : f[x] \in Int /\ f[x] = g[x]
  PROVE  SumIn(f, S) = SumIn(g, S)
<1>1. SumIn(f, S) <= SumIn(g, S) /\ SumIn(g, S) <= SumIn(f, S)
  BY SumAtMost
<1>2. SumIn(f, S) \in Int /\ SumIn(g, S) \in Int
  BY SumType
<1> QED BY <1>1, <1>2

\* What is nothing outside a part adds up to the part.
LEMMA SumPart ==
  ASSUME NEW S, IsFiniteSet(S), NEW P \in SUBSET S, NEW f,
         \A x \in S : f[x] \in Int, \A x \in S \ P : f[x] = 0
  PROVE  SumIn(f, S) = SumIn(f, P)
<1> DEFINE F == {T \in SUBSET S : P \subseteq T /\ SumIn(f, T) # SumIn(f, P)}
<1>1. F = {}
  <2> SUFFICES ASSUME F # {} PROVE FALSE
    OBVIOUS
  <2>0. F \subseteq SUBSET S
    OBVIOUS
  <2>1. PICK T \in F : \A U \in F : U \subseteq T => U = T
    <3> HIDE DEF F
    <3> QED BY <2>0, SmallestSet
  <2>2. IsFiniteSet(T) /\ T \in SUBSET S /\ P \subseteq T /\ T # P
    BY FS_Subset
  <2>4. PICK x \in T : x \notin P
    BY <2>2
  <2>5. T \ {x} \notin F /\ P \subseteq T \ {x} /\ IsFiniteSet(T \ {x})
    BY <2>1, <2>2, <2>4, FS_Subset
  <2>6. SumIn(f, T) = f[x] + SumIn(f, T \ {x}) /\ f[x] = 0 /\ SumIn(f, T \ {x}) \in Int
    BY <2>2, <2>4, <2>5, SumTakes, SumType
  <2> QED BY <2>2, <2>5, <2>6
<1> QED BY <1>1

\* Nothing but nothing adds up to nothing.
LEMMA SumZero ==
  ASSUME NEW S, IsFiniteSet(S), NEW f, \A x \in S : f[x] = 0
  PROVE  SumIn(f, S) = 0
BY SumPart, SumNone

\* One amount changes: the sum does by as much.
LEMMA SumChanges ==
  ASSUME NEW S, IsFiniteSet(S), NEW f, NEW g, NEW x \in S,
         \A y \in S : f[y] \in Int /\ g[y] \in Int,
         \A y \in S \ {x} : f[y] = g[y]
  PROVE  SumIn(g, S) = SumIn(f, S) + g[x] - f[x]
<1>1. IsFiniteSet(S \ {x})
  BY FS_Subset
<1>2. SumIn(f, S \ {x}) = SumIn(g, S \ {x}) /\ SumIn(f, S \ {x}) \in Int
  BY <1>1, SumSame, SumType
<1>3. SumIn(f, S) = f[x] + SumIn(f, S \ {x}) /\ SumIn(g, S) = g[x] + SumIn(g, S \ {x})
  BY SumTakes
<1> QED BY <1>2, <1>3

\* Two parts with nothing in common add up to the whole.
LEMMA SumApart ==
  ASSUME NEW A, NEW B, IsFiniteSet(A \cup B), A \cap B = {}, NEW f, \A x \in A \cup B : f[x] \in Int
  PROVE  SumIn(f, A \cup B) = SumIn(f, A) + SumIn(f, B)
<1> DEFINE S == A \cup B
           a == [x \in S |-> IF x \in A THEN f[x] ELSE 0]
           b == [x \in S |-> IF x \in B THEN f[x] ELSE 0]
<1>1. IsFiniteSet(S) /\ IsFiniteSet(A) /\ IsFiniteSet(B) /\ A \in SUBSET S /\ B \in SUBSET S
  BY FS_Subset
<1>2. /\ \A x \in S : a[x] \in Int /\ b[x] \in Int /\ f[x] = a[x] + b[x]
      /\ \A x \in A : f[x] = a[x]
      /\ \A x \in B : f[x] = b[x]
      /\ \A x \in S \ A : a[x] = 0
      /\ \A x \in S \ B : b[x] = 0
  OBVIOUS
<1>3. \A x \in S : f[x] \in Int
  OBVIOUS
<1> HIDE DEF a, b
<1>4. SumIn(f, S) = SumIn(a, S) + SumIn(b, S)
  <2> HIDE DEF S
  <2> QED BY <1>1, <1>2, <1>3, SumPlus
<1>5. SumIn(a, S) = SumIn(a, A) /\ SumIn(b, S) = SumIn(b, B)
  <2> HIDE DEF S
  <2> QED BY <1>1, <1>2, SumPart
<1>6. SumIn(a, A) = SumIn(f, A) /\ SumIn(b, B) = SumIn(f, B)
  BY <1>1, <1>2, SumSame
<1> QED BY <1>4, <1>5, <1>6

\* Amounts that come in pairs, one the other's opposite, add up to nothing.
LEMMA PairsCancel ==
  ASSUME NEW S, IsFiniteSet(S), NEW f, NEW s,
         \A x \in S : f[x] \in Int /\ s[x] \in S /\ s[s[x]] = x /\ f[s[x]] = -f[x]
  PROVE  SumIn(f, S) = 0
<1> DEFINE F == {T \in SUBSET S : (\A x \in T : s[x] \in T) /\ SumIn(f, T) # 0}
<1>1. F = {}
  <2> SUFFICES ASSUME F # {} PROVE FALSE
    OBVIOUS
  <2>0. F \subseteq SUBSET S
    OBVIOUS
  <2>1. PICK T \in F : \A U \in F : U \subseteq T => U = T
    <3> HIDE DEF F
    <3> QED BY <2>0, SmallestSet
  <2>2. IsFiniteSet(T) /\ T \in SUBSET S /\ \A x \in T : s[x] \in T
    BY FS_Subset
  <2>3. T # {}
    BY SumNone
  <2>4. PICK x \in T : TRUE
    BY <2>3
  <2> DEFINE U == (T \ {x}) \ {s[x]}
  <2>5. \A z \in U : s[z] \in U
    <3> SUFFICES ASSUME NEW z \in U PROVE s[z] \in U
      OBVIOUS
    <3>1. z \in T /\ z # x /\ z # s[x] /\ s[s[z]] = z /\ s[s[x]] = x /\ s[z] \in T
      BY <2>2
    <3>2. s[z] # x /\ s[z] # s[x]
      BY <3>1
    <3> QED BY <3>1, <3>2
  <2>6. SumIn(f, U) = 0
    <3>1. U \in SUBSET S /\ U \subseteq T /\ U # T
      BY <2>2
    <3> HIDE DEF U
    <3> QED BY <2>1, <2>5, <3>1
  <2>7. /\ f[x] \in Int /\ f[s[x]] = -f[x] /\ s[x] \in T /\ \A y \in T : f[y] \in Int
        /\ SumIn(f, T) = f[x] + SumIn(f, T \ {x})
    <3>1. \A y \in T : f[y] \in Int
      BY <2>2
    <3> QED BY <2>2, <3>1, SumTakes
  <2>8. CASE s[x] = x
    <3>1. f[x] = 0 /\ U = T \ {x}
      BY <2>7, <2>8
    <3> HIDE DEF U
    <3> QED BY <2>6, <2>7, <3>1
  <2>9. CASE s[x] # x
    <3>1. IsFiniteSet(T \ {x}) /\ s[x] \in T \ {x} /\ \A y \in T \ {x} : f[y] \in Int
      BY <2>2, <2>7, <2>9, FS_Subset
    <3>2. SumIn(f, T \ {x}) = f[s[x]] + SumIn(f, U)
      BY <3>1, SumTakes
    <3> HIDE DEF U
    <3> QED BY <2>6, <2>7, <3>2
  <2> QED BY <2>8, <2>9
<1>2. S \notin F
  BY <1>1
<1> QED BY <1>2

-----------------------------------------------------------------------------
(* The rows.                                                               *)

EntryFits(r) == r \in EntryType({r.amount})
TxFits(t) == t \in TxType({t.amount})

\* The rows of both tables.
RowsFit(es, ts) ==
  /\ es = [e \in Entries |-> es[e]] /\ \A e \in Entries : EntryFits(es[e])
  /\ ts = [t \in Txs |-> ts[t]] /\ \A t \in Txs : TxFits(ts[t])

\* A label is a debt's, a contact's row has the contact.
Labelled(es, kn) ==
  \A e \in Entries : es[e].st = "live" => /\ es[e].paid => es[e].kind = "debt"
                                          /\ es[e].key = "contact" => es[e].user \in kn

\* A part is in one row of a book only.
PartsOnce(es) ==
  \A e \in Entries, f \in Entries, p \in Papers :
    es[e].st = "live" /\ es[f].st = "live" /\ es[e].user = es[f].user /\ es[e].parts[p] > 0 /\ es[f].parts[p] > 0
      => e = f

Mutual(es) ==
  \A e \in Entries : es[e].st = "live" /\ es[e].partner # 0 =>
    /\ es[es[e].partner].st = "live" /\ es[es[e].partner].partner = e
    /\ es[es[e].partner].user # es[e].user

\* The transaction t of an entry is of its value, and its only one.
OneValue(es, ts) ==
  \A t \in Txs : ts[t].st = "live" /\ ts[t].source # 0 =>
    LET e == es[ts[t].source]
    IN /\ e.st = "live" /\ e.user = ts[t].user
       /\ ~ts[t].crossed => e.amount = ts[t].amount
       /\ e.date = ts[t].date /\ ts[t].type = TypeOf(e.dir)
       /\ \A s \in Txs : ts[s].st = "live" /\ ts[s].source = ts[t].source => s = t

Good(es, ts, kn) == RowsFit(es, ts) /\ Labelled(es, kn) /\ PartsOnce(es) /\ Mutual(es) /\ OneValue(es, ts)

-----------------------------------------------------------------------------
(* What an update leaves of a row.                                         *)

\* A row of the table has all its columns.
LEMMA RowIs ==
  ASSUME NEW r, EntryFits(r)
  PROVE  r = [st |-> r.st, kind |-> r.kind, dir |-> r.dir, amount |-> r.amount, date |-> r.date, key |-> r.key,
              paid |-> r.paid, parts |-> r.parts, paper |-> r.paper, partner |-> r.partner, user |-> r.user]
BY DEF EntryFits, EntryType

\* So has a transaction.
LEMMA TxIs ==
  ASSUME NEW t, TxFits(t)
  PROVE  t = [st |-> t.st, type |-> t.type, amount |-> t.amount, date |-> t.date, source |-> t.source,
              connected |-> t.connected, crossed |-> t.crossed, user |-> t.user]
BY DEF TxFits, TxType

\* A row with another value.
LEMMA ValuedIs ==
  ASSUME NEW r, EntryFits(r), NEW t, t.date \in Nat
  PROVE  Valued(r, t) = [st |-> r.st, kind |-> r.kind, dir |-> r.dir, amount |-> t.amount, date |-> t.date, key |-> r.key,
                         paid |-> r.paid, parts |-> r.parts, paper |-> r.paper, partner |-> r.partner, user |-> r.user]
<1> DEFINE row(a, d) == [st |-> r.st, kind |-> r.kind, dir |-> r.dir, amount |-> a, date |-> d, key |-> r.key,
                         paid |-> r.paid, parts |-> r.parts, paper |-> r.paper, partner |-> r.partner, user |-> r.user]
<1>1. r = row(r.amount, r.date)
  BY RowIs
<1>2. \A x : x = row(r.amount, r.date) => [x EXCEPT !.amount = t.amount] = row(t.amount, r.date)
  OBVIOUS
<1>3. \A x : x = row(t.amount, r.date) => [x EXCEPT !.date = t.date] = row(t.amount, t.date)
  OBVIOUS
<1> QED BY <1>1, <1>2, <1>3, Zenon DEF Valued

\* A row with other parts, of a paper or not.
LEMMA OfPaperIs ==
  ASSUME NEW r, EntryFits(r), NEW parts
  PROVE  OfPaper(r, parts) = [st |-> r.st, kind |-> r.kind, dir |-> r.dir, amount |-> r.amount, date |-> r.date, key |-> r.key,
                              paid |-> r.paid, parts |-> parts, paper |-> TRUE, partner |-> r.partner, user |-> r.user]
<1> DEFINE row(a, b) == [st |-> r.st, kind |-> r.kind, dir |-> r.dir, amount |-> r.amount, date |-> r.date, key |-> r.key,
                         paid |-> r.paid, parts |-> a, paper |-> b, partner |-> r.partner, user |-> r.user]
<1>1. r = row(r.parts, r.paper)
  BY RowIs
<1>2. \A x : x = row(r.parts, r.paper) => [x EXCEPT !.parts = parts] = row(parts, r.paper)
  OBVIOUS
<1>3. \A x, b : x = row(parts, r.paper) => [x EXCEPT !.paper = b] = row(parts, b)
  OBVIOUS
<1> QED BY <1>1, <1>2, <1>3, Zenon DEF OfPaper

\* Or with an amount too.
LEMMA WithPartsIs ==
  ASSUME NEW r, EntryFits(r), NEW parts, NEW amount
  PROVE  WithParts(r, parts, amount)
         = [st |-> r.st, kind |-> r.kind, dir |-> r.dir, amount |-> amount, date |-> r.date, key |-> r.key,
            paid |-> r.paid, parts |-> parts, paper |-> r.paper /\ \E p \in Papers : parts[p] > 0, partner |-> r.partner, user |-> r.user]
<1> DEFINE row(a, b, c) == [st |-> r.st, kind |-> r.kind, dir |-> r.dir, amount |-> b, date |-> r.date, key |-> r.key,
                            paid |-> r.paid, parts |-> a, paper |-> c, partner |-> r.partner, user |-> r.user]
<1>1. r = row(r.parts, r.amount, r.paper)
  BY RowIs
<1>2. \A x : x = row(r.parts, r.amount, r.paper) => [x EXCEPT !.parts = parts] = row(parts, r.amount, r.paper)
  OBVIOUS
<1>3. \A x : x = row(parts, r.amount, r.paper) => [x EXCEPT !.amount = amount] = row(parts, amount, r.paper)
  OBVIOUS
<1> DEFINE b == r.paper /\ \E p \in Papers : parts[p] > 0
<1>4. \A x : x = row(parts, amount, r.paper) => [x EXCEPT !.paper = b] = row(parts, amount, b)
  OBVIOUS
<1>5. WithParts(r, parts, amount) = [[[r EXCEPT !.parts = parts] EXCEPT !.amount = amount] EXCEPT !.paper = b]
  BY Zenon DEF WithParts
<1> HIDE DEF row, b
<1>6. WithParts(r, parts, amount) = row(parts, amount, b)
  BY <1>1, <1>2, <1>3, <1>4, <1>5, Zenon
<1> QED BY <1>6 DEF row, b

\* A row that is off its papers, and without a partner.
LEMMA OffPaperIs ==
  ASSUME NEW r, EntryFits(r)
  PROVE  OffPaper(r) = [st |-> r.st, kind |-> r.kind, dir |-> r.dir, amount |-> r.amount, date |-> r.date, key |-> r.key,
                        paid |-> r.paid, parts |-> [p \in Papers |-> 0], paper |-> FALSE, partner |-> 0, user |-> r.user]
<1> DEFINE none == [p \in Papers |-> 0]
           row(a, b, c) == [st |-> r.st, kind |-> r.kind, dir |-> r.dir, amount |-> r.amount, date |-> r.date, key |-> r.key,
                            paid |-> r.paid, parts |-> a, paper |-> b, partner |-> c, user |-> r.user]
<1>1. r = row(r.parts, r.paper, r.partner)
  BY RowIs
<1>2. \A x : x = row(r.parts, r.paper, r.partner) => [x EXCEPT !.parts = none] = row(none, r.paper, r.partner)
  OBVIOUS
<1>3. \A x, b : x = row(none, r.paper, r.partner) => [x EXCEPT !.paper = b] = row(none, b, r.partner)
  OBVIOUS
<1>4. \A x, b : x = row(none, b, r.partner) => [x EXCEPT !.partner = 0] = row(none, b, 0)
  OBVIOUS
<1>5. OffPaper(r) = [[[r EXCEPT !.parts = none] EXCEPT !.paper = FALSE] EXCEPT !.partner = 0]
  BY Zenon DEF OffPaper
<1> HIDE DEF row, none
<1>6. OffPaper(r) = row(none, FALSE, 0)
  <2>1. [r EXCEPT !.parts = none] = row(none, r.paper, r.partner)
    BY <1>1, <1>2, Zenon
  <2>2. [[r EXCEPT !.parts = none] EXCEPT !.paper = FALSE] = row(none, FALSE, r.partner)
    BY <2>1, <1>3, Zenon
  <2> QED BY <2>2, <1>4, <1>5, Zenon
<1> QED BY <1>6 DEF row, none

\* A transaction that an entry takes, lets go, or reaches.
LEMMA TxsAre ==
  ASSUME NEW t, TxFits(t), NEW e, NEW row
  PROVE  /\ Connected(t, e) = [st |-> t.st, type |-> t.type, amount |-> t.amount, date |-> t.date, source |-> e,
                               connected |-> TRUE, crossed |-> FALSE, user |-> t.user]
         /\ Plain(t) = [st |-> t.st, type |-> t.type, amount |-> t.amount, date |-> t.date, source |-> 0,
                        connected |-> FALSE, crossed |-> t.crossed, user |-> t.user]
         /\ Follows(t, row) = [st |-> t.st, type |-> TypeOf(row.dir), amount |-> row.amount, date |-> row.date,
                               source |-> t.source, connected |-> t.connected, crossed |-> FALSE, user |-> t.user]
<1> DEFINE tx(a, b, c, d, f, g) ==
             [st |-> t.st, type |-> a, amount |-> b, date |-> c, source |-> d, connected |-> f, crossed |-> g, user |-> t.user]
<1>1. t = tx(t.type, t.amount, t.date, t.source, t.connected, t.crossed)
  BY TxIs
<1> DEFINE type == TypeOf(row.dir)
<1>2. \A x : x = tx(t.type, t.amount, t.date, t.source, t.connected, t.crossed)
             => /\ [x EXCEPT !.source = e] = tx(t.type, t.amount, t.date, e, t.connected, t.crossed)
                /\ [x EXCEPT !.source = 0] = tx(t.type, t.amount, t.date, 0, t.connected, t.crossed)
                /\ [x EXCEPT !.type = type] = tx(type, t.amount, t.date, t.source, t.connected, t.crossed)
  OBVIOUS
<1>3. \A x, b : x = tx(t.type, t.amount, t.date, e, t.connected, t.crossed)
             => [x EXCEPT !.connected = b] = tx(t.type, t.amount, t.date, e, b, t.crossed)
  OBVIOUS
<1>4. \A x, b : x = tx(t.type, t.amount, t.date, e, b, t.crossed)
             => \A c : [x EXCEPT !.crossed = c] = tx(t.type, t.amount, t.date, e, b, c)
  OBVIOUS
<1>5. \A x, b : x = tx(t.type, t.amount, t.date, 0, t.connected, t.crossed)
             => [x EXCEPT !.connected = b] = tx(t.type, t.amount, t.date, 0, b, t.crossed)
  OBVIOUS
<1>6. \A x : x = tx(type, t.amount, t.date, t.source, t.connected, t.crossed)
             => [x EXCEPT !.amount = row.amount] = tx(type, row.amount, t.date, t.source, t.connected, t.crossed)
  OBVIOUS
<1>7. \A x : x = tx(type, row.amount, t.date, t.source, t.connected, t.crossed)
             => [x EXCEPT !.date = row.date] = tx(type, row.amount, row.date, t.source, t.connected, t.crossed)
  OBVIOUS
<1>8. \A x, c : x = tx(type, row.amount, row.date, t.source, t.connected, t.crossed)
             => [x EXCEPT !.crossed = c] = tx(type, row.amount, row.date, t.source, t.connected, c)
  OBVIOUS
<1> HIDE DEF tx
<1>9. Connected(t, e) = tx(t.type, t.amount, t.date, e, TRUE, FALSE)
  <2> DEFINE y == [[t EXCEPT !.source = e] EXCEPT !.connected = TRUE]
  <2>1. Connected(t, e) = [y EXCEPT !.crossed = FALSE]
    BY Zenon DEF Connected
  <2>2. [t EXCEPT !.source = e] = tx(t.type, t.amount, t.date, e, t.connected, t.crossed)
    BY <1>1, <1>2, Zenon
  <2>3. y = tx(t.type, t.amount, t.date, e, TRUE, t.crossed)
    BY <2>2, <1>3, Zenon
  <2> HIDE DEF y
  <2>4. \A c : [y EXCEPT !.crossed = c] = tx(t.type, t.amount, t.date, e, TRUE, c)
    BY <2>3, <1>4, Zenon
  <2> QED BY <2>1, <2>4, Zenon
<1>10. Plain(t) = tx(t.type, t.amount, t.date, 0, FALSE, t.crossed)
  <2>1. Plain(t) = [[t EXCEPT !.source = 0] EXCEPT !.connected = FALSE]
    BY Zenon DEF Plain
  <2>2. [t EXCEPT !.source = 0] = tx(t.type, t.amount, t.date, 0, t.connected, t.crossed)
    BY <1>1, <1>2, Zenon
  <2> QED BY <2>1, <2>2, <1>5, Zenon
<1>11. Follows(t, row) = tx(type, row.amount, row.date, t.source, t.connected, FALSE)
  <2> HIDE DEF type
  <2>1. Follows(t, row) =
          [[[[t EXCEPT !.type = type] EXCEPT !.amount = row.amount] EXCEPT !.date = row.date] EXCEPT !.crossed = FALSE]
    BY Zenon DEF Follows, type
  <2>2. [t EXCEPT !.type = type] = tx(type, t.amount, t.date, t.source, t.connected, t.crossed)
    BY <1>1, <1>2, Zenon
  <2>3. [[t EXCEPT !.type = type] EXCEPT !.amount = row.amount]
          = tx(type, row.amount, t.date, t.source, t.connected, t.crossed)
    BY <2>2, <1>6, Zenon
  <2>4. [[[t EXCEPT !.type = type] EXCEPT !.amount = row.amount] EXCEPT !.date = row.date]
          = tx(type, row.amount, row.date, t.source, t.connected, t.crossed)
    BY <2>3, <1>7, Zenon
  <2> QED BY <2>1, <2>4, <1>8, Zenon
<1> QED BY <1>9, <1>10, <1>11 DEF tx

\* A row of a table, by its columns.
LEMMA RowFits ==
  ASSUME NEW r, EntryFits(r), NEW amount, NEW date \in Nat, NEW parts \in [Papers -> Nat], NEW partner \in Entries \cup {0}
  PROVE  \A b \in BOOLEAN :
           EntryFits([st |-> r.st, kind |-> r.kind, dir |-> r.dir, amount |-> amount, date |-> date, key |-> r.key,
                      paid |-> r.paid, parts |-> parts, paper |-> b, partner |-> partner, user |-> r.user])
BY DEF EntryFits, EntryType

\* So for a transaction.
LEMMA TxRowFits ==
  ASSUME NEW t, TxFits(t), NEW type \in {"expense", "income"}, NEW amount, NEW date \in Nat, NEW source \in Entries \cup {0}
  PROVE  \A b, c \in BOOLEAN :
           TxFits([st |-> t.st, type |-> type, amount |-> amount, date |-> date, source |-> source,
                   connected |-> b, crossed |-> c, user |-> t.user])
BY DEF TxFits, TxType

\* The fields the changed rows keep.
LEMMA RowsKeep ==
  ASSUME NEW r, EntryFits(r), NEW t, TxFits(t), NEW parts \in [Papers -> Nat], NEW amount
  PROVE  /\ EntryFits(Valued(r, t)) /\ EntryFits(OfPaper(r, parts)) /\ EntryFits(WithParts(r, parts, amount)) /\ EntryFits(OffPaper(r))
         /\ \A q \in {Valued(r, t), OfPaper(r, parts), WithParts(r, parts, amount), OffPaper(r)} :
              q.st = r.st /\ q.user = r.user /\ q.kind = r.kind /\ q.dir = r.dir /\ q.key = r.key /\ q.paid = r.paid
         /\ \A q \in {OfPaper(r, parts), WithParts(r, parts, amount), OffPaper(r)} : q.date = r.date
         /\ \A q \in {OfPaper(r, parts), OffPaper(r)} : q.amount = r.amount
         /\ \A q \in {Valued(r, t), OfPaper(r, parts), WithParts(r, parts, amount)} : q.partner = r.partner
         /\ Valued(r, t).amount = t.amount /\ Valued(r, t).date = t.date /\ Valued(r, t).parts = r.parts
         /\ OfPaper(r, parts).parts = parts
         /\ WithParts(r, parts, amount).parts = parts /\ WithParts(r, parts, amount).amount = amount
         /\ OffPaper(r).parts = [p \in Papers |-> 0] /\ OffPaper(r).partner = 0
<1> DEFINE row(a, d, ps, b, o) == [st |-> r.st, kind |-> r.kind, dir |-> r.dir, amount |-> a, date |-> d, key |-> r.key,
                                   paid |-> r.paid, parts |-> ps, paper |-> b, partner |-> o, user |-> r.user]
<1>1. t.date \in Nat
  BY DEF TxFits, TxType
<1>2. EntryFits(Valued(r, t)) /\ EntryFits(OfPaper(r, parts))
  <2>1. /\ r.date \in Nat /\ r.parts \in [Papers -> Nat] /\ r.partner \in Entries \cup {0}
        /\ r.paper \in BOOLEAN /\ TRUE \in BOOLEAN
    BY DEF EntryFits, EntryType
  <2>2. EntryFits(Valued(r, t))
    BY <1>1, <2>1, ValuedIs, RowFits
  <2>3. EntryFits(OfPaper(r, parts))
    <3>1. PICK b \in BOOLEAN : OfPaper(r, parts) = row(r.amount, r.date, parts, b, r.partner)
      BY OfPaperIs, Zenon
    <3> QED BY <3>1, <2>1, RowFits
  <2> QED BY <2>2, <2>3
<1>3. EntryFits(WithParts(r, parts, amount))
  <2>1. /\ r.date \in Nat /\ r.partner \in Entries \cup {0}
    BY DEF EntryFits, EntryType
  <2>2. (r.paper /\ \E p \in Papers : parts[p] > 0) \in BOOLEAN
    BY DEF EntryFits, EntryType
  <2>3. PICK b \in BOOLEAN : WithParts(r, parts, amount) = row(amount, r.date, parts, b, r.partner)
    BY <2>2, WithPartsIs, Zenon
  <2> QED BY <2>1, <2>3, RowFits
<1>4. EntryFits(OffPaper(r))
  <2>1. r.date \in Nat /\ [p \in Papers |-> 0] \in [Papers -> Nat] /\ 0 \in Entries \cup {0} /\ FALSE \in BOOLEAN
    BY DEF EntryFits, EntryType
  <2>2. PICK b \in BOOLEAN : OffPaper(r) = row(r.amount, r.date, [p \in Papers |-> 0], b, 0)
    BY OffPaperIs, Zenon
  <2> QED BY <2>1, <2>2, RowFits
<1>5. \A q \in {Valued(r, t), OfPaper(r, parts), WithParts(r, parts, amount), OffPaper(r)} :
              q.st = r.st /\ q.user = r.user /\ q.kind = r.kind /\ q.dir = r.dir /\ q.key = r.key /\ q.paid = r.paid
  BY <1>1, ValuedIs, OfPaperIs, WithPartsIs, OffPaperIs
<1>6. /\ \A q \in {OfPaper(r, parts), WithParts(r, parts, amount), OffPaper(r)} : q.date = r.date
      /\ \A q \in {OfPaper(r, parts), OffPaper(r)} : q.amount = r.amount
  BY OfPaperIs, WithPartsIs, OffPaperIs
<1>7. \A q \in {Valued(r, t), OfPaper(r, parts), WithParts(r, parts, amount)} : q.partner = r.partner
  BY <1>1, ValuedIs, OfPaperIs, WithPartsIs
<1>8. /\ Valued(r, t).amount = t.amount /\ Valued(r, t).date = t.date /\ Valued(r, t).parts = r.parts
      /\ OfPaper(r, parts).parts = parts
      /\ WithParts(r, parts, amount).parts = parts /\ WithParts(r, parts, amount).amount = amount
      /\ OffPaper(r).parts = [p \in Papers |-> 0] /\ OffPaper(r).partner = 0
  BY <1>1, ValuedIs, OfPaperIs, WithPartsIs, OffPaperIs
<1> QED BY <1>2, <1>3, <1>4, <1>5, <1>6, <1>7, <1>8

\* The fields the changed transactions keep.
LEMMA TxsKeep ==
  ASSUME NEW t, TxFits(t), NEW e \in Entries, NEW row, EntryFits(row)
  PROVE  /\ TxFits(Connected(t, e)) /\ TxFits(Plain(t)) /\ TxFits(Follows(t, row))
         /\ \A q \in {Connected(t, e), Plain(t), Follows(t, row)} : q.st = t.st /\ q.user = t.user
         /\ \A q \in {Connected(t, e), Plain(t)} : q.type = t.type /\ q.amount = t.amount /\ q.date = t.date
         /\ Connected(t, e).source = e /\ Plain(t).source = 0 /\ Follows(t, row).source = t.source
         /\ Follows(t, row).type = TypeOf(row.dir) /\ Follows(t, row).amount = row.amount /\ Follows(t, row).date = row.date
         /\ ~Connected(t, e).crossed /\ Plain(t).crossed = t.crossed /\ ~Follows(t, row).crossed
<1>1. row.date \in Nat /\ TypeOf(row.dir) \in {"expense", "income"}
  BY DEF EntryFits, EntryType, TypeOf
<1>2. TxFits(Connected(t, e)) /\ TxFits(Plain(t))
  <2>1. /\ t.type \in {"expense", "income"} /\ t.date \in Nat /\ 0 \in Entries \cup {0} /\ e \in Entries \cup {0}
        /\ TRUE \in BOOLEAN /\ FALSE \in BOOLEAN /\ t.crossed \in BOOLEAN
    BY DEF TxFits, TxType
  <2> DEFINE tx(e1, b, c) == [st |-> t.st, type |-> t.type, amount |-> t.amount, date |-> t.date, source |-> e1,
                              connected |-> b, crossed |-> c, user |-> t.user]
  <2>2. PICK b \in BOOLEAN, c \in BOOLEAN : Connected(t, e) = tx(e, b, c)
    BY TxsAre, Zenon
  <2>3. PICK b1 \in BOOLEAN : Plain(t) = tx(0, b1, t.crossed)
    BY TxsAre, Zenon
  <2> QED BY <2>1, <2>2, <2>3, TxRowFits
<1>3. TxFits(Follows(t, row))
  <2>1. t.source \in Entries \cup {0} /\ t.connected \in BOOLEAN 
    BY DEF TxFits, TxType
  <2>2. PICK c \in BOOLEAN :
          Follows(t, row) = [st |-> t.st, type |-> TypeOf(row.dir), amount |-> row.amount, date |-> row.date,
                             source |-> t.source, connected |-> t.connected, crossed |-> c, user |-> t.user]
    BY TxsAre, Zenon
  <2> QED BY <2>1, <2>2, <1>1, TxRowFits
<1> QED BY <1>2, <1>3, TxsAre
\* A row with another partner.
LEMMA PartnerSet ==
  ASSUME NEW r, EntryFits(r), NEW o \in Entries \cup {0}, NEW q, q = [r EXCEPT !.partner = o]
  PROVE  /\ EntryFits(q) /\ q.partner = o
         /\ q.st = r.st /\ q.user = r.user /\ q.kind = r.kind /\ q.dir = r.dir /\ q.key = r.key
         /\ q.amount = r.amount /\ q.date = r.date /\ q.paid = r.paid /\ q.parts = r.parts
BY DEF EntryFits, EntryType

\* Under another key.
LEMMA KeySet ==
  ASSUME NEW r, EntryFits(r), NEW k \in Keys, NEW q, q = [r EXCEPT !.key = k]
  PROVE  /\ EntryFits(q) /\ q.key = k
         /\ q.st = r.st /\ q.user = r.user /\ q.kind = r.kind /\ q.dir = r.dir /\ q.amount = r.amount
         /\ q.date = r.date /\ q.paid = r.paid /\ q.partner = r.partner /\ q.parts = r.parts
BY DEF EntryFits, EntryType

\* With the label.
LEMMA PaidSet ==
  ASSUME NEW r, EntryFits(r), NEW q, q = [r EXCEPT !.paid = TRUE]
  PROVE  /\ EntryFits(q)
         /\ q.st = r.st /\ q.user = r.user /\ q.kind = r.kind /\ q.dir = r.dir /\ q.key = r.key
         /\ q.amount = r.amount /\ q.date = r.date /\ q.partner = r.partner /\ q.parts = r.parts
BY DEF EntryFits, EntryType

\* Of another amount.
LEMMA AmountSet ==
  ASSUME NEW r, EntryFits(r), NEW a, NEW q, q = [r EXCEPT !.amount = a]
  PROVE  /\ EntryFits(q) /\ q.amount = a
         /\ q.st = r.st /\ q.user = r.user /\ q.kind = r.kind /\ q.dir = r.dir /\ q.key = r.key
         /\ q.date = r.date /\ q.paid = r.paid /\ q.partner = r.partner /\ q.parts = r.parts
BY DEF EntryFits, EntryType

\* Of another date.
LEMMA DateSet ==
  ASSUME NEW r, EntryFits(r), NEW d \in Nat, NEW q, q = [r EXCEPT !.date = d]
  PROVE  /\ EntryFits(q) /\ q.date = d
         /\ q.st = r.st /\ q.user = r.user /\ q.kind = r.kind /\ q.dir = r.dir /\ q.key = r.key
         /\ q.amount = r.amount /\ q.paid = r.paid /\ q.partner = r.partner /\ q.parts = r.parts
BY DEF EntryFits, EntryType

\* The other way.
LEMMA DirSet ==
  ASSUME NEW r, EntryFits(r), NEW d \in Directions, NEW q, q = [r EXCEPT !.dir = d]
  PROVE  /\ EntryFits(q) /\ q.dir = d
         /\ q.st = r.st /\ q.user = r.user /\ q.kind = r.kind /\ q.key = r.key /\ q.amount = r.amount
         /\ q.date = r.date /\ q.paid = r.paid /\ q.partner = r.partner /\ q.parts = r.parts
BY DEF EntryFits, EntryType

\* A transaction that is gone.
LEMMA TxGone == TxFits([NoTx EXCEPT !.st = "gone"]) /\ [NoTx EXCEPT !.st = "gone"].st = "gone"
<1>1. (CHOOSE u \in Users : TRUE) \in Users
  BY DebtUsers
<1> QED BY <1>1 DEF NoTx, TxFits, TxType

\* A transaction of another amount.
LEMMA TxAmountSet ==
  ASSUME NEW t, TxFits(t), NEW a, NEW q, q = [t EXCEPT !.amount = a]
  PROVE  /\ TxFits(q) /\ q.amount = a
         /\ q.st = t.st /\ q.user = t.user /\ q.type = t.type /\ q.date = t.date /\ q.source = t.source
BY DEF TxFits, TxType

\* Or without its entry.
LEMMA TxSourceSet ==
  ASSUME NEW t, TxFits(t), NEW q, q = [t EXCEPT !.source = 0]
  PROVE  /\ TxFits(q) /\ q.source = 0 /\ q.amount = t.amount /\ q.crossed = t.crossed
         /\ q.st = t.st /\ q.user = t.user /\ q.type = t.type /\ q.date = t.date
BY DEF TxFits, TxType

\* A row that is gone.
LEMMA GoneIs == EntryFits(Gone) /\ Gone.st = "gone"
<1>1. (CHOOSE u \in Users : TRUE) \in Users
  BY DebtUsers
<1>2. [p \in Papers |-> 0] \in [Papers -> Nat]
  OBVIOUS
<1> QED BY <1>1, <1>2 DEF Gone, NoEntry, EntryFits, EntryType, Kinds, Directions, Keys

-----------------------------------------------------------------------------
(* What keeps the two tables good.                                         *)

\* A new row: no partner yet, and no part that another row of its book has.
LEMMA RowPut ==
  ASSUME NEW es, NEW ts, NEW kn, Good(es, ts, kn), NEW e \in Entries, es[e].st = "new",
         NEW row, EntryFits(row), row.st = "live", row.partner = 0, row.paid => row.kind = "debt",
         row.key = "contact" => row.user \in kn,
         \A f \in Entries, p \in Papers :
           es[f].st = "live" /\ es[f].user = row.user /\ row.parts[p] > 0 => ~(es[f].parts[p] > 0)
  PROVE  Good([es EXCEPT ![e] = row], ts, kn)
<1> DEFINE es2 == [es EXCEPT ![e] = row]
<1>1. \A f \in Entries : es2[f] = IF f = e THEN row ELSE es[f]
  BY DEF Good, RowsFit
<1>2. RowsFit(es2, ts)
  BY <1>1 DEF Good, RowsFit
<1>3. \A f \in Entries : es[f].partner \in Entries \cup {0}
  BY DEF Good, RowsFit, EntryFits, EntryType
<1>4. \A t \in Txs : ts[t].source \in Entries \cup {0}
  BY DEF Good, RowsFit, TxFits, TxType
<1> HIDE DEF es2
<1>5. Labelled(es2, kn)
  BY <1>1 DEF Good, Labelled
<1>6. PartsOnce(es2)
  BY <1>1 DEF Good, PartsOnce
<1>7. Mutual(es2)
  BY <1>1, <1>3 DEF Good, Mutual
<1>8. OneValue(es2, ts)
  BY <1>1, <1>4 DEF Good, OneValue
<1> QED BY <1>2, <1>5, <1>6, <1>7, <1>8 DEF Good, es2

\* A row with other columns, its transaction of another value none.
LEMMA RowSet ==
  ASSUME NEW es, NEW ts, NEW kn, Good(es, ts, kn), NEW e \in Entries,
         NEW row, EntryFits(row), row.st = es[e].st, row.user = es[e].user, row.partner = es[e].partner,
         row.st = "live" => /\ row.paid => row.kind = "debt"
                            /\ row.key = "contact" => row.user \in kn,
         \A p \in Papers : row.parts[p] > 0 =>
           \/ es[e].parts[p] > 0
           \/ \A f \in Entries \ {e} : es[f].st = "live" /\ es[f].user = row.user => ~(es[f].parts[p] > 0),
         \/ row.amount = es[e].amount /\ row.date = es[e].date /\ row.dir = es[e].dir
         \/ \A t \in Txs : ts[t].st = "live" => ts[t].source # e
  PROVE  Good([es EXCEPT ![e] = row], ts, kn)
<1> DEFINE es2 == [es EXCEPT ![e] = row]
<1>1. \A f \in Entries : es2[f] = IF f = e THEN row ELSE es[f]
  BY DEF Good, RowsFit
<1>2. RowsFit(es2, ts)
  BY <1>1 DEF Good, RowsFit
<1>3. \A f \in Entries : es[f].partner \in Entries \cup {0}
  BY DEF Good, RowsFit, EntryFits, EntryType
<1>4. \A t \in Txs : ts[t].source \in Entries \cup {0}
  BY DEF Good, RowsFit, TxFits, TxType
<1> HIDE DEF es2
<1>5. Labelled(es2, kn)
  BY <1>1 DEF Good, Labelled
<1>6. PartsOnce(es2)
  BY <1>1 DEF Good, PartsOnce
<1>7. Mutual(es2)
  BY <1>1, <1>3 DEF Good, Mutual
<1>8. OneValue(es2, ts)
  BY <1>1, <1>4 DEF Good, OneValue
<1> QED BY <1>2, <1>5, <1>6, <1>7, <1>8 DEF Good, es2

\* A transaction of an entry's value, which has no other.
LEMMA TxPut ==
  ASSUME NEW es, NEW ts, NEW kn, Good(es, ts, kn), NEW t \in Txs, NEW x, TxFits(x),
         x.st = "live" /\ x.source # 0 =>
           /\ es[x.source].st = "live" /\ es[x.source].user = x.user
           /\ ~x.crossed => es[x.source].amount = x.amount
           /\ es[x.source].date = x.date /\ x.type = TypeOf(es[x.source].dir)
           /\ \A s \in Txs : s # t /\ ts[s].st = "live" => ts[s].source # x.source
  PROVE  Good(es, [ts EXCEPT ![t] = x], kn)
<1> DEFINE ts2 == [ts EXCEPT ![t] = x]
<1>1. \A s \in Txs : ts2[s] = IF s = t THEN x ELSE ts[s]
  BY DEF Good, RowsFit
<1>2. RowsFit(es, ts2)
  BY <1>1 DEF Good, RowsFit
<1> HIDE DEF ts2
<1>3. OneValue(es, ts2)
  BY <1>1 DEF Good, OneValue
<1> QED BY <1>2, <1>3 DEF Good, ts2

\* Rows that keep their value, and partners that stay mutual.
LEMMA RowsChange ==
  ASSUME NEW es, NEW ts, NEW kn, Good(es, ts, kn), NEW es2, NEW kn2,
         es2 = [e \in Entries |-> es2[e]], \A e \in Entries : EntryFits(es2[e]),
         \A e \in Entries : /\ es2[e].st = es[e].st /\ es2[e].user = es[e].user /\ es2[e].amount = es[e].amount
                            /\ es2[e].date = es[e].date /\ es2[e].dir = es[e].dir
                            /\ \A p \in Papers : es2[e].parts[p] > 0 => es[e].parts[p] > 0,
         Labelled(es2, kn2), Mutual(es2)
  PROVE  Good(es2, ts, kn2)
<1>1. \A t \in Txs : ts[t].source \in Entries \cup {0}
  BY DEF Good, RowsFit, TxFits, TxType
<1>2. RowsFit(es2, ts)
  BY DEF Good, RowsFit
<1>3. PartsOnce(es2)
  BY DEF Good, PartsOnce
<1>4. OneValue(es2, ts)
  BY <1>1 DEF Good, OneValue
<1> QED BY <1>2, <1>3, <1>4 DEF Good

\* A set of naturals has a least element.
LEMMA NatMin ==
  ASSUME NEW T, T \subseteq Nat, T # {}
  PROVE  \E x \in T : \A y \in T : x <= y
<1> DEFINE upTo == {0 .. x : x \in T}
<1>1. ASSUME NEW x \in T PROVE 0 .. x \in FiniteSubsetsOf(Nat)
  <2>1. IsFiniteSet(0 .. x)
    <3>1. 0 \in Int /\ x \in Int
      OBVIOUS
    <3> QED BY <3>1, FS_Interval
  <2> QED BY <2>1 DEF FiniteSubsetsOf
<1>2. PICK X \in upTo : \A Y \in upTo : <<Y, X>> \notin StrictSubsetOrdering(Nat)
  <2>1. upTo \subseteq FiniteSubsetsOf(Nat) /\ upTo # {}
    BY <1>1
  <2> HIDE DEF upTo
  <2>2. IsWellFoundedOn(StrictSubsetOrdering(Nat), FiniteSubsetsOf(Nat))
    BY FS_StrictSubsetOrderingWellFounded
  <2> QED BY <2>1, <2>2, WFMin, Zenon
<1>3. PICK x \in T : X = 0 .. x
  OBVIOUS
<1>4. ASSUME NEW y \in T, y < x
      PROVE  <<0 .. y, 0 .. x>> \in StrictSubsetOrdering(Nat)
  <2>1. 0 .. y \in SUBSET Nat /\ 0 .. x \in SUBSET Nat /\ 0 .. y \subseteq 0 .. x
    BY <1>4
  <2>2. 0 .. y # 0 .. x
    BY <1>4
  <2> QED BY <2>1, <2>2 DEF StrictSubsetOrdering
<1>5. ASSUME NEW y \in T PROVE ~ (y < x)
  BY <1>2, <1>3, <1>4, <1>5
<1> QED BY <1>5

\* The next id of a table.
LEMMA FirstIs ==
  ASSUME NEW ids, ids \subseteq Nat, NEW rows, Room(ids, rows)
  PROVE  First(ids, rows) \in ids /\ rows[First(ids, rows)].st = "new"
<1> DEFINE T == {x \in ids : rows[x].st = "new"}
<1>1. T \subseteq Nat /\ T # {}
  BY DEF Room
<1>2. PICK x \in T : \A y \in T : x <= y
  BY <1>1, NatMin
<1> QED BY <1>2 DEF First

-----------------------------------------------------------------------------
(* The steps, on any rows that are good.                                   *)

\* A new row has all its columns.
LEMMA RowIsNew ==
  ASSUME NEW u \in Users, NEW kind \in Kinds, NEW dir \in Directions, NEW key \in Keys, NEW amount, NEW date \in Nat
  PROVE  LET row == Row(u, kind, dir, key, amount, date)
         IN /\ EntryFits(row) /\ row.st = "live" /\ row.user = u /\ row.kind = kind /\ row.dir = dir /\ row.key = key
            /\ row.amount = amount /\ row.date = date /\ ~row.paid /\ row.partner = 0
            /\ row.parts = [p \in Papers |-> 0]
BY DEF Row, EntryFits, EntryType

\* So has a new transaction.
LEMMA TxRowIsNew ==
  ASSUME NEW u \in Users, NEW type \in {"expense", "income"}, NEW amount, NEW date \in Nat, NEW e \in Entries \cup {0}
  PROVE  LET t == TxRow(u, type, amount, date, e)
         IN /\ TxFits(t) /\ t.st = "live" /\ t.user = u /\ t.type = type
            /\ t.amount = amount /\ t.date = date /\ t.source = e
BY DEF TxRow, TxFits, TxType

\* insertRowTx leaves the tables good, with one row more: a plain one of its user.
LEMMA Inserted ==
  ASSUME NEW es, NEW ts, Good(es, ts, known),
         NEW u \in Users, NEW kind \in Kinds, NEW dir \in Directions, NEW key \in Keys, NEW amount, NEW date \in Nat,
         NEW with \in {"none", "tx", "link"}, with = "link" => ts = txn,
         NEW r, r \in Inserts(es, ts, u, kind, dir, key, amount, date, with)
  PROVE  /\ Good(r.entry, r.txn, known)
         /\ r.made \in Entries /\ es[r.made].st = "new"
         /\ \A f \in Entries \ {r.made} : r.entry[f] = es[f]
         /\ r.entry[r.made].st = "live" /\ r.entry[r.made].user = u /\ r.entry[r.made].partner = 0
         /\ r.entry[r.made].parts = [p \in Papers |-> 0]
         /\ r = [made |-> r.made, entry |-> r.entry, txn |-> r.txn]
<1> DEFINE e == First(Entries, es)
           row == Row(u, kind, dir, key, amount, date)
           tx == DebtTx(u, dir, amount, date, e)
<1>1. Room(Entries, es) /\ (key = "contact" => u \in known)
  BY DEF Inserts
<1>2. e \in Entries /\ es[e].st = "new"
  BY <1>1, FirstIs, DebtIds, Entries \subseteq Nat
<1>3. /\ EntryFits(row) /\ row.st = "live" /\ row.user = u /\ row.dir = dir /\ row.key = key
      /\ row.amount = amount /\ row.date = date /\ ~row.paid /\ row.partner = 0 /\ row.parts = [p \in Papers |-> 0]
  BY RowIsNew
<1>4. \A t \in Txs : ts[t].st = "live" => ts[t].source # e
  <2>1. \A t \in Txs : ts[t].source \in Entries \cup {0}
    BY DEF Good, RowsFit, TxFits, TxType
  <2> QED BY <1>2, <2>1, DebtIds DEF Good, OneValue
<1>5. TypeOf(dir) \in {"expense", "income"}
  BY DEF TypeOf
<1> HIDE DEF row, e
<1>6. CASE with = "none"
  <2>1. r = [made |-> e, entry |-> [es EXCEPT ![e] = row], txn |-> ts]
    BY <1>1, <1>6 DEF Inserts, row, e
  <2>2. \A p \in Papers : ~(row.parts[p] > 0)
    BY <1>3
  <2>3. Good([es EXCEPT ![e] = row], ts, known)
    BY <1>1, <1>2, <1>3, <2>2, RowPut
  <2>4. \A f \in Entries : [es EXCEPT ![e] = row][f] = IF f = e THEN row ELSE es[f]
    BY DEF Good, RowsFit
  <2> QED BY <2>1, <2>3, <2>4, <1>2, <1>3
<1>7. CASE with = "tx"
  <2> DEFINE t == First(Txs, ts)
  <2>1. Room(Txs, ts) /\ r = [made |-> e, entry |-> [es EXCEPT ![e] = row], txn |-> [ts EXCEPT ![t] = tx]]
    BY <1>1, <1>7 DEF Inserts, row, e
  <2>2. t \in Txs
    BY <2>1, FirstIs, DebtIds, Txs \subseteq Nat
  <2>3. \A p \in Papers : ~(row.parts[p] > 0)
    BY <1>3
  <2>4. Good([es EXCEPT ![e] = row], ts, known)
    BY <1>1, <1>2, <1>3, <2>3, RowPut
  <2>5. \A f \in Entries : [es EXCEPT ![e] = row][f] = IF f = e THEN row ELSE es[f]
    BY DEF Good, RowsFit
  <2>6. /\ TxFits(tx) /\ tx.st = "live" /\ tx.user = u /\ tx.type = TypeOf(dir)
        /\ tx.amount = amount /\ tx.date = date /\ tx.source = e
    BY <1>2, <1>5, TxRowIsNew DEF DebtTx
  <2> HIDE DEF tx, t
  <2>7. Good([es EXCEPT ![e] = row], [ts EXCEPT ![t] = tx], known)
    BY <2>2, <2>4, <2>5, <2>6, <1>2, <1>3, <1>4, TxPut
  <2> QED BY <2>1, <2>7, <2>5, <1>2, <1>3
<1>8. CASE with = "link"
  <2>1. PICK t \in Txs : /\ Linkable(t, u, dir)
                         /\ r = [made |-> e, entry |-> [es EXCEPT ![e] = Valued(row, ts[t])],
                                 txn |-> [ts EXCEPT ![t] = Connected(ts[t], e)]]
    BY <1>1, <1>8 DEF Inserts, row, e
  <2> DEFINE val == Valued(row, ts[t])
             con == Connected(ts[t], e)
  <2>2. TxFits(ts[t]) /\ ts[t].st = "live" /\ ts[t].user = u /\ ts[t].source = 0 /\ ts[t].type = TypeOf(dir)
    BY <2>1, <1>8 DEF Linkable, Good, RowsFit
  <2>3. /\ EntryFits(val) /\ val.st = "live" /\ val.user = u /\ val.dir = dir /\ val.key = key /\ ~val.paid
        /\ val.partner = 0 /\ val.amount = ts[t].amount /\ val.date = ts[t].date /\ val.parts = [p \in Papers |-> 0]
    <3>1. [p \in Papers |-> 0] \in [Papers -> Nat]
      OBVIOUS
    <3> HIDE DEF val
    <3> QED BY <1>3, <2>2, <3>1, RowsKeep DEF val
  <2>4. /\ TxFits(con) /\ con.st = "live" /\ con.user = u /\ con.source = e /\ con.type = TypeOf(dir)
        /\ con.amount = ts[t].amount /\ con.date = ts[t].date
    BY <1>2, <1>3, <2>2, TxsKeep
  <2> HIDE DEF val, con
  <2>5. \A p \in Papers : ~(val.parts[p] > 0)
    BY <2>3
  <2>6. Good([es EXCEPT ![e] = val], ts, known)
    BY <1>1, <1>2, <2>3, <2>5, RowPut
  <2>7. \A f \in Entries : [es EXCEPT ![e] = val][f] = IF f = e THEN val ELSE es[f]
    BY DEF Good, RowsFit
  <2>8. Good([es EXCEPT ![e] = val], [ts EXCEPT ![t] = con], known)
    BY <2>3, <2>4, <2>6, <2>7, <1>2, <1>4, TxPut
  <2>9. r = [made |-> e, entry |-> [es EXCEPT ![e] = val], txn |-> [ts EXCEPT ![t] = con]]
    BY <2>1 DEF val, con
  <2> QED BY <2>9, <2>8, <2>7, <1>2, <2>3
<1> QED BY <1>6, <1>7, <1>8

\* The labels of a repayment.
LEMMA Marked ==
  ASSUME NEW es, NEW ts, Good(es, ts, known), NEW u, NEW key, NEW dir
  PROVE  Good(MarkedPaid(es, u, key, dir), ts, known)
<1> DEFINE es2 == MarkedPaid(es, u, key, dir)
<1>1. \A e \in Entries : EntryFits(es[e])
  BY DEF Good, RowsFit
<1>2. es2 = [e \in Entries |-> es2[e]]
  BY DEF MarkedPaid
<1>3. ASSUME NEW e \in Entries
      PROVE  /\ EntryFits(es2[e])
             /\ es2[e].st = es[e].st /\ es2[e].user = es[e].user /\ es2[e].amount = es[e].amount
             /\ es2[e].date = es[e].date /\ es2[e].dir = es[e].dir /\ es2[e].parts = es[e].parts
             /\ es2[e].partner = es[e].partner /\ es2[e].key = es[e].key /\ es2[e].kind = es[e].kind
             /\ es2[e].paid => es[e].paid \/ es[e].kind = "debt"
  <2>1. \/ es2[e] = es[e]
        \/ es2[e] = [es[e] EXCEPT !.paid = TRUE] /\ es[e].kind = "debt"
    BY DEF MarkedPaid
  <2> HIDE DEF es2
  <2>2. CASE es2[e] = es[e]
    <3>1. es2[e].paid => es[e].paid
      BY <2>2, Zenon
    <3> QED BY <2>2, <3>1, <1>1
  <2>3. CASE es2[e] = [es[e] EXCEPT !.paid = TRUE] /\ es[e].kind = "debt"
    BY <2>3, <1>1, PaidSet
  <2> QED BY <2>1, <2>2, <2>3
<1> HIDE DEF es2
<1>4. \A e \in Entries : es[e].partner \in Entries \cup {0}
  BY <1>1 DEF EntryFits, EntryType
<1>5. Labelled(es2, known)
  BY <1>3 DEF Good, Labelled
<1>6. Mutual(es2)
  BY <1>3, <1>4 DEF Good, Mutual
<1>7. Good(es2, ts, known)
  BY <1>2, <1>3, <1>5, <1>6, RowsChange
<1> QED BY <1>7 DEF es2

Told == {"down", "any way", "no"}

\* CreateEntry.
LEMMA CreateEntryGood ==
  ASSUME Good(entry, txn, known), told \in Told,
         NEW u \in Users, NEW dir \in Directions, NEW key \in Keys, NEW amount, NEW date \in Nat,
         NEW with \in {"none", "tx", "link"}, CreateEntry(u, dir, key, amount, date, with)
  PROVE  Good(entry', txn', known') /\ known' = known /\ told' \in Told
<1>1. PICK r \in Inserts(entry, txn, u, "debt", dir, key, amount, date, with) : entry' = r.entry /\ txn' = r.txn
  BY DEF CreateEntry
<1>2. "debt" \in Kinds
  BY DEF Kinds
<1>3. Good(r.entry, r.txn, known)
  BY <1>1, <1>2, Inserted
<1> QED BY <1>1, <1>3 DEF CreateEntry, Told

\* The two are each other's other.
LEMMA OtherIs == ASSUME NEW u \in Users PROVE Other(u) \in Users /\ Other(u) # u
<1>1. \E o \in Users : o # u
  BY DebtUsers
<1> QED BY <1>1 DEF Other

\* A told repayment leaves both books good.
LEMMA ToldGood ==
  ASSUME NEW r, Good(r.entry, r.txn, known), r.made \in Entries, NEW u \in Users, NEW key,
         NEW m, m \in Mirrors(r, u, key)
  PROVE  Good(m.entry, m.txn, known)
<1>1. CASE m = r
  BY <1>1
<1>2. ASSUME NEW p \in PartnerOf(r.entry, u, key), NEW with \in {"tx", "none"},
             m \in Inserts(r.entry, r.txn, Other(u), "repayment", RepaidTheirWay(r.entry[p]), r.entry[p].key,
                           r.entry[r.made].amount, r.entry[r.made].date, with)
      PROVE  Good(m.entry, m.txn, known)
  <2>1. \A e \in Entries : EntryFits(r.entry[e])
    BY DEF Good, RowsFit
  <2>2. p \in Entries
    BY <2>1 DEF PartnerOf, EntryFits, EntryType
  <2>3. r.entry[p].key \in Keys /\ r.entry[r.made].date \in Nat
    BY <2>1, <2>2 DEF EntryFits, EntryType
  <2>4. RepaidTheirWay(r.entry[p]) \in Directions /\ "repayment" \in Kinds
    BY DEF RepaidTheirWay, Directions, Kinds
  <2> QED BY <1>2, <2>3, <2>4, OtherIs, Inserted
<1>3. \/ m = r
      \/ \E p \in PartnerOf(r.entry, u, key), with \in {"tx", "none"} :
           m \in Inserts(r.entry, r.txn, Other(u), "repayment", RepaidTheirWay(r.entry[p]), r.entry[p].key,
                         r.entry[r.made].amount, r.entry[r.made].date, with)
  BY Zenon DEF Mirrors
<1> QED BY <1>1, <1>2, <1>3

\* CreateRepayment.
LEMMA CreateRepaymentGood ==
  ASSUME Good(entry, txn, known), told \in Told,
         NEW u \in Users, NEW dir \in Directions, NEW key \in Keys, NEW amount, NEW date \in Nat,
         NEW with \in {"none", "tx", "link"}, NEW markAll, NEW notify,
         CreateRepayment(u, dir, key, amount, date, with, markAll, notify)
  PROVE  Good(entry', txn', known') /\ known' = known /\ told' \in Told
<1> DEFINE marked(r) == [r EXCEPT !.entry = IF markAll THEN MarkedPaid(r.entry, u, key, dir) ELSE r.entry]
<1>1. PICK r \in Inserts(entry, txn, u, "repayment", dir, key, amount, date, with) :
        \E m \in IF notify THEN Mirrors(marked(r), u, key) ELSE {marked(r)} : entry' = m.entry /\ txn' = m.txn
  BY Zenon DEF CreateRepayment
<1>2. "repayment" \in Kinds
  BY DEF Kinds
<1>3. /\ Good(r.entry, r.txn, known) /\ r.made \in Entries
      /\ r = [made |-> r.made, entry |-> r.entry, txn |-> r.txn]
  BY <1>2, Inserted
<1>4. /\ marked(r).made = r.made /\ marked(r).txn = r.txn
      /\ marked(r).entry = r.entry \/ marked(r).entry = MarkedPaid(r.entry, u, key, dir)
  BY <1>3
<1> HIDE DEF marked
<1>5. Good(marked(r).entry, marked(r).txn, known)
  BY <1>3, <1>4, Marked
<1>6. PICK m \in IF notify THEN Mirrors(marked(r), u, key) ELSE {marked(r)} : entry' = m.entry /\ txn' = m.txn
  BY <1>1
<1>7. Good(m.entry, m.txn, known)
  <2>1. CASE m = marked(r)
    BY <2>1, <1>5
  <2>2. CASE m \in Mirrors(marked(r), u, key)
    BY <2>2, <1>3, <1>4, <1>5, ToldGood
  <2> QED BY <2>1, <2>2, <1>6
<1>8. known' = known /\ told' \in Told
  BY DEF CreateRepayment, Told
<1> QED BY <1>6, <1>7, <1>8

Repointed(es, es2) ==
  /\ es2 = [e \in Entries |-> es2[e]]
  /\ \A e \in Entries : \E o \in Entries \cup {0} : es2[e] = [es[e] EXCEPT !.partner = o]

\* Rows with other partners, which stay mutual.
LEMMA PartnersChange ==
  ASSUME NEW es, NEW ts, NEW kn, Good(es, ts, kn), NEW es2, Repointed(es, es2), Mutual(es2)
  PROVE  Good(es2, ts, kn)
<1>1. \A e \in Entries : EntryFits(es[e])
  BY DEF Good, RowsFit
<1>2. ASSUME NEW e \in Entries
      PROVE  /\ EntryFits(es2[e])
             /\ es2[e].st = es[e].st /\ es2[e].user = es[e].user /\ es2[e].amount = es[e].amount
             /\ es2[e].date = es[e].date /\ es2[e].dir = es[e].dir /\ es2[e].parts = es[e].parts
             /\ es2[e].key = es[e].key /\ es2[e].kind = es[e].kind
             /\ es2[e].paid => es[e].paid
  <2>1. PICK o \in Entries \cup {0} : es2[e] = [es[e] EXCEPT !.partner = o]
    BY DEF Repointed
  <2>2. es2[e].paid => es[e].paid
    BY <2>1, <1>1, PartnerSet
  <2> QED BY <2>1, <2>2, <1>1, PartnerSet
<1>3. Labelled(es2, kn)
  BY <1>2 DEF Good, Labelled
<1>4. es2 = [e \in Entries |-> es2[e]]
  BY DEF Repointed
<1> QED BY <1>2, <1>3, <1>4, RowsChange

Table(es) == es = [e \in Entries |-> es[e]] /\ \A e \in Entries : EntryFits(es[e])

\* A row that points at another.
LEMMA PointsIs ==
  ASSUME NEW es, Table(es),
         NEW a \in Entries, NEW b \in Entries, a # b, NEW x \in Entries \cup {0}, NEW y \in Entries \cup {0},
         NEW es2, es2 = Points(Points(es, a, x), b, y)
  PROVE  /\ es2 = [e \in Entries |-> es2[e]]
         /\ es2[a] = [es[a] EXCEPT !.partner = x] /\ es2[b] = [es[b] EXCEPT !.partner = y]
         /\ \A e \in Entries : e # a /\ e # b => es2[e] = es[e]
<1> DEFINE es1 == Points(es, a, x)
<1>1. es1 = [e \in Entries |-> IF e = a THEN [es[a] EXCEPT !.partner = x] ELSE es[e]]
  BY DEF Points, Table
<1>2. es2 = [e \in Entries |-> IF e = b THEN [es1[b] EXCEPT !.partner = y] ELSE es1[e]]
  <2>1. es1 = [e \in Entries |-> es1[e]]
    BY <1>1
  <2> HIDE DEF es1
  <2>2. es2 = [es1 EXCEPT ![b].partner = y]
    BY DEF Points, es1
  <2> QED BY <2>1, <2>2
<1>3. es1[b] = es[b] /\ es1[a] = [es[a] EXCEPT !.partner = x]
  BY <1>1
<1> HIDE DEF es1
<1>4. \A e \in Entries : e # a => es1[e] = es[e]
  BY <1>1
<1> QED BY <1>2, <1>3, <1>4

\* A row that keeps its partner is one that points at it.
LEMMA PointsStays ==
  ASSUME NEW r, EntryFits(r)
  PROVE  r = [r EXCEPT !.partner = r.partner] /\ r.partner \in Entries \cup {0}
BY DEF EntryFits, EntryType

\* SetPartnersTx, on two rows without a partner.
LEMMA PartneredGood ==
  ASSUME NEW es, NEW ts, NEW kn, Good(es, ts, kn), NEW a \in Entries, NEW b \in Entries,
         es[a].st = "live", es[b].st = "live", es[a].user # es[b].user, es[a].partner = 0, es[b].partner = 0
  PROVE  Good(Partnered(es, a, b), ts, kn)
<1>0. 0 \notin Entries
  BY DebtIds
<1> DEFINE es2 == Points(Points(es, a, b), b, a)
<1>1. es = [e \in Entries |-> es[e]] /\ \A e \in Entries : EntryFits(es[e])
  BY DEF Good, RowsFit
<1> HIDE DEF es2
<1>2. /\ es2 = [e \in Entries |-> es2[e]]
      /\ es2[a] = [es[a] EXCEPT !.partner = b] /\ es2[b] = [es[b] EXCEPT !.partner = a]
      /\ \A e \in Entries : e # a /\ e # b => es2[e] = es[e]
  <2>1. a # b /\ a \in Entries \cup {0} /\ b \in Entries \cup {0}
    OBVIOUS
  <2>2. es2 = Points(Points(es, a, b), b, a) /\ Table(es)
    BY <1>1 DEF es2, Table
  <2> QED BY <2>1, <2>2, PointsIs
<1>3. Repointed(es, es2)
  BY <1>1, <1>2, PointsStays DEF Repointed
<1>4. /\ es2[a].partner = b /\ es2[a].st = es[a].st /\ es2[a].user = es[a].user
      /\ es2[b].partner = a /\ es2[b].st = es[b].st /\ es2[b].user = es[b].user
  BY <1>1, <1>2, PartnerSet
<1>5. \A e \in Entries : es[e].partner \in Entries \cup {0}
  BY <1>1, PointsStays
<1>6. Mutual(es2)
  BY <1>0, <1>2, <1>4, <1>5 DEF Mutual, Good
<1>7. Good(es2, ts, kn)
  BY <1>3, <1>6, PartnersChange
<1> QED BY <1>7 DEF es2, Partnered

Partners(es, a, b) == es[a].st = "live" /\ es[a].partner = b

\* Two partners let go of each other.
LEMMA UnpartneredGood ==
  ASSUME NEW es, NEW ts, NEW kn, Good(es, ts, kn), NEW a \in Entries, NEW b \in Entries,
         Partners(es, a, b)
  PROVE  Good(Points(Points(es, a, 0), b, 0), ts, kn)
<1>0. 0 \notin Entries
  BY DebtIds
<1> DEFINE es2 == Points(Points(es, a, 0), b, 0)
<1>1. es = [e \in Entries |-> es[e]] /\ \A e \in Entries : EntryFits(es[e])
  BY DEF Good, RowsFit
<1>2. es[b].partner = a /\ es[b].st = "live" /\ a # b
  BY <1>0 DEF Good, Mutual, Partners
<1> HIDE DEF es2
<1>3. /\ es2 = [e \in Entries |-> es2[e]]
      /\ es2[a] = [es[a] EXCEPT !.partner = 0] /\ es2[b] = [es[b] EXCEPT !.partner = 0]
      /\ \A e \in Entries : e # a /\ e # b => es2[e] = es[e]
  <2>1. a # b /\ Table(es)
    BY <1>1, <1>2 DEF Table
  <2>2. \A o \in Entries \cup {0} : es2 = Points(Points(es, a, o), b, o) =>
          /\ es2 = [e \in Entries |-> es2[e]]
          /\ es2[a] = [es[a] EXCEPT !.partner = o] /\ es2[b] = [es[b] EXCEPT !.partner = o]
          /\ \A e \in Entries : e # a /\ e # b => es2[e] = es[e]
    BY <2>1, PointsIs
  <2>3. es2 = Points(Points(es, a, 0), b, 0)
    BY DEF es2
  <2> QED BY <2>2, <2>3
<1>4. Repointed(es, es2)
  <2>1. \A e \in Entries : es[e] = [es[e] EXCEPT !.partner = es[e].partner] /\ es[e].partner \in Entries \cup {0}
    BY <1>1, PointsStays
  <2>2. \A e \in Entries : es2[e] = [es[e] EXCEPT !.partner = 0] \/ es2[e] = es[e]
    BY <1>3
  <2>3. \A e \in Entries : \E o \in Entries \cup {0} : es2[e] = [es[e] EXCEPT !.partner = o]
    BY <2>1, <2>2
  <2> QED BY <2>3, <1>3 DEF Repointed
<1>5. /\ es2[a].partner = 0 /\ es2[a].st = es[a].st /\ es2[a].user = es[a].user
      /\ es2[b].partner = 0 /\ es2[b].st = es[b].st /\ es2[b].user = es[b].user
  BY <1>1, <1>3, PartnerSet
<1>6. \A e \in Entries : es[e].partner \in Entries \cup {0}
  BY <1>1, PointsStays
<1>7. Mutual(es2)
  BY <1>0, <1>2, <1>3, <1>5, <1>6 DEF Mutual, Good, Partners
<1>8. Good(es2, ts, kn)
  BY <1>4, <1>7, PartnersChange
<1> QED BY <1>8 DEF es2

\* Disconnect.
LEMMA DisconnectGood ==
  ASSUME Good(entry, txn, known), NEW e \in Entries, Disconnect(e)
  PROVE  Good(entry', txn', known') /\ known' = known /\ told' = told
<1>1. EntryFits(entry[e]) /\ entry[e].st = "live" /\ entry[e].partner # 0
  BY DEF Good, RowsFit, Disconnect, Live
<1>2. entry[e].partner \in Entries
  BY <1>1, PointsStays
<1>3. Good(Points(Points(entry, e, 0), entry[e].partner, 0), txn, known)
  BY <1>1, <1>2, UnpartneredGood DEF Partners
<1> QED BY <1>3 DEF Disconnect

\* CreatePaperDebtTx.
LEMMA CreatePaperDebtGood ==
  ASSUME Good(entry, txn, known), NEW u \in Users, NEW ps \in SUBSET Papers, NEW key \in Keys, NEW date \in Nat,
         CreatePaperDebt(u, ps, key, date)
  PROVE  Good(entry', txn', known') /\ known' = known /\ told' = told
<1> DEFINE e == First(Entries, entry)
           parts == [p \in Papers |-> IF p \in ps THEN Says[p] ELSE 0]
           dir == IF \A p \in ps : Debtor[p] = u THEN "received" ELSE "paid"
           plain == Row(u, "debt", dir, key, PartsSum(parts), date)
           row == OfPaper(plain, parts)
           made == [entry EXCEPT ![e] = row]
           partners == UNION {PartnersFor(u, p) : p \in ps}
<1>0. entry' = IF Cardinality(ps) > 1 \/ partners = {} THEN made ELSE Partnered(made, e, CHOOSE d \in partners : TRUE)
  BY DEF CreatePaperDebt
<1>1. e \in Entries /\ entry[e].st = "new"
  <2>1. Room(Entries, entry) /\ Entries \subseteq Nat
    BY DebtIds DEF CreatePaperDebt
  <2> QED BY <2>1, FirstIs
<1>2. /\ parts \in [Papers -> Nat]
      /\ \A p \in Papers : parts[p] > 0 => p \in ps
  BY DebtPapers
<1>3. EntryFits(plain) /\ plain.st = "live" /\ plain.user = u /\ plain.key = key /\ ~plain.paid /\ plain.partner = 0
  <2>1. dir \in Directions /\ "debt" \in Kinds
    BY DEF Directions, Kinds
  <2> HIDE DEF dir
  <2> QED BY <2>1, RowIsNew
<1> HIDE DEF plain
<1>4. /\ EntryFits(row) /\ row.st = "live" /\ row.user = u /\ row.key = key /\ ~row.paid
      /\ row.partner = 0 /\ row.parts = parts
  <2> HIDE DEF parts
  <2>1. \E t : TxFits(t)
    BY TxRowIsNew, DebtUsers
  <2> QED BY <2>1, <1>2, <1>3, RowsKeep
<1>5. \A f \in Entries, p \in Papers :
        entry[f].st = "live" /\ entry[f].user = u /\ row.parts[p] > 0 => ~(entry[f].parts[p] > 0)
  BY <1>2, <1>4 DEF CreatePaperDebt, PartOn, BookOf, Live
<1>6. key = "contact" => u \in known
  BY DEF CreatePaperDebt
<1> HIDE DEF row, parts, e
<1>8. Good(made, txn, known)
  BY <1>1, <1>4, <1>5, <1>6, RowPut
<1>9. \A f \in Entries : made[f] = IF f = e THEN row ELSE entry[f]
  BY DEF Good, RowsFit
<1>10. ASSUME NEW d \in partners PROVE Good(Partnered(made, e, d), txn, known)
  <2>1. /\ d \in Entries /\ entry[d].st = "live" /\ entry[d].user = Other(u) /\ entry[d].partner = 0
    BY DEF PartnersFor, PartOn, BookOf, Live
  <2>2. d # e /\ made[d] = entry[d] /\ made[e] = row
    BY <2>1, <1>1, <1>9
  <2>3. Other(u) # u
    BY OtherIs
  <2> HIDE DEF made
  <2> QED BY <2>1, <2>2, <2>3, <1>1, <1>4, <1>8, PartneredGood
<1>11. Good(entry', txn, known)
  <2>1. CASE entry' = made
    BY <2>1, <1>8
  <2>2. CASE partners # {} /\ entry' = Partnered(made, e, CHOOSE d \in partners : TRUE)
    <3>1. (CHOOSE d \in partners : TRUE) \in partners
      BY <2>2
    <3> HIDE DEF partners, made
    <3> QED BY <2>2, <3>1, <1>10
  <2> HIDE DEF partners, made
  <2> QED BY <2>1, <2>2, <1>0
<1> QED BY <1>11 DEF CreatePaperDebt

\* LinkPaperPartTx.
LEMMA BookPaybackGood ==
  ASSUME Good(entry, txn, known), told \in Told,
         NEW u \in Users, NEW p \in Papers, NEW key \in Keys, NEW date \in Nat,
         NEW with \in {"none", "tx", "link"}, BookPayback(u, p, key, date, with)
  PROVE  Good(entry', txn', known') /\ known' = known /\ told' \in Told
<1> DEFINE dir == IF Debtor[p] = u THEN "paid" ELSE "received"
<1>1. dir \in Directions /\ "repayment" \in Kinds
  BY DEF Directions, Kinds
<1>2. PICK r \in Inserts(entry, txn, u, "repayment", dir, key, Says[p], date, with) :
        /\ entry' = [r.entry EXCEPT ![r.made] = OfPaper(r.entry[r.made], [r.entry[r.made].parts EXCEPT ![p] = Says[p]])]
        /\ txn' = r.txn
  BY Zenon DEF BookPayback
<1> HIDE DEF dir
<1>3. /\ Good(r.entry, r.txn, known)
      /\ r.made \in Entries /\ entry[r.made].st = "new"
      /\ \A f \in Entries \ {r.made} : r.entry[f] = entry[f]
      /\ r.entry[r.made].st = "live" /\ r.entry[r.made].user = u /\ r.entry[r.made].partner = 0
      /\ r.entry[r.made].parts = [q \in Papers |-> 0]
  BY <1>1, Inserted
<1> DEFINE old == r.entry[r.made]
           parts == [old.parts EXCEPT ![p] = Says[p]]
           row == OfPaper(old, parts)
<1>4. EntryFits(old) /\ parts \in [Papers -> Nat] /\ \A q \in Papers : parts[q] > 0 => q = p
  BY <1>3, DebtPapers DEF Good, RowsFit
<1>5. /\ EntryFits(row) /\ row.st = old.st /\ row.user = old.user /\ row.key = old.key /\ row.paid = old.paid
      /\ row.kind = old.kind /\ row.dir = old.dir /\ row.amount = old.amount /\ row.date = old.date
      /\ row.partner = old.partner /\ row.parts = parts
  <2> HIDE DEF parts, old
  <2>1. \E t : TxFits(t)
    BY TxRowIsNew, DebtUsers
  <2> QED BY <2>1, <1>4, RowsKeep
<1>6. old.st = "live" => (old.paid => old.kind = "debt") /\ (old.key = "contact" => old.user \in known)
  BY <1>3 DEF Good, Labelled
<1>7. \A f \in Entries \ {r.made} : r.entry[f].st = "live" /\ r.entry[f].user = u => ~(r.entry[f].parts[p] > 0)
  BY <1>3 DEF BookPayback, PartOn, BookOf, Live
<1> HIDE DEF row, parts
<1>8. Good([r.entry EXCEPT ![r.made] = row], r.txn, known)
  <2>1. \A q \in Papers : row.parts[q] > 0 =>
           \A f \in Entries \ {r.made} : r.entry[f].st = "live" /\ r.entry[f].user = row.user => ~(r.entry[f].parts[q] > 0)
    BY <1>3, <1>4, <1>5, <1>7
  <2>2. row.st = "live" => (row.paid => row.kind = "debt") /\ (row.key = "contact" => row.user \in known)
    BY <1>5, <1>6
  <2> QED BY <1>3, <1>5, <2>1, <2>2, RowSet
<1>9. known' = known /\ told' \in Told
  BY DEF BookPayback, Told
<1> QED BY <1>2, <1>8, <1>9 DEF row, parts

\* A row and its transaction take another value together.
LEMMA Revalued ==
  ASSUME NEW es, NEW ts, NEW kn, Good(es, ts, kn), NEW e \in Entries, es[e].st = "live",
         NEW row, EntryFits(row), row.st = es[e].st, row.user = es[e].user, row.partner = es[e].partner,
         row.paid => row.kind = "debt", row.key = "contact" => row.user \in kn,
         \A p \in Papers : row.parts[p] > 0 => es[e].parts[p] > 0,
         NEW t \in Txs, ts[t].st = "live", ts[t].source = e,
         NEW x, TxFits(x), x.source = e, x.user = row.user, x.amount = row.amount, x.date = row.date, x.type = TypeOf(row.dir)
  PROVE  Good([es EXCEPT ![e] = row], [ts EXCEPT ![t] = x], kn)
<1>0. 0 \notin Entries
  BY DebtIds
<1> DEFINE ts1 == [ts EXCEPT ![t] = Plain(ts[t])]
           es1 == [es EXCEPT ![e] = row]
<1>1. \A s \in Txs : s # t /\ ts[s].st = "live" => ts[s].source # e
  BY <1>0 DEF Good, OneValue
<1>2. TxFits(Plain(ts[t])) /\ Plain(ts[t]).source = 0
  <2>1. TxFits(ts[t])
    BY DEF Good, RowsFit
  <2> QED BY <2>1, TxsKeep
<1>3. Good(es, ts1, kn)
  BY <1>2, TxPut
<1>4. \A s \in Txs : ts1[s] = IF s = t THEN Plain(ts[t]) ELSE ts[s]
  BY DEF Good, RowsFit
<1>5. \A s \in Txs : ts1[s].st = "live" => ts1[s].source # e
  BY <1>0, <1>1, <1>2, <1>4
<1> HIDE DEF ts1
<1>6. Good(es1, ts1, kn)
  BY <1>3, <1>5, RowSet
<1>7. es1[e] = row
  BY DEF Good, RowsFit
<1> HIDE DEF es1
<1>8. Good(es1, [ts1 EXCEPT ![t] = x], kn)
  BY <1>5, <1>6, <1>7, TxPut
<1>9. [ts1 EXCEPT ![t] = x] = [ts EXCEPT ![t] = x]
  BY DEF ts1, Good, RowsFit
<1> QED BY <1>8, <1>9 DEF es1

\* debtFromPartsTx.
LEMMA FromPartsGood ==
  ASSUME Good(entry, txn, known), NEW e \in Entries, Live(e),
         NEW parts \in [Papers -> Nat], \A p \in Papers : parts[p] > 0 => entry[e].parts[p] > 0,
         FromParts(e, parts)
  PROVE  Good(entry', txn', known)
<1> DEFINE amount == IF {p \in Papers : parts[p] > 0} = {} THEN entry[e].amount ELSE PartsSum(parts)
           row == WithParts(entry[e], parts, amount)
<1>1. /\ entry' = [entry EXCEPT ![e] = row]
      /\ txn' = [t \in Txs |-> IF t \in TxOf(e) THEN [txn[t] EXCEPT !.amount = amount] ELSE txn[t]]
  BY DEF FromParts
<1> HIDE DEF amount
<1>2. EntryFits(entry[e]) /\ entry[e].st = "live" /\ txn = [t \in Txs |-> txn[t]] /\ \A t \in Txs : TxFits(txn[t])
  BY DEF Good, RowsFit, Live
<1>3. /\ EntryFits(row) /\ row.st = entry[e].st /\ row.user = entry[e].user /\ row.partner = entry[e].partner
      /\ row.paid = entry[e].paid /\ row.kind = entry[e].kind /\ row.key = entry[e].key /\ row.dir = entry[e].dir
      /\ row.date = entry[e].date /\ row.parts = parts /\ row.amount = amount
  <2> DEFINE old == entry[e]
  <2>1. \E t : TxFits(t)
    BY TxRowIsNew, DebtUsers
  <2>2. EntryFits(old)
    BY <1>2
  <2>3. row = WithParts(old, parts, amount)
    OBVIOUS
  <2> HIDE DEF old, row
  <2>4. /\ EntryFits(row) /\ row.st = old.st /\ row.user = old.user /\ row.partner = old.partner
        /\ row.paid = old.paid /\ row.kind = old.kind /\ row.key = old.key /\ row.dir = old.dir
        /\ row.date = old.date /\ row.parts = parts /\ row.amount = amount
    BY <2>1, <2>2, <2>3, RowsKeep
  <2> QED BY <2>4, Zenon DEF old
<1>4. (row.paid => row.kind = "debt") /\ (row.key = "contact" => row.user \in known)
  BY <1>2, <1>3 DEF Good, Labelled
<1> HIDE DEF row
<1>5. CASE TxOf(e) = {}
  <2>1. \A t \in Txs : txn[t].st = "live" => txn[t].source # e
    BY <1>5 DEF TxOf
  <2>2. txn' = txn
    BY <1>1, <1>2, <1>5
  <2>3. Good([entry EXCEPT ![e] = row], txn, known)
    BY <1>3, <1>4, <2>1, RowSet
  <2> QED BY <1>1, <2>2, <2>3
<1>6. ASSUME NEW t \in TxOf(e) PROVE Good(entry', txn', known)
  <2> DEFINE x == [txn[t] EXCEPT !.amount = amount]
  <2>0. 0 \notin Entries
    BY DebtIds
  <2>1. t \in Txs /\ txn[t].st = "live" /\ txn[t].source = e
    BY DEF TxOf
  <2>2. TxOf(e) = {t}
    BY <2>0, <2>1 DEF TxOf, Good, OneValue
  <2>3. txn[t].user = entry[e].user /\ txn[t].date = entry[e].date /\ txn[t].type = TypeOf(entry[e].dir)
    BY <2>0, <2>1 DEF Good, OneValue
  <2>4. /\ TxFits(x) /\ x.amount = amount /\ x.user = txn[t].user /\ x.type = txn[t].type /\ x.date = txn[t].date
        /\ x.source = e
    BY <1>2, <2>1, TxAmountSet
  <2>5. txn' = [txn EXCEPT ![t] = x]
    BY <1>1, <1>2, <2>1, <2>2
  <2> HIDE DEF x
  <2>6. Good([entry EXCEPT ![e] = row], [txn EXCEPT ![t] = x], known)
    BY <1>2, <1>3, <1>4, <2>1, <2>3, <2>4, Revalued
  <2> QED BY <1>1, <2>5, <2>6
<1> QED BY <1>5, <1>6

\* SetPaperPartAmountTx and DropPaperPartTx.
LEMMA PaperPartGood ==
  ASSUME Good(entry, txn, known), NEW e \in Entries, NEW p \in Papers,
         \/ \E a \in Amounts : SetPaperPart(e, p, a)
         \/ DropPaperPart(e, p)
  PROVE  Good(entry', txn', known') /\ known' = known /\ told' = told
<1>1. PICK a \in Amounts \cup {0} : FromParts(e, [entry[e].parts EXCEPT ![p] = a])
  BY Zenon DEF SetPaperPart, DropPaperPart
<1>2. Live(e) /\ entry[e].parts[p] > 0 /\ known' = known /\ told' = told
  BY DEF SetPaperPart, DropPaperPart
<1> DEFINE parts == [entry[e].parts EXCEPT ![p] = a]
<1>3. entry[e].parts \in [Papers -> Nat]
  BY DEF Good, RowsFit, EntryFits, EntryType
<1>4. parts \in [Papers -> Nat] /\ \A q \in Papers : parts[q] > 0 => entry[e].parts[q] > 0
  BY <1>2, <1>3, DebtScenes
<1> HIDE DEF parts
<1>5. FromParts(e, parts)
  BY <1>1 DEF parts
<1> QED BY <1>2, <1>4, <1>5, FromPartsGood

\* Rows go: their partners and transactions let go of them.
LEMMA RemovedGood ==
  ASSUME Good(entry, txn, known), NEW es \in SUBSET Entries,
         NEW ts, ts = [t \in Txs |-> ts[t]], \A t \in Txs : TxFits(ts[t]),
         \A t \in Txs : ts[t].st = "live" =>
           /\ txn[t].st = "live" /\ ts[t].user = txn[t].user /\ ts[t].type = txn[t].type
           /\ ts[t].amount = txn[t].amount /\ ts[t].date = txn[t].date /\ ts[t].crossed = txn[t].crossed
           /\ ts[t].source = txn[t].source \/ ts[t].source = 0
           /\ ts[t].source \notin es
  PROVE  Good(WithoutEntries(es), ts, known)
<1>0. 0 \notin Entries
  BY DebtIds
<1> DEFINE es2 == WithoutEntries(es)
<1>1. es2 = [x \in Entries |-> es2[x]]
  BY DEF WithoutEntries
<1>2. ASSUME NEW x \in Entries
      PROVE  /\ EntryFits(entry[x]) /\ EntryFits(es2[x])
             /\ entry[x].partner \in Entries \cup {0}
             /\ x \in es => es2[x].st = "gone"
             /\ x \notin es => /\ es2[x].st = entry[x].st /\ es2[x].user = entry[x].user /\ es2[x].amount = entry[x].amount
                               /\ es2[x].date = entry[x].date /\ es2[x].dir = entry[x].dir /\ es2[x].parts = entry[x].parts
                               /\ es2[x].key = entry[x].key /\ es2[x].kind = entry[x].kind
                               /\ es2[x].paid => entry[x].paid
                               /\ es2[x].partner = IF entry[x].partner \in es THEN 0 ELSE entry[x].partner
  <2>1. EntryFits(entry[x])
    BY DEF Good, RowsFit
  <2>2. \/ x \in es /\ es2[x] = Gone
        \/ x \notin es /\ entry[x].partner \notin es /\ es2[x] = entry[x]
        \/ x \notin es /\ entry[x].partner \in es /\ es2[x] = [entry[x] EXCEPT !.partner = 0]
    BY DEF WithoutEntries
  <2>3. entry[x].partner \in Entries \cup {0}
    BY <2>1, PointsStays
  <2> HIDE DEF es2
  <2>4. CASE x \in es /\ es2[x] = Gone
    BY <2>4, <2>1, <2>3, GoneIs
  <2>5. CASE x \notin es /\ entry[x].partner \notin es /\ es2[x] = entry[x]
    <3>1. es2[x].paid => entry[x].paid
      BY <2>5, Zenon
    <3> QED BY <2>5, <3>1, <2>1, <2>3
  <2>6. CASE x \notin es /\ entry[x].partner \in es /\ es2[x] = [entry[x] EXCEPT !.partner = 0]
    <3>1. 0 \in Entries \cup {0}
      OBVIOUS
    <3>2. es2[x].paid => entry[x].paid
      BY <2>6, <2>1, <3>1, PartnerSet
    <3> QED BY <2>6, <2>1, <2>3, <3>1, <3>2, PartnerSet
  <2> QED BY <2>2, <2>4, <2>5, <2>6
<1> HIDE DEF es2
<1>3. RowsFit(es2, ts)
  BY <1>1, <1>2 DEF RowsFit
<1>4. Labelled(es2, known)
  BY <1>2 DEF Good, Labelled
<1>5. PartsOnce(es2)
  BY <1>2 DEF Good, PartsOnce
<1>6. Mutual(es2)
  BY <1>0, <1>2 DEF Good, Mutual
<1>7. OneValue(es2, ts)
  <2>1. \A t \in Txs : txn[t].source \in Entries \cup {0}
    BY DEF Good, RowsFit, TxFits, TxType
  <2>2. OneValue(entry, txn)
    BY DEF Good
  <2> QED BY <1>0, <1>2, <2>1, <2>2 DEF OneValue
<1> QED BY <1>3, <1>4, <1>5, <1>6, <1>7 DEF Good, es2

\* UnlinkPaperDebtTx.
LEMMA UnlinkPaperDebtGood ==
  ASSUME Good(entry, txn, known), NEW e \in Entries, UnlinkPaperDebt(e)
  PROVE  Good(entry', txn', known') /\ known' = known /\ told' = told
<1>0. 0 \notin Entries
  BY DebtIds
<1> DEFINE es2 == [x \in Entries |->
       IF x = e THEN OffPaper(entry[e])
       ELSE IF entry[x].partner = e THEN [entry[x] EXCEPT !.partner = 0] ELSE entry[x]]
<1>1. ASSUME NEW x \in Entries
      PROVE  /\ EntryFits(es2[x]) /\ entry[x].partner \in Entries \cup {0}
             /\ es2[x].st = entry[x].st /\ es2[x].user = entry[x].user /\ es2[x].amount = entry[x].amount
             /\ es2[x].date = entry[x].date /\ es2[x].dir = entry[x].dir
             /\ \A p \in Papers : es2[x].parts[p] > 0 => entry[x].parts[p] > 0
             /\ es2[x].key = entry[x].key /\ es2[x].kind = entry[x].kind
             /\ es2[x].paid => entry[x].paid
             /\ es2[x].partner = IF x = e \/ entry[x].partner = e THEN 0 ELSE entry[x].partner
  <2>1. EntryFits(entry[x])
    BY DEF Good, RowsFit
  <2>2. \/ x = e /\ es2[x] = OffPaper(entry[x])
        \/ x # e /\ entry[x].partner # e /\ es2[x] = entry[x]
        \/ x # e /\ entry[x].partner = e /\ es2[x] = [entry[x] EXCEPT !.partner = 0]
    OBVIOUS
  <2>3. entry[x].partner \in Entries \cup {0}
    BY <2>1, PointsStays
  <2> DEFINE new == es2[x]
             old == entry[x]
  <2> HIDE DEF new, old
  <2>4. CASE x = e /\ new = OffPaper(old)
    <3>1. \E t : TxFits(t)
      BY TxRowIsNew, DebtUsers
    <3>2. EntryFits(old) /\ (\E parts : parts \in [Papers -> Nat])
      BY <2>1 DEF old, EntryFits, EntryType
    <3>3. /\ EntryFits(new) /\ new.st = old.st /\ new.user = old.user /\ new.amount = old.amount
          /\ new.date = old.date /\ new.dir = old.dir /\ new.parts = [p \in Papers |-> 0]
          /\ new.key = old.key /\ new.kind = old.kind /\ new.paid = old.paid /\ new.partner = 0
      BY <2>4, <3>1, <3>2, RowsKeep
    <3>4. \A p \in Papers : ~(new.parts[p] > 0)
      BY <3>3
    <3>5. new.paid => old.paid
      BY <3>3, Zenon
    <3> QED BY <2>4, <3>3, <3>4, <3>5, <2>3 DEF new, old
  <2>5. CASE x # e /\ old.partner # e /\ new = old
    <3>1. new.paid => old.paid
      BY <2>5, Zenon
    <3> QED BY <2>5, <3>1, <2>1, <2>3 DEF new, old
  <2>6. CASE x # e /\ old.partner = e /\ new = [old EXCEPT !.partner = 0]
    <3>1. 0 \in Entries \cup {0} /\ EntryFits(old)
      BY <2>1 DEF old
    <3>2. new.paid => old.paid
      BY <2>6, <3>1, PartnerSet
    <3>3. /\ EntryFits(new) /\ new.st = old.st /\ new.user = old.user /\ new.amount = old.amount
          /\ new.date = old.date /\ new.dir = old.dir /\ new.parts = old.parts
          /\ new.key = old.key /\ new.kind = old.kind /\ new.partner = 0
      BY <2>6, <3>1, PartnerSet
    <3> QED BY <2>6, <2>3, <3>2, <3>3 DEF new, old
  <2> QED BY <2>2, <2>4, <2>5, <2>6 DEF new, old
<1>2. es2 = [x \in Entries |-> es2[x]] /\ entry' = es2 /\ UNCHANGED <<txn, known, told>>
  BY DEF UnlinkPaperDebt
<1> HIDE DEF es2
<1>3. Labelled(es2, known)
  BY <1>1 DEF Good, Labelled
<1>4. Mutual(es2)
  BY <1>0, <1>1 DEF Good, Mutual
<1>5. Good(es2, txn, known)
  BY <1>1, <1>2, <1>3, <1>4, RowsChange
<1> QED BY <1>2, <1>5

\* DeleteEntryTx and DeleteEntry.
LEMMA DeletesGood ==
  ASSUME Good(entry, txn, known), told \in Told, NEW e \in Entries,
         DeletePaperEntry(e) \/ \E u \in Users : DeleteEntry(u, e)
  PROVE  Good(entry', txn', known') /\ known' = known /\ told' \in Told
<1>0. 0 \notin Entries
  BY DebtIds
<1>1. /\ entry' = WithoutEntries({e}) /\ known' = known /\ told' \in Told
      /\ txn' = [t \in Txs |-> txn'[t]]
      /\ \A t \in Txs : \/ t \notin TxOf(e) /\ txn'[t] = txn[t]
                        \/ txn'[t] = [NoTx EXCEPT !.st = "gone"]
                        \/ t \in TxOf(e) /\ txn'[t] = Plain(txn[t])
  BY DEF DeletePaperEntry, DeleteEntry, Told
<1>2. ASSUME NEW t \in Txs
      PROVE  /\ TxFits(txn'[t])
             /\ txn'[t].st = "live" =>
                  /\ txn[t].st = "live" /\ txn'[t].user = txn[t].user /\ txn'[t].type = txn[t].type
                  /\ txn'[t].amount = txn[t].amount /\ txn'[t].date = txn[t].date /\ txn'[t].crossed = txn[t].crossed
                  /\ txn'[t].source = txn[t].source \/ txn'[t].source = 0
                  /\ txn'[t].source \notin {e}
  <2>1. TxFits(txn[t])
    BY DEF Good, RowsFit
  <2>2. CASE t \notin TxOf(e) /\ txn'[t] = txn[t]
    BY <2>1, <2>2 DEF TxOf
  <2>3. CASE txn'[t] = [NoTx EXCEPT !.st = "gone"]
    <3>1. TxFits(txn'[t]) /\ txn'[t].st = "gone"
      BY <2>3, TxGone, Zenon
    <3> QED BY <3>1
  <2>4. CASE t \in TxOf(e) /\ txn'[t] = Plain(txn[t])
    <3>1. \E r : EntryFits(r)
      BY GoneIs
    <3> QED BY <1>0, <2>1, <2>4, <3>1, TxsKeep DEF TxOf
  <2> QED BY <1>1, <2>2, <2>3, <2>4
<1>3. Good(WithoutEntries({e}), txn', known)
  BY <1>1, <1>2, RemovedGood
<1> QED BY <1>1, <1>3

\* Delete of a transaction, with the entry it read, whatever that row is now.
LEMMA DeleteTxGood ==
  ASSUME Good(entry, txn, known), told \in Told, NEW t \in Txs, NEW source \in Entries \cup {0}, DeleteTx(t, source)
  PROVE  Good(entry', txn', known') /\ known' = known /\ told' \in Told
<1>0. 0 \notin Entries
  BY DebtIds
<1> DEFINE es == {e \in {source} \ {0} : Live(e) /\ entry[e].user = txn[t].user}
           ts == [txn EXCEPT ![t] = [NoTx EXCEPT !.st = "gone"]]
<1>1. /\ entry' = IF es = {} THEN entry ELSE WithoutEntries(es)
      /\ txn' = LetGo(ts, es) /\ known' = known /\ told' \in Told
  BY DEF DeleteTx, Told
<1>2. es \in SUBSET Entries
  OBVIOUS
<1>3. \A s \in Txs : ts[s] = IF s = t THEN [NoTx EXCEPT !.st = "gone"] ELSE txn[s]
  BY DEF Good, RowsFit
<1>4. txn' = [s \in Txs |-> IF ts[s].source \in es THEN [ts[s] EXCEPT !.source = 0] ELSE ts[s]]
  BY <1>1 DEF LetGo
<1>5. Good(entry, ts, known)
  <2> DEFINE x == [NoTx EXCEPT !.st = "gone"]
  <2>1. TxFits(x) /\ x.st = "gone"
    BY TxGone
  <2> HIDE DEF x
  <2>2. Good(entry, [txn EXCEPT ![t] = x], known)
    BY <2>1, TxPut
  <2> QED BY <2>2 DEF x
<1>6. \A s \in Txs : ts[s].st = "live" => s # t
  <2>1. ts[t].st = "gone"
    BY <1>3, TxGone, Zenon
  <2> QED BY <2>1
<1>7. ts = [s \in Txs |-> ts[s]] /\ \A s \in Txs : TxFits(ts[s])
  BY <1>5 DEF Good, RowsFit
<1> HIDE DEF ts, es
<1>8. CASE es = {}
  <2>1. txn' = ts
    BY <1>4, <1>7, <1>8
  <2> QED BY <1>1, <1>5, <1>8, <2>1
<1>9. CASE es # {}
  <2>1. ASSUME NEW s \in Txs
        PROVE  /\ TxFits(txn'[s])
               /\ txn'[s].st = "live" =>
                  /\ txn[s].st = "live" /\ txn'[s].user = txn[s].user /\ txn'[s].type = txn[s].type
                  /\ txn'[s].amount = txn[s].amount /\ txn'[s].date = txn[s].date /\ txn'[s].crossed = txn[s].crossed
                  /\ txn'[s].source = txn[s].source \/ txn'[s].source = 0
                  /\ txn'[s].source \notin es
    <3>1. TxFits(ts[s])
      BY <1>7
    <3>2. CASE ts[s].source \notin es
      <4>1. txn'[s] = ts[s]
        BY <3>2, <1>4
      <4> QED BY <3>1, <3>2, <4>1, <1>3, <1>6
    <3>3. CASE ts[s].source \in es
      <4>1. txn'[s] = [ts[s] EXCEPT !.source = 0]
        BY <3>3, <1>4
      <4>2. /\ TxFits(txn'[s]) /\ txn'[s].source = 0 /\ txn'[s].amount = ts[s].amount /\ txn'[s].crossed = ts[s].crossed
            /\ txn'[s].st = ts[s].st /\ txn'[s].user = ts[s].user /\ txn'[s].type = ts[s].type /\ txn'[s].date = ts[s].date
        BY <3>1, <4>1, TxSourceSet
      <4> QED BY <4>2, <1>0, <1>2, <1>3, <1>6
    <3> QED BY <3>2, <3>3
  <2>2. txn' = [s \in Txs |-> txn'[s]]
    BY <1>4
  <2>3. Good(WithoutEntries(es), txn', known)
    BY <1>2, <2>1, <2>2, RemovedGood
  <2> QED BY <1>1, <1>9, <2>3
<1> QED BY <1>8, <1>9

\* LinkTx.
LEMMA LinkTxGood ==
  ASSUME Good(entry, txn, known), told \in Told, NEW u \in Users, NEW e \in Entries, NEW t \in Txs, LinkTx(u, e, t)
  PROVE  Good(entry', txn', known') /\ known' = known /\ told' \in Told
<1> DEFINE old == entry[e]
           row == Valued(old, txn[t])
           x == Connected(txn[t], e)
<1>1. /\ old.st = "live" /\ old.user = u /\ TxOf(e) = {}
      /\ txn[t].st = "live" /\ txn[t].user = u /\ txn[t].source = 0 /\ txn[t].type = TypeOf(old.dir)
      /\ entry' = [entry EXCEPT ![e] = row] /\ txn' = [txn EXCEPT ![t] = x] /\ known' = known /\ told' \in Told
  BY DEF LinkTx, BookOf, Live, Linkable, Told
<1>2. EntryFits(old) /\ TxFits(txn[t])
  BY DEF Good, RowsFit
<1>3. (old.paid => old.kind = "debt") /\ (old.key = "contact" => old.user \in known)
  BY <1>1 DEF Good, Labelled
<1> HIDE DEF old
<1>4. /\ EntryFits(row) /\ row.st = old.st /\ row.user = old.user /\ row.kind = old.kind /\ row.dir = old.dir
      /\ row.key = old.key /\ row.paid = old.paid /\ row.partner = old.partner
      /\ row.amount = txn[t].amount /\ row.date = txn[t].date /\ row.parts = old.parts
  <2>1. \E parts : parts \in [Papers -> Nat]
    BY <1>2 DEF EntryFits, EntryType
  <2> QED BY <1>2, <2>1, RowsKeep
<1>5. /\ TxFits(x) /\ x.st = txn[t].st /\ x.user = txn[t].user /\ x.type = txn[t].type
      /\ x.amount = txn[t].amount /\ x.date = txn[t].date /\ x.source = e
  BY <1>2, TxsKeep
<1>6. (row.paid => row.kind = "debt") /\ (row.key = "contact" => row.user \in known)
  BY <1>3, <1>4
<1>7. \A s \in Txs : txn[s].st = "live" => txn[s].source # e
  BY <1>1 DEF TxOf
<1>8. row.st = entry[e].st /\ row.user = entry[e].user /\ row.partner = entry[e].partner /\ row.parts = entry[e].parts
  BY <1>4 DEF old
<1> HIDE DEF row, x
<1>9. Good([entry EXCEPT ![e] = row], txn, known)
  BY <1>4, <1>6, <1>7, <1>8, RowSet
<1>10. [entry EXCEPT ![e] = row][e] = row
  BY DEF Good, RowsFit
<1>11. Good([entry EXCEPT ![e] = row], [txn EXCEPT ![t] = x], known)
  <2> DEFINE es1 == [entry EXCEPT ![e] = row]
  <2>1. /\ row.st = "live" /\ row.user = x.user /\ row.amount = x.amount /\ row.date = x.date
        /\ x.type = TypeOf(row.dir)
    BY <1>1, <1>4, <1>5
  <2>2. Good(es1, txn, known) /\ es1[x.source] = row
    BY <1>5, <1>9, <1>10
  <2>3. \A s \in Txs : s # t /\ txn[s].st = "live" => txn[s].source # x.source
    BY <1>5, <1>7
  <2> HIDE DEF es1
  <2>4. Good(es1, [txn EXCEPT ![t] = x], known)
    BY <1>5, <2>1, <2>2, <2>3, TxPut
  <2> QED BY <2>4 DEF es1
<1> QED BY <1>1, <1>11

\* UnlinkTx.
LEMMA UnlinkTxGood ==
  ASSUME Good(entry, txn, known), NEW u \in Users, NEW e \in Entries, UnlinkTx(u, e)
  PROVE  Good(entry', txn', known') /\ known' = known /\ told' = told
<1>1. PICK t \in Txs : txn' = [txn EXCEPT ![t] = Plain(txn[t])]
  BY DEF UnlinkTx, TxOf
<1>2. TxFits(Plain(txn[t])) /\ Plain(txn[t]).source = 0
  <2>1. TxFits(txn[t]) /\ \E r : EntryFits(r)
    BY GoneIs DEF Good, RowsFit
  <2> QED BY <2>1, TxsKeep
<1>3. Good(entry, [txn EXCEPT ![t] = Plain(txn[t])], known)
  BY <1>2, TxPut
<1> QED BY <1>1, <1>3 DEF UnlinkTx

\* A plain transaction.
LEMMA PlainTxGood ==
  ASSUME Good(entry, txn, known), NEW u \in Users, NEW type \in {"expense", "income"}, NEW amount, NEW date \in Nat,
         PlainTx(u, type, amount, date)
  PROVE  Good(entry', txn', known') /\ known' = known /\ told' = told
<1> DEFINE x == TxRow(u, type, amount, date, 0)
           t == First(Txs, txn)
<1>1. t \in Txs
  <2>1. Room(Txs, txn) /\ Txs \subseteq Nat
    BY DebtIds DEF PlainTx
  <2> QED BY <2>1, FirstIs
<1>2. TxFits(x) /\ x.source = 0
  BY TxRowIsNew
<1>3. txn' = [txn EXCEPT ![t] = x] /\ UNCHANGED <<entry, known, told>>
  BY DEF PlainTx
<1> HIDE DEF x, t
<1>4. Good(entry, [txn EXCEPT ![t] = x], known)
  BY <1>1, <1>2, TxPut
<1> QED BY <1>3, <1>4

\* Update of a transaction, and of the entry behind it.
LEMMA EditTxGood ==
  ASSUME Good(entry, txn, known), told \in Told, NEW t \in Txs, NEW by, NEW amount, EditTx(t, by, amount)
  PROVE  Good(entry', txn', known') /\ known' = known /\ told' \in Told
<1>0. 0 \notin Entries
  BY DebtIds
<1> DEFINE c == txn[t].source # 0 /\ by # txn[t].user
           x == [txn[t] EXCEPT !.amount = amount, !.crossed = c]
           v == [txn[t] EXCEPT !.amount = amount]
           e == txn[t].source
           row == Valued(entry[e], v)
<1>1. txn[t].st = "live" /\ txn' = [txn EXCEPT ![t] = x] /\ entry' = TxEdited(t, by, amount) /\ known' = known /\ told' \in Told
  <2>1. txn' = [txn EXCEPT ![t].amount = amount, ![t].crossed = c]
    BY DEF EditTx
  <2>2. txn' = [txn EXCEPT ![t] = x]
    BY <2>1 DEF Good, RowsFit
  <2> QED BY <2>2 DEF EditTx, Told
<1>2. TxFits(txn[t]) /\ entry = [f \in Entries |-> entry[f]] /\ \A f \in Entries : EntryFits(entry[f])
  BY DEF Good, RowsFit
<1>3. e \in Entries \cup {0}
  BY <1>2 DEF TxFits, TxType
<1>4. /\ TxFits(x) /\ x.amount = amount /\ x.crossed = c /\ x.st = txn[t].st /\ x.user = txn[t].user /\ x.type = txn[t].type
      /\ x.date = txn[t].date /\ x.source = txn[t].source
  <2>1. c \in BOOLEAN /\ x = [txn[t] EXCEPT !.amount = amount, !.crossed = c]
    OBVIOUS
  <2> HIDE DEF c, x
  <2> QED BY <1>2, <2>1 DEF TxFits, TxType
<1>4a. TxFits(v) /\ v.amount = amount /\ v.date = txn[t].date
  BY <1>2, TxAmountSet
<1>5. entry' = [f \in Entries |-> IF Live(f) /\ e = f /\ entry[f].user = by THEN Valued(entry[f], v) ELSE entry[f]]
  BY <1>1 DEF TxEdited
<1>5a. x.crossed <=> (e # 0 /\ by # txn[t].user)
  BY <1>4
<1> HIDE DEF x, v, c
<1>6. CASE e = 0
  <2>1. entry' = entry
    BY <1>0, <1>2, <1>5, <1>6
  <2>2. Good(entry, [txn EXCEPT ![t] = x], known)
    BY <1>4, <1>6, TxPut
  <2> QED BY <1>1, <2>1, <2>2
<1>7. CASE e # 0 /\ by # txn[t].user
  <2>1. /\ e \in Entries /\ entry[e].st = "live" /\ entry[e].user = txn[t].user
        /\ entry[e].date = txn[t].date /\ txn[t].type = TypeOf(entry[e].dir)
        /\ \A s \in Txs : s # t /\ txn[s].st = "live" => txn[s].source # e
    BY <1>1, <1>3, <1>7 DEF Good, OneValue
  <2>2. entry' = entry
    BY <1>2, <1>5, <1>7, <2>1
  <2>3. x.crossed /\ x.source = e /\ x.user = txn[t].user /\ x.date = txn[t].date /\ x.type = txn[t].type
    BY <1>4, <1>5a, <1>7
  <2> HIDE DEF e
  <2>4. Good(entry, [txn EXCEPT ![t] = x], known)
    BY <1>4, <2>1, <2>3, TxPut
  <2> QED BY <1>1, <2>2, <2>4
<1>8. CASE e # 0 /\ by = txn[t].user
  <2>1. /\ e \in Entries /\ entry[e].st = "live" /\ entry[e].user = txn[t].user
        /\ entry[e].date = txn[t].date /\ txn[t].type = TypeOf(entry[e].dir)
    BY <1>1, <1>3, <1>8 DEF Good, OneValue
  <2> DEFINE old == entry[e]
  <2>2. EntryFits(old) /\ (old.paid => old.kind = "debt") /\ (old.key = "contact" => old.user \in known)
    BY <1>2, <2>1 DEF Good, Labelled
  <2>3. row = Valued(old, v)
    OBVIOUS
  <2> HIDE DEF old, row
  <2>4. /\ EntryFits(row) /\ row.st = old.st /\ row.user = old.user /\ row.kind = old.kind /\ row.dir = old.dir
        /\ row.key = old.key /\ row.paid = old.paid /\ row.partner = old.partner
        /\ row.amount = amount /\ row.date = txn[t].date /\ row.parts = old.parts
    <3>1. \E parts : parts \in [Papers -> Nat]
      BY <2>2 DEF EntryFits, EntryType
    <3> QED BY <1>4a, <2>2, <2>3, <3>1, RowsKeep
  <2>5. (row.paid => row.kind = "debt") /\ (row.key = "contact" => row.user \in known)
    BY <2>2, <2>4
  <2>6. /\ row.st = entry[e].st /\ row.user = entry[e].user /\ row.partner = entry[e].partner
        /\ row.parts = entry[e].parts /\ row.dir = entry[e].dir
    BY <2>4 DEF old
  <2>7. entry' = [entry EXCEPT ![e] = row]
    BY <1>2, <1>5, <1>8, <2>1 DEF row, Live
  <2>8. /\ TxFits(x) /\ x.source = e /\ x.user = row.user /\ x.amount = row.amount /\ x.date = row.date /\ x.type = TypeOf(row.dir)
    BY <1>4, <2>1, <2>4, <2>6
  <2> HIDE DEF e
  <2>9. txn[t].source = e
    BY DEF e
  <2>10. Good([entry EXCEPT ![e] = row], [txn EXCEPT ![t] = x], known)
    BY <1>1, <2>1, <2>4, <2>5, <2>6, <2>8, <2>9, Revalued
  <2> QED BY <1>1, <2>7, <2>10
<1> QED BY <1>6, <1>7, <1>8

Keyed(u, k) == [e \in Entries |-> IF e \in BookOf(u) THEN [entry[e] EXCEPT !.key = k] ELSE entry[e]]

\* AbsorbForContact and RestoreOnContactDeleteTx: the keys of one book.
LEMMA KeysGood ==
  ASSUME Good(entry, txn, known), NEW u \in Users, NEW k \in Keys, NEW kn, \A o \in known : o # u => o \in kn,
         k = "contact" => u \in kn,
         entry' = Keyed(u, k)
  PROVE  Good(entry', txn, kn)
<1>1. ASSUME NEW e \in Entries
      PROVE  /\ EntryFits(entry'[e]) /\ entry[e].partner \in Entries \cup {0}
             /\ entry'[e].st = entry[e].st /\ entry'[e].user = entry[e].user /\ entry'[e].amount = entry[e].amount
             /\ entry'[e].date = entry[e].date /\ entry'[e].dir = entry[e].dir /\ entry'[e].parts = entry[e].parts
             /\ entry'[e].partner = entry[e].partner /\ entry'[e].kind = entry[e].kind
             /\ entry'[e].paid => entry[e].paid
             /\ entry[e].st = "live" => entry'[e].key = IF entry[e].user = u THEN k ELSE entry[e].key
  <2>1. EntryFits(entry[e])
    BY DEF Good, RowsFit
  <2>2. \/ entry[e].st = "live" /\ entry[e].user = u /\ entry'[e] = [entry[e] EXCEPT !.key = k]
        \/ ~(entry[e].st = "live" /\ entry[e].user = u) /\ entry'[e] = entry[e]
    BY DEF BookOf, Live, Keyed
  <2>3. entry[e].partner \in Entries \cup {0}
    BY <2>1, PointsStays
  <2>4. CASE entry[e].st = "live" /\ entry[e].user = u /\ entry'[e] = [entry[e] EXCEPT !.key = k]
    <3>1. entry'[e].paid => entry[e].paid
      BY <2>1, <2>4, KeySet
    <3> QED BY <2>1, <2>3, <2>4, <3>1, KeySet
  <2>5. CASE ~(entry[e].st = "live" /\ entry[e].user = u) /\ entry'[e] = entry[e]
    <3>1. entry'[e].paid => entry[e].paid
      BY <2>5, Zenon
    <3> QED BY <2>1, <2>3, <2>5, <3>1
  <2> QED BY <2>2, <2>4, <2>5
<1>2. entry' = [e \in Entries |-> entry'[e]]
  BY DEF Keyed
<1>3. Labelled(entry', kn)
  BY <1>1 DEF Good, Labelled
<1>4. Mutual(entry')
  BY <1>1 DEF Good, Mutual
<1> QED BY <1>1, <1>2, <1>3, <1>4, RowsChange

\* What an update may ask is a row of the same book, partner and parts.
LEMMA EditsKeep ==
  ASSUME NEW e, EntryFits(entry[e]), NEW next \in Edits(e) \cup {entry[e]}
  PROVE  /\ EntryFits(next) /\ next.st = entry[e].st /\ next.user = entry[e].user /\ next.partner = entry[e].partner
         /\ next.parts = entry[e].parts /\ next.kind = entry[e].kind
         /\ next.paid => entry[e].paid \/ entry[e].kind = "debt"
<1> DEFINE old == entry[e]
<1>1. \/ next = old
      \/ \E a \in Amounts : next = [old EXCEPT !.amount = a]
      \/ \E d \in Dates : next = [old EXCEPT !.date = d]
      \/ \E d \in Directions : next = [old EXCEPT !.dir = d]
      \/ \E k \in Keys : next = [old EXCEPT !.key = k]
      \/ old.kind = "debt" /\ next = [old EXCEPT !.paid = TRUE]
  BY DEF Edits, Keys
<1>2. EntryFits(old)
  OBVIOUS
<1> HIDE DEF old
<1> DEFINE Kept == /\ EntryFits(next) /\ next.st = old.st /\ next.user = old.user /\ next.partner = old.partner
                   /\ next.parts = old.parts /\ next.kind = old.kind
                   /\ next.paid => old.paid \/ old.kind = "debt"
<1>3. ASSUME next = old PROVE Kept
  <2>1. next.paid => old.paid
    BY <1>3, Zenon
  <2> QED BY <1>2, <1>3, <2>1, Zenon
<1>4. ASSUME NEW a \in Amounts, next = [old EXCEPT !.amount = a] PROVE Kept
  <2>1. next.paid => old.paid
    BY <1>2, <1>4, AmountSet
  <2> QED BY <1>2, <1>4, <2>1, AmountSet
<1>5. ASSUME NEW d \in Dates, next = [old EXCEPT !.date = d] PROVE Kept
  <2>1. d \in Nat
    BY DebtScenes
  <2>2. next.paid => old.paid
    BY <1>2, <1>5, <2>1, DateSet
  <2> QED BY <1>2, <1>5, <2>1, <2>2, DateSet
<1>6. ASSUME NEW d \in Directions, next = [old EXCEPT !.dir = d] PROVE Kept
  <2>1. next.paid => old.paid
    BY <1>2, <1>6, DirSet
  <2> QED BY <1>2, <1>6, <2>1, DirSet
<1>7. ASSUME NEW k \in Keys, next = [old EXCEPT !.key = k] PROVE Kept
  <2>1. next.paid => old.paid
    BY <1>2, <1>7, KeySet
  <2> QED BY <1>2, <1>7, <2>1, KeySet
<1>8. ASSUME old.kind = "debt" /\ next = [old EXCEPT !.paid = TRUE] PROVE Kept
  <2>1. /\ EntryFits(next) /\ next.st = old.st /\ next.user = old.user /\ next.partner = old.partner
        /\ next.parts = old.parts /\ next.kind = old.kind
    BY <1>2, <1>8, PaidSet
  <2> QED BY <2>1, <1>8, Zenon
<1> HIDE DEF Kept
<1>9. Kept
  BY <1>1, <1>3, <1>4, <1>5, <1>6, <1>7, <1>8
<1> QED BY <1>9, Zenon DEF old, Kept

\* UpdateEntry, and the transaction it makes, carries along or drops.
LEMMA UpdateEntryGood ==
  ASSUME Good(entry, txn, known), told \in Told, NEW u \in Users, NEW e \in Entries,
         NEW next \in Edits(e) \cup {entry[e]}, NEW wantTx \in BOOLEAN, UpdateEntry(u, e, next, wantTx)
  PROVE  Good(entry', txn', known') /\ known' = known /\ told' \in Told
<1>0. 0 \notin Entries
  BY DebtIds
<1>1. /\ entry[e].st = "live" /\ entry[e].user = u /\ (next.key = "contact" => u \in known)
      /\ entry' = [entry EXCEPT ![e] = next] /\ known' = known /\ told' \in Told
  BY DEF UpdateEntry, BookOf, Live, Told
<1>2. EntryFits(entry[e])
  BY DEF Good, RowsFit
<1>3. /\ EntryFits(next) /\ next.st = entry[e].st /\ next.user = entry[e].user /\ next.partner = entry[e].partner
      /\ next.parts = entry[e].parts /\ next.kind = entry[e].kind
      /\ next.paid => entry[e].paid \/ entry[e].kind = "debt"
  BY <1>2, EditsKeep
<1>4. (next.paid => next.kind = "debt") /\ (next.key = "contact" => next.user \in known)
  BY <1>1, <1>3 DEF Good, Labelled
<1> DEFINE es == [entry EXCEPT ![e] = next]
<1>5. es[e] = next
  BY DEF Good, RowsFit
<1> HIDE DEF es
<1>6. ASSUME NEW ts, Good(entry, ts, known), \A s \in Txs : ts[s].st = "live" => ts[s].source # e
      PROVE  Good(es, ts, known)
  BY <1>1, <1>3, <1>4, <1>6, RowSet DEF es
<1>7. CASE TxOf(e) = {}
  <2>1. \A s \in Txs : txn[s].st = "live" => txn[s].source # e
    BY <1>7 DEF TxOf
  <2>2. Good(es, txn, known)
    BY <1>6, <2>1
  <2>3. CASE ~wantTx
    <3>1. txn' = txn
      BY <1>7, <2>3 DEF UpdateEntry
    <3> QED BY <1>1, <2>2, <3>1 DEF es
  <2>4. CASE wantTx
    <3> DEFINE x == DebtTx(u, next.dir, next.amount, next.date, e)
               t == First(Txs, txn)
    <3>1. txn' = [txn EXCEPT ![t] = x]
      BY <1>7, <2>4 DEF UpdateEntry
    <3>2. t \in Txs
      <4>1. Room(Txs, txn) /\ Txs \subseteq Nat
        BY <1>7, <2>4, DebtIds DEF UpdateEntry
      <4> QED BY <4>1, FirstIs
    <3>3. /\ TxFits(x) /\ x.st = "live" /\ x.user = u /\ x.type = TypeOf(next.dir)
          /\ x.amount = next.amount /\ x.date = next.date /\ x.source = e
      <4>1. TypeOf(next.dir) \in {"expense", "income"} /\ next.date \in Nat
        BY <1>3 DEF TypeOf, EntryFits, EntryType
      <4> QED BY <4>1, TxRowIsNew DEF DebtTx
    <3> HIDE DEF x, t
    <3>4. Good(es, [txn EXCEPT ![t] = x], known)
      <4>1. es[x.source] = next
        BY <1>5, <3>3
      <4> QED BY <1>1, <1>3, <2>1, <2>2, <3>2, <3>3, <4>1, TxPut
    <3> QED BY <1>1, <3>1, <3>4 DEF es
  <2> QED BY <2>3, <2>4
<1>8. CASE TxOf(e) # {}
  <2> DEFINE t == CHOOSE x \in TxOf(e) : TRUE
  <2>1. t \in Txs /\ txn[t].st = "live" /\ txn[t].source = e
    <3>1. t \in TxOf(e)
      BY <1>8
    <3> QED BY <3>1 DEF TxOf
  <2>2. \A s \in Txs : s # t /\ txn[s].st = "live" => txn[s].source # e
    BY <1>0, <2>1 DEF Good, OneValue
  <2>3. txn[t].user = u
    BY <1>0, <1>1, <2>1 DEF Good, OneValue
  <2>4. txn' = IF wantTx THEN [txn EXCEPT ![t] = Follows(txn[t], next)] ELSE [txn EXCEPT ![t] = [NoTx EXCEPT !.st = "gone"]]
    BY <1>8 DEF UpdateEntry, SyncDebtTx
  <2> HIDE DEF t
  <2>5. CASE wantTx
    <3> DEFINE x == Follows(txn[t], next)
    <3>1. /\ TxFits(x) /\ x.user = txn[t].user /\ x.source = txn[t].source
          /\ x.type = TypeOf(next.dir) /\ x.amount = next.amount /\ x.date = next.date
      <4>1. TxFits(txn[t])
        BY <2>1 DEF Good, RowsFit
      <4> QED BY <1>3, <4>1, TxsKeep
    <3> HIDE DEF x
    <3>2. Good([entry EXCEPT ![e] = next], [txn EXCEPT ![t] = x], known)
      <4>1. x.source = e /\ x.user = next.user
        BY <1>1, <1>3, <2>1, <2>3, <3>1
      <4>2. \A p \in Papers : next.parts[p] > 0 => entry[e].parts[p] > 0
        BY <1>3
      <4> QED BY <1>1, <1>3, <1>4, <2>1, <3>1, <4>1, <4>2, Revalued
    <3> QED BY <1>1, <2>4, <2>5, <3>2 DEF x
  <2>6. CASE ~wantTx
    <3> DEFINE x == [NoTx EXCEPT !.st = "gone"]
    <3>1. TxFits(x) /\ x.st = "gone"
      BY TxGone
    <3> HIDE DEF x
    <3> DEFINE ts == [txn EXCEPT ![t] = x]
    <3>2. Good(entry, ts, known)
      BY <2>1, <3>1, TxPut
    <3>3. \A s \in Txs : ts[s].st = "live" => ts[s].source # e
      BY <2>1, <2>2, <3>1 DEF Good, RowsFit
    <3> HIDE DEF ts
    <3>4. Good(es, ts, known)
      BY <1>6, <3>2, <3>3
    <3> QED BY <1>1, <2>4, <2>6, <3>4 DEF es, ts, x
  <2> QED BY <2>5, <2>6
<1> QED BY <1>7, <1>8

\* Absorb and DeleteContact.
LEMMA ContactsGood ==
  ASSUME Good(entry, txn, known), NEW u \in Users, Absorb(u) \/ DeleteContact(u)
  PROVE  Good(entry', txn', known') /\ known' \subseteq known /\ told' = told
<1>1. CASE Absorb(u)
  <2>1. entry' = Keyed(u, "contact") /\ u \in known /\ UNCHANGED <<txn, known, told>>
    BY <1>1 DEF Absorb, Keyed
  <2>2. "contact" \in Keys
    BY DEF Keys
  <2>3. Good(entry', txn, known)
    BY <2>1, <2>2, KeysGood
  <2> QED BY <2>1, <2>3
<1>2. CASE DeleteContact(u)
  <2>1. entry' = Keyed(u, "name") /\ known' = known \ {u} /\ UNCHANGED <<txn, told>>
    BY <1>2 DEF DeleteContact, Restored, Keyed
  <2>2. "name" \in Keys /\ \A o \in known : o # u => o \in known \ {u}
    BY DEF Keys
  <2>3. Good(entry', txn, known \ {u})
    BY <2>1, <2>2, KeysGood
  <2> QED BY <2>1, <2>3
<1> QED BY <1>1, <1>2

-----------------------------------------------------------------------------
(* What a book adds up to.                                                 *)

Amounted(es, ts) ==
  (\A e \in Entries : es[e].amount \in Nat) /\ (\A t \in Txs : ts[t].amount \in Nat)

\* What each row says, whichever are counted.
Worth(r)  == IF r.dir = "paid" THEN r.amount ELSE -r.amount
Worths(es) == [e \in Entries |-> Worth(es[e])]

\* Sums of the model, as the lemmas speak of them.
LEMMA SummedIs == ASSUME NEW f PROVE Summed(f) = SumIn(f, DOMAIN f)
  BY DEF Summed, SumIn

\* A sum over lines.
LEMMA LinesAddUp ==
  ASSUME Amounted(entry, txn), NEW S \in SUBSET Entries
  PROVE  SignedSum(S) = SumIn(Worths(entry), S) /\ SignedSum(S) \in Int
<1> DEFINE f == [e \in S |-> Signed(e)]
           g == Worths(entry)
<1>1. IsFiniteSet(S)
  BY DebtIds, FS_Subset
<1>2. \A e \in S : f[e] \in Int /\ f[e] = g[e]
  BY DEF Amounted, Signed, Worths, Worth
<1>3. SignedSum(S) = SumIn(f, S)
  BY SummedIs DEF SignedSum
<1> HIDE DEF f, g
<1>4. SumIn(f, S) = SumIn(g, S) /\ SumIn(f, S) \in Int
  BY <1>1, <1>2, SumSame, SumType
<1> QED BY <1>3, <1>4 DEF g

\* Of some lines one is the last in book order.
LEMMA LastLine ==
  ASSUME NEW Z \in SUBSET Entries, Z # {}, \A e \in Entries : entry[e].date \in Nat
  PROVE  \E m \in Z : \A x \in Z : UpTo(x, m)
<1> DEFINE From(z) == {x \in Z : UpTo(z, x)}
           F == {From(z) : z \in Z}
<1>1. IsFiniteSet(Z) /\ F \subseteq SUBSET Z /\ F # {}
  <2>1. IsFiniteSet(Z)
    BY DebtIds, FS_Subset
  <2> QED BY <2>1
<1>2. PICK T \in F : \A U \in F : U \subseteq T => U = T
  <2> HIDE DEF F
  <2> QED BY <1>1, SmallestSet
<1>3. PICK m \in Z : T = From(m)
  OBVIOUS
<1>4. \A x \in Z : entry[x].date \in Nat /\ x \in Nat
  BY DebtIds
<1>5. ASSUME NEW x \in Z PROVE UpTo(x, m)
  <2> SUFFICES ASSUME ~UpTo(x, m) PROVE FALSE
    OBVIOUS
  <2>1. UpTo(m, x) /\ UpTo(m, m)
    BY <1>4 DEF UpTo
  <2>2. From(x) \subseteq From(m)
    BY <1>4, <2>1 DEF UpTo
  <2>3. From(x) = From(m)
    BY <1>2, <1>3, <2>2
  <2> QED BY <2>1, <2>3
<1> QED BY <1>5

\* The lines after the last that brought the balance to zero come to the balance, and none
\* of them brings it to zero.
LEMMA CycleAddsUp ==
  ASSUME Amounted(entry, txn), \A e \in Entries : entry[e].date \in Nat, NEW u, NEW key
  PROVE  /\ SignedSum(Current(u, key)) = Net(u, key)
         /\ \A e \in Current(u, key) : Run(u, key, e) # 0
<1> DEFINE L == Lines(u, key)
           Z == {m \in L : Run(u, key, m) = 0}
<1>1. L \in SUBSET Entries
  BY DEF Lines, BookOf
<1>2. CASE Z = {}
  <2>1. Current(u, key) = L
    BY <1>2 DEF Current, CycleMark
  <2> QED BY <1>2, <2>1 DEF Net
<1>3. CASE Z # {}
  <2>1. PICK m \in Z : \A x \in Z : UpTo(x, m)
    <3> HIDE DEF Z
    <3>1. Z \in SUBSET Entries
      BY <1>1 DEF Z
    <3> QED BY <1>3, <3>1, LastLine
  <2>2. \A x \in L : entry[x].date \in Nat /\ x \in Nat
    BY <1>1, DebtIds
  <2>3. CycleMark(u, key) = {m}
    <3>1. \A x \in Z : UpTo(m, x) => x = m
      BY <2>1, <2>2 DEF UpTo
    <3>2. \A x \in L : x \in CycleMark(u, key) <=> x \in Z /\ \A y \in Z : UpTo(y, x)
      BY DEF CycleMark
    <3>3. CycleMark(u, key) \subseteq L
      BY DEF CycleMark
    <3> HIDE DEF L, Z
    <3>4. Z \subseteq L
      BY DEF Z
    <3> QED BY <2>1, <3>1, <3>2, <3>3, <3>4
  <2> DEFINE B == {x \in L : UpTo(x, m)}
             C == {x \in L : ~UpTo(x, m)}
  <2>4. Current(u, key) = C
    BY <2>3 DEF Current
  <2>5. L = B \cup C /\ B \cap C = {} /\ B \in SUBSET Entries /\ C \in SUBSET Entries /\ IsFiniteSet(B \cup C)
    <3>1. L = B \cup C
      OBVIOUS
    <3> QED BY <1>1, <3>1, DebtIds, FS_Subset
  <2>6. SignedSum(B) = 0
    BY DEF Run
  <2>7. \A e \in C : Run(u, key, e) # 0
    BY <2>1
  <2>8. SignedSum(L) = SignedSum(C)
    <3> DEFINE w == Worths(entry)
    <3>1. \A x \in B \cup C : w[x] \in Int
      BY <2>5 DEF Amounted, Worths, Worth
    <3> HIDE DEF B, C, w, L, Z
    <3>2. SumIn(w, B \cup C) = SumIn(w, B) + SumIn(w, C)
      BY <2>5, <3>1, SumApart
    <3>3. SignedSum(L) = SumIn(w, B \cup C) /\ SignedSum(B) = SumIn(w, B) /\ SignedSum(C) = SumIn(w, C) /\ SignedSum(C) \in Int
      BY <1>1, <2>5, LinesAddUp DEF w
    <3> QED BY <2>6, <3>2, <3>3
  <2> QED BY <2>4, <2>7, <2>8 DEF Net
<1> QED BY <1>2, <1>3

-----------------------------------------------------------------------------
(* Two books kept together.                                                *)

\* Which way the debt of a paper goes in a user's book.
WayOf(p, u) == IF Debtor[p] = u THEN "received" ELSE "paid"

\* A row with parts is their sum, a debt, and goes the papers' way; partners are debts that go
\* opposite ways.
Fair(es) ==
  \A e \in Entries : es[e].st = "live" =>
    /\ (\E p \in Papers : es[e].parts[p] > 0) => es[e].amount = PartsSum(es[e].parts)
    /\ \A p \in Papers : es[e].parts[p] > 0 => es[e].kind = "debt" /\ es[e].dir = WayOf(p, es[e].user)
    /\ es[e].partner # 0 => /\ es[e].kind = "debt" /\ es[es[e].partner].kind = "debt"
                            /\ es[es[e].partner].dir # es[e].dir

\* What the repayments in both books come to.
Repaying(es) == [e \in Entries |-> IF es[e].st = "live" /\ es[e].kind = "repayment" THEN Worth(es[e]) ELSE 0]
Repaid(es) == SumIn(Repaying(es), Entries)

Kept(es, ts, tl) == Amounted(es, ts) /\ (tl # "no" => Fair(es)) /\ (tl = "down" => Repaid(es) = 0)

\* Parts come to a whole amount.
LEMMA PartsSumWhole == ASSUME NEW parts \in [Papers -> Nat] PROVE PartsSum(parts) \in Nat
<1> DEFINE none == [p \in Papers |-> 0]
<1>1. \A p \in Papers : parts[p] \in Int /\ none[p] \in Int /\ none[p] <= parts[p] /\ none[p] = 0
  OBVIOUS
<1> HIDE DEF none
<1>2. SumIn(none, Papers) <= SumIn(parts, Papers) /\ SumIn(none, Papers) = 0 /\ SumIn(parts, Papers) \in Int
  BY <1>1, DebtIds, SumAtMost, SumZero, SumType
<1> QED BY <1>2, SummedIs DEF PartsSum

\* What repayments come to is whole.
LEMMA RepayingWhole ==
  ASSUME NEW es, \A e \in Entries : es[e].amount \in Nat
  PROVE  /\ \A e \in Entries : Repaying(es)[e] \in Int
         /\ Repaid(es) \in Int
<1>1. \A e \in Entries : Repaying(es)[e] \in Int
  BY DEF Repaying, Worth
<1> QED BY <1>1, SumType, DebtIds DEF Repaid

\* Rows that stay what they are, or lose parts or partners, or follow their parts.
Steady(es, es2) ==
  \A e \in Entries :
    /\ es2[e].st = es[e].st /\ es2[e].kind = es[e].kind /\ es2[e].dir = es[e].dir /\ es2[e].user = es[e].user
    /\ es2[e].partner \in {0, es[e].partner}
    /\ \A p \in Papers : es2[e].parts[p] > 0 => es[e].parts[p] > 0
    /\ \/ es2[e].amount = es[e].amount /\ (es2[e].parts = es[e].parts \/ (\A p \in Papers : ~(es2[e].parts[p] > 0)))
       \/ es[e].kind = "debt" /\ ((\E p \in Papers : es2[e].parts[p] > 0) => es2[e].amount = PartsSum(es2[e].parts))

\* They are as fair as they were, and the repayments come to the same.
LEMMA SteadyKeeps ==
  ASSUME NEW es, NEW es2, Steady(es, es2),
         \A e \in Entries : es[e].partner \in Entries \cup {0} /\ es[e].amount \in Nat
  PROVE  (Fair(es) => Fair(es2)) /\ Repaid(es2) = Repaid(es)
<1>1. ASSUME Fair(es) PROVE Fair(es2)
  <2> SUFFICES ASSUME NEW e \in Entries, es2[e].st = "live"
               PROVE  /\ (\E p \in Papers : es2[e].parts[p] > 0) => es2[e].amount = PartsSum(es2[e].parts)
                      /\ \A p \in Papers : es2[e].parts[p] > 0 => es2[e].kind = "debt" /\ es2[e].dir = WayOf(p, es2[e].user)
                      /\ es2[e].partner # 0 => /\ es2[e].kind = "debt" /\ es2[es2[e].partner].kind = "debt"
                                               /\ es2[es2[e].partner].dir # es2[e].dir
    BY DEF Fair
  <2>1. (\E p \in Papers : es2[e].parts[p] > 0) => es2[e].amount = PartsSum(es2[e].parts)
    BY <1>1 DEF Fair, Steady
  <2>2. \A p \in Papers : es2[e].parts[p] > 0 => es2[e].kind = "debt" /\ es2[e].dir = WayOf(p, es2[e].user)
    BY <1>1 DEF Fair, Steady
  <2>3. es2[e].partner # 0 => /\ es2[e].kind = "debt" /\ es2[es2[e].partner].kind = "debt"
                              /\ es2[es2[e].partner].dir # es2[e].dir
    BY <1>1 DEF Fair, Steady
  <2> QED BY <2>1, <2>2, <2>3
<1>2. \A e \in Entries : Repaying(es2)[e] = Repaying(es)[e]
  <2> SUFFICES ASSUME NEW e \in Entries, es[e].st = "live", es[e].kind = "repayment"
               PROVE  Worth(es2[e]) = Worth(es[e])
    BY DEF Repaying, Steady
  <2>1. es2[e].amount = es[e].amount /\ es2[e].dir = es[e].dir
    BY DEF Steady
  <2> QED BY <2>1 DEF Worth
<1>3. Repaid(es2) = Repaid(es)
  <2>1. \A e \in Entries : Repaying(es)[e] \in Int
    BY RepayingWhole
  <2> QED BY <1>2, <2>1, SumSame, DebtIds DEF Repaid
<1> QED BY <1>1, <1>3

\* A new row that is fair by itself.
LEMMA PutKeeps ==
  ASSUME NEW es, NEW es2, NEW e \in Entries, es[e].st = "new", Mutual(es),
         \A f \in Entries : es[f].partner \in Entries \cup {0} /\ es[f].amount \in Nat,
         \A f \in Entries \ {e} : es2[f] = es[f],
         es2[e].st = "live", es2[e].partner = 0, es2[e].amount \in Nat,
         (\E p \in Papers : es2[e].parts[p] > 0) => es2[e].amount = PartsSum(es2[e].parts),
         \A p \in Papers : es2[e].parts[p] > 0 => es2[e].kind = "debt" /\ es2[e].dir = WayOf(p, es2[e].user)
  PROVE  /\ Fair(es) => Fair(es2)
         /\ Repaid(es2) = Repaid(es) + (IF es2[e].kind = "repayment" THEN Worth(es2[e]) ELSE 0)
<1>1. ASSUME Fair(es) PROVE Fair(es2)
  <2>1. \A f \in Entries : es[f].st = "live" /\ es[f].partner # 0 => es[f].partner # e
    BY DEF Mutual
  <2> QED BY <1>1, <2>1 DEF Fair
<1> DEFINE a == Repaying(es)
           b == Repaying(es2)
<1>2. /\ \A f \in Entries : a[f] \in Int /\ b[f] \in Int
      /\ SumIn(a, Entries) \in Int
      /\ \A f \in Entries \ {e} : a[f] = b[f]
      /\ a[e] = 0 /\ b[e] = IF es2[e].kind = "repayment" THEN Worth(es2[e]) ELSE 0
  <2>1. \A f \in Entries : es2[f].amount \in Nat
    OBVIOUS
  <2>2. \A f \in Entries \ {e} : a[f] = b[f]
    BY DEF Repaying
  <2>3. a[e] = 0 /\ b[e] = IF es2[e].kind = "repayment" THEN Worth(es2[e]) ELSE 0
    BY DEF Repaying
  <2> QED BY <2>1, <2>2, <2>3, RepayingWhole DEF Repaid
<1> HIDE DEF a, b
<1>3. SumIn(b, Entries) = SumIn(a, Entries) + b[e] - a[e]
  <2>1. IsFiniteSet(Entries) /\ \A f \in Entries : a[f] \in Int /\ b[f] \in Int
    BY <1>2, DebtIds
  <2>2. \A f \in Entries \ {e} : a[f] = b[f]
    BY <1>2
  <2> QED BY <2>1, <2>2, SumChanges
<1>4. SumIn(b, Entries) = SumIn(a, Entries) + b[e]
  BY <1>2, <1>3
<1> QED BY <1>1, <1>2, <1>4 DEF Repaid, a, b

\* Rows that are good have partners among the rows.
LEMMA PartnersAre ==
  ASSUME NEW es, NEW ts, NEW kn, Good(es, ts, kn)
  PROVE  \A e \in Entries : /\ es[e].partner \in Entries \cup {0} /\ EntryFits(es[e])
                           /\ es[e].date \in Nat /\ es[e].parts \in [Papers -> Nat] /\ es[e].dir \in Directions
                           /\ es[e].kind \in Kinds /\ es[e].user \in Users
BY DEF Good, RowsFit, EntryFits, EntryType

\* The inserted row is what was asked, of the transaction's value if it has one already.
LEMMA InsertedIs ==
  ASSUME NEW es, NEW ts, Good(es, ts, known), Amounted(es, ts),
         NEW u \in Users, NEW kind \in Kinds, NEW dir \in Directions, NEW key \in Keys, NEW amount \in Nat, NEW date \in Nat,
         NEW with \in {"none", "tx", "link"}, with = "link" => ts = txn,
         NEW r, r \in Inserts(es, ts, u, kind, dir, key, amount, date, with)
  PROVE  /\ Amounted(r.entry, r.txn)
         /\ r.entry[r.made].kind = kind /\ r.entry[r.made].dir = dir
         /\ with # "link" => r.entry[r.made].amount = amount
<1> DEFINE e == First(Entries, es)
           row == Row(u, kind, dir, key, amount, date)
<1>1. Room(Entries, es) /\ (key = "contact" => u \in known)
  BY DEF Inserts
<1>2. e \in Entries
  BY <1>1, FirstIs, DebtIds, Entries \subseteq Nat
<1>3. EntryFits(row) /\ row.kind = kind /\ row.dir = dir /\ row.amount = amount /\ row.parts = [p \in Papers |-> 0]
  BY RowIsNew
<1>4. /\ es = [f \in Entries |-> es[f]] /\ \A f \in Entries : es[f].amount \in Nat
      /\ ts = [t \in Txs |-> ts[t]] /\ \A t \in Txs : ts[t].amount \in Nat
  BY DEF Good, RowsFit, Amounted
<1> HIDE DEF row, e
<1>5. ASSUME NEW new, new.kind = kind, new.dir = dir, new.amount \in Nat, NEW ts2, \A t \in Txs : ts2[t].amount \in Nat,
             r = [made |-> e, entry |-> [es EXCEPT ![e] = new], txn |-> ts2]
      PROVE  /\ Amounted(r.entry, r.txn) /\ r.entry[r.made] = new
             /\ r.entry[r.made].kind = kind /\ r.entry[r.made].dir = dir
  <2>1. \A f \in Entries : r.entry[f] = IF f = e THEN new ELSE es[f]
    BY <1>4, <1>5
  <2>2. r.txn = ts2 /\ r.made = e
    BY <1>5
  <2> QED BY <1>2, <1>4, <1>5, <2>1, <2>2 DEF Amounted
<1>6. CASE with = "none"
  <2>1. r = [made |-> e, entry |-> [es EXCEPT ![e] = row], txn |-> ts]
    BY <1>1, <1>6 DEF Inserts, row, e
  <2> QED BY <2>1, <1>3, <1>4, <1>5
<1>7. CASE with = "tx"
  <2> DEFINE t == First(Txs, ts)
             x == DebtTx(u, dir, amount, date, e)
             ts2 == [ts EXCEPT ![t] = x]
  <2>1. r = [made |-> e, entry |-> [es EXCEPT ![e] = row], txn |-> ts2]
    BY <1>1, <1>7 DEF Inserts, row, e
  <2>2. x.amount = amount
    BY DEF DebtTx, TxRow
  <2> HIDE DEF x, t
  <2>3. \A s \in Txs : ts2[s].amount \in Nat
    BY <1>4, <2>2
  <2> HIDE DEF ts2
  <2> QED BY <2>1, <2>3, <1>3, <1>5
<1>8. CASE with = "link"
  <2>1. PICK t \in Txs : r = [made |-> e, entry |-> [es EXCEPT ![e] = Valued(row, ts[t])],
                              txn |-> [ts EXCEPT ![t] = Connected(ts[t], e)]]
    BY <1>1, <1>8 DEF Inserts, row, e
  <2> DEFINE val == Valued(row, ts[t])
             con == Connected(ts[t], e)
             ts2 == [ts EXCEPT ![t] = con]
  <2>2. TxFits(ts[t])
    BY DEF Good, RowsFit
  <2>3. val.kind = kind /\ val.dir = dir /\ val.amount = ts[t].amount
    <3>1. [p \in Papers |-> 0] \in [Papers -> Nat]
      OBVIOUS
    <3> HIDE DEF val
    <3> QED BY <1>3, <2>2, <3>1, RowsKeep DEF val
  <2>4. con.amount = ts[t].amount
    BY <1>2, <1>3, <2>2, TxsKeep
  <2>5. r = [made |-> e, entry |-> [es EXCEPT ![e] = val], txn |-> ts2]
    BY <2>1
  <2> HIDE DEF val, con
  <2>6. \A s \in Txs : ts2[s].amount \in Nat
    BY <1>4, <2>4
  <2> HIDE DEF ts2
  <2> QED BY <2>3, <2>5, <2>6, <1>4, <1>5, <1>8
<1> QED BY <1>6, <1>7, <1>8

\* CreateEntry.
LEMMA CreateEntryKept ==
  ASSUME Good(entry, txn, known), Amounted(entry, txn),
         NEW u \in Users, NEW dir \in Directions, NEW key \in Keys, NEW amount \in Nat, NEW date \in Nat,
         NEW with \in {"none", "tx", "link"}, CreateEntry(u, dir, key, amount, date, with)
  PROVE  Kept(entry', txn', told')
<1>1. PICK r \in Inserts(entry, txn, u, "debt", dir, key, amount, date, with) : entry' = r.entry /\ txn' = r.txn
  BY DEF CreateEntry
<1>2. "debt" \in Kinds
  BY DEF Kinds
<1>3. Amounted(r.entry, r.txn)
  BY <1>1, <1>2, InsertedIs
<1>4. told' = "no"
  BY DEF CreateEntry
<1> QED BY <1>1, <1>3, <1>4 DEF Kept

\* The debts that have partners are those before the repayment and its labels.
LEMMA PartnerOfSame ==
  ASSUME NEW es, NEW es2, NEW e \in Entries, es[e].st = "new", es2[e].kind = "repayment",
         \A f \in Entries \ {e} :
           /\ es2[f].st = es[f].st /\ es2[f].user = es[f].user /\ es2[f].kind = es[f].kind
           /\ es2[f].partner = es[f].partner /\ es2[f].key = es[f].key /\ es2[f].date = es[f].date,
         NEW u, NEW key
  PROVE  PartnerOf(es2, u, key) = PartnerOf(es, u, key)
<1> DEFINE mine(rows) == {d \in Entries : rows[d].st = "live" /\ rows[d].user = u /\ rows[d].kind = "debt"
                                       /\ rows[d].partner # 0 /\ KeyOf(u, rows[d].key) = KeyOf(u, key)}
<1>1. mine(es2) = mine(es)
  <2>1. \A d \in Entries : d \in mine(es2) <=> d \in mine(es)
    OBVIOUS
  <2> QED BY <2>1
<1>2. \A d \in mine(es) : d # e /\ es2[d].partner = es[d].partner /\ es2[d].date = es[d].date
  OBVIOUS
<1>3. /\ PartnerOf(es2, u, key) = {es2[d].partner : d \in {x \in mine(es2) : \A y \in mine(es2) :
                                     es2[y].date < es2[x].date \/ (es2[y].date = es2[x].date /\ y <= x)}}
      /\ PartnerOf(es, u, key) = {es[d].partner : d \in {x \in mine(es) : \A y \in mine(es) :
                                     es[y].date < es[x].date \/ (es[y].date = es[x].date /\ y <= x)}}
  BY Zenon DEF PartnerOf
<1> HIDE DEF mine
<1> QED BY <1>1, <1>2, <1>3

\* The labels change nothing else.
LEMMA MarkedIs ==
  ASSUME NEW es, \A e \in Entries : EntryFits(es[e]), NEW u, NEW key, NEW dir, NEW es2, es2 = MarkedPaid(es, u, key, dir)
  PROVE  \A e \in Entries :
           /\ es2[e].st = es[e].st /\ es2[e].user = es[e].user /\ es2[e].kind = es[e].kind /\ es2[e].dir = es[e].dir
           /\ es2[e].amount = es[e].amount /\ es2[e].date = es[e].date /\ es2[e].key = es[e].key
           /\ es2[e].parts = es[e].parts /\ es2[e].partner = es[e].partner
<1> SUFFICES ASSUME NEW e \in Entries
             PROVE  /\ es2[e].st = es[e].st /\ es2[e].user = es[e].user /\ es2[e].kind = es[e].kind /\ es2[e].dir = es[e].dir
                    /\ es2[e].amount = es[e].amount /\ es2[e].date = es[e].date /\ es2[e].key = es[e].key
                    /\ es2[e].parts = es[e].parts /\ es2[e].partner = es[e].partner
  OBVIOUS
<1>1. es2[e] = es[e] \/ es2[e] = [es[e] EXCEPT !.paid = TRUE]
  BY DEF MarkedPaid
<1>2. EntryFits(es[e])
  OBVIOUS
<1>3. CASE es2[e] = es[e]
  BY <1>3
<1>4. CASE es2[e] = [es[e] EXCEPT !.paid = TRUE]
  BY <1>2, <1>4, PaidSet
<1> QED BY <1>1, <1>3, <1>4

\* A partner of one of my debts is a debt of theirs, the other way.
LEMMA PartnerOfIs ==
  ASSUME NEW es, NEW ts, NEW kn, Good(es, ts, kn), Fair(es), NEW u, NEW key, NEW p \in PartnerOf(es, u, key)
  PROVE  /\ p \in Entries /\ es[p].kind = "debt"
         /\ \E d \in Entries : es[d].st = "live" /\ es[d].user = u /\ es[d].kind = "debt" /\ es[p].dir # es[d].dir
<1>1. PICK d \in Entries : es[d].st = "live" /\ es[d].user = u /\ es[d].kind = "debt" /\ es[d].partner # 0 /\ p = es[d].partner
  BY DEF PartnerOf
<1>2. p \in Entries
  BY <1>1, PartnersAre
<1> QED BY <1>1, <1>2 DEF Fair

\* What is told: the other user's row, of a debt of theirs that is a partner.
LEMMA ToldIs ==
  ASSUME NEW r, Good(r.entry, r.txn, known), Amounted(r.entry, r.txn), r.made \in Entries,
         NEW u \in Users, NEW key, NEW m, m \in Mirrors(r, u, key),
         Other(u) \in AutoAccept, PartnerOf(r.entry, u, key) # {}
  PROVE  \E p \in PartnerOf(r.entry, u, key) :
           /\ Amounted(m.entry, m.txn)
           /\ m.made \in Entries /\ r.entry[m.made].st = "new"
           /\ \A f \in Entries \ {m.made} : m.entry[f] = r.entry[f]
           /\ m.entry[m.made].st = "live" /\ m.entry[m.made].partner = 0
           /\ m.entry[m.made].parts = [q \in Papers |-> 0]
           /\ m.entry[m.made].kind = "repayment" /\ m.entry[m.made].dir = RepaidTheirWay(r.entry[p])
           /\ m.entry[m.made].amount = r.entry[r.made].amount
<1> DEFINE ins(p, with) == Inserts(r.entry, r.txn, Other(u), "repayment", RepaidTheirWay(r.entry[p]), r.entry[p].key,
                                   r.entry[r.made].amount, r.entry[r.made].date, with)
           one(p) == UNION {ins(p, with) : with \in {"tx", "none"}}
           P == PartnerOf(r.entry, u, key)
<1>1. Mirrors(r, u, key) = UNION {one(p) : p \in P}
  BY Zenon DEF Mirrors
<1>2. \A p \in P : m \in one(p) => \E with \in {"tx", "none"} : m \in ins(p, with)
  <2> HIDE DEF ins, P
  <2> QED OBVIOUS
<1>3. \E p \in P : m \in one(p)
  <2> HIDE DEF one, P
  <2> QED BY <1>1
<1>4. PICK p \in P : \E with \in {"tx", "none"} : m \in ins(p, with)
  <2> HIDE DEF ins, one, P
  <2> QED BY <1>2, <1>3, Zenon
<1>5. PICK with \in {"tx", "none"} : m \in ins(p, with)
  BY <1>4
<1>6. p \in Entries
  <2>1. PICK d \in Entries : p = r.entry[d].partner /\ r.entry[d].partner # 0
    BY DEF PartnerOf
  <2> QED BY <2>1, PartnersAre
<1> DEFINE o == Other(u)
           way == RepaidTheirWay(r.entry[p])
           k == r.entry[p].key
           amount == r.entry[r.made].amount
           date == r.entry[r.made].date
<1>7. /\ o \in Users /\ way \in Directions /\ k \in Keys /\ amount \in Nat /\ date \in Nat
      /\ with \in {"none", "tx", "link"} /\ with # "link" /\ "repayment" \in Kinds
  <2>1. k \in Keys
    BY <1>6 DEF Good, RowsFit, EntryFits, EntryType
  <2>2. date \in Nat
    BY PartnersAre
  <2> QED BY <2>1, <2>2, OtherIs DEF RepaidTheirWay, Directions, Kinds, Amounted
<1>8. m \in Inserts(r.entry, r.txn, o, "repayment", way, k, amount, date, with)
  BY <1>5
<1> HIDE DEF o, way, k, amount, date
<1>9. /\ m.made \in Entries /\ r.entry[m.made].st = "new"
      /\ \A f \in Entries \ {m.made} : m.entry[f] = r.entry[f]
      /\ m.entry[m.made].st = "live" /\ m.entry[m.made].partner = 0
      /\ m.entry[m.made].parts = [q \in Papers |-> 0]
  BY <1>7, <1>8, Inserted
<1>10. /\ Amounted(m.entry, m.txn)
       /\ m.entry[m.made].kind = "repayment" /\ m.entry[m.made].dir = way /\ m.entry[m.made].amount = amount
  <2>1. PICK es, ts : es = r.entry /\ ts = r.txn
    OBVIOUS
  <2>2. Good(es, ts, known) /\ Amounted(es, ts) /\ (with = "link" => ts = txn)
    BY <1>7, <2>1
  <2>3. m \in Inserts(es, ts, o, "repayment", way, k, amount, date, with)
    BY <1>8, <2>1
  <2>4. /\ o \in Users /\ way \in Directions /\ k \in Keys /\ amount \in Nat /\ date \in Nat
        /\ with \in {"none", "tx", "link"} /\ "repayment" \in Kinds
    BY <1>7
  <2>5. /\ Amounted(m.entry, m.txn)
        /\ m.entry[m.made].kind = "repayment" /\ m.entry[m.made].dir = way
        /\ with # "link" => m.entry[m.made].amount = amount
    BY <2>2, <2>3, <2>4, InsertedIs
  <2> QED BY <1>7, <2>5
<1> QED BY <1>9, <1>10 DEF way, amount

\* A repayment that is told and pays down what it finds is written in both books, opposite ways.
LEMMA ToldKept ==
  ASSUME Good(entry, txn, known), Amounted(entry, txn), Fair(entry),
         NEW u \in Users, NEW dir \in Directions, NEW key, NEW r,
         Good(r.entry, r.txn, known), Amounted(r.entry, r.txn),
         r.made \in Entries, entry[r.made].st = "new",
         r.entry[r.made].st = "live" /\ r.entry[r.made].kind = "repayment" /\ r.entry[r.made].dir = dir,
         Fair(r.entry), Repaid(r.entry) = Repaid(entry) + Worth(r.entry[r.made]),
         \A f \in Entries \ {r.made} :
           /\ r.entry[f].st = entry[f].st /\ r.entry[f].user = entry[f].user /\ r.entry[f].kind = entry[f].kind
           /\ r.entry[f].partner = entry[f].partner /\ r.entry[f].key = entry[f].key /\ r.entry[f].date = entry[f].date
           /\ r.entry[f].dir = entry[f].dir,
         Other(u) \in AutoAccept, PartnerOf(entry, u, key) # {},
         NEW m, m \in Mirrors(r, u, key)
  PROVE  /\ Fair(m.entry)
         /\ (~\E d \in BookOf(u) : entry[d].kind = "debt" /\ entry[d].dir = dir) => Repaid(m.entry) = Repaid(entry)
<1>1. PartnerOf(r.entry, u, key) = PartnerOf(entry, u, key)
  BY PartnerOfSame
<1>2. PICK p \in PartnerOf(r.entry, u, key) :
           /\ Amounted(m.entry, m.txn)
           /\ m.made \in Entries /\ r.entry[m.made].st = "new"
           /\ \A f \in Entries \ {m.made} : m.entry[f] = r.entry[f]
           /\ m.entry[m.made].st = "live" /\ m.entry[m.made].partner = 0
           /\ m.entry[m.made].parts = [q \in Papers |-> 0]
           /\ m.entry[m.made].kind = "repayment" /\ m.entry[m.made].dir = RepaidTheirWay(r.entry[p])
           /\ m.entry[m.made].amount = r.entry[r.made].amount
  BY <1>1, ToldIs
<1>3. PICK d \in Entries : /\ r.entry[d].st = "live" /\ r.entry[d].user = u /\ r.entry[d].kind = "debt"
                           /\ r.entry[p].dir # r.entry[d].dir /\ p \in Entries
  BY PartnerOfIs
<1>4. Fair(m.entry) /\ Repaid(m.entry) = Repaid(r.entry) + Worth(m.entry[m.made])
  <2>1. PICK es, es2, e : es = r.entry /\ es2 = m.entry /\ e = m.made
    OBVIOUS
  <2>2. e \in Entries /\ es[e].st = "new" /\ Mutual(es)
    BY <1>2, <2>1 DEF Good
  <2>3. \A f \in Entries : es[f].partner \in Entries \cup {0} /\ es[f].amount \in Nat
    BY <2>1, PartnersAre DEF Amounted
  <2>4. (\A f \in Entries \ {e} : es2[f] = es[f]) /\ es2[e].st = "live" /\ es2[e].partner = 0 /\ es2[e].amount \in Nat
    BY <1>2, <2>1 DEF Amounted
  <2>5. \A q \in Papers : ~(es2[e].parts[q] > 0)
    BY <1>2, <2>1
  <2>6. /\ (\E q \in Papers : es2[e].parts[q] > 0) => es2[e].amount = PartsSum(es2[e].parts)
        /\ \A q \in Papers : es2[e].parts[q] > 0 => es2[e].kind = "debt" /\ es2[e].dir = WayOf(q, es2[e].user)
    BY <2>5
  <2>7. /\ Fair(es) => Fair(es2)
        /\ Repaid(es2) = Repaid(es) + (IF es2[e].kind = "repayment" THEN Worth(es2[e]) ELSE 0)
    BY <2>2, <2>3, <2>4, <2>6, PutKeeps
  <2> QED BY <1>2, <2>1, <2>7
<1>5. ASSUME ~\E x \in BookOf(u) : entry[x].kind = "debt" /\ entry[x].dir = dir
      PROVE  Repaid(m.entry) = Repaid(entry)
  <2>1. d # r.made /\ entry[d].st = "live" /\ entry[d].user = u /\ entry[d].kind = "debt" /\ r.entry[d].dir = entry[d].dir
    BY <1>3
  <2>2. entry[d].dir # dir
    BY <1>5, <2>1 DEF BookOf, Live
  <2>3. r.entry[p].dir = dir
    <3>1. r.entry[p].dir \in Directions /\ entry[d].dir \in Directions
      BY <1>3, PartnersAre
    <3> QED BY <1>3, <2>1, <2>2, <3>1 DEF Directions
  <2>4. Worth(m.entry[m.made]) = -Worth(r.entry[r.made])
    <3>1. r.entry[r.made].amount \in Nat
      BY DEF Amounted
    <3>2. dir \in {"paid", "received"}
      BY DEF Directions
    <3>3. (m.entry[m.made].dir = "paid") <=> (dir = "received")
      BY <1>2, <2>3 DEF RepaidTheirWay
    <3> QED BY <1>2, <3>1, <3>2, <3>3 DEF Worth
  <2>5. Repaid(entry) \in Int /\ Worth(r.entry[r.made]) \in Int
    <3>1. Worth(r.entry[r.made]) \in Int
      BY DEF Worth, Amounted
    <3> QED BY <3>1, RepayingWhole DEF Amounted
  <2> QED BY <1>4, <2>4, <2>5
<1> QED BY <1>4, <1>5

\* CreateRepayment.
LEMMA CreateRepaymentKept ==
  ASSUME Good(entry, txn, known), Kept(entry, txn, told),
         NEW u \in Users, NEW dir \in Directions, NEW key \in Keys, NEW amount \in Nat, NEW date \in Nat,
         NEW with \in {"none", "tx", "link"}, NEW markAll, NEW notify,
         CreateRepayment(u, dir, key, amount, date, with, markAll, notify)
  PROVE  Kept(entry', txn', told')
<1> DEFINE marked(r) == [r EXCEPT !.entry = IF markAll THEN MarkedPaid(r.entry, u, key, dir) ELSE r.entry]
           Up == \E d \in BookOf(u) : entry[d].kind = "debt" /\ entry[d].dir = dir
<1>1. PICK r \in Inserts(entry, txn, u, "repayment", dir, key, amount, date, with) :
        \E m \in IF notify THEN Mirrors(marked(r), u, key) ELSE {marked(r)} : entry' = m.entry /\ txn' = m.txn
  BY Zenon DEF CreateRepayment
<1>2. "repayment" \in Kinds /\ Amounted(entry, txn)
  BY DEF Kinds, Kept
<1>3. /\ Good(r.entry, r.txn, known) /\ r.made \in Entries /\ entry[r.made].st = "new"
      /\ \A f \in Entries \ {r.made} : r.entry[f] = entry[f]
      /\ r.entry[r.made].st = "live" /\ r.entry[r.made].partner = 0
      /\ r.entry[r.made].parts = [q \in Papers |-> 0]
      /\ r = [made |-> r.made, entry |-> r.entry, txn |-> r.txn]
  BY <1>2, Inserted
<1>4. Amounted(r.entry, r.txn) /\ r.entry[r.made].kind = "repayment" /\ r.entry[r.made].dir = dir
  BY <1>2, InsertedIs
<1>5. PICK k : k = marked(r)
  OBVIOUS
<1>6. /\ k.made = r.made /\ k.txn = r.txn
      /\ k.entry = r.entry \/ k.entry = MarkedPaid(r.entry, u, key, dir)
  BY <1>3, <1>5
<1>7. PICK m \in IF notify THEN Mirrors(k, u, key) ELSE {k} : entry' = m.entry /\ txn' = m.txn
  BY <1>1, <1>5
<1>8. told' = IF ~notify \/ Other(u) \notin AutoAccept \/ PartnerOf(entry, u, key) = {} THEN "no"
              ELSE IF Up THEN IF told = "no" THEN "no" ELSE "any way" ELSE told
  BY Zenon DEF CreateRepayment
<1> HIDE DEF marked, Up
<1>9. Good(k.entry, k.txn, known)
  BY <1>3, <1>6, Marked
<1>10. ASSUME NEW e \in Entries
       PROVE  /\ k.entry[e].st = r.entry[e].st /\ k.entry[e].user = r.entry[e].user /\ k.entry[e].kind = r.entry[e].kind
              /\ k.entry[e].dir = r.entry[e].dir /\ k.entry[e].amount = r.entry[e].amount
              /\ k.entry[e].date = r.entry[e].date /\ k.entry[e].key = r.entry[e].key
              /\ k.entry[e].parts = r.entry[e].parts /\ k.entry[e].partner = r.entry[e].partner
  <2>1. CASE k.entry = r.entry
    BY <2>1
  <2>2. CASE k.entry = MarkedPaid(r.entry, u, key, dir)
    <3>1. \A f \in Entries : EntryFits(r.entry[f])
      BY <1>3, PartnersAre
    <3> QED BY <2>2, <3>1, MarkedIs
  <2> QED BY <1>6, <2>1, <2>2
<1>11. Amounted(k.entry, k.txn)
  BY <1>4, <1>6, <1>10 DEF Amounted
<1>12. Amounted(m.entry, m.txn)
  <2>1. CASE m = k
    BY <2>1, <1>11
  <2>2. CASE m # k
    <3>1. m \in Mirrors(k, u, key) /\ Other(u) \in AutoAccept /\ PartnerOf(k.entry, u, key) # {}
      BY <1>7, <2>2 DEF Mirrors
    <3> QED BY <3>1, <1>3, <1>6, <1>9, <1>11, ToldIs
  <2> QED BY <2>1, <2>2
<1>13. ASSUME told' # "no"
       PROVE  Fair(m.entry) /\ (told' = "down" => Repaid(m.entry) = 0)
  <2>1. /\ notify /\ Other(u) \in AutoAccept /\ PartnerOf(entry, u, key) # {} /\ told # "no"
        /\ told' = "down" => told = "down" /\ ~Up
    BY <1>8, <1>13
  <2>2. Fair(entry) /\ (told = "down" => Repaid(entry) = 0)
    BY <2>1 DEF Kept
  <2>3. Fair(k.entry) /\ Repaid(k.entry) = Repaid(entry) + Worth(k.entry[k.made])
    <3>1. Fair(r.entry) /\ Repaid(r.entry) = Repaid(entry) + Worth(r.entry[r.made])
      <4>1. PICK es2, e : es2 = r.entry /\ e = r.made
        OBVIOUS
      <4>2. e \in Entries /\ entry[e].st = "new" /\ Mutual(entry)
        BY <1>3, <4>1 DEF Good
      <4>3. \A f \in Entries : entry[f].partner \in Entries \cup {0} /\ entry[f].amount \in Nat
        BY <1>2, PartnersAre DEF Amounted
      <4>4. (\A f \in Entries \ {e} : es2[f] = entry[f]) /\ es2[e].st = "live" /\ es2[e].partner = 0 /\ es2[e].amount \in Nat
        BY <1>3, <1>4, <4>1 DEF Amounted
      <4>5. \A q \in Papers : ~(es2[e].parts[q] > 0)
        BY <1>3, <4>1
      <4>6. /\ (\E q \in Papers : es2[e].parts[q] > 0) => es2[e].amount = PartsSum(es2[e].parts)
            /\ \A q \in Papers : es2[e].parts[q] > 0 => es2[e].kind = "debt" /\ es2[e].dir = WayOf(q, es2[e].user)
        BY <4>5
      <4>7. /\ Fair(entry) => Fair(es2)
            /\ Repaid(es2) = Repaid(entry) + (IF es2[e].kind = "repayment" THEN Worth(es2[e]) ELSE 0)
        BY <4>2, <4>3, <4>4, <4>6, PutKeeps
      <4> QED BY <1>4, <2>2, <4>1, <4>7
    <3>2. Fair(k.entry) /\ Repaid(k.entry) = Repaid(r.entry)
      <4>1. PICK es, es2 : es = r.entry /\ es2 = k.entry
        OBVIOUS
      <4>2. Steady(es, es2)
        BY <1>10, <4>1 DEF Steady
      <4>3. \A e \in Entries : es[e].partner \in Entries \cup {0} /\ es[e].amount \in Nat
        BY <1>3, <1>4, <4>1, PartnersAre DEF Amounted
      <4> QED BY <3>1, <4>1, <4>2, <4>3, SteadyKeeps
    <3>3. Worth(k.entry[k.made]) = Worth(r.entry[r.made])
      BY <1>3, <1>6, <1>10 DEF Worth
    <3> QED BY <3>1, <3>2, <3>3
  <2>4. Fair(m.entry) /\ (~Up => Repaid(m.entry) = Repaid(entry))
    <3>1. m \in Mirrors(k, u, key)
      BY <1>7, <2>1
    <3>2. /\ k.made \in Entries /\ entry[k.made].st = "new"
          /\ k.entry[k.made].st = "live" /\ k.entry[k.made].kind = "repayment" /\ k.entry[k.made].dir = dir
      BY <1>3, <1>4, <1>6, <1>10
    <3>3. \A f \in Entries \ {k.made} :
            /\ k.entry[f].st = entry[f].st /\ k.entry[f].user = entry[f].user /\ k.entry[f].kind = entry[f].kind
            /\ k.entry[f].partner = entry[f].partner /\ k.entry[f].key = entry[f].key /\ k.entry[f].date = entry[f].date
            /\ k.entry[f].dir = entry[f].dir
      <4> SUFFICES ASSUME NEW f \in Entries \ {k.made}
                   PROVE  /\ k.entry[f].st = entry[f].st /\ k.entry[f].user = entry[f].user /\ k.entry[f].kind = entry[f].kind
                          /\ k.entry[f].partner = entry[f].partner /\ k.entry[f].key = entry[f].key
                          /\ k.entry[f].date = entry[f].date /\ k.entry[f].dir = entry[f].dir
        OBVIOUS
      <4>1. r.entry[f] = entry[f]
        BY <1>3, <1>6
      <4> QED BY <4>1, <1>10
    <3>4. /\ Fair(m.entry)
          /\ (~\E d \in BookOf(u) : entry[d].kind = "debt" /\ entry[d].dir = dir) => Repaid(m.entry) = Repaid(entry)
      BY <1>2, <1>9, <1>11, <2>1, <2>2, <2>3, <3>1, <3>2, <3>3, ToldKept
    <3> QED BY <3>4 DEF Up
  <2> QED BY <1>7, <2>1, <2>2, <2>4
<1> QED BY <1>7, <1>12, <1>13 DEF Kept

\* Rows with the same way, amount and kind come to the same repayments.
LEMMA RepaidSame ==
  ASSUME NEW es, NEW es2, \A e \in Entries : es[e].amount \in Nat,
         \A e \in Entries : /\ es2[e].st = es[e].st /\ es2[e].kind = es[e].kind /\ es2[e].dir = es[e].dir
                            /\ es2[e].amount = es[e].amount
  PROVE  Repaid(es2) = Repaid(es)
<1>1. \A e \in Entries : Repaying(es2)[e] = Repaying(es)[e]
  BY DEF Repaying, Worth
<1>2. \A e \in Entries : Repaying(es)[e] \in Int
  BY RepayingWhole
<1> QED BY <1>1, <1>2, SumSame, DebtIds DEF Repaid

\* Two debts that go opposite ways may be partners.
LEMMA PartneredKept ==
  ASSUME NEW es, Table(es), \A e \in Entries : es[e].amount \in Nat,
         NEW a \in Entries, NEW b \in Entries, a # b,
         es[a].kind = "debt" /\ es[b].kind = "debt" /\ es[a].dir # es[b].dir,
         NEW es2, es2 = Partnered(es, a, b)
  PROVE  /\ Fair(es) => Fair(es2)
         /\ Repaid(es2) = Repaid(es)
         /\ \A e \in Entries : es2[e].amount \in Nat
<1>1. /\ es2[a] = [es[a] EXCEPT !.partner = b] /\ es2[b] = [es[b] EXCEPT !.partner = a]
      /\ \A e \in Entries : e # a /\ e # b => es2[e] = es[e]
  <2>1. a \in Entries \cup {0} /\ b \in Entries \cup {0}
    OBVIOUS
  <2>2. es2 = Points(Points(es, a, b), b, a)
    BY DEF Partnered
  <2> QED BY <2>1, <2>2, PointsIs
<1>2. \A e \in Entries : EntryFits(es[e]) /\ es[e].partner \in Entries \cup {0}
  BY DEF Table, EntryFits, EntryType
<1>3. ASSUME NEW e \in Entries
      PROVE  /\ es2[e].st = es[e].st /\ es2[e].kind = es[e].kind /\ es2[e].dir = es[e].dir /\ es2[e].user = es[e].user
             /\ es2[e].amount = es[e].amount /\ es2[e].parts = es[e].parts
             /\ es2[e].partner = IF e = a THEN b ELSE IF e = b THEN a ELSE es[e].partner
  <2>1. CASE e # a /\ e # b
    BY <1>1, <2>1
  <2>2. CASE e = a
    BY <1>1, <1>2, <2>2, PartnerSet
  <2>3. CASE e = b
    BY <1>1, <1>2, <2>3, PartnerSet
  <2> QED BY <2>1, <2>2, <2>3
<1>4. ASSUME Fair(es) PROVE Fair(es2)
  <2> SUFFICES ASSUME NEW e \in Entries, es2[e].st = "live"
               PROVE  /\ (\E p \in Papers : es2[e].parts[p] > 0) => es2[e].amount = PartsSum(es2[e].parts)
                      /\ \A p \in Papers : es2[e].parts[p] > 0 => es2[e].kind = "debt" /\ es2[e].dir = WayOf(p, es2[e].user)
                      /\ es2[e].partner # 0 => /\ es2[e].kind = "debt" /\ es2[es2[e].partner].kind = "debt"
                                               /\ es2[es2[e].partner].dir # es2[e].dir
    BY DEF Fair
  <2>1. (\E p \in Papers : es2[e].parts[p] > 0) => es2[e].amount = PartsSum(es2[e].parts)
    BY <1>3, <1>4 DEF Fair
  <2>2. \A p \in Papers : es2[e].parts[p] > 0 => es2[e].kind = "debt" /\ es2[e].dir = WayOf(p, es2[e].user)
    BY <1>3, <1>4 DEF Fair
  <2>3. es2[e].partner # 0 => /\ es2[e].kind = "debt" /\ es2[es2[e].partner].kind = "debt"
                              /\ es2[es2[e].partner].dir # es2[e].dir
    BY <1>2, <1>3, <1>4 DEF Fair
  <2> QED BY <2>1, <2>2, <2>3
<1>5. Repaid(es2) = Repaid(es)
  BY <1>3, RepaidSame
<1> QED BY <1>3, <1>4, <1>5

\* The papers of one debt are all owed by the same user.
LEMMA SameDebtor ==
  ASSUME NEW ps \in SUBSET Papers, Cardinality({Debtor[p] : p \in ps}) = 1, NEW p \in ps, NEW q \in ps
  PROVE  Debtor[p] = Debtor[q]
<1> DEFINE D == {Debtor[x] : x \in ps}
<1>1. IsFiniteSet(D)
  <2>1. PICK a \in Users, b \in Users : Users = {a} \cup {b}
    BY DebtUsers
  <2>2. IsFiniteSet({a}) /\ IsFiniteSet({b})
    BY FS_Singleton
  <2>3. IsFiniteSet(Users)
    BY <2>1, <2>2, FS_Union
  <2>4. D \subseteq Users
    BY DebtPapers
  <2> QED BY <2>3, <2>4, FS_Subset
<1>2. Debtor[p] \in D /\ Debtor[q] \in D
  OBVIOUS
<1> HIDE DEF D
<1>3. \E x : D = {x}
  BY <1>1, FS_Singleton DEF D
<1> QED BY <1>2, <1>3

\* The two users of a paper see it opposite ways.
LEMMA WaysApart == ASSUME NEW u \in Users, NEW p \in Papers PROVE WayOf(p, u) # WayOf(p, Other(u))
  BY DebtUsers, DebtPapers, OtherIs DEF WayOf

\* CreatePaperDebtTx.
LEMMA CreatePaperDebtKept ==
  ASSUME Good(entry, txn, known), Kept(entry, txn, told),
         NEW u \in Users, NEW ps \in SUBSET Papers, NEW key \in Keys, NEW date \in Nat,
         CreatePaperDebt(u, ps, key, date)
  PROVE  Kept(entry', txn', told')
<1> DEFINE e == First(Entries, entry)
           parts == [p \in Papers |-> IF p \in ps THEN Says[p] ELSE 0]
           dir == IF \A p \in ps : Debtor[p] = u THEN "received" ELSE "paid"
           plain == Row(u, "debt", dir, key, PartsSum(parts), date)
           row == OfPaper(plain, parts)
           made == [entry EXCEPT ![e] = row]
           partners == UNION {PartnersFor(u, p) : p \in ps}
<1>0. /\ entry' = IF Cardinality(ps) > 1 \/ partners = {} THEN made ELSE Partnered(made, e, CHOOSE d \in partners : TRUE)
      /\ UNCHANGED <<txn, told>> /\ Cardinality({Debtor[p] : p \in ps}) = 1
  BY DEF CreatePaperDebt
<1>1. e \in Entries /\ entry[e].st = "new"
  <2>1. Room(Entries, entry) /\ Entries \subseteq Nat
    BY DebtIds DEF CreatePaperDebt
  <2> QED BY <2>1, FirstIs
<1>2. parts \in [Papers -> Nat] /\ \A p \in Papers : parts[p] > 0 => p \in ps
  BY DebtPapers
<1>3. \A p \in ps : dir = WayOf(p, u)
  BY <1>0, SameDebtor DEF WayOf
<1>4. /\ EntryFits(plain) /\ plain.st = "live" /\ plain.user = u /\ plain.kind = "debt" /\ plain.dir = dir
      /\ plain.amount = PartsSum(parts) /\ plain.partner = 0
  <2>1. dir \in Directions /\ "debt" \in Kinds
    BY DEF Directions, Kinds
  <2> HIDE DEF dir, parts
  <2> QED BY <2>1, RowIsNew
<1> HIDE DEF plain, dir
<1>5. /\ EntryFits(row) /\ row.st = "live" /\ row.user = u /\ row.kind = "debt" /\ row.dir = dir
      /\ row.amount = PartsSum(parts) /\ row.partner = 0 /\ row.parts = parts
  <2> HIDE DEF parts
  <2>1. \E t : TxFits(t)
    BY TxRowIsNew, DebtUsers
  <2> QED BY <2>1, <1>2, <1>4, RowsKeep
<1>6. PartsSum(parts) \in Nat
  <2> HIDE DEF parts
  <2> QED BY <1>2, PartsSumWhole
<1> HIDE DEF row, parts, e
<1>7. \A f \in Entries : made[f] = IF f = e THEN row ELSE entry[f]
  BY DEF Good, RowsFit
<1>8. Table(made) /\ \A f \in Entries : made[f].amount \in Nat
  <2>1. made = [f \in Entries |-> made[f]]
    BY DEF Good, RowsFit
  <2> HIDE DEF made
  <2>2. \A f \in Entries : EntryFits(made[f]) /\ made[f].amount \in Nat
    BY <1>5, <1>6, <1>7 DEF Good, RowsFit, Kept, Amounted
  <2> QED BY <2>1, <2>2 DEF Table
<1> HIDE DEF made
<1>9. (Fair(entry) => Fair(made)) /\ Repaid(made) = Repaid(entry)
  <2>1. \A f \in Entries : entry[f].partner \in Entries \cup {0} /\ entry[f].amount \in Nat
    BY PartnersAre DEF Kept, Amounted
  <2>2. Mutual(entry)
    BY DEF Good
  <2>3. (\A f \in Entries \ {e} : made[f] = entry[f]) /\ made[e] = row
    BY <1>1, <1>7
  <2>4. made[e].st = "live" /\ made[e].partner = 0 /\ made[e].amount \in Nat /\ made[e].kind = "debt"
    BY <1>5, <1>6, <2>3
  <2>5. /\ (\E p \in Papers : made[e].parts[p] > 0) => made[e].amount = PartsSum(made[e].parts)
        /\ \A p \in Papers : made[e].parts[p] > 0 => made[e].kind = "debt" /\ made[e].dir = WayOf(p, made[e].user)
    BY <1>2, <1>3, <1>5, <2>3
  <2>6. /\ Fair(entry) => Fair(made)
        /\ Repaid(made) = Repaid(entry) + (IF made[e].kind = "repayment" THEN Worth(made[e]) ELSE 0)
    BY <1>1, <2>1, <2>2, <2>3, <2>4, <2>5, PutKeeps
  <2>7. Repaid(entry) \in Int
    BY <2>1, RepayingWhole
  <2> QED BY <2>4, <2>6, <2>7
<1>10. ASSUME Amounted(made, txn)
       PROVE  Kept(made, txn, told)
  BY <1>9, <1>10 DEF Kept
<1>11. Amounted(made, txn)
  BY <1>8 DEF Kept, Amounted
<1>12. ASSUME NEW d \in partners, NEW es2, es2 = Partnered(made, e, d) PROVE Kept(es2, txn, told)
  <2>1. PICK p \in ps : d \in PartnersFor(u, p)
    OBVIOUS
  <2>2. /\ d \in Entries /\ entry[d].st = "live" /\ entry[d].user = Other(u) /\ entry[d].kind = "debt"
        /\ entry[d].parts[p] > 0
    BY <2>1 DEF PartnersFor, PartOn, BookOf, Live
  <2>3. d # e /\ made[d] = entry[d] /\ made[e] = row
    BY <2>2, <1>1, <1>7
  <2>4. CASE Fair(entry)
    <3>1. entry[d].dir = WayOf(p, Other(u)) /\ p \in Papers
      BY <2>2, <2>4 DEF Fair
    <3>2. made[e].kind = "debt" /\ made[d].kind = "debt" /\ made[e].dir # made[d].dir
      BY <1>3, <1>5, <2>2, <2>3, <3>1, WaysApart
    <3>3. /\ Fair(made) => Fair(es2)
          /\ Repaid(es2) = Repaid(made)
          /\ \A f \in Entries : es2[f].amount \in Nat
      BY <1>1, <1>8, <1>12, <2>2, <2>3, <3>2, PartneredKept
    <3> QED BY <1>9, <1>11, <2>4, <3>3 DEF Kept, Amounted
  <2>5. CASE ~Fair(entry)
    <3>1. told = "no"
      BY <2>5 DEF Kept
    <3>2. es2 = Points(Points(made, e, d), d, e) /\ e \in Entries \cup {0} /\ d \in Entries \cup {0}
      BY <1>1, <1>12, <2>2 DEF Partnered
    <3>3. /\ es2[e] = [made[e] EXCEPT !.partner = d] /\ es2[d] = [made[d] EXCEPT !.partner = e]
          /\ \A f \in Entries : f # e /\ f # d => es2[f] = made[f]
      BY <1>1, <1>8, <2>2, <2>3, <3>2, PointsIs
    <3>4. EntryFits(made[e]) /\ EntryFits(made[d])
      BY <1>1, <1>8, <2>2 DEF Table
    <3>5. es2[e].amount = made[e].amount /\ es2[d].amount = made[d].amount
      BY <3>2, <3>3, <3>4, PartnerSet
    <3> QED BY <1>1, <1>11, <2>2, <3>1, <3>3, <3>5 DEF Kept, Amounted
  <2> QED BY <2>4, <2>5
<1>13. Kept(entry', txn, told)
  <2>1. CASE entry' = made
    BY <2>1, <1>10, <1>11
  <2>2. CASE partners # {} /\ entry' = Partnered(made, e, CHOOSE d \in partners : TRUE)
    <3>1. (CHOOSE d \in partners : TRUE) \in partners
      BY <2>2
    <3> HIDE DEF partners
    <3>2. PICK es2 : es2 = entry'
      OBVIOUS
    <3> QED BY <2>2, <3>1, <3>2, <1>12
  <2> HIDE DEF partners
  <2> QED BY <2>1, <2>2, <1>0
<1> QED BY <1>0, <1>13

\* What is gone is of no amount.
LEMMA GoneAmounts == Gone.amount \in Nat /\ [NoTx EXCEPT !.st = "gone"].amount \in Nat
  BY DEF Gone, NoEntry, NoTx

\* Rows that go leave whole amounts.
LEMMA RemovedAmounts ==
  ASSUME Good(entry, txn, known), Amounted(entry, txn), NEW es
  PROVE  \A e \in Entries : WithoutEntries(es)[e].amount \in Nat
<1> SUFFICES ASSUME NEW e \in Entries, NEW new, new = WithoutEntries(es)[e] PROVE new.amount \in Nat
  OBVIOUS
<1>1. EntryFits(entry[e]) /\ entry[e].amount \in Nat
  BY DEF Good, RowsFit, Amounted
<1>2. new = Gone \/ new = [entry[e] EXCEPT !.partner = 0] \/ new = entry[e]
  BY DEF WithoutEntries
<1>3. CASE new = Gone
  BY <1>3, GoneAmounts
<1>4. CASE new = [entry[e] EXCEPT !.partner = 0]
  <2>1. 0 \in Entries \cup {0}
    OBVIOUS
  <2> QED BY <1>1, <1>4, <2>1, PartnerSet
<1>5. CASE new = entry[e]
  BY <1>1, <1>5
<1> QED BY <1>2, <1>3, <1>4, <1>5

\* DeleteEntryTx and DeleteEntry.
LEMMA DeletesKept ==
  ASSUME Good(entry, txn, known), Amounted(entry, txn), NEW e \in Entries,
         DeletePaperEntry(e) \/ \E u \in Users : DeleteEntry(u, e)
  PROVE  Kept(entry', txn', told')
<1>1. /\ entry' = WithoutEntries({e}) /\ told' = "no"
      /\ \A t \in Txs : txn'[t] = txn[t] \/ txn'[t] = [NoTx EXCEPT !.st = "gone"] \/ txn'[t] = Plain(txn[t])
  BY DEF DeletePaperEntry, DeleteEntry
<1>2. ASSUME NEW t \in Txs PROVE txn'[t].amount \in Nat
  <2>1. TxFits(txn[t]) /\ txn[t].amount \in Nat
    BY DEF Good, RowsFit, Amounted
  <2>2. CASE txn'[t] = txn[t]
    BY <2>1, <2>2
  <2>3. CASE txn'[t] = [NoTx EXCEPT !.st = "gone"]
    BY <2>3, GoneAmounts, Zenon
  <2>4. CASE txn'[t] = Plain(txn[t])
    <3>1. \E r : EntryFits(r)
      BY GoneIs
    <3> QED BY <2>1, <2>4, <3>1, TxsKeep
  <2> QED BY <1>1, <2>2, <2>3, <2>4
<1>3. \A f \in Entries : WithoutEntries({e})[f].amount \in Nat
  BY RemovedAmounts
<1> QED BY <1>1, <1>2, <1>3 DEF Kept, Amounted

\* Delete of a transaction.
LEMMA DeleteTxKept ==
  ASSUME Good(entry, txn, known), Kept(entry, txn, told), NEW t \in Txs, NEW source \in Entries \cup {0}, DeleteTx(t, source)
  PROVE  Kept(entry', txn', told')
<1> DEFINE es == {e \in {source} \ {0} : Live(e) /\ entry[e].user = txn[t].user}
           ts == [txn EXCEPT ![t] = [NoTx EXCEPT !.st = "gone"]]
<1>1. /\ entry' = IF es = {} THEN entry ELSE WithoutEntries(es)
      /\ txn' = LetGo(ts, es) /\ told' = IF source = 0 THEN told ELSE "no"
  BY DEF DeleteTx
<1>2. Amounted(entry, txn) /\ (source = 0 => es = {})
  BY DEF Kept
<1>3. ASSUME NEW s \in Txs PROVE TxFits(ts[s]) /\ ts[s].amount \in Nat
  <2>1. ts[s] = IF s = t THEN [NoTx EXCEPT !.st = "gone"] ELSE txn[s]
    BY DEF Good, RowsFit
  <2>2. CASE s = t
    BY <2>1, <2>2, TxGone, GoneAmounts, Zenon
  <2>3. CASE s # t
    BY <2>1, <2>3, <1>2 DEF Good, RowsFit, Amounted
  <2> QED BY <2>2, <2>3
<1> HIDE DEF ts, es
<1>4. ASSUME NEW s \in Txs PROVE txn'[s].amount \in Nat
  <2>1. txn'[s] = ts[s] \/ txn'[s] = [ts[s] EXCEPT !.source = 0]
    BY <1>1 DEF LetGo
  <2>2. CASE txn'[s] = ts[s]
    BY <1>3, <2>2
  <2>3. CASE txn'[s] = [ts[s] EXCEPT !.source = 0]
    BY <1>3, <2>3, TxSourceSet
  <2> QED BY <2>1, <2>2, <2>3
<1>5. \A f \in Entries : entry'[f].amount \in Nat
  BY <1>1, <1>2, RemovedAmounts DEF Amounted
<1>6. Amounted(entry', txn')
  BY <1>4, <1>5 DEF Amounted
<1>7. CASE source = 0
  BY <1>1, <1>2, <1>6, <1>7 DEF Kept
<1>8. CASE source # 0
  BY <1>1, <1>6, <1>8 DEF Kept
<1> QED BY <1>7, <1>8

\* LinkPaperPartTx.
LEMMA BookPaybackKept ==
  ASSUME Good(entry, txn, known), Amounted(entry, txn),
         NEW u \in Users, NEW p \in Papers, NEW key \in Keys, NEW date \in Nat,
         NEW with \in {"none", "tx", "link"}, BookPayback(u, p, key, date, with)
  PROVE  Kept(entry', txn', told')
<1> DEFINE dir == IF Debtor[p] = u THEN "paid" ELSE "received"
<1>1. dir \in Directions /\ "repayment" \in Kinds /\ Says[p] \in Nat
  BY DebtPapers DEF Directions, Kinds
<1>2. PICK r \in Inserts(entry, txn, u, "repayment", dir, key, Says[p], date, with) :
        /\ entry' = [r.entry EXCEPT ![r.made] = OfPaper(r.entry[r.made], [r.entry[r.made].parts EXCEPT ![p] = Says[p]])]
        /\ txn' = r.txn
  BY Zenon DEF BookPayback
<1> HIDE DEF dir
<1>3. Good(r.entry, r.txn, known) /\ r.made \in Entries /\ r.entry[r.made].parts = [q \in Papers |-> 0]
  BY <1>1, Inserted
<1>4. Amounted(r.entry, r.txn)
  BY <1>1, InsertedIs
<1> DEFINE old == r.entry[r.made]
           parts == [old.parts EXCEPT ![p] = Says[p]]
           row == OfPaper(old, parts)
<1>5. EntryFits(old) /\ parts \in [Papers -> Nat]
  BY <1>1, <1>3 DEF Good, RowsFit
<1>6. row.amount = old.amount
  <2> HIDE DEF parts, old
  <2>1. \E t : TxFits(t)
    BY TxRowIsNew, DebtUsers
  <2> QED BY <2>1, <1>5, RowsKeep
<1>7. entry' = [r.entry EXCEPT ![r.made] = row]
  BY <1>2
<1> HIDE DEF row
<1>8. \A f \in Entries : entry'[f] = IF f = r.made THEN row ELSE r.entry[f]
  BY <1>3, <1>7 DEF Good, RowsFit
<1>9. told' = "no"
  BY DEF BookPayback
<1> QED BY <1>2, <1>3, <1>4, <1>6, <1>8, <1>9 DEF Kept, Amounted

\* LinkTx.
LEMMA LinkTxKept ==
  ASSUME Good(entry, txn, known), Amounted(entry, txn), NEW u \in Users, NEW e \in Entries, NEW t \in Txs, LinkTx(u, e, t)
  PROVE  Kept(entry', txn', told')
<1> DEFINE row == Valued(entry[e], txn[t])
           x == Connected(txn[t], e)
<1>1. entry' = [entry EXCEPT ![e] = row] /\ txn' = [txn EXCEPT ![t] = x] /\ told' = "no"
  BY DEF LinkTx
<1>2. EntryFits(entry[e]) /\ TxFits(txn[t]) /\ txn[t].amount \in Nat
  BY DEF Good, RowsFit, Amounted
<1>3. row.amount = txn[t].amount
  <2>1. \E parts : parts \in [Papers -> Nat]
    BY <1>2 DEF EntryFits, EntryType
  <2> QED BY <1>2, <2>1, RowsKeep
<1>4. x.amount = txn[t].amount
  BY <1>2, TxsKeep
<1> HIDE DEF row, x
<1>5. /\ \A f \in Entries : entry'[f] = IF f = e THEN row ELSE entry[f]
      /\ \A s \in Txs : txn'[s] = IF s = t THEN x ELSE txn[s]
  BY <1>1 DEF Good, RowsFit
<1> QED BY <1>1, <1>2, <1>3, <1>4, <1>5 DEF Kept, Amounted

\* UnlinkTx.
LEMMA UnlinkTxKept ==
  ASSUME Good(entry, txn, known), Kept(entry, txn, told), NEW u \in Users, NEW e \in Entries, UnlinkTx(u, e)
  PROVE  Kept(entry', txn', told')
<1>1. PICK t \in TxOf(e) : txn' = [txn EXCEPT ![t] = Plain(txn[t])]
  BY DEF UnlinkTx
<1>2. t \in Txs /\ TxFits(txn[t]) /\ txn[t].amount \in Nat
  BY DEF TxOf, Good, RowsFit, Kept, Amounted
<1>3. Plain(txn[t]).amount = txn[t].amount
  <2>1. \E r : EntryFits(r)
    BY GoneIs
  <2> QED BY <1>2, <2>1, TxsKeep
<1>4. \A s \in Txs : txn'[s].amount \in Nat
  <2> DEFINE x == Plain(txn[t])
  <2> HIDE DEF x
  <2>1. \A s \in Txs : txn'[s] = IF s = t THEN x ELSE txn[s]
    BY <1>1 DEF Good, RowsFit, x
  <2> QED BY <1>2, <1>3, <2>1 DEF Kept, Amounted, x
<1>5. UNCHANGED <<entry, told>>
  BY DEF UnlinkTx
<1> QED BY <1>4, <1>5 DEF Kept, Amounted

\* A plain transaction.
LEMMA PlainTxKept ==
  ASSUME Good(entry, txn, known), Kept(entry, txn, told), NEW u \in Users, NEW type, NEW amount \in Nat, NEW date,
         PlainTx(u, type, amount, date)
  PROVE  Kept(entry', txn', told')
<1> DEFINE t == First(Txs, txn)
           x == TxRow(u, type, amount, date, 0)
<1>1. txn' = [txn EXCEPT ![t] = x] /\ UNCHANGED <<entry, told>>
  BY DEF PlainTx
<1>2. x.amount \in Nat
  BY DEF TxRow
<1> HIDE DEF t, x
<1>3. \A s \in Txs : txn'[s] = IF s = t THEN x ELSE txn[s]
  BY <1>1 DEF Good, RowsFit
<1> QED BY <1>1, <1>2, <1>3 DEF Kept, Amounted

\* Update of a transaction, and the entry behind it.
LEMMA EditTxKept ==
  ASSUME Good(entry, txn, known), Kept(entry, txn, told), NEW t \in Txs, NEW by, NEW amount \in Nat, EditTx(t, by, amount)
  PROVE  Kept(entry', txn', told')
<1> DEFINE c == txn[t].source # 0 /\ by # txn[t].user
           x == [txn[t] EXCEPT !.amount = amount, !.crossed = c]
           v == [txn[t] EXCEPT !.amount = amount]
<1>0. 0 \notin Entries
  BY DebtIds
<1>1. /\ txn' = [txn EXCEPT ![t].amount = amount, ![t].crossed = c] /\ entry' = TxEdited(t, by, amount)
      /\ told' = IF txn[t].source = 0 \/ by # txn[t].user THEN told ELSE "no"
  BY DEF EditTx
<1>2. TxFits(txn[t]) /\ TxFits(v) /\ v.amount = amount /\ x.amount = amount
  <2>1. TxFits(txn[t]) /\ c \in BOOLEAN /\ x = [txn[t] EXCEPT !.amount = amount, !.crossed = c]
    BY DEF Good, RowsFit
  <2>2. TxFits(v) /\ v.amount = amount
    BY <2>1, TxAmountSet
  <2> HIDE DEF c, x
  <2>3. x.amount = amount
    BY <2>1 DEF TxFits, TxType
  <2> QED BY <2>1, <2>2, <2>3
<1>3. \A s \in Txs : txn'[s] = IF s = t THEN x ELSE txn[s]
  BY <1>1 DEF Good, RowsFit
<1> HIDE DEF x, v, c
<1>4. ASSUME NEW e \in Entries
      PROVE  entry'[e].amount \in Nat
  <2>1. EntryFits(entry[e]) /\ entry[e].amount \in Nat
    BY DEF Good, RowsFit, Kept, Amounted
  <2>2. entry'[e] = entry[e] \/ (txn[t].source = e /\ entry'[e] = Valued(entry[e], v))
    BY <1>1 DEF TxEdited, v
  <2>3. CASE entry'[e] = entry[e]
    BY <2>1, <2>3
  <2>4. CASE txn[t].source = e /\ entry'[e] = Valued(entry[e], v)
    <3>1. \E parts : parts \in [Papers -> Nat]
      BY <2>1 DEF EntryFits, EntryType
    <3>2. Valued(entry[e], v).amount = v.amount
      BY <1>2, <2>1, <3>1, RowsKeep
    <3> QED BY <1>2, <2>4, <3>2
  <2> QED BY <2>2, <2>3, <2>4
<1>5. Amounted(entry', txn')
  BY <1>2, <1>3, <1>4 DEF Kept, Amounted
<1>6. CASE txn[t].source = 0 \/ by # txn[t].user
  <2>1. entry = [e \in Entries |-> entry[e]] /\ \A e \in Entries :
          ~(Live(e) /\ txn[t].source = e /\ entry[e].user = by)
    BY <1>0, <1>6 DEF EditTx, Good, RowsFit, OneValue
  <2>2. entry' = entry
    BY <1>1, <2>1 DEF TxEdited
  <2> QED BY <1>1, <1>5, <1>6, <2>2 DEF Kept
<1>7. CASE ~(txn[t].source = 0 \/ by # txn[t].user)
  BY <1>1, <1>5, <1>7 DEF Kept
<1> QED BY <1>6, <1>7

\* Steady rows of whole amounts keep what is told fair.
LEMMA SteadyKept ==
  ASSUME Good(entry, txn, known), Kept(entry, txn, told), Amounted(entry', txn'), told' = told,
         told # "no" => Steady(entry, entry')
  PROVE  Kept(entry', txn', told')
<1>1. CASE told = "no"
  BY <1>1 DEF Kept
<1>2. CASE told # "no"
  <2>1. PICK es2 : es2 = entry'
    OBVIOUS
  <2>2. \A e \in Entries : entry[e].partner \in Entries \cup {0} /\ entry[e].amount \in Nat
    BY PartnersAre DEF Kept, Amounted
  <2>3. (Fair(entry) => Fair(es2)) /\ Repaid(es2) = Repaid(entry)
    BY <1>2, <2>1, <2>2, SteadyKeeps
  <2>4. Fair(entry') /\ (told = "down" => Repaid(entry') = 0)
    BY <1>2, <2>1, <2>3 DEF Kept
  <2> QED BY <1>2, <2>4 DEF Kept
<1> QED BY <1>1, <1>2

\* debtFromPartsTx, of a debt.
LEMMA FromPartsKept ==
  ASSUME Good(entry, txn, known), Kept(entry, txn, told), NEW e \in Entries, Live(e), HasParts(e),
         NEW parts \in [Papers -> Nat], \A p \in Papers : parts[p] > 0 => entry[e].parts[p] > 0,
         FromParts(e, parts), told' = told
  PROVE  Kept(entry', txn', told')
<1> DEFINE left == {p \in Papers : parts[p] > 0}
           amount == IF left = {} THEN entry[e].amount ELSE PartsSum(parts)
           row == WithParts(entry[e], parts, amount)
<1>1. /\ entry' = [entry EXCEPT ![e] = row]
      /\ txn' = [t \in Txs |-> IF t \in TxOf(e) THEN [txn[t] EXCEPT !.amount = amount] ELSE txn[t]]
  BY DEF FromParts
<1>2. EntryFits(entry[e]) /\ entry[e].amount \in Nat /\ \A t \in Txs : TxFits(txn[t]) /\ txn[t].amount \in Nat
  BY DEF Good, RowsFit, Kept, Amounted
<1>3. amount \in Nat /\ ((\E p \in Papers : parts[p] > 0) => amount = PartsSum(parts))
  BY <1>2, PartsSumWhole
<1> HIDE DEF amount
<1>4. /\ row.st = entry[e].st /\ row.user = entry[e].user /\ row.partner = entry[e].partner
      /\ row.kind = entry[e].kind /\ row.dir = entry[e].dir
      /\ row.parts = parts /\ row.amount = amount
  <2> DEFINE old == entry[e]
  <2>1. \E t : TxFits(t)
    BY TxRowIsNew, DebtUsers
  <2>2. EntryFits(old)
    BY <1>2
  <2>3. row = WithParts(old, parts, amount)
    OBVIOUS
  <2> HIDE DEF old, row
  <2>4. /\ row.st = old.st /\ row.user = old.user /\ row.partner = old.partner
        /\ row.kind = old.kind /\ row.dir = old.dir
        /\ row.parts = parts /\ row.amount = amount
    BY <2>1, <2>2, <2>3, RowsKeep
  <2> QED BY <2>4, Zenon DEF old
<1> HIDE DEF row
<1>5. \A f \in Entries : entry'[f] = IF f = e THEN row ELSE entry[f]
  BY <1>1 DEF Good, RowsFit
<1>6. Amounted(entry', txn')
  <2>1. \A f \in Entries : entry'[f].amount \in Nat
    BY <1>3, <1>4, <1>5 DEF Kept, Amounted
  <2>2. \A t \in Txs : txn'[t].amount \in Nat
    <3> SUFFICES ASSUME NEW t \in Txs PROVE txn'[t].amount \in Nat
      OBVIOUS
    <3>1. txn'[t] = txn[t] \/ txn'[t] = [txn[t] EXCEPT !.amount = amount]
      BY <1>1
    <3>2. CASE txn'[t] = txn[t]
      BY <1>2, <3>2
    <3>3. CASE txn'[t] = [txn[t] EXCEPT !.amount = amount]
      BY <1>2, <1>3, <3>3, TxAmountSet
    <3> QED BY <3>1, <3>2, <3>3
  <2> QED BY <2>1, <2>2 DEF Amounted
<1>7. ASSUME told # "no" PROVE Steady(entry, entry')
  <2>1. entry[e].kind = "debt"
    BY <1>7 DEF Kept, Fair, Live, HasParts
  <2> SUFFICES ASSUME NEW f \in Entries
               PROVE  /\ entry'[f].st = entry[f].st /\ entry'[f].kind = entry[f].kind /\ entry'[f].dir = entry[f].dir
                      /\ entry'[f].user = entry[f].user /\ entry'[f].partner \in {0, entry[f].partner}
                      /\ \A p \in Papers : entry'[f].parts[p] > 0 => entry[f].parts[p] > 0
                      /\ \/ entry'[f].amount = entry[f].amount /\ (entry'[f].parts = entry[f].parts \/ (\A p \in Papers : ~(entry'[f].parts[p] > 0)))
                         \/ entry[f].kind = "debt" /\ ((\E p \in Papers : entry'[f].parts[p] > 0) => entry'[f].amount = PartsSum(entry'[f].parts))
    BY Zenon DEF Steady
  <2>2. CASE f = e
    BY <1>3, <1>4, <1>5, <2>1, <2>2
  <2>3. CASE f # e
    BY <1>5, <2>3
  <2> QED BY <2>2, <2>3
<1> QED BY <1>6, <1>7, SteadyKept

\* SetPaperPartAmountTx and DropPaperPartTx.
LEMMA PaperPartKept ==
  ASSUME Good(entry, txn, known), Kept(entry, txn, told), NEW e \in Entries, NEW p \in Papers,
         \/ \E a \in Amounts : SetPaperPart(e, p, a)
         \/ DropPaperPart(e, p)
  PROVE  Kept(entry', txn', told')
<1>1. PICK a \in Amounts \cup {0} : FromParts(e, [entry[e].parts EXCEPT ![p] = a])
  BY Zenon DEF SetPaperPart, DropPaperPart
<1>2. Live(e) /\ entry[e].parts[p] > 0 /\ told' = told
  BY DEF SetPaperPart, DropPaperPart
<1> DEFINE parts == [entry[e].parts EXCEPT ![p] = a]
<1>3. entry[e].parts \in [Papers -> Nat]
  BY DEF Good, RowsFit, EntryFits, EntryType
<1>4. parts \in [Papers -> Nat] /\ \A q \in Papers : parts[q] > 0 => entry[e].parts[q] > 0
  BY <1>2, <1>3, DebtScenes
<1>5. HasParts(e)
  BY <1>2 DEF HasParts
<1> HIDE DEF parts
<1>6. FromParts(e, parts)
  BY <1>1 DEF parts
<1> QED BY <1>2, <1>4, <1>5, <1>6, FromPartsKept

\* Rows that only lose partners, or change their key.
LEMMA RowsKept ==
  ASSUME Good(entry, txn, known), Kept(entry, txn, told), txn' = txn, told' = told,
         \A e \in Entries :
           /\ entry'[e].st = entry[e].st /\ entry'[e].kind = entry[e].kind /\ entry'[e].dir = entry[e].dir
           /\ entry'[e].user = entry[e].user /\ entry'[e].amount = entry[e].amount
           /\ entry'[e].partner \in {0, entry[e].partner}
           /\ entry'[e].parts = entry[e].parts \/ (\A p \in Papers : ~(entry'[e].parts[p] > 0))
  PROVE  Kept(entry', txn', told')
<1>1. Amounted(entry', txn')
  BY DEF Kept, Amounted
<1>2. Steady(entry, entry')
  BY DEF Steady
<1> QED BY <1>1, <1>2, SteadyKept

\* UnlinkPaperDebtTx.
LEMMA UnlinkPaperDebtKept ==
  ASSUME Good(entry, txn, known), Kept(entry, txn, told), NEW e \in Entries, UnlinkPaperDebt(e)
  PROVE  Kept(entry', txn', told')
<1>1. ASSUME NEW x \in Entries
      PROVE  /\ entry'[x].st = entry[x].st /\ entry'[x].kind = entry[x].kind /\ entry'[x].dir = entry[x].dir
             /\ entry'[x].user = entry[x].user /\ entry'[x].amount = entry[x].amount
             /\ entry'[x].partner \in {0, entry[x].partner}
             /\ entry'[x].parts = entry[x].parts \/ (\A p \in Papers : ~(entry'[x].parts[p] > 0))
  <2>1. EntryFits(entry[x])
    BY DEF Good, RowsFit
  <2>2. PICK new, old : new = entry'[x] /\ old = entry[x]
    OBVIOUS
  <2>3. new = OffPaper(old) \/ new = old \/ new = [old EXCEPT !.partner = 0]
    BY <2>2 DEF UnlinkPaperDebt
  <2>4. EntryFits(old)
    BY <2>1, <2>2
  <2>5. CASE new = OffPaper(old)
    <3>1. \E t : TxFits(t)
      BY TxRowIsNew, DebtUsers
    <3>2. \E parts : parts \in [Papers -> Nat]
      BY <2>4 DEF EntryFits, EntryType
    <3>3. /\ new.st = old.st /\ new.user = old.user /\ new.amount = old.amount
          /\ new.dir = old.dir /\ new.parts = [p \in Papers |-> 0]
          /\ new.kind = old.kind /\ new.partner = 0
      BY <2>4, <2>5, <3>1, <3>2, RowsKeep
    <3>4. \A p \in Papers : ~(new.parts[p] > 0)
      BY <3>3
    <3> QED BY <2>2, <3>3, <3>4
  <2>6. CASE new = old
    BY <2>2, <2>6
  <2>7. CASE new = [old EXCEPT !.partner = 0]
    <3>1. 0 \in Entries \cup {0}
      OBVIOUS
    <3> QED BY <2>2, <2>4, <2>7, <3>1, PartnerSet
  <2> QED BY <2>3, <2>5, <2>6, <2>7
<1>2. UNCHANGED <<txn, told>>
  BY DEF UnlinkPaperDebt
<1> QED BY <1>1, <1>2, RowsKept

\* Disconnect.
LEMMA DisconnectKept ==
  ASSUME Good(entry, txn, known), Kept(entry, txn, told), NEW e \in Entries, Disconnect(e)
  PROVE  Kept(entry', txn', told')
<1>0. 0 \notin Entries
  BY DebtIds
<1>1. EntryFits(entry[e]) /\ entry[e].st = "live" /\ entry[e].partner # 0 /\ Table(entry)
  BY DEF Good, RowsFit, Disconnect, Live, Table
<1> DEFINE b == entry[e].partner
<1>2. b \in Entries /\ b # e
  <2>1. b \in Entries
    BY <1>1, PointsStays
  <2> QED BY <1>1, <2>1 DEF Good, Mutual
<1>3. entry' = Points(Points(entry, e, 0), b, 0) /\ UNCHANGED <<txn, told>>
  BY DEF Disconnect
<1> HIDE DEF b
<1>4. /\ entry'[e] = [entry[e] EXCEPT !.partner = 0] /\ entry'[b] = [entry[b] EXCEPT !.partner = 0]
      /\ \A f \in Entries : f # e /\ f # b => entry'[f] = entry[f]
  <2>1. PICK es, es2 : es = entry /\ es2 = entry'
    OBVIOUS
  <2>2. Table(es) /\ e # b /\ b \in Entries
    BY <1>1, <1>2, <2>1
  <2>3. \A o \in Entries \cup {0} : es2 = Points(Points(es, e, o), b, o) =>
          /\ es2[e] = [es[e] EXCEPT !.partner = o] /\ es2[b] = [es[b] EXCEPT !.partner = o]
          /\ \A f \in Entries : f # e /\ f # b => es2[f] = es[f]
    BY <2>2, PointsIs
  <2> QED BY <1>3, <2>1, <2>3
<1>5. ASSUME NEW x \in Entries
      PROVE  /\ entry'[x].st = entry[x].st /\ entry'[x].kind = entry[x].kind /\ entry'[x].dir = entry[x].dir
             /\ entry'[x].user = entry[x].user /\ entry'[x].amount = entry[x].amount
             /\ entry'[x].partner \in {0, entry[x].partner}
             /\ entry'[x].parts = entry[x].parts
  <2>1. EntryFits(entry[x]) /\ 0 \in Entries \cup {0}
    BY <1>1 DEF Table
  <2>2. CASE entry'[x] = entry[x]
    BY <2>2
  <2>3. CASE entry'[x] = [entry[x] EXCEPT !.partner = 0]
    BY <2>1, <2>3, PartnerSet
  <2> QED BY <1>4, <2>2, <2>3
<1> QED BY <1>3, <1>5, RowsKept

\* AbsorbForContact and RestoreOnContactDeleteTx.
LEMMA ContactsKept ==
  ASSUME Good(entry, txn, known), Kept(entry, txn, told), NEW u \in Users, Absorb(u) \/ DeleteContact(u)
  PROVE  Kept(entry', txn', told')
<1>1. PICK k \in Keys : entry' = Keyed(u, k)
  BY DEF Absorb, DeleteContact, Restored, Keyed, Keys
<1>2. UNCHANGED <<txn, told>>
  BY DEF Absorb, DeleteContact
<1>3. ASSUME NEW x \in Entries
      PROVE  /\ entry'[x].st = entry[x].st /\ entry'[x].kind = entry[x].kind /\ entry'[x].dir = entry[x].dir
             /\ entry'[x].user = entry[x].user /\ entry'[x].amount = entry[x].amount
             /\ entry'[x].partner = entry[x].partner /\ entry'[x].parts = entry[x].parts
  <2>1. EntryFits(entry[x])
    BY DEF Good, RowsFit
  <2>2. entry'[x] = entry[x] \/ entry'[x] = [entry[x] EXCEPT !.key = k]
    BY <1>1 DEF Keyed
  <2>3. CASE entry'[x] = entry[x]
    BY <2>3
  <2>4. CASE entry'[x] = [entry[x] EXCEPT !.key = k]
    BY <2>1, <2>4, KeySet
  <2> QED BY <2>2, <2>3, <2>4
<1> QED BY <1>2, <1>3, RowsKept

\* UpdateEntry.
LEMMA UpdateEntryKept ==
  ASSUME Good(entry, txn, known), Kept(entry, txn, told), NEW u \in Users, NEW e \in Entries,
         NEW next \in Edits(e) \cup {entry[e]}, NEW wantTx \in BOOLEAN, UpdateEntry(u, e, next, wantTx)
  PROVE  Kept(entry', txn', told')
<1>1. EntryFits(entry[e]) /\ entry[e].amount \in Nat
  BY DEF Good, RowsFit, Kept, Amounted
<1>2. /\ next.st = entry[e].st /\ next.user = entry[e].user /\ next.partner = entry[e].partner
      /\ next.parts = entry[e].parts /\ next.kind = entry[e].kind
  BY <1>1, EditsKeep
<1>3. next.amount \in Nat
  <2> DEFINE old == entry[e]
  <2>1. \/ next = old
        \/ \E a \in Amounts : next = [old EXCEPT !.amount = a]
        \/ \E d \in Dates : next = [old EXCEPT !.date = d]
        \/ \E d \in Directions : next = [old EXCEPT !.dir = d]
        \/ \E k \in Keys : next = [old EXCEPT !.key = k]
        \/ next = [old EXCEPT !.paid = TRUE]
    BY DEF Edits, Keys
  <2>2. EntryFits(old) /\ old.amount \in Nat
    BY <1>1
  <2> HIDE DEF old
  <2>3. CASE next = old
    BY <2>2, <2>3
  <2>4. ASSUME NEW a \in Amounts, next = [old EXCEPT !.amount = a] PROVE next.amount \in Nat
    BY <2>2, <2>4, AmountSet, DebtScenes
  <2>5. ASSUME NEW d \in Dates, next = [old EXCEPT !.date = d] PROVE next.amount \in Nat
    <3>1. d \in Nat
      BY DebtScenes
    <3> QED BY <2>2, <2>5, <3>1, DateSet
  <2>6. ASSUME NEW d \in Directions, next = [old EXCEPT !.dir = d] PROVE next.amount \in Nat
    BY <2>2, <2>6, DirSet
  <2>7. ASSUME NEW k \in Keys, next = [old EXCEPT !.key = k] PROVE next.amount \in Nat
    BY <2>2, <2>7, KeySet
  <2>8. CASE next = [old EXCEPT !.paid = TRUE]
    BY <2>2, <2>8, PaidSet
  <2> QED BY <2>1, <2>3, <2>4, <2>5, <2>6, <2>7, <2>8
<1>4. /\ \A f \in Entries : entry'[f] = IF f = e THEN next ELSE entry[f]
      /\ told' = IF next.amount = entry[e].amount /\ next.dir = entry[e].dir THEN told ELSE "no"
  BY DEF UpdateEntry, Good, RowsFit
<1>5. \A t \in Txs : txn'[t].amount \in Nat
  <2>1. PICK t, x : x.amount \in Nat /\ (txn' = txn \/ txn' = [txn EXCEPT ![t] = x])
    <3>1. CASE txn' = txn
      <4>1. NoTx.amount \in Nat
        BY DEF NoTx
      <4> QED BY <3>1, <4>1
    <3>2. CASE TxOf(e) # {} /\ txn' = SyncDebtTx(CHOOSE x \in TxOf(e) : TRUE, next)
      <4> DEFINE t == CHOOSE x \in TxOf(e) : TRUE
                 x == Follows(txn[t], next)
      <4>1. t \in Txs
        BY <3>2 DEF TxOf
      <4>2. TxFits(txn[t])
        BY <4>1 DEF Good, RowsFit
      <4>3. EntryFits(next)
        BY <1>1, EditsKeep
      <4>4. txn' = [txn EXCEPT ![t] = x]
        BY <3>2 DEF SyncDebtTx
      <4> HIDE DEF t
      <4>5. x.amount = next.amount
        BY <4>2, <4>3, TxsKeep
      <4> HIDE DEF x
      <4> QED BY <1>3, <4>4, <4>5
    <3>3. CASE txn' = [txn EXCEPT ![CHOOSE x \in TxOf(e) : TRUE] = [NoTx EXCEPT !.st = "gone"]]
      BY <3>3, GoneAmounts, Zenon
    <3>4. CASE txn' = [txn EXCEPT ![First(Txs, txn)] = DebtTx(u, next.dir, next.amount, next.date, e)]
      <4>1. DebtTx(u, next.dir, next.amount, next.date, e).amount = next.amount
        BY DEF DebtTx, TxRow
      <4> DEFINE x == DebtTx(u, next.dir, next.amount, next.date, e)
                 t == First(Txs, txn)
      <4> HIDE DEF x, t
      <4> QED BY <1>3, <3>4, <4>1 DEF x, t
    <3> QED BY <3>1, <3>2, <3>3, <3>4 DEF UpdateEntry
  <2>2. txn = [s \in Txs |-> txn[s]] /\ \A s \in Txs : txn[s].amount \in Nat
    BY DEF Good, RowsFit, Kept, Amounted
  <2> QED BY <2>1, <2>2
<1>6. Amounted(entry', txn')
  BY <1>3, <1>4, <1>5 DEF Kept, Amounted
<1>7. CASE next.amount = entry[e].amount /\ next.dir = entry[e].dir
  <2>1. Steady(entry, entry')
    BY <1>2, <1>4, <1>7 DEF Steady
  <2> QED BY <1>4, <1>6, <1>7, <2>1, SteadyKept
<1>8. CASE ~(next.amount = entry[e].amount /\ next.dir = entry[e].dir)
  BY <1>4, <1>6, <1>8 DEF Kept
<1> QED BY <1>7, <1>8

-----------------------------------------------------------------------------
(* The invariant: the tables are good, their amounts and repayments are    *)
(* kept, and what a caught request has read was a row.                     *)

WaitFits ==
  /\ waiting.op = "delete_tx" => waiting.t \in Txs /\ waiting.source \in Entries \cup {0}
  /\ waiting.op = "edit_tx" => waiting.t \in Txs /\ waiting.by \in Users
  /\ waiting.op = "repay" => EntryFits(waiting.seen)
  /\ waiting.op = "create" => waiting.u \in Users

IInv == /\ Good(entry, txn, known) /\ known \subseteq Holders /\ told \in Told /\ scene \in Scenes
        /\ WaitFits /\ Kept(entry, txn, told)

\* Two empty books are good.
LEMMA InitIInv == Init => IInv
<1> SUFFICES ASSUME Init PROVE IInv
  OBVIOUS
<1>1. (CHOOSE u \in Users : TRUE) \in Users
  BY DebtUsers
<1>2. EntryFits(NoEntry) /\ NoEntry.st = "new"
  <2>1. [p \in Papers |-> 0] \in [Papers -> Nat]
    OBVIOUS
  <2> QED BY <1>1, <2>1 DEF NoEntry, EntryFits, EntryType, Kinds, Directions, Keys
<1>3. TxFits(NoTx) /\ NoTx.st = "new"
  BY <1>1 DEF NoTx, TxFits, TxType
<1>4. /\ entry = [e \in Entries |-> entry[e]] /\ \A e \in Entries : entry[e] = NoEntry
      /\ txn = [t \in Txs |-> txn[t]] /\ \A t \in Txs : txn[t] = NoTx
  BY DEF Init
<1>5. Good(entry, txn, known)
  BY <1>2, <1>3, <1>4 DEF Good, RowsFit, Labelled, PartsOnce, Mutual, OneValue
<1>6. known \subseteq Holders /\ told \in Told /\ scene \in Scenes /\ WaitFits
  BY DEF Init, Told, WaitFits, NoRequest
<1>7. Kept(entry, txn, told)
  <2>1. Amounted(entry, txn)
    BY <1>4 DEF Amounted, NoEntry, NoTx
  <2>2. \A e \in Entries : entry[e].st = "new"
    BY <1>2, <1>4
  <2>3. Fair(entry)
    BY <2>2 DEF Fair
  <2>4. \A e \in Entries : Repaying(entry)[e] = 0
    BY <2>2 DEF Repaying
  <2>5. Repaid(entry) = 0
    BY <2>4, DebtIds, SumZero DEF Repaid
  <2> QED BY <2>1, <2>3, <2>5 DEF Kept
<1> QED BY <1>5, <1>6, <1>7 DEF IInv

\* The book's own requests.
LEMMA BookWriteGood ==
  ASSUME IInv, BookWrite
  PROVE  /\ Good(entry', txn', known') /\ known' \subseteq known /\ told' \in Told /\ UNCHANGED <<waiting, scene>>
         /\ Kept(entry', txn', told')
<1>1. UNCHANGED <<waiting, scene>>
  BY DEF BookWrite, Asked
<1>2. /\ Good(entry, txn, known) /\ told \in Told /\ Kept(entry, txn, told) /\ Amounted(entry, txn)
      /\ scene.users \subseteq Users /\ scene.dates \subseteq Nat /\ scene.with \subseteq {"none", "tx", "link"} /\ Amounts \subseteq Nat
  BY DebtScenes DEF IInv, Kept
<1> DEFINE Goal == Good(entry', txn', known') /\ known' \subseteq known /\ told' \in Told /\ Kept(entry', txn', told')
<1>3. ASSUME NEW u \in scene.users, NEW dir \in Directions, NEW key \in Keys, NEW a \in Amounts,
             NEW d \in scene.dates, NEW w \in scene.with,
             CreateEntry(u, dir, key, a, d, w) \/ CreateRepayment(u, dir, key, a, d, w, a = d, FALSE)
      PROVE  Goal
  <2>1. u \in Users /\ d \in Nat /\ w \in {"none", "tx", "link"}
    BY <1>2
  <2>2. CASE CreateEntry(u, dir, key, a, d, w)
    BY <1>2, <2>1, <2>2, CreateEntryGood, CreateEntryKept
  <2>3. CASE CreateRepayment(u, dir, key, a, d, w, a = d, FALSE)
    <3> DEFINE markAll == a = d
               notify == FALSE
    <3>1. CreateRepayment(u, dir, key, a, d, w, markAll, notify)
      BY <2>3
    <3> HIDE DEF markAll, notify
    <3> QED BY <1>2, <2>1, <3>1, CreateRepaymentGood, CreateRepaymentKept
  <2> QED BY <1>3, <2>2, <2>3
<1>4. ASSUME NEW u \in scene.users, NEW e \in Entries, DeleteEntry(u, e) PROVE Goal
  BY <1>2, <1>4, DeletesGood, DeletesKept
<1>5. ASSUME NEW u \in scene.users, Absorb(u) \/ DeleteContact(u) PROVE Goal
  BY <1>2, <1>5, ContactsGood, ContactsKept
<1>6. ASSUME NEW u \in scene.users, NEW e \in Entries, UnlinkTx(u, e) PROVE Goal
  BY <1>2, <1>6, UnlinkTxGood, UnlinkTxKept
<1>7. ASSUME NEW u \in scene.users, NEW e \in Entries, NEW t \in Txs, LinkTx(u, e, t) PROVE Goal
  BY <1>2, <1>7, LinkTxGood, LinkTxKept
<1>8. ASSUME NEW u \in scene.users, NEW e \in Entries, NEW next \in Edits(e) \cup {entry[e]}, NEW want \in BOOLEAN,
             UpdateEntry(u, e, next, want)
      PROVE  Goal
  BY <1>2, <1>8, UpdateEntryGood, UpdateEntryKept
<1>9. ASSUME NEW u \in scene.users, NEW dir \in Directions, NEW a \in Amounts, NEW d \in scene.dates,
             PlainTx(u, TypeOf(dir), a, d)
      PROVE  Goal
  <2>1. u \in Users /\ d \in Nat /\ TypeOf(dir) \in {"expense", "income"}
    BY <1>2 DEF TypeOf
  <2> QED BY <1>2, <1>9, <2>1, PlainTxGood, PlainTxKept
<1>10. ASSUME NEW t \in Txs, NEW by \in Users, NEW a \in Amounts, EditTx(t, by, a) PROVE Goal
  BY <1>2, <1>10, EditTxGood, EditTxKept
<1> HIDE DEF Goal
<1>11. Goal
  <2>1. CASE \E u \in scene.users :
          \/ \E dir \in Directions, key \in Keys, a \in Amounts, d \in scene.dates, w \in scene.with :
               CreateEntry(u, dir, key, a, d, w) \/ CreateRepayment(u, dir, key, a, d, w, a = d, FALSE)
          \/ \E e \in Entries : DeleteEntry(u, e)
          \/ Absorb(u) \/ DeleteContact(u)
    BY <2>1, <1>3, <1>4, <1>5, Zenon
  <2>2. CASE \E u \in scene.users :
          \/ \E e \in Entries : UnlinkTx(u, e) \/ \E t \in Txs : LinkTx(u, e, t)
          \/ \E e \in Entries : \E next \in Edits(e) \cup {entry[e]}, want \in BOOLEAN : UpdateEntry(u, e, next, want)
          \/ \E dir \in Directions, a \in Amounts, d \in scene.dates : PlainTx(u, TypeOf(dir), a, d)
    BY <2>2, <1>6, <1>7, <1>8, <1>9, Zenon
  <2>3. CASE \E t \in Txs, by \in Users, a \in Amounts : MayEdit(t, by) /\ EditTx(t, by, a)
    BY <2>3, <1>10, Zenon
  <2> QED BY <2>1, <2>2, <2>3, Zenon DEF BookWrite
<1> QED BY <1>1, <1>11 DEF Goal

\* The papers' requests.
LEMMA PairWriteGood ==
  ASSUME IInv, PairWrite
  PROVE  /\ Good(entry', txn', known') /\ known' \subseteq known /\ told' \in Told /\ UNCHANGED <<waiting, scene>>
         /\ Kept(entry', txn', told')
<1>1. UNCHANGED <<waiting, scene>>
  BY DEF PairWrite, Asked
<1>2. /\ Good(entry, txn, known) /\ told \in Told /\ Kept(entry, txn, told) /\ Amounted(entry, txn)
      /\ scene.users \subseteq Users /\ scene.papers \subseteq Papers
      /\ scene.dates \subseteq Nat /\ scene.with \subseteq {"none", "tx", "link"} /\ Amounts \subseteq Nat
  BY DebtScenes DEF IInv, Kept
<1> DEFINE Goal == Good(entry', txn', known') /\ known' \subseteq known /\ told' \in Told /\ Kept(entry', txn', told')
<1>3. ASSUME NEW u \in scene.users, NEW ps \in SUBSET scene.papers, NEW key \in Keys, NEW d \in scene.dates,
             CreatePaperDebt(u, ps, key, d)
      PROVE  Goal
  <2>1. u \in Users /\ ps \in SUBSET Papers /\ d \in Nat
    BY <1>2
  <2> QED BY <1>2, <1>3, <2>1, CreatePaperDebtGood, CreatePaperDebtKept
<1>4. ASSUME NEW u \in scene.users, NEW p \in scene.papers, NEW key \in Keys, NEW d \in scene.dates,
             NEW w \in scene.with, BookPayback(u, p, key, d, w)
      PROVE  Goal
  <2>1. u \in Users /\ p \in Papers /\ d \in Nat /\ w \in {"none", "tx", "link"}
    BY <1>2
  <2> QED BY <1>2, <1>4, <2>1, BookPaybackGood, BookPaybackKept
<1>5. ASSUME NEW u \in scene.users, NEW dir \in Directions, NEW key \in Keys, NEW a \in Amounts,
             NEW d \in scene.dates, NEW w \in scene.with, NEW all \in BOOLEAN,
             CreateRepayment(u, dir, key, a, d, w, all, TRUE)
      PROVE  Goal
  <2>1. u \in Users /\ d \in Nat /\ w \in {"none", "tx", "link"}
    BY <1>2
  <2> DEFINE notify == TRUE
  <2>2. CreateRepayment(u, dir, key, a, d, w, all, notify)
    BY <1>5
  <2> HIDE DEF notify
  <2> QED BY <1>2, <2>1, <2>2, CreateRepaymentGood, CreateRepaymentKept
<1>6. ASSUME NEW e \in Entries, NEW p \in scene.papers,
             \/ \E a \in Amounts : SetPaperPart(e, p, a)
             \/ DropPaperPart(e, p)
      PROVE  Goal
  <2>1. p \in Papers
    BY <1>2
  <2> QED BY <1>2, <1>6, <2>1, PaperPartGood, PaperPartKept
<1>7. ASSUME NEW e \in Entries, UnlinkPaperDebt(e) PROVE Goal
  BY <1>2, <1>7, UnlinkPaperDebtGood, UnlinkPaperDebtKept
<1>8. ASSUME NEW e \in Entries, DeletePaperEntry(e) PROVE Goal
  BY <1>2, <1>8, DeletesGood, DeletesKept
<1>9. ASSUME NEW e \in Entries, Disconnect(e) PROVE Goal
  BY <1>2, <1>9, DisconnectGood, DisconnectKept
<1> HIDE DEF Goal
<1>10. Goal
  BY <1>3, <1>4, <1>5, <1>6, <1>7, <1>8, <1>9, Zenon DEF PairWrite
<1> QED BY <1>1, <1>10 DEF Goal

\* A request that was caught writes by what it had read.
LEMMA WriteGood ==
  ASSUME IInv, Write
  PROVE  /\ Good(entry', txn', known') /\ known' \subseteq known /\ told' \in Told /\ waiting' = NoRequest /\ scene' = scene
         /\ Kept(entry', txn', told')
<1>1. waiting' = NoRequest /\ scene' = scene
  BY DEF Write
<1>2. /\ Good(entry, txn, known) /\ told \in Told /\ WaitFits /\ Kept(entry, txn, told) /\ Amounted(entry, txn)
      /\ Amounts \subseteq Nat
  BY DebtScenes DEF IInv, Kept
<1> DEFINE Goal == Good(entry', txn', known') /\ known' \subseteq known /\ told' \in Told /\ Kept(entry', txn', told')
<1>3. CASE waiting.op = "delete_tx" /\ DeleteTx(waiting.t, waiting.source)
  <2>1. waiting.t \in Txs /\ waiting.source \in Entries \cup {0}
    BY <1>2, <1>3 DEF WaitFits
  <2>2. Goal
    BY <1>2, <1>3, <2>1, DeleteTxGood, DeleteTxKept
  <2> QED BY <1>1, <2>2
<1>4. ASSUME waiting.op = "repay", NEW a \in Amounts, RepayEntry(waiting.seen, a)
      PROVE  Goal
  <2> DEFINE seen == waiting.seen
             dir == Opposite(seen.dir)
             none == FALSE
  <2>1. EntryFits(seen)
    BY <1>2, <1>4 DEF WaitFits
  <2>2. seen.user \in Users /\ seen.key \in Keys /\ seen.date \in Nat /\ dir \in Directions
    BY <2>1 DEF EntryFits, EntryType, Opposite, Directions
  <2>3. PICK with \in {"none", "tx"} : CreateRepayment(seen.user, dir, seen.key, a, seen.date, with, none, none)
    BY <1>4 DEF RepayEntry
  <2>4. with \in {"none", "tx", "link"}
    BY <2>3
  <2> HIDE DEF seen, dir, none
  <2> QED BY <1>2, <2>2, <2>3, <2>4, CreateRepaymentGood, CreateRepaymentKept
<1>5. ASSUME waiting.op = "create", NEW dir \in Directions, NEW a \in Amounts, NEW d \in Dates,
             CreateEntry(waiting.u, dir, "contact", a, d, "none")
      PROVE  Goal
  <2>1. waiting.u \in Users /\ "contact" \in Keys /\ d \in Nat /\ "none" \in {"none", "tx", "link"}
    BY <1>2, <1>5, DebtScenes DEF WaitFits, Keys
  <2> QED BY <1>2, <1>5, <2>1, CreateEntryGood, CreateEntryKept
<1>5a. ASSUME waiting.op = "edit_tx", NEW a \in Amounts, EditTx(waiting.t, waiting.by, a)
       PROVE  Goal
  <2>1. waiting.t \in Txs /\ a \in Nat
    BY <1>2, <1>5a DEF WaitFits
  <2> QED BY <1>2, <1>5a, <2>1, EditTxGood, EditTxKept
<1> HIDE DEF Goal
<1>6. \/ waiting.op = "delete_tx" /\ DeleteTx(waiting.t, waiting.source)
      \/ waiting.op = "edit_tx" /\ \E a \in Amounts : EditTx(waiting.t, waiting.by, a)
      \/ waiting.op = "repay" /\ \E a \in Amounts : RepayEntry(waiting.seen, a)
      \/ waiting.op = "create" /\ \E dir \in Directions, a \in Amounts, d \in Dates :
                                    CreateEntry(waiting.u, dir, "contact", a, d, "none")
  BY Zenon DEF Write
<1>7. CASE Goal
  BY <1>1, <1>7 DEF Goal
<1> QED BY <1>3, <1>4, <1>5, <1>5a, <1>6, <1>7

\* Every step keeps the tables good.
LEMMA NextIInv == IInv /\ [Next]_vars => IInv'
<1> SUFFICES ASSUME IInv, [Next]_vars PROVE IInv'
  OBVIOUS
<1>1. CASE Read
  <2>1. UNCHANGED <<entry, txn, known, told, scene>>
    BY <1>1 DEF Read
  <2>2. \/ \E t \in Txs : txn[t].st = "live" /\ waiting' = [op |-> "delete_tx", t |-> t, source |-> txn[t].source]
        \/ \E t \in Txs, by \in Users : MayEdit(t, by) /\ waiting' = [op |-> "edit_tx", t |-> t, by |-> by]
        \/ \E e \in Entries : Live(e) /\ waiting' = [op |-> "repay", seen |-> entry[e]]
        \/ \E u \in known : waiting' = [op |-> "create", u |-> u]
    BY <1>1 DEF Read
  <2>3. /\ \A t \in Txs : txn[t].source \in Entries \cup {0}
        /\ \A e \in Entries : EntryFits(entry[e])
        /\ known \subseteq Users
    BY DebtUsers DEF IInv, Good, RowsFit, TxFits, TxType
  <2>4. WaitFits'
    BY <2>2, <2>3 DEF WaitFits, EntryFits, EntryType
  <2>5. Good(entry', txn', known')
    BY <2>1 DEF IInv
  <2> QED BY <2>1, <2>4, <2>5 DEF IInv
<1>2. CASE Write
  <2>1. /\ Good(entry', txn', known') /\ known' \subseteq known /\ told' \in Told /\ waiting' = NoRequest /\ scene' = scene
        /\ Kept(entry', txn', told')
    BY <1>2, WriteGood
  <2>2. WaitFits'
    BY <2>1 DEF WaitFits, NoRequest
  <2> QED BY <2>1, <2>2 DEF IInv
<1>3. CASE Fail
  <2>1. UNCHANGED <<entry, txn, known, told, scene>> /\ waiting' = NoRequest
    BY <1>3 DEF Fail
  <2>2. WaitFits'
    BY <2>1 DEF WaitFits, NoRequest
  <2>3. Good(entry', txn', known')
    BY <2>1 DEF IInv
  <2> QED BY <2>1, <2>2, <2>3 DEF IInv
<1>4. CASE BookWrite \/ PairWrite
  <2>1. /\ Good(entry', txn', known') /\ known' \subseteq known /\ told' \in Told /\ UNCHANGED <<waiting, scene>>
        /\ Kept(entry', txn', told')
    BY <1>4, BookWriteGood, PairWriteGood
  <2>2. WaitFits'
    BY <2>1 DEF IInv, WaitFits, EntryFits, EntryType
  <2> QED BY <2>1, <2>2 DEF IInv
<1>5. CASE UNCHANGED vars
  <2>1. UNCHANGED <<entry, txn, known, told, waiting, scene>>
    BY <1>5 DEF vars
  <2>2. WaitFits'
    BY <2>1 DEF IInv, WaitFits, EntryFits, EntryType
  <2>3. Good(entry', txn', known')
    BY <2>1 DEF IInv
  <2> QED BY <2>1, <2>2, <2>3 DEF IInv
<1> QED BY <1>1, <1>2, <1>3, <1>4, <1>5 DEF Next

-----------------------------------------------------------------------------
\* The statement of a person, from what is kept.
LEMMA KeptAddsUp == Good(entry, txn, known) /\ Kept(entry, txn, told) => StatementAddsUp
<1> SUFFICES ASSUME Good(entry, txn, known), Kept(entry, txn, told) PROVE StatementAddsUp
  OBVIOUS
<1>1. ASSUME NEW e \in Entries
      PROVE  /\ entry[e].amount \in Nat
             /\ Live(e) /\ HasParts(e) /\ told # "no" => entry[e].amount = PartsSum(entry[e].parts)
  BY DEF Kept, Amounted, Fair, Live, HasParts
<1>2. Amounted(entry, txn) /\ \A e \in Entries : entry[e].date \in Nat
  BY PartnersAre DEF Kept
<1>3. \A u, key : /\ SignedSum(Current(u, key)) = Net(u, key)
                  /\ \A e \in Current(u, key) : Run(u, key, e) # 0
  BY <1>2, CycleAddsUp
<1> QED BY <1>1, <1>3, Zenon DEF StatementAddsUp

\* What a user's own lines come to, whatever the name.
LEMMA BothIs ==
  ASSUME Good(entry, txn, known), Amounted(entry, txn), NEW u
  PROVE  Both(u) = SumIn(Worths(entry), BookOf(u)) /\ Both(u) \in Int
<1> DEFINE A == Lines(u, "contact")
           B == Lines(u, "name")
           w == Worths(entry)
<1>1. A \cup B = BookOf(u) /\ A \cap B = {} /\ A \in SUBSET Entries /\ B \in SUBSET Entries
  BY DEF Lines, KeyOf, BookOf
<1>2. SignedSum(A) = SumIn(w, A) /\ SignedSum(B) = SumIn(w, B) /\ SignedSum(A) \in Int /\ SignedSum(B) \in Int
  BY <1>1, LinesAddUp
<1>3. IsFiniteSet(A \cup B) /\ \A x \in A \cup B : w[x] \in Int
  <2>1. A \cup B \subseteq Entries
    BY <1>1
  <2>2. IsFiniteSet(A \cup B)
    BY <2>1, DebtIds, FS_Subset
  <2>3. \A x \in Entries : w[x] \in Int
    BY DEF Worths, Worth, Amounted
  <2> HIDE DEF A, B, w
  <2> QED BY <2>1, <2>2, <2>3
<1>4. Both(u) = SignedSum(A) + SignedSum(B)
  BY DEF Both, Net
<1> HIDE DEF A, B, w
<1>5. SumIn(w, A \cup B) = SumIn(w, A) + SumIn(w, B)
  BY <1>1, <1>3, SumApart
<1>6. SumIn(w, BookOf(u)) = SumIn(w, A) + SumIn(w, B)
  BY <1>1, <1>5
<1> QED BY <1>2, <1>4, <1>6 DEF w

\* The debts of two partners cancel.
LEMMA DebtsCancel ==
  ASSUME Good(entry, txn, known), Amounted(entry, txn), Fair(entry), Paired
  PROVE  SumIn([e \in Entries |-> IF entry[e].st = "live" /\ entry[e].kind = "debt" THEN Worth(entry[e]) ELSE 0], Entries) = 0
<1> DEFINE debt(e) == entry[e].st = "live" /\ entry[e].kind = "debt"
           f == [e \in Entries |-> IF debt(e) THEN Worth(entry[e]) ELSE 0]
           s == [e \in Entries |-> IF debt(e) THEN entry[e].partner ELSE e]
<1>1. ASSUME NEW e \in Entries, debt(e)
      PROVE  LET p == entry[e].partner
             IN p \in Entries /\ debt(p) /\ entry[p].partner = e /\ Worth(entry[p]) = -Worth(entry[e])
  <2> DEFINE p == entry[e].partner
  <2>1. /\ HasParts(e) /\ p # 0 /\ entry[p].parts = entry[e].parts
    BY <1>1 DEF Paired, Live
  <2>2. p \in Entries /\ entry[e].dir \in Directions
    BY <2>1, PartnersAre
  <2>3. entry[p].st = "live" /\ entry[p].partner = e
    BY <1>1, <2>1 DEF Good, Mutual
  <2>4. entry[p].kind = "debt" /\ entry[p].dir # entry[e].dir
    BY <1>1, <2>1 DEF Fair
  <2>5. entry[p].amount = entry[e].amount
    BY <1>1, <2>1, <2>2, <2>3 DEF Fair, HasParts
  <2>6. entry[e].amount \in Nat /\ entry[p].dir \in Directions
    BY <2>2, PartnersAre DEF Amounted
  <2>7. Worth(entry[p]) = -Worth(entry[e])
    BY <2>2, <2>4, <2>5, <2>6 DEF Worth, Directions
  <2> QED BY <2>2, <2>3, <2>4, <2>7
<1>2. \A e \in Entries : f[e] \in Int /\ s[e] \in Entries /\ s[s[e]] = e /\ f[s[e]] = -f[e]
  <2> SUFFICES ASSUME NEW e \in Entries PROVE f[e] \in Int /\ s[e] \in Entries /\ s[s[e]] = e /\ f[s[e]] = -f[e]
    OBVIOUS
  <2>1. CASE debt(e)
    <3> DEFINE p == entry[e].partner
    <3>1. p \in Entries /\ debt(p) /\ entry[p].partner = e /\ Worth(entry[p]) = -Worth(entry[e])
      BY <1>1, <2>1
    <3>2. Worth(entry[e]) \in Int
      BY DEF Worth, Amounted
    <3>3. s[e] = p /\ s[p] = e /\ f[e] = Worth(entry[e]) /\ f[p] = Worth(entry[p])
      BY <2>1, <3>1
    <3> HIDE DEF s, f, p
    <3> QED BY <3>1, <3>2, <3>3 DEF p
  <2>2. CASE ~debt(e)
    <3>1. s[e] = e /\ f[e] = 0
      BY <2>2
    <3>2. \A x \in Int, y \in Int : x + y = 0 => y = -x
      OBVIOUS
    <3> HIDE DEF s, f
    <3>3. s[s[e]] = e /\ f[e] \in Int /\ f[s[e]] \in Int /\ f[e] + f[s[e]] = 0
      BY <3>1
    <3> QED BY <3>1, <3>2, <3>3
  <2> QED BY <2>1, <2>2
<1>3. SumIn(f, Entries) = 0
  <2> HIDE DEF f, s
  <2> QED BY <1>2, DebtIds, PairsCancel
<1> QED BY <1>3

\* Two books kept together mirror each other.
LEMMA KeptMirrored == Good(entry, txn, known) /\ Kept(entry, txn, told) => MirroredWhenPaidDown
<1> SUFFICES ASSUME Good(entry, txn, known), Kept(entry, txn, told), told = "down", Paired,
                    NEW u \in Users
             PROVE  Both(u) = -Both(Other(u))
  BY DEF MirroredWhenPaidDown, Mirrored
<1>1. Amounted(entry, txn) /\ Fair(entry) /\ Repaid(entry) = 0
  BY DEF Kept
<1> DEFINE w == Worths(entry)
           d == [e \in Entries |-> IF entry[e].st = "live" /\ entry[e].kind = "debt" THEN Worth(entry[e]) ELSE 0]
           r == Repaying(entry)
           h == [e \in Entries |-> IF entry[e].st = "live" THEN Worth(entry[e]) ELSE 0]
           A == BookOf(u)
           B == BookOf(Other(u))
<1>2. \A e \in Entries : w[e] \in Int /\ d[e] \in Int /\ r[e] \in Int /\ h[e] \in Int /\ h[e] = d[e] + r[e]
  <2> SUFFICES ASSUME NEW e \in Entries
               PROVE  w[e] \in Int /\ d[e] \in Int /\ r[e] \in Int /\ h[e] \in Int /\ h[e] = d[e] + r[e]
    OBVIOUS
  <2>1. Worth(entry[e]) \in Int
    BY <1>1 DEF Worth, Amounted
  <2>2. entry[e].kind = "debt" \/ entry[e].kind = "repayment"
    BY PartnersAre DEF Kinds
  <2> QED BY <2>1, <2>2 DEF Worths, Repaying
<1>3. SumIn(d, Entries) = 0 /\ SumIn(r, Entries) = 0
  BY <1>1, DebtsCancel DEF Repaid
<1>4. A \cup B \in SUBSET Entries /\ A \cap B = {} /\ \A e \in Entries \ (A \cup B) : h[e] = 0
  <2>1. \A e \in Entries : entry[e].user \in Users
    BY PartnersAre
  <2>2. Users = {u, Other(u)} /\ Other(u) # u
    BY DebtUsers, OtherIs
  <2> QED BY <2>1, <2>2 DEF BookOf, Live
<1>5. \A e \in A \cup B : h[e] = w[e]
  BY DEF BookOf, Live, Worths
<1>6. /\ Both(u) = SumIn(w, A) /\ Both(Other(u)) = SumIn(w, B)
      /\ Both(u) \in Int /\ Both(Other(u)) \in Int
  BY <1>1, BothIs
<1>7. IsFiniteSet(Entries) /\ IsFiniteSet(A \cup B)
  BY <1>4, DebtIds, FS_Subset
<1> HIDE DEF w, d, r, h, A, B
<1>8. SumIn(h, Entries) = 0
  <2>1. SumIn(h, Entries) = SumIn(d, Entries) + SumIn(r, Entries)
    BY <1>2, <1>7, SumPlus
  <2> QED BY <1>3, <2>1
<1>9. SumIn(h, Entries) = SumIn(h, A \cup B)
  <2> DEFINE P == A \cup B
  <2>1. P \in SUBSET Entries /\ (\A x \in Entries : h[x] \in Int) /\ \A x \in Entries \ P : h[x] = 0
    BY <1>2, <1>4
  <2> HIDE DEF P
  <2>2. SumIn(h, Entries) = SumIn(h, P)
    BY <2>1, <1>7, SumPart
  <2> QED BY <2>2 DEF P
<1>10. SumIn(h, A \cup B) = SumIn(w, A \cup B)
  <2> DEFINE P == A \cup B
  <2>1. \A x \in P : h[x] \in Int /\ h[x] = w[x]
    BY <1>2, <1>4, <1>5
  <2>2. IsFiniteSet(P)
    BY <1>7
  <2> HIDE DEF P
  <2>3. SumIn(h, P) = SumIn(w, P)
    BY <2>1, <2>2, SumSame
  <2> QED BY <2>3 DEF P
<1>11. SumIn(w, A \cup B) = SumIn(w, A) + SumIn(w, B)
  <2>1. \A x \in A \cup B : w[x] \in Int
    BY <1>2, <1>4
  <2> QED BY <1>4, <1>7, <2>1, SumApart
<1> QED BY <1>6, <1>8, <1>9, <1>10, <1>11

\* What the invariant says of the rows is what the run checks of them.
LEMMA IInvValue == IInv => RowsAreOneValue
<1> SUFFICES ASSUME IInv PROVE RowsAreOneValue
  OBVIOUS
<1>0. 0 \notin Entries
  BY DebtIds
<1>1. /\ DOMAIN entry = Entries /\ \A e \in Entries : entry[e] \in EntryType({entry[e].amount})
      /\ DOMAIN txn = Txs /\ \A t \in Txs : txn[t] \in TxType({txn[t].amount})
  BY DEF IInv, Good, RowsFit, EntryFits, TxFits
<1>2. \A e \in Entries : Live(e) =>
       /\ entry[e].paid => entry[e].kind = "debt"
       /\ entry[e].key = "contact" => entry[e].user \in known
  BY DEF IInv, Good, Labelled, Live
<1>3. \A e \in Entries : Live(e) =>
       \A f \in BookOf(entry[e].user), p \in Papers : entry[e].parts[p] > 0 /\ entry[f].parts[p] > 0 => e = f
  BY DEF IInv, Good, PartsOnce, Live, BookOf
<1>4. TypeOK
  BY <1>1, <1>2, <1>3, Zenon DEF TypeOK, IInv, Told
<1>5. ASSUME NEW t \in Txs, txn[t].st = "live", txn[t].source # 0
      PROVE  LET e == entry[txn[t].source]
             IN /\ e.st = "live" /\ e.user = txn[t].user
                /\ ~txn[t].crossed => e.amount = txn[t].amount
                /\ e.date = txn[t].date /\ txn[t].type = TypeOf(e.dir)
                /\ TxOf(txn[t].source) = {t}
  BY <1>5 DEF IInv, Good, OneValue, TxOf
<1> QED BY <1>4, <1>5 DEF RowsAreOneValue

\* And of the partners.
LEMMA IInvMutual == IInv => PartnersMutual
BY DEF IInv, Good, Mutual, PartnersMutual, Live

\* An entry and its transaction stay one value through every edit, link, deletion and told
\* repayment, whatever a caught request had read, but for the amount of a row that a
\* co-member of its wallet read before its author linked it and edits after (SyncDebtTxInTx,
\* TxEditedTx, debtFromPartsTx, LinkTx).
THEOREM OneValueAlways == Spec => []RowsAreOneValue
<1>1. Spec => []IInv
  BY InitIInv, NextIInv, PTL DEF Spec
<1> QED BY <1>1, IInvValue, PTL

\* Partners name each other, one in each book, and never outlive one another
\* (SetPartnersTx, Disconnect, UnlinkPaperDebtTx, ON DELETE SET NULL).
THEOREM PartnersAlways == Spec => []PartnersMutual
<1>1. Spec => []IInv
  BY InitIInv, NextIInv, PTL DEF Spec
<1> QED BY <1>1, IInvMutual, PTL

\* The rows of a person's current cycle alone come to the balance, none but a last one clears
\* it, and a debt of papers is the sum of its parts until a write outside the papers
\* (cycleBoundary, ledgerLines, debtFromPartsTx).
THEOREM StatementAlways == Spec => []StatementAddsUp
<1>1. Spec => []IInv
  BY InitIInv, NextIInv, PTL DEF Spec
<1>2. IInv => StatementAddsUp
  BY KeptAddsUp DEF IInv
<1> QED BY <1>1, <1>2, PTL

\* Two books kept together stay each other's mirror: what one user's book says the other owes
\* is what the other's says is owed (SetPartnersTx, TellRepaidTx).
THEOREM MirrorAlways == Spec => []MirroredWhenPaidDown
<1>1. Spec => []IInv
  BY InitIInv, NextIInv, PTL DEF Spec
<1>2. IInv => MirroredWhenPaidDown
  BY KeptMirrored DEF IInv
<1> QED BY <1>1, <1>2, PTL
=============================================================================
