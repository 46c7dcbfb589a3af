----------------------------- MODULE SumTheorems -------------------------------
(***************************************************************************)
(* What SumFunctionOnSet of the community module Functions yields on a     *)
(* finite set: the facts about sums that the books of MoneyBridge and of   *)
(* WalletPayments rest on.                                                 *)
(*                                                                         *)
(* The sum folds over the set in the order CHOOSE takes its members in, by *)
(* a function defined by recursion over subsets.  A tally is such a        *)
(* function that does not depend on the order.  Every finite set has one,  *)
(* and the recursion computes it; both follow from a minimal               *)
(* counterexample (WFMin), as the provers cannot instantiate the induction *)
(* theorems.                                                               *)
(***************************************************************************)
EXTENDS FiniteSetTheorems, TLAPS

Tally(A, S, f) ==
  /\ f \in [SUBSET S -> Int]
  /\ f[{}] = 0
  /\ \A T \in SUBSET S : \A x \in T : f[T] = A[x] + f[T \ {x}]

(* The recursion of MapThenFoldSet. *)
Folds(A, S, f) ==
  f = [T \in SUBSET S |->
         IF T = {} THEN 0 ELSE A[CHOOSE x \in T : TRUE] + f[T \ {CHOOSE x \in T : TRUE}]]

\* Of the counterexamples in a finite set one has none right below it.
LEMMA SmallestSet ==
  ASSUME NEW S, IsFiniteSet(S), NEW Bad \in SUBSET (SUBSET S), Bad # {}
  PROVE  \E T \in Bad : \A x \in T : T \ {x} \notin Bad
<1>1. PICK T \in Bad : \A U \in Bad : ~ (<<U, T>> \in StrictSubsetOrdering(S))
  <2>1. Bad \subseteq FiniteSubsetsOf(S)
    BY FS_FiniteSubsetsOfFinite
  <2> QED
    BY <2>1, FS_StrictSubsetOrderingWellFounded, WFMin
<1>2. ASSUME NEW x \in T, T \ {x} \in Bad PROVE FALSE
  <2>1. <<T \ {x}, T>> \in StrictSubsetOrdering(S)
    BY <1>2 DEF StrictSubsetOrdering
  <2> QED
    BY <1>1, <1>2, <2>1
<1> QED
  BY <1>2

-------------------------------------------------------------------------------
(* Every finite set has a tally.                                           *)

\* A tally is made longer by one element.
LEMMA TallyMore ==
  ASSUME NEW S, NEW x \in S, NEW A, \A y \in S : A[y] \in Int, NEW g, Tally(A, S \ {x}, g)
  PROVE  \E f : Tally(A, S, f)
<1> DEFINE f == [T \in SUBSET S |-> IF x \in T THEN A[x] + g[T \ {x}] ELSE g[T]]
<1>1. /\ \A T \in SUBSET S : T \ {x} \in SUBSET (S \ {x}) /\ g[T \ {x}] \in Int
      /\ \A T \in SUBSET S : x \notin T => T \in SUBSET (S \ {x}) /\ g[T] \in Int
  <2>1. g \in [SUBSET (S \ {x}) -> Int]
    BY DEF Tally
  <2>2. \A T \in SUBSET S : T \ {x} \in SUBSET (S \ {x})
    OBVIOUS
  <2>3. \A T \in SUBSET S : x \notin T => T \in SUBSET (S \ {x})
    OBVIOUS
  <2> QED
    BY <2>1, <2>2, <2>3
<1>2. f \in [SUBSET S -> Int]
  BY <1>1
<1>3. f[{}] = 0
  BY DEF Tally
<1>4. ASSUME NEW T \in SUBSET S, NEW y \in T PROVE f[T] = A[y] + f[T \ {y}]
  <2>1. CASE y = x
    <3>1. f[T] = A[x] + g[T \ {x}] /\ f[T \ {y}] = g[T \ {x}]
      BY <2>1
    <3> QED
      BY <3>1, <2>1
  <2>2. CASE y # x /\ x \in T
    <3>1. f[T] = A[x] + g[T \ {x}]
      BY <2>2
    <3>2. f[T \ {y}] = A[x] + g[(T \ {y}) \ {x}]
      BY <2>2
    <3>3. g[T \ {x}] = A[y] + g[(T \ {y}) \ {x}]
      <4>1. T \ {x} \in SUBSET (S \ {x}) /\ y \in T \ {x}
        BY <2>2
      <4>2. g[T \ {x}] = A[y] + g[(T \ {x}) \ {y}]
        BY <4>1 DEF Tally
      <4>3. (T \ {x}) \ {y} = (T \ {y}) \ {x}
        OBVIOUS
      <4> QED
        BY <4>2, <4>3
    <3>4. g[T \ {x}] \in Int /\ g[(T \ {y}) \ {x}] \in Int
      <4>1. T \ {y} \in SUBSET S
        OBVIOUS
      <4> QED
        BY <4>1, <1>1
    <3>5. A[x] \in Int /\ A[y] \in Int
      OBVIOUS
    <3> HIDE DEF f
    <3> QED
      BY <3>1, <3>2, <3>3, <3>4, <3>5
  <2>3. CASE x \notin T
    <3>1. f[T] = g[T] /\ f[T \ {y}] = g[T \ {y}]
      BY <2>3
    <3>2. g[T] = A[y] + g[T \ {y}]
      BY <1>1, <2>3 DEF Tally
    <3> QED
      BY <3>1, <3>2
  <2> QED
    BY <2>1, <2>2, <2>3
<1>5. Tally(A, S, f)
  <2> HIDE DEF f
  <2> QED
    BY <1>2, <1>3, <1>4 DEF Tally
<1> QED
  BY <1>5

LEMMA TallyExists ==
  ASSUME NEW S, IsFiniteSet(S), NEW A, \A x \in S : A[x] \in Int
  PROVE  \E f : Tally(A, S, f)
<1> DEFINE Bad == {T \in SUBSET S : ~ \E f : Tally(A, T, f)}
<1>1. SUFFICES ASSUME Bad # {} PROVE FALSE
  <2>1. S \in SUBSET S
    OBVIOUS
  <2> QED
    BY <2>1
<1>2. PICK T \in Bad : \A x \in T : T \ {x} \notin Bad
  <2>1. Bad \in SUBSET (SUBSET S)
    OBVIOUS
  <2> HIDE DEF Bad
  <2> QED
    BY <1>1, <2>1, SmallestSet
<1>3. CASE T = {}
  <2>1. Tally(A, {}, [U \in SUBSET {} |-> 0])
    BY DEF Tally
  <2> QED
    BY <1>2, <1>3, <2>1
<1>4. CASE T # {}
  <2>1. PICK x \in T : TRUE
    BY <1>4
  <2>2. PICK g : Tally(A, T \ {x}, g)
    BY <1>2
  <2>3. \A y \in T : A[y] \in Int
    BY <1>2
  <2>4. \E f : Tally(A, T, f)
    BY <2>2, <2>3, TallyMore
  <2> QED
    BY <1>2, <2>4
<1> QED
  BY <1>3, <1>4

-------------------------------------------------------------------------------
(* The fold computes it.                                                   *)

LEMMA TallyFolds ==
  ASSUME NEW S, NEW A, NEW f, Tally(A, S, f)
  PROVE  Folds(A, S, f)
<1> DEFINE body(T) == IF T = {} THEN 0
                      ELSE A[CHOOSE x \in T : TRUE] + f[T \ {CHOOSE x \in T : TRUE}]
<1>1. ASSUME NEW T \in SUBSET S PROVE f[T] = body(T)
  <2>1. CASE T = {}
    BY <2>1 DEF Tally
  <2>2. CASE T # {}
    <3>1. (CHOOSE x \in T : TRUE) \in T
      BY <2>2
    <3> QED
      BY <2>2, <3>1 DEF Tally
  <2> QED
    BY <2>1, <2>2
<1>2. f = [T \in SUBSET S |-> f[T]]
  BY DEF Tally
<1>3. f = [T \in SUBSET S |-> body(T)]
  BY <1>1, <1>2
<1> QED
  BY <1>3 DEF Folds

LEMMA FoldsAgree ==
  ASSUME NEW S, IsFiniteSet(S), NEW A, NEW f, NEW g, Folds(A, S, f), Folds(A, S, g)
  PROVE  f[S] = g[S]
<1> DEFINE Bad == {T \in SUBSET S : f[T] # g[T]}
<1>1. SUFFICES ASSUME Bad # {} PROVE FALSE
  <2>1. S \in SUBSET S
    OBVIOUS
  <2> QED
    BY <2>1
<1>2. PICK T \in Bad : \A x \in T : T \ {x} \notin Bad
  <2>1. Bad \in SUBSET (SUBSET S)
    OBVIOUS
  <2> HIDE DEF Bad
  <2> QED
    BY <1>1, <2>1, SmallestSet
<1> DEFINE x == CHOOSE x \in T : TRUE
<1>3. T \in SUBSET S /\ f[T] # g[T]
  BY <1>2
<1>4. T # {}
  BY <1>3 DEF Folds
<1>5. x \in T
  BY <1>4
<1>6. f[T \ {x}] = g[T \ {x}]
  BY <1>2, <1>5
<1>7. f[T] = A[x] + f[T \ {x}] /\ g[T] = A[x] + g[T \ {x}]
  BY <1>3, <1>4 DEF Folds
<1> QED
  BY <1>3, <1>6, <1>7

LEMMA SumFolds ==
  ASSUME NEW A, NEW S
  PROVE  SumFunctionOnSet(A, S) = (CHOOSE f : Folds(A, S, f))[S]
BY Zenon DEF SumFunctionOnSet, FoldFunctionOnSet, MapThenFoldSet, Folds

(* The sum is what any tally says, in whatever order.                      *)
LEMMA SumIsTally ==
  ASSUME NEW S, IsFiniteSet(S), NEW A, NEW f, Tally(A, S, f)
  PROVE  SumFunctionOnSet(A, S) = f[S]
<1>1. Folds(A, S, f)
  BY TallyFolds
<1>2. Folds(A, S, CHOOSE g : Folds(A, S, g))
  BY <1>1
<1> QED
  BY <1>1, <1>2, FoldsAgree, SumFolds

-------------------------------------------------------------------------------
(* What users of a sum need.                                               *)

(* The sum over nothing is zero.                                           *)
THEOREM SumOfNothing == ASSUME NEW A PROVE SumFunctionOnSet(A, {}) = 0
<1>1. Tally(A, {}, [T \in SUBSET {} |-> 0])
  BY DEF Tally
<1> QED
  BY <1>1, SumIsTally, FS_EmptySet

(* A sum of integers is an integer, and an element adds its own number.    *)
THEOREM SumWithElement ==
  ASSUME NEW S, IsFiniteSet(S), NEW A, NEW x, \A y \in S \cup {x} : A[y] \in Int
  PROVE  /\ SumFunctionOnSet(A, S) \in Int
         /\ x \notin S => SumFunctionOnSet(A, S \cup {x}) = A[x] + SumFunctionOnSet(A, S)
<1>1. IsFiniteSet(S \cup {x})
  BY FS_AddElement
<1>2. PICK f : Tally(A, S \cup {x}, f)
  BY <1>1, TallyExists
<1> DEFINE g == [T \in SUBSET S |-> f[T]]
<1>3. Tally(A, S, g)
  <2>1. SUBSET S \subseteq SUBSET (S \cup {x})
    OBVIOUS
  <2>2. g \in [SUBSET S -> Int] /\ g[{}] = 0
    BY <1>2, <2>1 DEF Tally
  <2>3. ASSUME NEW T \in SUBSET S, NEW y \in T PROVE g[T] = A[y] + g[T \ {y}]
    BY <1>2, <2>1 DEF Tally
  <2> HIDE DEF g
  <2> QED
    BY <2>2, <2>3 DEF Tally
<1>4. SumFunctionOnSet(A, S) = g[S] /\ g[S] = f[S] /\ g[S] \in Int
  <2>1. S \in SUBSET S
    OBVIOUS
  <2>2. SumFunctionOnSet(A, S) = g[S]
    BY <1>3, SumIsTally
  <2>3. g[S] \in Int
    BY <1>3, <2>1 DEF Tally
  <2> QED
    BY <2>1, <2>2, <2>3
<1>5. ASSUME x \notin S PROVE f[S \cup {x}] = A[x] + f[S]
  <2>1. (S \cup {x}) \ {x} = S
    BY <1>5
  <2> QED
    BY <1>2, <2>1 DEF Tally
<1>6. SumFunctionOnSet(A, S \cup {x}) = f[S \cup {x}]
  BY <1>1, <1>2, SumIsTally
<1> QED
  BY <1>4, <1>5, <1>6

(* Only the numbers of the set's elements count.                           *)
THEOREM SumsAgree ==
  ASSUME NEW S, IsFiniteSet(S), NEW A, NEW B, \A x \in S : A[x] \in Int /\ A[x] = B[x]
  PROVE  SumFunctionOnSet(A, S) = SumFunctionOnSet(B, S)
<1>1. PICK f : Tally(A, S, f)
  BY TallyExists
<1>2. Tally(B, S, f)
  BY <1>1 DEF Tally
<1> QED
  BY <1>1, <1>2, SumIsTally

(* Where one number changes the sum changes as much.                       *)
THEOREM SumWithChange ==
  ASSUME NEW S, IsFiniteSet(S), NEW A, NEW B, NEW x \in S,
         \A y \in S : A[y] \in Int /\ B[y] \in Int,
         \A y \in S \ {x} : B[y] = A[y]
  PROVE  SumFunctionOnSet(B, S) = SumFunctionOnSet(A, S) + (B[x] - A[x])
<1> DEFINE R == S \ {x}
<1>1. IsFiniteSet(R) /\ x \notin R /\ R \cup {x} = S
  BY FS_RemoveElement
<1>2. SumFunctionOnSet(A, R) = SumFunctionOnSet(B, R)
  BY <1>1, SumsAgree
<1>3. SumFunctionOnSet(A, S) = A[x] + SumFunctionOnSet(A, R) /\ SumFunctionOnSet(A, R) \in Int
  BY <1>1, SumWithElement
<1>4. SumFunctionOnSet(B, S) = B[x] + SumFunctionOnSet(B, R)
  <2>1. \A y \in R \cup {x} : B[y] \in Int
    OBVIOUS
  <2> QED
    BY <1>1, <2>1, SumWithElement
<1> HIDE DEF R
<1> QED
  BY <1>2, <1>3, <1>4
===============================================================================
