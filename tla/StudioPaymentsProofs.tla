------------------------ MODULE StudioPaymentsProofs ------------------------
(***************************************************************************)
(* Proofs about the payments of one appointment, for any number of         *)
(* attempts and requests, any prices and tips.                             *)
(***************************************************************************)
EXTENDS StudioPayments, FiniteSetTheorems, WellFoundedInduction, TLAPS

(***************************************************************************)
(* What a sum over a finite set is: the facts about SumFunctionOnSet that   *)
(* the proofs about money need.  The sum is a fold in an order that is not  *)
(* specified; each fact is proved by induction, in the form "a set of       *)
(* numbers with 0 in it that is closed under successor holds them all".     *)
(***************************************************************************)

LEMMA NaturalsFrom ==
    ASSUME NEW T \in SUBSET Nat, 0 \in T, \A n \in T : n + 1 \in T
    PROVE  T = Nat
<1> SUFFICES ASSUME Nat \ T # {} PROVE FALSE
  OBVIOUS
<1> DEFINE R == OpToRel(<, Nat)
<1>1. IsWellFoundedOn(R, Nat)
  BY NatLessThanWellFounded
<1>2. \A m, n \in Nat : m < n => <<m, n>> \in R
  BY DEF OpToRel
<1> HIDE DEF R
<1>3. PICK n \in Nat \ T : \A m \in Nat \ T : ~(<<m, n>> \in R)
  BY <1>1, WFMin
<1>4. n # 0 /\ n - 1 \in Nat /\ n - 1 < n /\ (n - 1) + 1 = n
  BY <1>3
<1>5. n - 1 \in T
  BY <1>2, <1>3, <1>4
<1> QED BY <1>3, <1>4, <1>5

\* The element that the fold takes next.
Taken(s) == CHOOSE x \in s : TRUE

\* g gives the sum of f over every set in D, where D has every set's smaller ones.
Sums(f, D, g) ==
    g = [s \in D |-> IF s = {} THEN 0 ELSE f[Taken(s)] + g[s \ {Taken(s)}]]

LEMMA SumUnfolds ==
    ASSUME NEW f, NEW S
    PROVE  SumFunctionOnSet(f, S) = (CHOOSE g : Sums(f, SUBSET S, g))[S]
BY Zenon DEF SumFunctionOnSet, FoldFunctionOnSet, MapThenFoldSet, Sums, Taken

LEMMA TakenIsMember ==
    ASSUME NEW s, s # {}
    PROVE  Taken(s) \in s
BY DEF Taken

LEMMA SmallerByOne ==
    ASSUME NEW s, IsFiniteSet(s), NEW x \in s
    PROVE  /\ IsFiniteSet(s \ {x})
           /\ Cardinality(s) \in Nat /\ Cardinality(s \ {x}) \in Nat
           /\ Cardinality(s \ {x}) = Cardinality(s) - 1
BY FS_RemoveElement, FS_CardinalityType

LEMMA SumsStep ==
    ASSUME NEW f, NEW C, NEW D, NEW g, Sums(f, C, g),
           \A s \in D : s # {} => s \ {Taken(s)} \in C, C \subseteq D
    PROVE  \E h : Sums(f, D, h)
<1> DEFINE h == [s \in D |-> IF s = {} THEN 0 ELSE f[Taken(s)] + g[s \ {Taken(s)}]]
<1>1. \A s \in C : h[s] = g[s]
  BY DEF Sums
<1>2. \A s \in D : h[s] = IF s = {} THEN 0 ELSE f[Taken(s)] + h[s \ {Taken(s)}]
  BY <1>1
<1>3. h = [s \in D |-> h[s]]
  OBVIOUS
<1> HIDE DEF h
<1>4. h = [s \in D |-> IF s = {} THEN 0 ELSE f[Taken(s)] + h[s \ {Taken(s)}]]
  BY <1>2, <1>3
<1> QED BY <1>4 DEF Sums

LEMMA SumsExist ==
    ASSUME NEW f, NEW S, IsFiniteSet(S)
    PROVE  \E g : Sums(f, SUBSET S, g)
<1> DEFINE Small(n) == {s \in SUBSET S : Cardinality(s) <= n}
           T == {n \in Nat : \E g : Sums(f, Small(n), g)}
<1>1. \A s \in SUBSET S : IsFiniteSet(s) /\ Cardinality(s) \in Nat /\ Cardinality(s) <= Cardinality(S)
  BY FS_Subset, FS_CardinalityType
<1>2. 0 \in T
  <2> DEFINE g == [s \in Small(0) |-> 0]
  <2>1. \A s \in Small(0) : s = {}
    BY <1>1, FS_EmptySet
  <2>2. Sums(f, Small(0), g)
    BY <2>1 DEF Sums
  <2> QED BY <2>2
<1>3. ASSUME NEW n \in T PROVE n + 1 \in T
  <2>1. PICK g : Sums(f, Small(n), g)
    OBVIOUS
  <2>2. ASSUME NEW s \in Small(n + 1), s # {} PROVE s \ {Taken(s)} \in Small(n)
    <3>1. s \in SUBSET S /\ IsFiniteSet(s) /\ Cardinality(s) <= n + 1
      BY <1>1
    <3>2. Taken(s) \in s
      BY <2>2, TakenIsMember
    <3>3. /\ Cardinality(s) \in Nat /\ Cardinality(s \ {Taken(s)}) \in Nat
          /\ Cardinality(s \ {Taken(s)}) = Cardinality(s) - 1
      BY <3>1, <3>2, SmallerByOne
    <3> QED BY <3>1, <3>3
  <2>3. Small(n) \subseteq Small(n + 1)
    BY <1>1
  <2> HIDE DEF Small
  <2>4. \E h : Sums(f, Small(n + 1), h)
    BY <2>1, <2>2, <2>3, SumsStep
  <2> QED BY <2>4
<1> DEFINE N == Cardinality(S)
<1>4. N \in Nat
  BY FS_CardinalityType
<1>5. N \in T
  <2> HIDE DEF T
  <2>1. T \subseteq Nat
    BY DEF T
  <2> QED BY <1>2, <1>3, <1>4, <2>1, NaturalsFrom
<1>6. Small(N) = SUBSET S
  BY <1>1
<1> QED BY <1>5, <1>6

SumsOver(f, S) == CHOOSE g : Sums(f, SUBSET S, g)

LEMMA SumsOverUnfolds ==
    ASSUME NEW f, NEW S, IsFiniteSet(S), NEW s \in SUBSET S
    PROVE  SumsOver(f, S)[s] = IF s = {} THEN 0 ELSE f[Taken(s)] + SumsOver(f, S)[s \ {Taken(s)}]
<1> DEFINE g == SumsOver(f, S)
<1>1. Sums(f, SUBSET S, g)
  BY SumsExist DEF SumsOver
<1> HIDE DEF g
<1>2. g[s] = IF s = {} THEN 0 ELSE f[Taken(s)] + g[s \ {Taken(s)}]
  BY <1>1 DEF Sums
<1> QED BY <1>2 DEF g

LEMMA SumIsSumsOver ==
    ASSUME NEW f, NEW S
    PROVE  SumFunctionOnSet(f, S) = SumsOver(f, S)[S]
BY SumUnfolds DEF SumsOver

\* Which other elements the sum was taken over does not matter, nor what the
\* function is outside of the set.
LEMMA SumsAlike ==
    ASSUME NEW f, NEW g, NEW S, NEW U, IsFiniteSet(S), IsFiniteSet(U),
           NEW r \in SUBSET S, r \in SUBSET U, \A x \in r : f[x] = g[x]
    PROVE  SumsOver(f, S)[r] = SumsOver(g, U)[r]
<1> DEFINE F == SumsOver(f, S)
           G == SumsOver(g, U)
           T == {n \in Nat : \A s \in SUBSET r : Cardinality(s) = n => F[s] = G[s]}
<1>1. \A s \in SUBSET r : IsFiniteSet(s) /\ Cardinality(s) \in Nat
  BY FS_Subset, FS_CardinalityType
<1>2. \A s \in SUBSET r : /\ F[s] = IF s = {} THEN 0 ELSE f[Taken(s)] + F[s \ {Taken(s)}]
                          /\ G[s] = IF s = {} THEN 0 ELSE g[Taken(s)] + G[s \ {Taken(s)}]
  <2>1. \A s \in SUBSET S : F[s] = IF s = {} THEN 0 ELSE f[Taken(s)] + F[s \ {Taken(s)}]
    BY SumsOverUnfolds
  <2>2. \A s \in SUBSET U : G[s] = IF s = {} THEN 0 ELSE g[Taken(s)] + G[s \ {Taken(s)}]
    BY SumsOverUnfolds
  <2>3. \A s \in SUBSET r : s \in SUBSET S /\ s \in SUBSET U
    OBVIOUS
  <2> HIDE DEF F, G
  <2> QED BY <2>1, <2>2, <2>3
<1> HIDE DEF F, G
<1>3. 0 \in T
  BY <1>1, <1>2, FS_EmptySet
<1>4. ASSUME NEW n \in T PROVE n + 1 \in T
  <2> SUFFICES ASSUME NEW s \in SUBSET r, Cardinality(s) = n + 1 PROVE F[s] = G[s]
    OBVIOUS
  <2>n. n \in Nat /\ n + 1 # 0
    OBVIOUS
  <2>1. s # {}
    <3>1. s = {} => Cardinality(s) = 0
      BY FS_EmptySet
    <3> QED BY <2>n, <3>1
  <2>2. Taken(s) \in s
    BY <2>1, TakenIsMember
  <2>3. Cardinality(s \ {Taken(s)}) = n /\ s \ {Taken(s)} \in SUBSET r
    BY <1>1, <2>n, <2>1, <2>2, SmallerByOne
  <2>4. F[s \ {Taken(s)}] = G[s \ {Taken(s)}]
    BY <2>3
  <2>5. f[Taken(s)] = g[Taken(s)]
    BY <2>2
  <2> QED BY <1>2, <2>1, <2>4, <2>5
<1>5. T = Nat
  <2> HIDE DEF T
  <2>1. T \subseteq Nat
    BY DEF T
  <2> QED BY <1>3, <1>4, <2>1, NaturalsFrom
<1>6. Cardinality(r) \in T
  BY <1>1, <1>5
<1>7. F[r] = G[r]
  BY <1>6
<1> QED BY <1>7 DEF F, G

LEMMA SumsInteger ==
    ASSUME NEW f, NEW S, IsFiniteSet(S), NEW V, 0 \in V, \A a, b \in V : a + b \in V,
           NEW r \in SUBSET S, \A x \in r : f[x] \in V
    PROVE  SumsOver(f, S)[r] \in V
<1> DEFINE F == SumsOver(f, S)
           T == {n \in Nat : \A s \in SUBSET r : Cardinality(s) = n => F[s] \in V}
<1>1. \A s \in SUBSET r : IsFiniteSet(s) /\ Cardinality(s) \in Nat
  BY FS_Subset, FS_CardinalityType
<1>2. \A s \in SUBSET r : F[s] = IF s = {} THEN 0 ELSE f[Taken(s)] + F[s \ {Taken(s)}]
  BY SumsOverUnfolds
<1> HIDE DEF F
<1>3. 0 \in T
  BY <1>1, <1>2, FS_EmptySet
<1>4. ASSUME NEW n \in T PROVE n + 1 \in T
  <2> SUFFICES ASSUME NEW s \in SUBSET r, Cardinality(s) = n + 1 PROVE F[s] \in V
    OBVIOUS
  <2>n. n \in Nat /\ n + 1 # 0
    OBVIOUS
  <2>1. s # {}
    <3>1. s = {} => Cardinality(s) = 0
      BY FS_EmptySet
    <3> QED BY <2>n, <3>1
  <2>2. Taken(s) \in s
    BY <2>1, TakenIsMember
  <2>3. Cardinality(s \ {Taken(s)}) = n /\ s \ {Taken(s)} \in SUBSET r
    BY <1>1, <2>n, <2>1, <2>2, SmallerByOne
  <2>4. F[s \ {Taken(s)}] \in V
    BY <2>3
  <2>5. f[Taken(s)] \in V
    BY <2>2
  <2> QED BY <1>2, <2>1, <2>4, <2>5
<1>5. T = Nat
  <2> HIDE DEF T
  <2>1. T \subseteq Nat
    BY DEF T
  <2> QED BY <1>3, <1>4, <2>1, NaturalsFrom
<1>6. Cardinality(r) \in T
  BY <1>1, <1>5
<1>7. F[r] \in V
  BY <1>6
<1> QED BY <1>7 DEF F

\* Any element may be taken first.
LEMMA SumsTakeAny ==
    ASSUME NEW f, NEW S, IsFiniteSet(S), \A x \in S : f[x] \in Int, NEW r \in SUBSET S, NEW a \in r
    PROVE  SumsOver(f, S)[r] = f[a] + SumsOver(f, S)[r \ {a}]
<1> DEFINE F == SumsOver(f, S)
           T == {n \in Nat : \A s \in SUBSET r : Cardinality(s) = n =>
                                \A x \in s : F[s] = f[x] + F[s \ {x}]}
<1>1. \A s \in SUBSET r : IsFiniteSet(s) /\ Cardinality(s) \in Nat
  BY FS_Subset, FS_CardinalityType
<1>2. \A s \in SUBSET r : F[s] = IF s = {} THEN 0 ELSE f[Taken(s)] + F[s \ {Taken(s)}]
  BY SumsOverUnfolds
<1>3. \A s \in SUBSET r : F[s] \in Int
  BY SumsInteger
<1> HIDE DEF F
<1>4. 0 \in T
  BY <1>1, FS_EmptySet
<1>5. ASSUME NEW n \in T PROVE n + 1 \in T
  <2> SUFFICES ASSUME NEW s \in SUBSET r, Cardinality(s) = n + 1, NEW x \in s
               PROVE  F[s] = f[x] + F[s \ {x}]
    OBVIOUS
  <2> DEFINE y == Taken(s)
  <2>1. y \in s /\ n \in Nat
    BY TakenIsMember
  <2>2. F[s] = f[y] + F[s \ {y}]
    BY <1>2, <2>1
  <2> HIDE DEF y
  <2>3. CASE x = y
    BY <2>2, <2>3
  <2>4. CASE x # y
    <3>1. /\ Cardinality(s \ {x}) = n /\ s \ {x} \in SUBSET r /\ y \in s \ {x}
          /\ Cardinality(s \ {y}) = n /\ s \ {y} \in SUBSET r /\ x \in s \ {y}
      BY <1>1, <2>1, <2>4, SmallerByOne
    <3>2. F[s \ {y}] = f[x] + F[(s \ {y}) \ {x}]
      BY <3>1
    <3>3. F[s \ {x}] = f[y] + F[(s \ {x}) \ {y}]
      BY <3>1
    <3>4. (s \ {y}) \ {x} = (s \ {x}) \ {y}
      OBVIOUS
    <3> DEFINE z == (s \ {x}) \ {y}
    <3>5. F[z] \in Int /\ f[x] \in Int /\ f[y] \in Int
      BY <1>3, <2>1
    <3>6. F[s \ {y}] = f[x] + F[z] /\ F[s \ {x}] = f[y] + F[z]
      BY <3>2, <3>3, <3>4
    <3> HIDE DEF z
    <3> QED BY <2>2, <3>5, <3>6
  <2> QED BY <2>3, <2>4
<1>6. T = Nat
  <2> HIDE DEF T
  <2>1. T \subseteq Nat
    BY DEF T
  <2> QED BY <1>4, <1>5, <2>1, NaturalsFrom
<1>7. Cardinality(r) \in T
  BY <1>1, <1>6
<1>8. F[r] = f[a] + F[r \ {a}]
  BY <1>7
<1> QED BY <1>8 DEF F

-----------------------------------------------------------------------------
(* What the proofs cite.                                                    *)

\* The sum over nothing is nothing.
THEOREM SumOfNone ==
    ASSUME NEW f
    PROVE  SumFunctionOnSet(f, {}) = 0
BY SumIsSumsOver, SumsOverUnfolds, FS_EmptySet

\* The sum depends on the values that are summed, and on nothing else.
THEOREM SumDependsOnValues ==
    ASSUME NEW f, NEW g, NEW S, IsFiniteSet(S), \A x \in S : f[x] = g[x]
    PROVE  SumFunctionOnSet(f, S) = SumFunctionOnSet(g, S)
BY SumIsSumsOver, SumsAlike

\* The sum of integers is one.
THEOREM SumIsInteger ==
    ASSUME NEW f, NEW S, IsFiniteSet(S), \A x \in S : f[x] \in Int
    PROVE  SumFunctionOnSet(f, S) \in Int
<1>1. 0 \in Int /\ \A a, b \in Int : a + b \in Int
  OBVIOUS
<1>2. SumsOver(f, S)[S] \in Int
  BY <1>1, SumsInteger
<1> QED BY <1>2, SumIsSumsOver

\* The sum of natural numbers is one.
THEOREM SumIsNatural ==
    ASSUME NEW f, NEW S, IsFiniteSet(S), \A x \in S : f[x] \in Nat
    PROVE  SumFunctionOnSet(f, S) \in Nat
<1>1. 0 \in Nat /\ \A a, b \in Nat : a + b \in Nat
  OBVIOUS
<1>2. SumsOver(f, S)[S] \in Nat
  BY <1>1, SumsInteger
<1> QED BY <1>2, SumIsSumsOver

\* The sum is what one element contributes and what the others do.
THEOREM SumWithout ==
    ASSUME NEW f, NEW S, IsFiniteSet(S), \A x \in S : f[x] \in Int, NEW a \in S
    PROVE  SumFunctionOnSet(f, S) = f[a] + SumFunctionOnSet(f, S \ {a})
<1>1. IsFiniteSet(S \ {a})
  BY FS_RemoveElement
<1>2. SumsOver(f, S)[S] = f[a] + SumsOver(f, S)[S \ {a}]
  BY SumsTakeAny
<1>3. SumsOver(f, S)[S \ {a}] = SumsOver(f, S \ {a})[S \ {a}]
  BY <1>1, SumsAlike
<1> QED BY <1>2, <1>3, SumIsSumsOver

\* One element more adds what it contributes.
THEOREM SumWith ==
    ASSUME NEW f, NEW S, IsFiniteSet(S), NEW a, a \notin S, \A x \in S \cup {a} : f[x] \in Int
    PROVE  SumFunctionOnSet(f, S \cup {a}) = f[a] + SumFunctionOnSet(f, S)
<1>1. IsFiniteSet(S \cup {a}) /\ (S \cup {a}) \ {a} = S
  BY FS_AddElement
<1> QED BY <1>1, SumWithout

\* A part of natural numbers sums to no more than all of them.
THEOREM SumOfPart ==
    ASSUME NEW f, NEW S, IsFiniteSet(S), \A x \in S : f[x] \in Nat, NEW P \in SUBSET S
    PROVE  SumFunctionOnSet(f, P) <= SumFunctionOnSet(f, S)
<1> DEFINE Sum(s) == SumFunctionOnSet(f, s)
           T == {n \in Nat : \A s \in SUBSET S : Cardinality(s) = n => Sum(S \ s) <= Sum(S)}
<1>1. \A s \in SUBSET S : IsFiniteSet(s) /\ Cardinality(s) \in Nat
  BY FS_Subset, FS_CardinalityType
<1>2. \A s \in SUBSET S : Sum(s) \in Nat
  BY <1>1, SumIsNatural
<1>3. 0 \in T
  <2> SUFFICES ASSUME NEW s \in SUBSET S, Cardinality(s) = 0 PROVE Sum(S \ s) <= Sum(S)
    OBVIOUS
  <2>1. S \ s = S
    BY <1>1, FS_EmptySet
  <2>2. Sum(S) \in Nat
    BY <1>2
  <2> HIDE DEF Sum
  <2> QED BY <2>1, <2>2
<1>4. ASSUME NEW n \in T PROVE n + 1 \in T
  <2> SUFFICES ASSUME NEW s \in SUBSET S, Cardinality(s) = n + 1 PROVE Sum(S \ s) <= Sum(S)
    OBVIOUS
  <2>n. n \in Nat /\ n + 1 # 0
    OBVIOUS
  <2>1. PICK x : x \in s
    <3>1. s = {} => Cardinality(s) = 0
      BY FS_EmptySet
    <3> QED BY <2>n, <3>1
  <2> DEFINE r == s \ {x}
  <2>2. r \in SUBSET S /\ Cardinality(r) = n
    BY <1>1, <2>n, <2>1, SmallerByOne
  <2>3. Sum(S \ r) <= Sum(S)
    BY <2>2
  <2>4. x \in S \ r /\ (S \ r) \ {x} = S \ s /\ IsFiniteSet(S \ r) /\ \A y \in S \ r : f[y] \in Int
    BY <1>1, <2>1
  <2>5. Sum(S \ r) = f[x] + Sum(S \ s)
    BY <2>4, SumWithout
  <2>6. Sum(S) \in Nat /\ Sum(S \ r) \in Nat /\ Sum(S \ s) \in Nat /\ f[x] \in Nat
    BY <1>2, <2>1
  <2> HIDE DEF Sum, r
  <2> QED BY <2>3, <2>5, <2>6
<1>5. T = Nat
  <2> HIDE DEF T
  <2>1. T \subseteq Nat
    BY DEF T
  <2> QED BY <1>3, <1>4, <2>1, NaturalsFrom
<1>6. S \ P \in SUBSET S /\ S \ (S \ P) = P
  OBVIOUS
<1>7. Cardinality(S \ P) \in T
  BY <1>1, <1>5, <1>6
<1> QED BY <1>6, <1>7

(***************************************************************************)
(* The payments of one appointment.                                        *)
(***************************************************************************)

PaymentStatuses == {"NONE", "PENDING", "EXPIRED"} \cup Settled

\* One row gets another status, and nothing else of the table changes.
Restated(p, s) ==
    /\ payment' \in [Attempts -> Payments]
    /\ payment'[p].status = s
    /\ payment'[p].purpose = payment[p].purpose /\ payment'[p].provider = payment[p].provider
    /\ payment'[p].amount = payment[p].amount /\ payment'[p].tip = payment[p].tip
    /\ \A q \in Attempts \ {p} : payment'[q] = payment[q]

LEMMA StatusSet ==
    ASSUME payment \in [Attempts -> Payments], NEW p \in Attempts, NEW s \in PaymentStatuses,
           SetStatus(p, s)
    PROVE  Restated(p, s)
BY DEF SetStatus, Restated, Payments, PaymentStatuses

LEMMA VerdictIsStatus ==
    ASSUME NEW p \in Attempts
    PROVE  Verdict(p) \in RefundStatuses /\ Verdict(p) \in Settled /\ Verdict(p) \in PaymentStatuses
BY DEF Verdict, RefundStatuses, Settled, PaymentStatuses

LEMMA RefundIssued ==
    ASSUME refund \in [Attempts -> [Refunders -> Refunds]], news \subseteq Attempts,
           NEW p \in Attempts, NEW who \in Refunders, NEW amount \in Nat,
           NEW outcome \in {"pending", "succeeded", "failed"}, Issue(p, who, amount, outcome)
    PROVE  /\ refund' \in [Attempts -> [Refunders -> Refunds]] /\ news' \subseteq Attempts
           /\ \A q \in Attempts \ {p} : refund'[q] = refund[q]
<1>1. [amount |-> amount, status |-> outcome] \in Refunds
  BY DEF Refunds
<1> QED BY <1>1 DEF Issue

LEMMA RequestsMove ==
    ASSUME request \in [Requests -> SUBSET (Steps \X Attempts)], NEW c \in Requests,
           NEW p \in Attempts, NEW step \in Steps, Continue(c, step, p) \/ Finish(c)
    PROVE  request' \in [Requests -> SUBSET (Steps \X Attempts)]
BY DEF Continue, Finish

\* A row that was reserved.
LEMMA RowReserved ==
    ASSUME PaymentsTypeOK, NEW c \in Requests, NEW p \in Attempts,
           NEW purpose \in {"DEPOSIT", "BALANCE"}, NEW tip \in Tips,
           NEW provider \in {"stripe_connect", "stripe_terminal"},
           Reserve(c, p, purpose, provider, tip)
    PROVE  /\ \A q \in Attempts \ {p} : payment'[q] = payment[q]
           /\ payment' \in [Attempts -> Payments]
           /\ payment'[p].status = "PENDING" /\ payment'[p].purpose = purpose
           /\ payment'[p].provider = provider
           /\ payment'[p].tip = tip
           /\ payment'[p].amount - tip = Due(purpose, Service)
           /\ Due(purpose, Service) \in 1 .. (Price + Deposit)
<1>1. PICK amount \in 1 .. (Price + Deposit) :
        /\ amount = Due(purpose, Service)
        /\ payment' = [payment EXCEPT ![p] =
                         [provider |-> provider, purpose |-> purpose, amount |-> amount + tip,
                          tip |-> tip, refunded |-> 0, status |-> "PENDING"]]
  BY DEF Reserve, Reserved
<1>2. amount \in Nat /\ tip \in Nat /\ amount + tip \in Nat /\ (amount + tip) - tip = amount
  BY AmountsAreCents
<1>3. [provider |-> provider, purpose |-> purpose, amount |-> amount + tip,
       tip |-> tip, refunded |-> 0, status |-> "PENDING"] \in Payments
  BY <1>2 DEF Payments
<1>4. payment \in [Attempts -> Payments]
  BY DEF PaymentsTypeOK
<1> HIDE DEF Due, Payments
<1> QED BY <1>1, <1>2, <1>3, <1>4

\* The list of refunds gives a row a refund status and an amount.
LEMMA RowReconciled ==
    ASSUME payment \in [Attempts -> Payments], NEW p \in Attempts, Reconciled(p)
    PROVE  \/ HasIntent(p) /\ HasRefund(p) /\ Restated(p, Verdict(p))
              /\ depositStatus' = IF payment[p].purpose = "DEPOSIT" THEN Verdict(p) ELSE depositStatus
           \/ UNCHANGED <<payment, depositStatus>>
<1>1. CASE HasIntent(p) /\ HasRefund(p)
  <2>1. PICK returned \in 0 .. payment[p].amount :
          payment' = [payment EXCEPT ![p].status = Verdict(p), ![p].refunded = returned]
    BY <1>1 DEF Reconciled
  <2>2. returned \in Nat /\ payment[p] \in Payments
    BY DEF Payments
  <2> DEFINE v == Verdict(p)
  <2>3. v \in PaymentStatuses
    BY VerdictIsStatus
  <2>4. payment' = [payment EXCEPT ![p] = [payment[p] EXCEPT !.status = v, !.refunded = returned]]
    BY <2>1
  <2> HIDE DEF v
  <2>5. Restated(p, v)
    BY <2>2, <2>3, <2>4 DEF Restated, Payments, PaymentStatuses
  <2> QED BY <1>1, <2>5 DEF v, Reconciled
<1>2. CASE ~(HasIntent(p) /\ HasRefund(p))
  BY <1>2 DEF Reconciled
<1> QED BY <1>1, <1>2

-----------------------------------------------------------------------------
(* Types.                                                                   *)

LEMMA TypeStart == Init => PaymentsTypeOK
BY DEF Init, PaymentsTypeOK, Payments, NoPayment, Refunds, Settled, RefundStatuses

LEMMA TypeCollecting ==
    ASSUME PaymentsTypeOK, NEW c \in Requests, NEW p \in Attempts, Collecting(c, p)
    PROVE  PaymentsTypeOK'
<1>1. ASSUME NEW purpose \in {"DEPOSIT", "BALANCE"}, NEW tip \in Tips,
             NEW provider \in {"stripe_connect", "stripe_terminal"},
             Reserve(c, p, purpose, provider, tip)
      PROVE  PaymentsTypeOK'
  <2>1. payment' \in [Attempts -> Payments]
    BY <1>1, RowReserved
  <2>2. request' \in [Requests -> SUBSET (Steps \X Attempts)]
    BY <1>1, RequestsMove DEF Reserve, Reserved, PaymentsTypeOK, Steps
  <2> QED BY <1>1, <2>1, <2>2 DEF Reserve, Reserved, PaymentsTypeOK, appointment
<1>2. ASSUME NEW purpose \in {"DEPOSIT", "BALANCE"}, NEW tip \in Tips,
             NEW provider \in {"stripe_connect", "stripe_terminal"},
             Resume(c, p, purpose, provider, tip)
      PROVE  PaymentsTypeOK'
  <2>1. request' \in [Requests -> SUBSET (Steps \X Attempts)]
    BY <1>2, RequestsMove DEF Resume, PaymentsTypeOK, Steps
  <2> QED BY <1>2, <2>1 DEF Resume, PaymentsTypeOK, appointment
<1>3. CASE CreateSession(c, p)
  <2>1. request' \in [Requests -> SUBSET (Steps \X Attempts)]
    BY <1>3, RequestsMove DEF CreateSession, PaymentsTypeOK, Steps
  <2> QED BY <1>3, <2>1 DEF CreateSession, PaymentsTypeOK, appointment
<1>4. CASE SaveSession(c, p)
  <2>1. request' \in [Requests -> SUBSET (Steps \X Attempts)]
    BY <1>4, RequestsMove DEF SaveSession, PaymentsTypeOK, Steps
  <2> QED BY <1>4, <2>1 DEF SaveSession, PaymentsTypeOK, appointment
<1> QED BY <1>1, <1>2, <1>3, <1>4 DEF Collecting

LEMMA TypeRefunding ==
    ASSUME PaymentsTypeOK, NEW c \in Requests, NEW p \in Attempts, Refunding(c, p)
    PROVE  PaymentsTypeOK'
<1>1. CASE RefundRequest(c, p)
  <2>1. Restated(p, "REFUND_PENDING")
    BY <1>1, StatusSet DEF RefundRequest, PaymentsTypeOK, PaymentStatuses, Settled, RefundStatuses
  <2>2. request' \in [Requests -> SUBSET (Steps \X Attempts)]
    BY <1>1, RequestsMove DEF RefundRequest, PaymentsTypeOK, Steps
  <2>3. depositStatus' \in {"PENDING", "WAIVED"} \cup Settled
    BY <1>1 DEF RefundRequest, PaymentsTypeOK, Settled, RefundStatuses
  <2> QED BY <1>1, <2>1, <2>2, <2>3 DEF RefundRequest, PaymentsTypeOK, Restated
<1>2. CASE RefundCreate(c, p)
  <2>1. request' \in [Requests -> SUBSET (Steps \X Attempts)]
    BY <1>2, RequestsMove DEF RefundCreate, PaymentsTypeOK, Steps
  <2>2. payment[p].amount \in Nat
    BY DEF PaymentsTypeOK, Payments
  <2>3. refund' \in [Attempts -> [Refunders -> Refunds]] /\ news' \subseteq Attempts
    BY <1>2, <2>2, RefundIssued DEF Refunding, RefundCreate, PaymentsTypeOK
  <2> QED BY <1>2, <2>1, <2>3 DEF RefundCreate, PaymentsTypeOK, appointment
<1>3. CASE Reconcile(c, p)
  <2>1. request' \in [Requests -> SUBSET (Steps \X Attempts)]
    BY <1>3, RequestsMove DEF Reconcile, PaymentsTypeOK, Steps
  <2>2. payment' \in [Attempts -> Payments] /\ depositStatus' \in {"PENDING", "WAIVED"} \cup Settled
    BY <1>3, RowReconciled, VerdictIsStatus DEF Reconcile, PaymentsTypeOK, Restated
  <2> QED BY <1>3, <2>1, <2>2 DEF Reconcile, PaymentsTypeOK
<1> QED BY <1>1, <1>2, <1>3 DEF Refunding

LEMMA TypeStripe ==
    ASSUME PaymentsTypeOK, NEW p \in Attempts, Stripe(p)
    PROVE  PaymentsTypeOK'
<1>1. CASE Lapse(p)
  BY <1>1 DEF Lapse, PaymentsTypeOK, appointment
<1>2. CASE ClientPays(p) \/ SessionExpires(p)
  BY <1>2 DEF ClientPays, SessionExpires, SessionEnds, PaymentsTypeOK, appointment
<1>3. CASE ConnectCompleted(p)
  <2>1. Restated(p, "PAID")
    BY <1>3, StatusSet DEF ConnectCompleted, Completed, PaymentsTypeOK, PaymentStatuses, Settled
  <2>2. /\ status' \in {"PAYMENT_PENDING", "CONFIRMED", "COMPLETED", "CANCELLED",
                        "PAYMENT_RECEIVED_SLOT_UNAVAILABLE"}
        /\ depositStatus' \in {"PENDING", "WAIVED"} \cup Settled
    BY <1>3 DEF ConnectCompleted, Completed, PaymentsTypeOK, appointment, Settled
  <2> QED BY <1>3, <2>1, <2>2 DEF ConnectCompleted, Completed, PaymentsTypeOK, Restated
<1>4. CASE ConnectExpired(p)
  <2>1. Restated(p, "EXPIRED")
    BY <1>4, StatusSet DEF ConnectExpired, PaymentsTypeOK, PaymentStatuses
  <2> QED BY <1>4, <2>1 DEF ConnectExpired, PaymentsTypeOK, Restated, appointment
<1>5. CASE TerminalEvent(p)
  <2>1. Restated(p, "PAID") \/ Restated(p, "EXPIRED")
    BY <1>5, StatusSet DEF TerminalEvent, PaymentsTypeOK, PaymentStatuses, Settled
  <2> QED BY <1>5, <2>1 DEF TerminalEvent, PaymentsTypeOK, Restated, appointment
<1>6. CASE DashboardRefund(p)
  <2>1. payment[p].amount \in Nat
    BY DEF PaymentsTypeOK, Payments
  <2>2. refund' \in [Attempts -> [Refunders -> Refunds]] /\ news' \subseteq Attempts
    BY <1>6, <2>1, RefundIssued DEF DashboardRefund, PaymentsTypeOK
  <2> QED BY <1>6, <2>2 DEF DashboardRefund, PaymentsTypeOK, appointment
<1>7. CASE RefundEvent(p)
  <2>1. payment' \in [Attempts -> Payments] /\ depositStatus' \in {"PENDING", "WAIVED"} \cup Settled
    BY <1>7, RowReconciled, VerdictIsStatus DEF RefundEvent, PaymentsTypeOK, Restated
  <2> QED BY <1>7, <2>1 DEF RefundEvent, PaymentsTypeOK
<1>8. ASSUME NEW who \in Refunders, RefundSettles(p, who)
      PROVE  PaymentsTypeOK'
  <2>1. refund[p][who].amount \in Nat
    BY DEF PaymentsTypeOK, Refunds
  <2>2. refund' \in [Attempts -> [Refunders -> Refunds]] /\ news' \subseteq Attempts
    BY <1>8, <2>1, RefundIssued DEF RefundSettles, PaymentsTypeOK
  <2> QED BY <1>8, <2>2 DEF RefundSettles, PaymentsTypeOK, appointment
<1> QED BY <1>1, <1>2, <1>3, <1>4, <1>5, <1>6, <1>7, <1>8 DEF Stripe

LEMMA TypeStep == PaymentsTypeOK /\ [Next]_vars => PaymentsTypeOK'
<1> SUFFICES ASSUME PaymentsTypeOK, [Next]_vars PROVE PaymentsTypeOK'
  OBVIOUS
<1>1. ASSUME NEW c \in Requests, NEW p \in Attempts, Collecting(c, p) \/ Refunding(c, p)
      PROVE  PaymentsTypeOK'
  BY <1>1, TypeCollecting, TypeRefunding
<1>2. ASSUME NEW p \in Attempts, Stripe(p)
      PROVE  PaymentsTypeOK'
  BY <1>2, TypeStripe
<1>3. ASSUME NEW c \in Requests, RequestDies(c)
      PROVE  PaymentsTypeOK'
  BY <1>3 DEF RequestDies, Finish, PaymentsTypeOK, appointment
<1>4. CASE Cancel \/ Complete
  BY <1>4 DEF Cancel, Complete, PaymentsTypeOK
<1>5. CASE UNCHANGED vars
  BY <1>5 DEF vars, PaymentsTypeOK
<1> QED BY <1>1, <1>2, <1>3, <1>4, <1>5 DEF Next

\* The appointment, its payment rows, Stripe's objects and the requests keep their
\* types.
THEOREM PaymentsTypeCorrect == Spec => []PaymentsTypeOK
BY TypeStart, TypeStep, PTL DEF Spec

-----------------------------------------------------------------------------
(* The inductive invariant.                                                 *)

OnePending == \A p, q \in HasStatus("PENDING") : p = q

\* Where a session can stand, given the row.
SessionsFollow ==
    \A p \in Attempts :
        /\ session[p] = "open" => payment[p].status = "PENDING"
        /\ session[p] = "paid" => p \in saved /\ payment[p].status \in {"PENDING"} \cup Settled
        /\ payment[p].status \in Settled => session[p] = "paid"
        /\ payment[p].status = "EXPIRED" => session[p] = "expired"
        /\ payment[p].status = "NONE" => session[p] = "none"

\* Requests are about rows that exist, refunds about money that was collected.
RequestsFollow ==
    \A c \in Requests, p \in Attempts, step \in Steps : <<step, p>> \in request[c] =>
        /\ payment[p].status # "NONE"
        /\ step \in {"refund", "reconcile"} => payment[p].status \in Settled
RefundsFollow ==
    \A p \in Attempts, w \in Refunders : refund[p][w].status # "none" => session[p] = "paid"

\* The appointment while a payment of either purpose is open.
PurposesFollow ==
    \A p \in Attempts :
        /\ payment[p].purpose = "DEPOSIT" /\ payment[p].status = "PENDING"
             => status \in {"PAYMENT_PENDING", "CANCELLED"} /\ depositStatus = "PENDING"
        /\ payment[p].purpose = "BALANCE" /\ payment[p].status # "NONE"
             => status \in {"CONFIRMED", "COMPLETED", "CANCELLED"}
        /\ payment[p].provider = "stripe_terminal" => payment[p].purpose = "BALANCE"

CollectedDeposits == {p \in Attempts : payment[p].purpose = "DEPOSIT" /\ payment[p].status \in Settled}
OneDeposit == \A p, q \in CollectedDeposits : p = q

LedgerInv ==
    /\ PaymentsTypeOK
    /\ OnePending /\ SessionsFollow /\ RequestsFollow /\ RefundsFollow
    /\ PurposesFollow /\ OneDeposit /\ DepositShown

LEMMA LedgerStart == Init => LedgerInv
<1> SUFFICES ASSUME Init PROVE LedgerInv
  OBVIOUS
<1>1. \A p \in Attempts : payment[p].status = "NONE" /\ session[p] = "none"
  BY DEF Init, NoPayment
<1>2. PaymentsTypeOK
  BY TypeStart
<1>3. OnePending /\ SessionsFollow /\ PurposesFollow
  BY <1>1 DEF OnePending, HasStatus, SessionsFollow, PurposesFollow, Settled, RefundStatuses, Init, NoPayment
<1>4. RequestsFollow /\ RefundsFollow
  BY DEF Init, RequestsFollow, RefundsFollow
<1>5. OneDeposit /\ DepositShown
  BY <1>1 DEF Init, OneDeposit, CollectedDeposits, DepositShown, Settled, RefundStatuses
<1> QED BY <1>2, <1>3, <1>4, <1>5 DEF LedgerInv

\* What depends on the rows and the appointment only.
RowInv == OnePending /\ PurposesFollow /\ OneDeposit /\ DepositShown

LEMMA RowsKept ==
    ASSUME RowInv, UNCHANGED <<status, depositStatus, payment>>
    PROVE  RowInv'
BY DEF RowInv, OnePending, HasStatus, PurposesFollow, OneDeposit, CollectedDeposits, DepositShown

\* Requests keep to their rows while rows only go forward.
LEMMA RequestsGoOn ==
    ASSUME LedgerInv, NEW c, NEW p \in Attempts, NEW step \in Steps,
           \/ request' = request
           \/ Finish(c)
           \/ /\ Continue(c, step, p) /\ payment'[p].status # "NONE"
              /\ step \in {"refund", "reconcile"} => payment'[p].status \in Settled,
           \A q \in Attempts : /\ payment[q].status # "NONE" => payment'[q].status # "NONE"
                               /\ payment[q].status \in Settled => payment'[q].status \in Settled
    PROVE  RequestsFollow'
<1>1. request \in [Requests -> SUBSET (Steps \X Attempts)] /\ RequestsFollow
  BY DEF LedgerInv, PaymentsTypeOK
<1> SUFFICES ASSUME NEW d \in Requests, NEW q \in Attempts, NEW s \in Steps, <<s, q>> \in request'[d]
             PROVE  /\ payment'[q].status # "NONE"
                    /\ s \in {"refund", "reconcile"} => payment'[q].status \in Settled
  BY DEF RequestsFollow
<1>2. CASE <<s, q>> \in request[d]
  BY <1>1, <1>2 DEF RequestsFollow
<1>3. CASE <<s, q>> \notin request[d]
  <2>1. Continue(c, step, p) /\ d = c /\ <<s, q>> \in {<<step, p>>}
    BY <1>1, <1>3 DEF Continue, Finish
  <2>2. s = step /\ q = p
    BY <2>1
  <2> QED BY <1>1, <1>3, <2>1, <2>2 DEF Continue, Finish
<1> QED BY <1>2, <1>3

\* Sessions and refunds move on while the rows stay as they are.
LEMMA RowsUntouched ==
    ASSUME LedgerInv, PaymentsTypeOK', UNCHANGED <<status, depositStatus, payment>>,
           SessionsFollow', RefundsFollow',
           NEW c, NEW p \in Attempts, NEW step \in Steps,
           \/ request' = request
           \/ Finish(c)
           \/ /\ Continue(c, step, p) /\ payment[p].status # "NONE"
              /\ step \in {"refund", "reconcile"} => payment[p].status \in Settled
    PROVE  LedgerInv'
<1>1. RowInv'
  BY RowsKept DEF LedgerInv, RowInv
<1>2. RequestsFollow'
  BY RequestsGoOn
<1> QED BY <1>1, <1>2 DEF LedgerInv, RowInv

\* A request that is about a row finds it reserved.
LEMMA AboutRow ==
    ASSUME LedgerInv, NEW c \in Requests, NEW p \in Attempts, NEW step \in Steps, About(c, step, p)
    PROVE  /\ payment[p].status # "NONE"
           /\ step \in {"refund", "reconcile"} => payment[p].status \in Settled /\ session[p] = "paid"
BY DEF LedgerInv, RequestsFollow, SessionsFollow, About

\* A payment is reserved only while no other one is open: the other purpose's could
\* only be open in another status of the appointment.
LEMMA NothingPending ==
    ASSUME LedgerInv, NEW c \in Requests, NEW p \in Attempts,
           NEW purpose \in {"DEPOSIT", "BALANCE"}, NEW tip \in Tips,
           NEW provider \in {"stripe_connect", "stripe_terminal"},
           Reserve(c, p, purpose, provider, tip)
    PROVE  \A q \in Attempts : payment[q].status # "PENDING"
<1> SUFFICES ASSUME NEW q \in Attempts, payment[q].status = "PENDING" PROVE FALSE
  OBVIOUS
<1>1. Collectable(purpose) /\ Same(purpose, provider) \cup OtherProvider(provider) = {}
  BY DEF Reserve, Reserved
<1>2. payment[q].provider = provider /\ payment[q].purpose # purpose
  BY <1>1 DEF Same, OtherProvider, HasStatus
<1>3. payment[q].purpose \in {"DEPOSIT", "BALANCE"}
  BY DEF LedgerInv, PaymentsTypeOK, Payments
<1> QED BY <1>1, <1>2, <1>3 DEF Collectable, LedgerInv, PurposesFollow

LEMMA LedgerReserve ==
    ASSUME LedgerInv, PaymentsTypeOK', NEW c \in Requests, NEW p \in Attempts,
           NEW purpose \in {"DEPOSIT", "BALANCE"}, NEW tip \in Tips,
           NEW provider \in {"stripe_connect", "stripe_terminal"},
           Reserve(c, p, purpose, provider, tip)
    PROVE  LedgerInv'
<1>1. /\ payment[p].status = "NONE" /\ Collectable(purpose) /\ Offered(purpose, provider, tip)
      /\ Same(purpose, provider) \cup OtherProvider(provider) = {}
      /\ Continue(c, "create", p)
      /\ UNCHANGED <<status, depositStatus, session, saved, refund>>
  BY DEF Reserve, Reserved, appointment
<1>2. /\ \A q \in Attempts \ {p} : payment'[q] = payment[q]
      /\ payment'[p].status = "PENDING" /\ payment'[p].purpose = purpose
      /\ payment'[p].provider = provider
  BY RowReserved DEF LedgerInv
<1>3. \A q \in Attempts : payment[q].status # "PENDING"
  BY NothingPending
<1>4. OnePending'
  BY <1>2, <1>3 DEF OnePending, HasStatus
<1>5. SessionsFollow' /\ RefundsFollow'
  BY <1>1, <1>2 DEF LedgerInv, SessionsFollow, RefundsFollow, Settled, RefundStatuses
<1>6. RequestsFollow'
  BY <1>1, <1>2, RequestsGoOn DEF Steps, Settled, RefundStatuses
<1>7. PurposesFollow'
  BY <1>1, <1>2 DEF LedgerInv, PurposesFollow, Collectable, Offered
<1>8. CollectedDeposits' = CollectedDeposits
  BY <1>1, <1>2 DEF CollectedDeposits, Settled, RefundStatuses
<1>9. OneDeposit'
  BY <1>8 DEF LedgerInv, OneDeposit
<1>10. \A q \in CollectedDeposits : payment'[q] = payment[q]
  BY <1>1, <1>2 DEF CollectedDeposits, Settled, RefundStatuses
<1>11. DepositShown'
  BY <1>1, <1>8, <1>10 DEF LedgerInv, DepositShown, CollectedDeposits
<1> QED BY <1>4, <1>5, <1>6, <1>7, <1>9, <1>11 DEF LedgerInv

LEMMA LedgerCollecting ==
    ASSUME LedgerInv, NEW c \in Requests, NEW p \in Attempts, Collecting(c, p)
    PROVE  LedgerInv'
<1>t. PaymentsTypeOK'
  BY TypeCollecting DEF LedgerInv
<1>1. ASSUME NEW purpose \in {"DEPOSIT", "BALANCE"}, NEW tip \in Tips,
             NEW provider \in {"stripe_connect", "stripe_terminal"},
             Reserve(c, p, purpose, provider, tip)
      PROVE  LedgerInv'
  BY <1>t, <1>1, LedgerReserve
<1>2. ASSUME NEW purpose \in {"DEPOSIT", "BALANCE"}, NEW tip \in Tips,
             NEW provider \in {"stripe_connect", "stripe_terminal"},
             Resume(c, p, purpose, provider, tip)
      PROVE  LedgerInv'
  <2>1. /\ payment[p].status = "PENDING" /\ Continue(c, "create", p)
        /\ UNCHANGED <<status, depositStatus, payment, session, saved, refund>>
    BY <1>2 DEF Resume, Same, HasStatus, appointment
  <2>2. SessionsFollow' /\ RefundsFollow'
    BY <2>1 DEF LedgerInv, SessionsFollow, RefundsFollow
  <2> QED BY <1>t, <2>1, <2>2, RowsUntouched DEF Steps
<1>3. CASE CreateSession(c, p)
  <2>1. /\ payment[p].status # "NONE" /\ Continue(c, "save", p)
        /\ UNCHANGED <<status, depositStatus, payment, saved, refund>>
        /\ session' = [session EXCEPT ![p] = IF @ = "none" THEN "open" ELSE @]
    BY <1>3, AboutRow DEF CreateSession, appointment, Steps
  <2>2. session[p] = "none" => payment[p].status = "PENDING"
    BY <2>1 DEF LedgerInv, SessionsFollow, PaymentsTypeOK, Payments
  <2>3. SessionsFollow' /\ RefundsFollow'
    BY <2>1, <2>2 DEF LedgerInv, SessionsFollow, RefundsFollow, PaymentsTypeOK, Settled, RefundStatuses
  <2> QED BY <1>t, <2>1, <2>3, RowsUntouched DEF Steps
<1>4. CASE SaveSession(c, p)
  <2>1. /\ Finish(c) /\ saved' = saved \cup {p}
        /\ UNCHANGED <<status, depositStatus, payment, session, refund>>
    BY <1>4 DEF SaveSession, appointment
  <2>2. SessionsFollow' /\ RefundsFollow'
    BY <2>1 DEF LedgerInv, SessionsFollow, RefundsFollow
  <2> QED BY <1>t, <2>1, <2>2, RowsUntouched DEF Steps
<1> QED BY <1>1, <1>2, <1>3, <1>4 DEF Collecting

\* The row of a collected payment gets its first or another settled status, and
\* the appointment hears of a deposit.
SettledAnew(p, s) ==
    /\ Restated(p, s)
    /\ session[p] = "paid" /\ UNCHANGED <<session, saved, refund>>
    /\ payment[p].status \in {"PENDING"} \cup Settled
    /\ depositStatus' = IF payment[p].purpose = "DEPOSIT" THEN s ELSE depositStatus
    /\ \/ status' = status
       \/ /\ payment[p].purpose = "DEPOSIT" /\ payment[p].status = "PENDING"
          /\ status = "CANCELLED" => status' = "CANCELLED"
          /\ status' \in {"CONFIRMED", "CANCELLED", "PAYMENT_RECEIVED_SLOT_UNAVAILABLE"}

LEMMA LedgerSettled ==
    ASSUME LedgerInv, PaymentsTypeOK', NEW p \in Attempts, NEW s \in Settled, SettledAnew(p, s),
           NEW c, NEW step \in Steps,
           request' = request \/ Finish(c) \/ Continue(c, step, p)
    PROVE  LedgerInv'
<1>1. /\ payment'[p].status = s /\ payment'[p].purpose = payment[p].purpose
      /\ payment'[p].provider = payment[p].provider
      /\ \A q \in Attempts \ {p} : payment'[q] = payment[q]
      /\ s # "NONE" /\ s # "PENDING" /\ s # "EXPIRED"
      /\ payment[p].status # "NONE"
  BY DEF SettledAnew, Restated, Settled, RefundStatuses
<1>2. OnePending'
  BY <1>1 DEF LedgerInv, OnePending, HasStatus
<1>3. SessionsFollow' /\ RefundsFollow'
  BY <1>1 DEF SettledAnew, LedgerInv, SessionsFollow, RefundsFollow
<1>4. RequestsFollow'
  BY <1>1, RequestsGoOn
<1>5. \A q \in CollectedDeposits : payment[p].purpose = "DEPOSIT" => q = p
  <2> SUFFICES ASSUME NEW q \in CollectedDeposits, payment[p].purpose = "DEPOSIT" PROVE q = p
    OBVIOUS
  <2>1. depositStatus \in Settled
    BY DEF LedgerInv, DepositShown, CollectedDeposits
  <2>2. payment[p].status # "PENDING"
    BY <2>1 DEF LedgerInv, PurposesFollow, Settled, RefundStatuses
  <2> QED BY <2>2 DEF SettledAnew, LedgerInv, OneDeposit, CollectedDeposits
<1>6. CollectedDeposits' = IF payment[p].purpose = "DEPOSIT" THEN {p} ELSE CollectedDeposits
  BY <1>1, <1>5 DEF CollectedDeposits
<1>7. OneDeposit'
  BY <1>6 DEF LedgerInv, OneDeposit
<1>8. DepositShown'
  <2>1. CASE payment[p].purpose = "DEPOSIT"
    BY <1>1, <1>6, <2>1 DEF DepositShown, CollectedDeposits, SettledAnew
  <2>2. CASE payment[p].purpose # "DEPOSIT"
    <3>1. /\ CollectedDeposits' = CollectedDeposits /\ depositStatus' = depositStatus
          /\ \A q \in CollectedDeposits : payment'[q] = payment[q]
      BY <1>1, <1>6, <2>2 DEF SettledAnew, CollectedDeposits
    <3> QED BY <3>1 DEF LedgerInv, DepositShown, CollectedDeposits
  <2> QED BY <2>1, <2>2
<1>9. PurposesFollow'
  <2> SUFFICES ASSUME NEW q \in Attempts
               PROVE  /\ payment'[q].purpose = "DEPOSIT" /\ payment'[q].status = "PENDING"
                           => status' \in {"PAYMENT_PENDING", "CANCELLED"} /\ depositStatus' = "PENDING"
                      /\ payment'[q].purpose = "BALANCE" /\ payment'[q].status # "NONE"
                           => status' \in {"CONFIRMED", "COMPLETED", "CANCELLED"}
                      /\ payment'[q].provider = "stripe_terminal" => payment'[q].purpose = "BALANCE"
    BY DEF PurposesFollow
  <2>1. CASE q = p
    BY <1>1, <2>1 DEF SettledAnew, LedgerInv, PurposesFollow
  <2>2. CASE q # p /\ payment[p].purpose = "DEPOSIT" /\ payment[p].status = "PENDING"
    <3>1. payment[q].status # "PENDING"
      BY <2>2 DEF LedgerInv, OnePending, HasStatus
    <3>2. payment[q].purpose = "BALANCE" /\ payment[q].status # "NONE" => status = "CANCELLED"
      BY <2>2 DEF LedgerInv, PurposesFollow
    <3>3. payment[q].provider = "stripe_terminal" => payment[q].purpose = "BALANCE"
      BY DEF LedgerInv, PurposesFollow
    <3>4. payment'[q] = payment[q]
      BY <1>1, <2>2
    <3>5. status = "CANCELLED" => status' = "CANCELLED"
      BY DEF SettledAnew
    <3> QED BY <3>1, <3>2, <3>3, <3>4, <3>5
  <2>3. CASE q # p /\ payment[p].purpose = "DEPOSIT" /\ payment[p].status \in Settled
    <3>1. p \in CollectedDeposits /\ depositStatus \in Settled
      BY <2>3 DEF LedgerInv, DepositShown, CollectedDeposits
    <3>2. ~(payment[q].purpose = "DEPOSIT" /\ payment[q].status = "PENDING")
      BY <3>1 DEF LedgerInv, PurposesFollow, Settled, RefundStatuses
    <3>3. status' = status
      BY <2>3 DEF SettledAnew, Settled, RefundStatuses
    <3> QED BY <1>1, <2>3, <3>2, <3>3 DEF LedgerInv, PurposesFollow
  <2>4. CASE q # p /\ payment[p].purpose # "DEPOSIT"
    BY <1>1, <2>4 DEF SettledAnew, LedgerInv, PurposesFollow
  <2> QED BY <2>1, <2>2, <2>3, <2>4 DEF SettledAnew
<1> QED BY <1>2, <1>3, <1>4, <1>7, <1>8, <1>9 DEF LedgerInv

LEMMA LedgerReconciled ==
    ASSUME LedgerInv, PaymentsTypeOK', NEW p \in Attempts, Reconciled(p), NEW c,
           UNCHANGED <<status, session, saved, refund>>, request' = request \/ Finish(c)
    PROVE  LedgerInv'
<1>1. payment \in [Attempts -> Payments]
  BY DEF LedgerInv, PaymentsTypeOK
<1>2. CASE UNCHANGED <<payment, depositStatus>>
  <2>1. SessionsFollow' /\ RefundsFollow'
    BY <1>2 DEF LedgerInv, SessionsFollow, RefundsFollow
  <2> QED BY <1>2, <2>1, RowsUntouched DEF Steps
<1>3. CASE /\ HasIntent(p) /\ HasRefund(p) /\ Restated(p, Verdict(p))
           /\ depositStatus' = IF payment[p].purpose = "DEPOSIT" THEN Verdict(p) ELSE depositStatus
  <2>1. session[p] = "paid"
    BY <1>3 DEF HasRefund, With, LedgerInv, RefundsFollow
  <2>2. payment[p].status \in {"PENDING"} \cup Settled
    BY <2>1 DEF LedgerInv, SessionsFollow
  <2>3. SettledAnew(p, Verdict(p)) /\ Verdict(p) \in Settled
    BY <1>3, <2>1, <2>2, VerdictIsStatus DEF SettledAnew
  <2> QED BY <2>3, LedgerSettled DEF Steps
<1> QED BY <1>1, <1>2, <1>3, RowReconciled

LEMMA LedgerExpired ==
    ASSUME LedgerInv, PaymentsTypeOK', NEW p \in Attempts, Restated(p, "EXPIRED"), NEW c,
           session[p] = "expired",
           UNCHANGED <<status, depositStatus, session, saved, refund, request>>
    PROVE  LedgerInv'
<1>1. /\ payment'[p].status = "EXPIRED" /\ payment'[p].purpose = payment[p].purpose
      /\ payment'[p].provider = payment[p].provider
      /\ \A q \in Attempts \ {p} : payment'[q] = payment[q]
      /\ "EXPIRED" \notin Settled
  BY DEF Restated, Settled, RefundStatuses
<1>2. payment[p].status # "NONE" /\ payment[p].status \notin Settled
  BY DEF LedgerInv, SessionsFollow
<1>3. OnePending' /\ SessionsFollow' /\ RefundsFollow' /\ PurposesFollow'
  BY <1>1, <1>2 DEF LedgerInv, OnePending, HasStatus, SessionsFollow, RefundsFollow, PurposesFollow
<1>4. RequestsFollow'
  BY <1>1, <1>2, RequestsGoOn DEF Steps
<1>5. /\ CollectedDeposits' = CollectedDeposits
      /\ \A q \in CollectedDeposits : payment'[q] = payment[q]
  BY <1>1, <1>2 DEF CollectedDeposits
<1>6. OneDeposit' /\ DepositShown'
  BY <1>5 DEF LedgerInv, OneDeposit, DepositShown, CollectedDeposits
<1> QED BY <1>3, <1>4, <1>6 DEF LedgerInv

LEMMA LedgerRefunding ==
    ASSUME LedgerInv, NEW c \in Requests, NEW p \in Attempts, Refunding(c, p)
    PROVE  LedgerInv'
<1>t. PaymentsTypeOK'
  BY TypeRefunding DEF LedgerInv
<1>1. CASE RefundRequest(c, p)
  <2>1. /\ payment[p].status \in Settled /\ Continue(c, "refund", p)
        /\ UNCHANGED <<status, session, saved, refund>>
        /\ depositStatus' = IF payment[p].purpose = "DEPOSIT" THEN "REFUND_PENDING" ELSE depositStatus
    BY <1>1 DEF RefundRequest, Settled, RefundStatuses
  <2>2. Restated(p, "REFUND_PENDING")
    BY <1>1, StatusSet DEF RefundRequest, LedgerInv, PaymentsTypeOK, PaymentStatuses, Settled, RefundStatuses
  <2>3. "REFUND_PENDING" \in Settled
    BY DEF Settled, RefundStatuses
  <2>4. SettledAnew(p, "REFUND_PENDING")
    BY <2>1, <2>2, <2>3 DEF SettledAnew, LedgerInv, SessionsFollow
  <2> QED BY <1>t, <2>1, <2>3, <2>4, LedgerSettled DEF Steps
<1>2. CASE RefundCreate(c, p)
  <2>1. /\ payment[p].status \in Settled /\ session[p] = "paid" /\ payment[p].status # "NONE"
        /\ Continue(c, "reconcile", p)
        /\ UNCHANGED <<status, depositStatus, payment, session, saved>>
    BY <1>2, AboutRow DEF RefundCreate, appointment, Steps
  <2>2. \A q \in Attempts \ {p} : refund'[q] = refund[q]
    <3>1. payment[p].amount \in Nat /\ "studio" \in Refunders
      BY DEF LedgerInv, PaymentsTypeOK, Payments, Refunding
    <3> QED BY <1>2, <3>1, RefundIssued DEF RefundCreate, LedgerInv, PaymentsTypeOK
  <2>3. SessionsFollow' /\ RefundsFollow'
    BY <2>1, <2>2 DEF LedgerInv, SessionsFollow, RefundsFollow
  <2> QED BY <1>t, <2>1, <2>3, RowsUntouched DEF Steps
<1>3. CASE Reconcile(c, p)
  <2>1. Finish(c) /\ UNCHANGED <<status, session, saved, refund>> /\ Reconciled(p)
    BY <1>3 DEF Reconcile
  <2> QED BY <1>t, <2>1, LedgerReconciled
<1> QED BY <1>1, <1>2, <1>3 DEF Refunding

LEMMA LedgerStripe ==
    ASSUME LedgerInv, NEW p \in Attempts, Stripe(p), NEW c
    PROVE  LedgerInv'
<1>t. PaymentsTypeOK'
  BY TypeStripe DEF LedgerInv
<1>1. CASE Lapse(p)
  <2>1. SessionsFollow' /\ RefundsFollow'
    BY <1>1 DEF Lapse, LedgerInv, SessionsFollow, RefundsFollow, PaymentsTypeOK, Settled, RefundStatuses
  <2> QED BY <1>t, <1>1, <2>1, RowsUntouched DEF Lapse, appointment, Steps
<1>2. CASE ClientPays(p) \/ SessionExpires(p)
  <2>1. SessionsFollow' /\ RefundsFollow'
    BY <1>2 DEF ClientPays, SessionExpires, SessionEnds, LedgerInv, SessionsFollow, RefundsFollow,
                PaymentsTypeOK, Settled, RefundStatuses
  <2> QED BY <1>t, <1>2, <2>1, RowsUntouched
          DEF ClientPays, SessionExpires, SessionEnds, appointment, Steps
<1>3. CASE ConnectCompleted(p)
  <2>1. Restated(p, "PAID")
    BY <1>3, StatusSet DEF ConnectCompleted, Completed, LedgerInv, PaymentsTypeOK, PaymentStatuses, Settled
  <2>2. /\ session[p] = "paid" /\ UNCHANGED <<session, saved, refund, request>>
        /\ payment[p].purpose = "BALANCE" => UNCHANGED <<status, depositStatus>>
        /\ payment[p].purpose # "BALANCE" =>
             /\ depositStatus' = "PAID"
             /\ status = "CANCELLED" => status' = "CANCELLED"
             /\ status' \in {"CONFIRMED", "CANCELLED", "PAYMENT_RECEIVED_SLOT_UNAVAILABLE"}
        /\ payment[p].status = "PENDING"
    BY <1>3 DEF ConnectCompleted, Completed, Reported, appointment, LedgerInv, SessionsFollow
  <2>3. payment[p].purpose # "BALANCE" =>
          /\ status \in {"PAYMENT_PENDING", "CANCELLED"}
          /\ status' \in {"CONFIRMED", "CANCELLED", "PAYMENT_RECEIVED_SLOT_UNAVAILABLE"}
    BY <2>2
       DEF LedgerInv, PurposesFollow, PaymentsTypeOK, Payments
  <2>4. SettledAnew(p, "PAID")
    BY <2>1, <2>2, <2>3 DEF SettledAnew, LedgerInv, PaymentsTypeOK, Payments, PurposesFollow
  <2> QED BY <1>t, <2>2, <2>4, LedgerSettled DEF Settled, Steps
<1>4. CASE ConnectExpired(p)
  <2>1. Restated(p, "EXPIRED")
    BY <1>4, StatusSet DEF ConnectExpired, LedgerInv, PaymentsTypeOK, PaymentStatuses
  <2>2. session[p] = "expired" /\ UNCHANGED <<status, depositStatus, session, saved, refund, request>>
    BY <1>4 DEF ConnectExpired, Reported, appointment
  <2> QED BY <1>t, <2>1, <2>2, LedgerExpired
<1>5. CASE TerminalEvent(p)
  <2>1. /\ UNCHANGED <<status, depositStatus, session, saved, refund, request>>
        /\ \/ session[p] = "paid" /\ SetStatus(p, "PAID")
           \/ session[p] = "expired" /\ SetStatus(p, "EXPIRED")
        /\ payment[p].status \notin Settled
    BY <1>5 DEF TerminalEvent, Reported, appointment
  <2>2. CASE session[p] = "paid" /\ SetStatus(p, "PAID")
    <3>1. Restated(p, "PAID")
      BY <2>2, StatusSet DEF LedgerInv, PaymentsTypeOK, PaymentStatuses, Settled
    <3>2. payment[p].status = "PENDING" /\ payment[p].purpose = "BALANCE"
      BY <1>5, <2>1, <2>2 DEF TerminalEvent, Reported, LedgerInv, SessionsFollow, PurposesFollow
    <3>3. SettledAnew(p, "PAID")
      BY <2>1, <2>2, <3>1, <3>2 DEF SettledAnew
    <3> QED BY <1>t, <2>1, <3>3, LedgerSettled DEF Settled, Steps
  <2>3. CASE session[p] = "expired" /\ SetStatus(p, "EXPIRED")
    <3>1. Restated(p, "EXPIRED")
      BY <2>3, StatusSet DEF LedgerInv, PaymentsTypeOK, PaymentStatuses
    <3> QED BY <1>t, <2>1, <2>3, <3>1, LedgerExpired
  <2> QED BY <2>1, <2>2, <2>3
<1>6. CASE DashboardRefund(p)
  <2>1. payment[p].amount \in Nat /\ "dashboard" \in Refunders
    BY <1>6 DEF LedgerInv, PaymentsTypeOK, Payments, DashboardRefund
  <2>2. \A q \in Attempts \ {p} : refund'[q] = refund[q]
    BY <1>6, <2>1, RefundIssued DEF DashboardRefund, LedgerInv, PaymentsTypeOK
  <2>3. SessionsFollow' /\ RefundsFollow'
    BY <1>6, <2>2 DEF DashboardRefund, LedgerInv, SessionsFollow, RefundsFollow
  <2> QED BY <1>t, <1>6, <2>3, RowsUntouched DEF DashboardRefund, appointment, Steps
<1>7. CASE RefundEvent(p)
  <2>1. UNCHANGED <<status, session, saved, refund, request>> /\ Reconciled(p)
    BY <1>7 DEF RefundEvent
  <2> QED BY <1>t, <2>1, LedgerReconciled
<1>8. ASSUME NEW who \in Refunders, RefundSettles(p, who)
      PROVE  LedgerInv'
  <2>1. refund[p][who].amount \in Nat /\ refund[p][who].status # "none"
    BY <1>8 DEF LedgerInv, PaymentsTypeOK, Refunds, RefundSettles
  <2>2. \A q \in Attempts \ {p} : refund'[q] = refund[q]
    BY <1>8, <2>1, RefundIssued DEF RefundSettles, LedgerInv, PaymentsTypeOK
  <2>3. session[p] = "paid"
    BY <2>1 DEF LedgerInv, RefundsFollow
  <2>4. SessionsFollow' /\ RefundsFollow'
    BY <1>8, <2>2, <2>3 DEF RefundSettles, LedgerInv, SessionsFollow, RefundsFollow
  <2> QED BY <1>t, <1>8, <2>4, RowsUntouched DEF RefundSettles, appointment, Steps
<1> QED BY <1>1, <1>2, <1>3, <1>4, <1>5, <1>6, <1>7, <1>8 DEF Stripe

LEMMA LedgerStep == LedgerInv /\ [Next]_vars => LedgerInv'
<1> SUFFICES ASSUME LedgerInv, [Next]_vars PROVE LedgerInv'
  OBVIOUS
<1>1. ASSUME NEW c \in Requests, NEW p \in Attempts, Collecting(c, p) \/ Refunding(c, p)
      PROVE  LedgerInv'
  BY <1>1, LedgerCollecting, LedgerRefunding
<1>2. ASSUME NEW p \in Attempts, Stripe(p)
      PROVE  LedgerInv'
  BY <1>2, LedgerStripe
<1>3. ASSUME NEW c \in Requests, RequestDies(c)
      PROVE  LedgerInv'
  <2>1. Finish(c) /\ UNCHANGED <<status, depositStatus, payment, session, saved, refund, news, missed>>
    BY <1>3 DEF RequestDies, appointment
  <2>2. RowInv'
    BY <2>1, RowsKept DEF LedgerInv, RowInv
  <2>3. SessionsFollow' /\ RefundsFollow'
    BY <2>1 DEF LedgerInv, SessionsFollow, RefundsFollow
  <2>4. RequestsFollow'
    BY <2>1 DEF Finish, LedgerInv, PaymentsTypeOK, RequestsFollow
  <2> QED BY <2>2, <2>3, <2>4, TypeStep DEF LedgerInv, RowInv
<1>4. CASE Cancel \/ Complete
  <2>1. /\ UNCHANGED <<depositStatus, payment, session, saved, refund, request>>
        /\ status' = "CANCELLED" \/ (status = "CONFIRMED" /\ status' = "COMPLETED")
    BY <1>4 DEF Cancel, Complete
  <2>2. OnePending' /\ SessionsFollow' /\ RequestsFollow' /\ RefundsFollow'
    BY <2>1 DEF LedgerInv, OnePending, HasStatus, SessionsFollow, RequestsFollow, RefundsFollow
  <2>3. PurposesFollow' /\ OneDeposit' /\ DepositShown'
    BY <2>1 DEF LedgerInv, PurposesFollow, OneDeposit, CollectedDeposits, DepositShown
  <2> QED BY <2>2, <2>3, TypeStep DEF LedgerInv
<1>5. CASE UNCHANGED vars
  BY <1>5, TypeStep DEF vars, LedgerInv, OnePending, HasStatus, SessionsFollow, RequestsFollow,
       RefundsFollow, PurposesFollow, OneDeposit, CollectedDeposits, DepositShown
<1> QED BY <1>1, <1>2, <1>3, <1>4, <1>5 DEF Next

\* The invariant, for any number of attempts and concurrent requests.
THEOREM LedgerInvariant == Spec => []LedgerInv
BY LedgerStart, LedgerStep, PTL DEF Spec

\* Two sessions never accept the client's money at the same time.
THEOREM OnlyOneOpenCollection == Spec => []OneOpenCollection
<1>1. LedgerInv => OneOpenCollection
  BY DEF LedgerInv, OnePending, HasStatus, SessionsFollow, OneOpenCollection, Payable
<1> QED BY <1>1, LedgerInvariant, PTL

\* The appointment shows what became of its deposit.
THEOREM DepositAlwaysShown == Spec => []DepositShown
<1>1. LedgerInv => DepositShown
  BY DEF LedgerInv
<1> QED BY <1>1, LedgerInvariant, PTL

-----------------------------------------------------------------------------
(* What a step does to the rows and the sessions.                           *)

\* A settled payment only changes into another refund status, an open one is
\* settled or expires.
Advanced(p, s) ==
    /\ Restated(p, s) /\ session' = session
    /\ \/ s \in {"PAID", "EXPIRED"} /\ payment[p].status \in {"PENDING", "EXPIRED"}
       \/ s \in RefundStatuses /\ payment[p].status # "NONE"

LEMMA ReconciledRow ==
    ASSUME LedgerInv, NEW p \in Attempts, Reconciled(p), session' = session
    PROVE  payment' = payment \/ \E s \in PaymentStatuses : Advanced(p, s)
<1>1. payment \in [Attempts -> Payments]
  BY DEF LedgerInv, PaymentsTypeOK
<1>2. CASE HasRefund(p) /\ Restated(p, Verdict(p))
  <2>1. session[p] = "paid"
    BY <1>2 DEF HasRefund, With, LedgerInv, RefundsFollow
  <2>2. payment[p].status # "NONE"
    BY <2>1 DEF LedgerInv, SessionsFollow
  <2>3. Advanced(p, Verdict(p))
    BY <1>2, <2>2, VerdictIsStatus DEF Advanced
  <2> QED BY <2>3, VerdictIsStatus
<1> QED BY <1>1, <1>2, RowReconciled

\* A session is created, ends or lapses while the rows stay as they are.
SessionMoves(p, from, to) ==
    /\ payment' = payment /\ payment[p].status # "NONE"
    /\ session[p] = from /\ session' = [session EXCEPT ![p] = to]

LEMMA RowSteps ==
    ASSUME LedgerInv, [Next]_vars
    PROVE  \/ \E c \in Requests, p \in Attempts, purpose \in {"DEPOSIT", "BALANCE"}, tip \in Tips,
                 provider \in {"stripe_connect", "stripe_terminal"} :
                Reserve(c, p, purpose, provider, tip)
           \/ \E p \in Attempts, s \in PaymentStatuses : Advanced(p, s)
           \/ \E p \in Attempts : \/ SessionMoves(p, "none", "open")
                                  \/ SessionMoves(p, "none", "lapsed")
                                  \/ SessionMoves(p, "open", "paid")
                                  \/ SessionMoves(p, "open", "expired")
           \/ UNCHANGED <<payment, session>>
<1>t. /\ payment \in [Attempts -> Payments]
      /\ session \in [Attempts -> {"none", "lapsed", "open", "paid", "expired"}]
  BY DEF LedgerInv, PaymentsTypeOK
<1>1. ASSUME NEW c \in Requests, NEW p \in Attempts, NEW purpose \in {"DEPOSIT", "BALANCE"},
             NEW tip \in Tips, NEW provider \in {"stripe_connect", "stripe_terminal"},
             Resume(c, p, purpose, provider, tip)
      PROVE  UNCHANGED <<payment, session>>
  BY <1>1 DEF Resume
<1>2. ASSUME NEW c \in Requests, NEW p \in Attempts, CreateSession(c, p)
      PROVE  SessionMoves(p, "none", "open") \/ UNCHANGED <<payment, session>>
  <2>1. payment[p].status # "NONE"
    BY <1>2, AboutRow DEF CreateSession, Steps
  <2>2. CASE session[p] = "none"
    BY <1>2, <2>1, <2>2 DEF CreateSession, SessionMoves
  <2>3. CASE session[p] # "none"
    BY <1>2, <1>t, <2>3 DEF CreateSession
  <2> QED BY <2>2, <2>3
<1>3. ASSUME NEW c \in Requests, NEW p \in Attempts, SaveSession(c, p) \/ RefundCreate(c, p)
      PROVE  UNCHANGED <<payment, session>>
  BY <1>3 DEF SaveSession, RefundCreate
<1>4. ASSUME NEW c \in Requests, NEW p \in Attempts, RefundRequest(c, p)
      PROVE  \E s \in PaymentStatuses : Advanced(p, s)
  <2>1. "REFUND_PENDING" \in PaymentStatuses /\ "REFUND_PENDING" \in RefundStatuses
    BY DEF PaymentStatuses, Settled, RefundStatuses
  <2>2. Restated(p, "REFUND_PENDING")
    BY <1>t, <1>4, <2>1, StatusSet DEF RefundRequest
  <2>3. Advanced(p, "REFUND_PENDING")
    BY <1>4, <2>1, <2>2 DEF RefundRequest, Advanced
  <2> QED BY <2>1, <2>3
<1>5. ASSUME NEW c \in Requests, NEW p \in Attempts, Reconcile(c, p)
      PROVE  UNCHANGED <<payment, session>> \/ \E s \in PaymentStatuses : Advanced(p, s)
  BY <1>5, ReconciledRow DEF Reconcile
<1>6. ASSUME NEW p \in Attempts, RefundEvent(p)
      PROVE  UNCHANGED <<payment, session>> \/ \E s \in PaymentStatuses : Advanced(p, s)
  BY <1>6, ReconciledRow DEF RefundEvent
<1>7. ASSUME NEW p \in Attempts, Lapse(p)
      PROVE  SessionMoves(p, "none", "lapsed")
  BY <1>7 DEF Lapse, SessionMoves
<1>8. ASSUME NEW p \in Attempts, ClientPays(p) \/ SessionExpires(p)
      PROVE  SessionMoves(p, "open", "paid") \/ SessionMoves(p, "open", "expired")
  <2>1. session[p] = "open" => payment[p].status # "NONE"
    BY DEF LedgerInv, SessionsFollow
  <2> QED BY <1>8, <2>1 DEF ClientPays, SessionExpires, SessionEnds, SessionMoves
<1>9. ASSUME NEW p \in Attempts, ConnectCompleted(p) \/ ConnectExpired(p) \/ TerminalEvent(p)
      PROVE  \E s \in PaymentStatuses : Advanced(p, s)
  <2>1. /\ session' = session
        /\ SetStatus(p, "PAID") \/ SetStatus(p, "EXPIRED")
        /\ payment[p].status \notin Settled /\ payment[p].status # "NONE"
    BY <1>9 DEF ConnectCompleted, Completed, ConnectExpired, TerminalEvent, Reported, LedgerInv,
                SessionsFollow, Settled, RefundStatuses
  <2>2. payment[p].status \in {"PENDING", "EXPIRED"}
    BY <1>t, <2>1 DEF Payments
  <2>3. "PAID" \in PaymentStatuses /\ "EXPIRED" \in PaymentStatuses
    BY DEF PaymentStatuses, Settled
  <2>4. Restated(p, "PAID") \/ Restated(p, "EXPIRED")
    BY <1>t, <2>1, <2>3, StatusSet
  <2> QED BY <2>1, <2>2, <2>3, <2>4 DEF Advanced
<1>10. ASSUME NEW p \in Attempts, NEW who \in Refunders, DashboardRefund(p) \/ RefundSettles(p, who)
       PROVE  UNCHANGED <<payment, session>>
  BY <1>10 DEF DashboardRefund, RefundSettles
<1>11. ASSUME NEW p \in Attempts, DashboardRefund(p)
       PROVE  UNCHANGED <<payment, session>>
  BY <1>11 DEF DashboardRefund
<1>12. ASSUME NEW c \in Requests, RequestDies(c)
       PROVE  UNCHANGED <<payment, session>>
  BY <1>12 DEF RequestDies
<1>13. CASE Cancel \/ Complete \/ UNCHANGED vars
  BY <1>13 DEF Cancel, Complete, vars
<1>14. CASE \E c \in Requests, p \in Attempts : Collecting(c, p)
  BY <1>1, <1>2, <1>3, <1>14 DEF Collecting
<1>15. CASE \E c \in Requests, p \in Attempts : Refunding(c, p)
  BY <1>3, <1>4, <1>5, <1>15 DEF Refunding
<1>16. CASE \E p \in Attempts : Stripe(p)
  BY <1>6, <1>7, <1>8, <1>9, <1>10, <1>11, <1>16 DEF Stripe
<1> QED BY <1>12, <1>13, <1>14, <1>15, <1>16 DEF Next

\* No completion, expiry, replay or request takes a refund back.
THEOREM RefundsAlwaysSurvive == Spec => RefundsSurvive
<1>1. LedgerInv /\ [Next]_vars
        => [\A p \in Attempts : payment[p].status \in RefundStatuses
                                  => payment'[p].status \in RefundStatuses]_vars
  <2> SUFFICES ASSUME LedgerInv, [Next]_vars, NEW q \in Attempts,
                      payment[q].status \in RefundStatuses
               PROVE  payment'[q].status \in RefundStatuses
    OBVIOUS
  <2>1. ASSUME NEW c \in Requests, NEW p \in Attempts, NEW purpose \in {"DEPOSIT", "BALANCE"},
               NEW tip \in Tips, NEW provider \in {"stripe_connect", "stripe_terminal"},
               Reserve(c, p, purpose, provider, tip)
        PROVE  payment'[q].status \in RefundStatuses
    BY <2>1 DEF Reserve, Reserved, NoRefund
  <2>2. ASSUME NEW p \in Attempts, NEW s \in PaymentStatuses, Advanced(p, s)
        PROVE  payment'[q].status \in RefundStatuses
    <3>1. CASE q = p
      BY <2>2, <3>1 DEF Advanced, Restated, RefundStatuses
    <3>2. CASE q # p
      BY <2>2, <3>2 DEF Advanced, Restated
    <3> QED BY <3>1, <3>2
  <2>3. \/ \E c \in Requests, p \in Attempts, purpose \in {"DEPOSIT", "BALANCE"}, tip \in Tips,
              provider \in {"stripe_connect", "stripe_terminal"} :
             Reserve(c, p, purpose, provider, tip)
        \/ \E p \in Attempts, s \in PaymentStatuses : Advanced(p, s)
        \/ payment' = payment
    BY RowSteps DEF SessionMoves
  <2> QED BY <2>1, <2>2, <2>3
<1> QED BY <1>1, LedgerInvariant, PTL DEF Spec, RefundsSurvive

-----------------------------------------------------------------------------
(* The ledger implements the promise to the client.                         *)

LEMMA StageStays ==
    ASSUME NEW p \in Attempts, session'[p] = session[p],
           payment[p].status = "NONE" <=> payment'[p].status = "NONE"
    PROVE  Stage'[p] = Stage[p]
BY DEF Stage

\* The contract's sums are the ledger's.
LEMMA SumsAgree ==
    ASSUME NEW f, NEW S
    PROVE  SumFunctionOnSet(f, S) = Contract!SumFunctionOnSet(f, S)
BY Zenon DEF SumFunctionOnSet, Contract!SumFunctionOnSet, FoldFunctionOnSet,
             Contract!FoldFunctionOnSet, MapThenFoldSet, Contract!MapThenFoldSet

LEMMA StageMoves ==
    ASSUME NEW p \in Attempts, NEW s, Stage'[p] = s,
           \A q \in Attempts \ {p} : Stage'[q] = Stage[q]
    PROVE  Stage' = [Stage EXCEPT ![p] = s]
<1>1. /\ Stage = [q \in Attempts |-> Stage[q]]
      /\ Stage' = [q \in Attempts |-> Stage'[q]]
  BY DEF Stage
<1> QED BY <1>1

\* A payment is asked for when nothing is open, for the deposit of an appointment
\* that collected nothing, or for what is left of the price.
LEMMA ReserveAsks ==
    ASSUME LedgerInv, NEW c \in Requests, NEW p \in Attempts,
           NEW purpose \in {"DEPOSIT", "BALANCE"}, NEW tip \in Tips,
           NEW provider \in {"stripe_connect", "stripe_terminal"},
           Reserve(c, p, purpose, provider, tip)
    PROVE  Contract!ContractNext
<1>1. /\ payment[p].status = "NONE" /\ Collectable(purpose) /\ NoRefund /\ session' = session
      /\ Same(purpose, provider) \cup OtherProvider(provider) = {}
  BY DEF Reserve, Reserved
<1>2. /\ \A q \in Attempts \ {p} : payment'[q] = payment[q]
      /\ payment'[p].status = "PENDING" /\ payment'[p].tip = tip
      /\ payment'[p].amount - tip = Due(purpose, Service)
      /\ Due(purpose, Service) \in 1 .. (Price + Deposit)
  BY RowReserved DEF LedgerInv
<1>3. \A q \in Attempts : payment[q].status # "PENDING"
  BY NothingPending
<1>4. /\ \A q \in Attempts : session[q] = "paid" => payment[q].status \in Settled
      /\ \A q \in Attempts : payment[q].status \in Settled => session[q] = "paid"
      /\ session[p] = "none"
  BY <1>1, <1>3 DEF LedgerInv, SessionsFollow
<1>5. Contract!At("asked") = {}
  <2> SUFFICES ASSUME NEW q \in Attempts, Stage[q] = "asked" PROVE FALSE
    BY DEF Contract!At
  <2>1. session[q] \in {"none", "open"} /\ payment[q].status # "NONE"
    BY DEF Stage, LedgerInv, PaymentsTypeOK
  <2>2. payment[q].status \in {"NONE", "PENDING", "EXPIRED"} \cup Settled
    BY DEF LedgerInv, PaymentsTypeOK, Payments
  <2> QED BY <1>3, <1>4, <2>1, <2>2 DEF LedgerInv, SessionsFollow
<1>6. Contract!At("collected") = {q \in Attempts : session[q] = "paid"}
  BY DEF Contract!At, Stage
<1>7. Contract!Move(p, "new", "asked")
  <2>1. Stage[p] = "new" /\ Stage'[p] = "asked"
    BY <1>1, <1>2, <1>4 DEF Stage
  <2>2. \A q \in Attempts \ {p} : Stage'[q] = Stage[q]
    BY <1>1, <1>2, StageStays
  <2>3. Stage' = [Stage EXCEPT ![p] = "asked"]
    BY <2>1, <2>2, StageMoves
  <2> QED BY <2>1, <2>3 DEF Contract!Move, Contract!At
<1>8. Service' = [Service EXCEPT ![p] = Due(purpose, Service)]
  <2>1. Service'[p] = Due(purpose, Service)
    BY <1>2 DEF Service
  <2>2. \A q \in Attempts \ {p} : Service'[q] = Service[q]
    BY <1>2 DEF Service
  <2> HIDE DEF Due
  <2> QED BY <2>1, <2>2 DEF Service
<1>9. CASE purpose = "DEPOSIT"
  <2>1. Contract!At("collected") = {}
    <3> SUFFICES ASSUME NEW q \in Attempts, session[q] = "paid" PROVE FALSE
      BY <1>6
    <3>1. status = "PAYMENT_PENDING" /\ depositStatus = "PENDING"
      BY <1>1, <1>9 DEF Collectable
    <3>2. payment[q].status \in Settled /\ payment[q].status # "PENDING" /\ payment[q].status # "NONE"
      BY <1>4 DEF Settled, RefundStatuses
    <3>3. payment[q].purpose \in {"DEPOSIT", "BALANCE"}
      BY DEF LedgerInv, PaymentsTypeOK, Payments
    <3>4. payment[q].purpose = "DEPOSIT"
      BY <3>1, <3>2, <3>3 DEF LedgerInv, PurposesFollow
    <3> QED BY <3>1, <3>2, <3>4 DEF LedgerInv, DepositShown
  <2>2. Due(purpose, Service) = Deposit
    BY <1>9 DEF Due
  <2>3. Contract!Ask(p, Due(purpose, Service))
    BY <1>5, <1>7, <1>8, <2>1, <2>2 DEF Contract!Ask
  <2> QED BY <1>2, <2>3 DEF Contract!ContractNext
<1>10. CASE purpose = "BALANCE"
  <2>1. HasStatus("PAID") = Contract!At("collected")
    BY <1>1, <1>4, <1>6 DEF HasStatus, NoRefund, Settled
  <2>2. Due(purpose, Service) = Price - Contract!Collected
    BY <1>10, <2>1, SumsAgree DEF Due, Contract!Collected
  <2>3. Contract!Ask(p, Due(purpose, Service))
    BY <1>5, <1>7, <1>8, <2>2 DEF Contract!Ask
  <2> QED BY <1>2, <2>3 DEF Contract!ContractNext
<1> QED BY <1>9, <1>10

LEMMA ContractStep ==
    LedgerInv /\ [Next]_vars => [Contract!ContractNext]_<<Stage, Service>>
<1> SUFFICES ASSUME LedgerInv, [Next]_vars
             PROVE  Contract!ContractNext \/ UNCHANGED <<Stage, Service>>
  OBVIOUS
<1>1. ASSUME NEW c \in Requests, NEW p \in Attempts, NEW purpose \in {"DEPOSIT", "BALANCE"},
             NEW tip \in Tips, NEW provider \in {"stripe_connect", "stripe_terminal"},
             Reserve(c, p, purpose, provider, tip)
      PROVE  Contract!ContractNext
  BY <1>1, ReserveAsks
<1>2. ASSUME NEW p \in Attempts, NEW s \in PaymentStatuses, Advanced(p, s)
      PROVE  UNCHANGED <<Stage, Service>>
  <2>1. /\ session' = session
        /\ \A q \in Attempts : /\ payment[q].status = "NONE" <=> payment'[q].status = "NONE"
                               /\ payment'[q].amount = payment[q].amount
                               /\ payment'[q].tip = payment[q].tip
    <3>1. /\ payment'[p].amount = payment[p].amount /\ payment'[p].tip = payment[p].tip
          /\ payment[p].status # "NONE" /\ payment'[p].status # "NONE"
      BY <1>2 DEF Advanced, Restated, RefundStatuses
    <3>2. session' = session /\ \A q \in Attempts \ {p} : payment'[q] = payment[q]
      BY <1>2 DEF Advanced, Restated
    <3> QED BY <3>1, <3>2
  <2>2. Stage' = Stage
    BY <2>1 DEF Stage
  <2>3. Service' = Service
    BY <2>1 DEF Service
  <2> QED BY <2>2, <2>3
<1>3. ASSUME NEW p \in Attempts,
             \/ SessionMoves(p, "none", "open") \/ SessionMoves(p, "none", "lapsed")
             \/ SessionMoves(p, "open", "paid") \/ SessionMoves(p, "open", "expired")
      PROVE  Contract!ContractNext \/ UNCHANGED <<Stage, Service>>
  <2>1. /\ Service' = Service /\ Stage[p] = "asked"
        /\ session'[p] \in {"open", "lapsed", "paid", "expired"}
        /\ \A q \in Attempts \ {p} : session'[q] = session[q] /\ payment'[q] = payment[q]
        /\ payment'[p].status # "NONE"
    BY <1>3 DEF SessionMoves, Service, Stage, LedgerInv, PaymentsTypeOK
  <2>2. \A q \in Attempts \ {p} : Stage'[q] = Stage[q]
    BY <2>1, StageStays
  <2>3. Stage'[p] = CASE session'[p] = "open" -> "asked" [] session'[p] = "paid" -> "collected"
                      [] OTHER -> "lapsed"
    BY <2>1 DEF Stage
  <2>4. ASSUME NEW s, Stage'[p] = s
        PROVE  Stage' = [Stage EXCEPT ![p] = s]
    BY <2>2, <2>4, StageMoves
  <2>5. CASE session'[p] = "open"
    BY <2>1, <2>3, <2>4, <2>5 DEF Stage
  <2>6. CASE session'[p] = "paid"
    BY <2>1, <2>3, <2>4, <2>6 DEF Contract!ContractNext, Contract!Collect, Contract!Move, Contract!At
  <2>7. CASE session'[p] \in {"lapsed", "expired"}
    BY <2>1, <2>3, <2>4, <2>7 DEF Contract!ContractNext, Contract!Lapse, Contract!Move, Contract!At
  <2> QED BY <2>1, <2>5, <2>6, <2>7
<1>4. ASSUME UNCHANGED <<payment, session>>
      PROVE  UNCHANGED <<Stage, Service>>
  BY <1>4 DEF Stage, Service
<1> QED BY <1>1, <1>2, <1>3, <1>4, RowSteps

\* Whatever requests, webhooks and crashes interleave, and whatever is cancelled or
\* refunded, the client is asked for one payment at a time, for the deposit or for
\* what is left of the price, and never for what was collected.
THEOREM PaymentsImplementContract == Spec => ImplementsContract
<1>1. Init => Contract!ContractInit
  <2> SUFFICES ASSUME Init PROVE Contract!ContractInit
    OBVIOUS
  <2>1. \A p \in Attempts : /\ session[p] = "none" /\ payment[p].status = "NONE"
                            /\ payment[p].amount - payment[p].tip = 0
    BY DEF Init, NoPayment
  <2>2. Stage = [p \in Attempts |-> "new"]
    BY <2>1 DEF Stage
  <2>3. Service = [p \in Attempts |-> 0]
    BY <2>1 DEF Service
  <2> QED BY <2>2, <2>3 DEF Contract!ContractInit
<1> QED BY <1>1, ContractStep, LedgerInvariant, PTL DEF Spec, ImplementsContract, Contract!ContractSpec


-----------------------------------------------------------------------------
(* The money.                                                               *)

PaidSessions == {p \in Attempts : session[p] = "paid"}
Made == {p \in Attempts : payment[p].status # "NONE"}
Unpaid == {p \in Attempts : payment[p].status = "PENDING" /\ session[p] # "paid"}

\* A payment that is waited for would complete the price, or is the deposit of an
\* appointment that collected nothing.
AsksFollow ==
    \A p \in Unpaid :
        /\ payment[p].purpose = "BALANCE" => ServiceCollected + Service[p] = Price
        /\ payment[p].purpose = "DEPOSIT" => PaidSessions = {} /\ Service[p] = Deposit

MoneyInv == IsFiniteSet(Made) /\ AsksFollow /\ CollectedWithinPrice

LEMMA ServiceIsInteger ==
    ASSUME PaymentsTypeOK
    PROVE  \A p \in Attempts : Service[p] \in Int /\ Service[p] = payment[p].amount - payment[p].tip
BY DEF PaymentsTypeOK, Payments, Service

LEMMA PaidIsMade ==
    ASSUME LedgerInv, IsFiniteSet(Made)
    PROVE  PaidSessions \subseteq Made /\ IsFiniteSet(PaidSessions) /\ ServiceCollected \in Int
<1>1. PaidSessions \subseteq Made
  BY DEF LedgerInv, SessionsFollow, PaidSessions, Made, Settled, RefundStatuses
<1>2. IsFiniteSet(PaidSessions)
  BY <1>1, FS_Subset
<1>3. \A p \in PaidSessions : Service[p] \in Int
  BY ServiceIsInteger DEF LedgerInv, PaidSessions
<1>4. SumFunctionOnSet(Service, PaidSessions) \in Int
  BY <1>2, <1>3, SumIsInteger
<1> QED BY <1>1, <1>2, <1>4 DEF ServiceCollected, PaidSessions

LEMMA MoneyStart == Init => MoneyInv
<1> SUFFICES ASSUME Init PROVE MoneyInv
  OBVIOUS
<1>1. Made = {} /\ Unpaid = {} /\ PaidSessions = {}
  BY DEF Init, NoPayment, Made, Unpaid, PaidSessions
<1>2. ServiceCollected = 0
  BY <1>1, SumOfNone DEF ServiceCollected, PaidSessions
<1>3. CollectedWithinPrice
  <2>1. 0 <= Price
    BY AmountsAreCents
  <2>2. ~\E p \in Attempts : session[p] = "paid"
    BY <1>1 DEF PaidSessions
  <2> QED BY <1>2, <2>1, <2>2 DEF CollectedWithinPrice
<1> QED BY <1>1, <1>3, FS_EmptySet DEF MoneyInv, AsksFollow

\* What was collected and what is waited for stays, or less is waited for.
LEMMA MoneyKept ==
    ASSUME MoneyInv, Made' = Made, PaidSessions' = PaidSessions, Service' = Service,
           Unpaid' \subseteq Unpaid, \A p \in Attempts : payment'[p].purpose = payment[p].purpose
    PROVE  MoneyInv'
<1>1. ServiceCollected' = ServiceCollected
  BY DEF ServiceCollected, PaidSessions
<1>2. CollectedWithinPrice'
  BY <1>1 DEF MoneyInv, CollectedWithinPrice, PaidSessions
<1>3. AsksFollow'
  BY <1>1 DEF MoneyInv, AsksFollow, Unpaid
<1> QED BY <1>2, <1>3 DEF MoneyInv

LEMMA MoneyReserved ==
    ASSUME LedgerInv, MoneyInv, NEW c \in Requests, NEW p \in Attempts,
           NEW purpose \in {"DEPOSIT", "BALANCE"}, NEW tip \in Tips,
           NEW provider \in {"stripe_connect", "stripe_terminal"},
           Reserve(c, p, purpose, provider, tip)
    PROVE  MoneyInv'
<1>1. /\ payment[p].status = "NONE" /\ Collectable(purpose) /\ NoRefund /\ session' = session
  BY DEF Reserve, Reserved
<1>2. /\ \A q \in Attempts \ {p} : payment'[q] = payment[q]
      /\ payment'[p].status = "PENDING" /\ payment'[p].purpose = purpose /\ payment'[p].tip = tip
      /\ payment'[p].amount - tip = Due(purpose, Service)
  BY RowReserved DEF LedgerInv
<1>3. \A q \in Attempts : payment[q].status # "PENDING"
  BY NothingPending
<1>4. Made' = Made \cup {p} /\ Unpaid' \subseteq {p} /\ PaidSessions' = PaidSessions
  BY <1>1, <1>2, <1>3 DEF Made, Unpaid, PaidSessions
<1>5. IsFiniteSet(Made')
  BY <1>4, FS_AddElement DEF MoneyInv
<1>6. p \notin PaidSessions /\ PaidSessions \subseteq Made /\ IsFiniteSet(PaidSessions)
  BY <1>1, PaidIsMade DEF MoneyInv, LedgerInv, SessionsFollow, PaidSessions
<1>7. ServiceCollected' = ServiceCollected
  <2>1. \A q \in PaidSessions : Service'[q] = Service[q]
    BY <1>2, <1>6 DEF Service, PaidSessions
  <2>2. SumFunctionOnSet(Service', PaidSessions) = SumFunctionOnSet(Service, PaidSessions)
    BY <1>6, <2>1, SumDependsOnValues
  <2> QED BY <1>4, <2>2 DEF ServiceCollected, PaidSessions
<1>8. CollectedWithinPrice'
  <2>1. \A q \in PaidSessions : payment'[q] = payment[q]
    BY <1>2, <1>6 DEF PaidSessions
  <2> QED BY <1>4, <1>7, <2>1 DEF MoneyInv, CollectedWithinPrice, PaidSessions
<1>9. Service'[p] = Due(purpose, Service)
  BY <1>2 DEF Service
<1>10. \A q \in Attempts : session[q] = "paid" <=> payment[q].status = "PAID"
  BY <1>1, <1>3 DEF LedgerInv, SessionsFollow, Settled, NoRefund
<1>11. AsksFollow'
  <2>1. CASE purpose = "BALANCE"
    <3>1. HasStatus("PAID") = PaidSessions
      BY <1>10 DEF HasStatus, PaidSessions
    <3>2. Service'[p] = Price - ServiceCollected
      BY <1>9, <2>1, <3>1 DEF Due, ServiceCollected, PaidSessions
    <3>3. ServiceCollected' + Service'[p] = Price
      BY <1>7, <3>2, PaidIsMade, AmountsAreCents DEF MoneyInv
    <3> QED BY <1>2, <1>4, <2>1, <3>3 DEF AsksFollow
  <2>2. CASE purpose = "DEPOSIT"
    <3>1. PaidSessions = {}
      <4> SUFFICES ASSUME NEW q \in Attempts, payment[q].status = "PAID" PROVE FALSE
        BY <1>10 DEF PaidSessions
      <4>1. status = "PAYMENT_PENDING" /\ depositStatus = "PENDING"
        BY <1>1, <2>2 DEF Collectable
      <4>2. payment[q].purpose \in {"DEPOSIT", "BALANCE"}
        BY DEF LedgerInv, PaymentsTypeOK, Payments
      <4>3. payment[q].purpose = "DEPOSIT"
        BY <4>1, <4>2 DEF LedgerInv, PurposesFollow
      <4> QED BY <4>1, <4>3 DEF LedgerInv, DepositShown, Settled
    <3>2. Service'[p] = Deposit
      BY <1>9, <2>2 DEF Due
    <3> QED BY <1>2, <1>4, <2>2, <3>1, <3>2 DEF AsksFollow
  <2> QED BY <2>1, <2>2
<1> QED BY <1>5, <1>8, <1>11 DEF MoneyInv

\* The client pays: what was waited for is collected.
LEMMA MoneyCollected ==
    ASSUME LedgerInv, MoneyInv, NEW p \in Attempts, SessionMoves(p, "open", "paid")
    PROVE  MoneyInv'
<1>1. payment' = payment /\ session[p] = "open" /\ payment[p].status = "PENDING"
  BY DEF SessionMoves, LedgerInv, SessionsFollow
<1>2. PaidSessions' = PaidSessions \cup {p} /\ p \notin PaidSessions /\ p \in Unpaid
  BY <1>1 DEF SessionMoves, PaidSessions, Unpaid, LedgerInv, PaymentsTypeOK
<1>3. Unpaid' = {}
  <2> SUFFICES ASSUME NEW q \in Attempts, payment'[q].status = "PENDING", session'[q] # "paid"
               PROVE  FALSE
    BY DEF Unpaid
  <2>1. q = p
    BY <1>1 DEF LedgerInv, OnePending, HasStatus
  <2> QED BY <2>1 DEF SessionMoves, LedgerInv, PaymentsTypeOK
<1>4. Service' = Service /\ Made' = Made
  BY <1>1 DEF Service, Made
<1>5. ServiceCollected' = Service[p] + ServiceCollected
  <2>1. \A q \in PaidSessions \cup {p} : Service[q] \in Int
    BY ServiceIsInteger DEF PaidSessions, LedgerInv
  <2>2. IsFiniteSet(PaidSessions)
    BY PaidIsMade DEF MoneyInv
  <2>3. SumFunctionOnSet(Service, PaidSessions \cup {p})
          = Service[p] + SumFunctionOnSet(Service, PaidSessions)
    BY <1>2, <2>1, <2>2, SumWith
  <2>4. SumFunctionOnSet(Service', PaidSessions') = SumFunctionOnSet(Service, PaidSessions \cup {p})
    BY <1>2, <1>4
  <2> QED BY <2>3, <2>4 DEF ServiceCollected, PaidSessions
<1>6. ServiceCollected \in Int /\ Service[p] \in Int /\ Price \in Nat /\ Deposit \in Nat
  BY PaidIsMade, ServiceIsInteger, AmountsAreCents DEF MoneyInv, LedgerInv
<1>7. CASE payment[p].purpose = "BALANCE"
  <2>1. ServiceCollected' = Price
    BY <1>2, <1>5, <1>6, <1>7 DEF MoneyInv, AsksFollow
  <2>2. CollectedWithinPrice'
    BY <1>6, <2>1 DEF CollectedWithinPrice
  <2> QED BY <1>3, <1>4, <2>2 DEF MoneyInv, AsksFollow
<1>8. CASE payment[p].purpose = "DEPOSIT"
  <2>1. PaidSessions = {} /\ Service[p] = Deposit
    BY <1>2, <1>8 DEF MoneyInv, AsksFollow
  <2>2. ServiceCollected = 0
    BY <2>1, SumOfNone DEF ServiceCollected, PaidSessions
  <2>3. ServiceCollected' = Deposit
    BY <1>5, <1>6, <2>1, <2>2
  <2>4. \A q \in Attempts : session'[q] = "paid" => q = p
    BY <1>2, <2>1 DEF PaidSessions
  <2>5. CollectedWithinPrice'
    BY <1>1, <1>8, <2>3, <2>4 DEF CollectedWithinPrice
  <2> QED BY <1>3, <1>4, <2>5 DEF MoneyInv, AsksFollow
<1> QED BY <1>7, <1>8 DEF LedgerInv, PaymentsTypeOK, Payments

LEMMA MoneyStep == LedgerInv /\ MoneyInv /\ [Next]_vars => MoneyInv'
<1> SUFFICES ASSUME LedgerInv, MoneyInv, [Next]_vars PROVE MoneyInv'
  OBVIOUS
<1>1. ASSUME NEW c \in Requests, NEW p \in Attempts, NEW purpose \in {"DEPOSIT", "BALANCE"},
             NEW tip \in Tips, NEW provider \in {"stripe_connect", "stripe_terminal"},
             Reserve(c, p, purpose, provider, tip)
      PROVE  MoneyInv'
  BY <1>1, MoneyReserved
<1>2. ASSUME NEW p \in Attempts, NEW s \in PaymentStatuses, Advanced(p, s)
      PROVE  MoneyInv'
  <2>1. /\ payment'[p].amount = payment[p].amount /\ payment'[p].tip = payment[p].tip
        /\ payment'[p].purpose = payment[p].purpose
        /\ payment[p].status # "NONE" /\ payment'[p].status # "NONE"
        /\ payment'[p].status # "PENDING"
    BY <1>2 DEF Advanced, Restated, RefundStatuses
  <2>2. session' = session /\ \A q \in Attempts \ {p} : payment'[q] = payment[q]
    BY <1>2 DEF Advanced, Restated
  <2>3. Service' = Service
    BY <2>1, <2>2 DEF Service
  <2>4. /\ Made' = Made /\ PaidSessions' = PaidSessions /\ Unpaid' \subseteq Unpaid
        /\ \A q \in Attempts : payment'[q].purpose = payment[q].purpose
    BY <2>1, <2>2 DEF Made, PaidSessions, Unpaid
  <2> QED BY <2>3, <2>4, MoneyKept
<1>3. ASSUME NEW p \in Attempts, SessionMoves(p, "open", "paid")
      PROVE  MoneyInv'
  BY <1>3, MoneyCollected
<1>4. ASSUME NEW p \in Attempts,
             \/ SessionMoves(p, "none", "open") \/ SessionMoves(p, "none", "lapsed")
             \/ SessionMoves(p, "open", "expired")
      PROVE  MoneyInv'
  <2>1. payment' = payment /\ \A q \in Attempts : session'[q] = "paid" <=> session[q] = "paid"
    BY <1>4 DEF SessionMoves, LedgerInv, PaymentsTypeOK
  <2> QED BY <2>1, MoneyKept DEF Made, PaidSessions, Unpaid, Service
<1>5. ASSUME UNCHANGED <<payment, session>>
      PROVE  MoneyInv'
  BY <1>5, MoneyKept DEF Made, PaidSessions, Unpaid, Service
<1> QED BY <1>1, <1>2, <1>3, <1>4, <1>5, RowSteps

-----------------------------------------------------------------------------
(* Refunds.                                                                 *)

AmountsOf(p) == [w \in Refunders |-> refund[p][w].amount]

\* Stripe refunds amounts that are not nothing, and no more than was paid.
Bounded(p) ==
    /\ RefundTotal(p, {"pending", "succeeded"}) <= payment[p].amount
    /\ \A w \in Refunders : refund[p][w].status # "none" => refund[p][w].amount >= 1
RefundsBounded == \A p \in Attempts : Bounded(p)

\* A row whose last event was handled shows what the refunds call for.
Shown(p) ==
    p \notin news \cup missed /\ HasRefund(p)
      => /\ HasIntent(p)
         /\ payment[p].refunded = RefundTotal(p, {"succeeded"})
         /\ payment[p].status = Verdict(p)
VerdictShown == \A p \in Attempts : Shown(p)

RefundsInv == RefundsBounded /\ VerdictShown

LEMMA FewRefunders == IsFiniteSet(Refunders)
<1>1. IsFiniteSet({"studio"} \cup {"dashboard"})
  BY FS_Singleton, FS_AddElement
<1>2. Refunders \in SUBSET ({"studio"} \cup {"dashboard"})
  BY AmountsAreCents
<1> QED BY <1>1, <1>2, FS_Subset

LEMMA AmountsAreNatural ==
    ASSUME PaymentsTypeOK, NEW p \in Attempts
    PROVE  /\ \A w \in Refunders : AmountsOf(p)[w] \in Nat /\ AmountsOf(p)[w] = refund[p][w].amount
           /\ payment[p].amount \in Nat
BY DEF PaymentsTypeOK, Refunds, Payments, AmountsOf

LEMMA TotalIsSum ==
    ASSUME NEW p, NEW states
    PROVE  /\ RefundTotal(p, states) = SumFunctionOnSet(AmountsOf(p), With(p, states))
           /\ With(p, states) \subseteq Refunders /\ IsFiniteSet(With(p, states))
<1>1. With(p, states) \in SUBSET Refunders
  BY DEF With
<1> QED BY <1>1, FewRefunders, FS_Subset DEF RefundTotal, AmountsOf

LEMMA TotalIsNatural ==
    ASSUME PaymentsTypeOK, NEW p \in Attempts, NEW states
    PROVE  RefundTotal(p, states) \in Nat
<1>1. \A w \in With(p, states) : AmountsOf(p)[w] \in Nat
  BY TotalIsSum, AmountsAreNatural
<1> QED BY <1>1, TotalIsSum, SumIsNatural

\* A payment that was refunded in full has no refund under way.
LEMMA FullMeansDone ==
    ASSUME PaymentsTypeOK, RefundsBounded, NEW p \in Attempts,
           RefundTotal(p, {"succeeded"}) = payment[p].amount
    PROVE  With(p, {"pending"}) = {}
<1> SUFFICES ASSUME NEW w \in With(p, {"pending"}) PROVE FALSE
  OBVIOUS
<1> DEFINE both == With(p, {"pending", "succeeded"})
           done == With(p, {"succeeded"})
           f == AmountsOf(p)
<1>1. w \in Refunders /\ refund[p][w].status = "pending" /\ refund[p][w].amount >= 1
  BY DEF With, RefundsBounded, Bounded
<1>2. w \in both /\ done \subseteq both \ {w} /\ done \in SUBSET (both \ {w})
  BY <1>1 DEF With
<1>3. IsFiniteSet(both) /\ both \subseteq Refunders
  BY TotalIsSum
<1>4. \A x \in both : f[x] \in Nat /\ f[x] \in Int
  BY <1>3, AmountsAreNatural
<1>5. IsFiniteSet(both \ {w})
  BY <1>3, FS_RemoveElement
<1>6. f[w] = refund[p][w].amount /\ f[w] \in Nat
  BY <1>1, AmountsAreNatural
<1>7. /\ RefundTotal(p, {"pending", "succeeded"}) = SumFunctionOnSet(f, both)
      /\ RefundTotal(p, {"succeeded"}) = SumFunctionOnSet(f, done)
  BY TotalIsSum
<1> HIDE DEF both, done, f
<1>8. SumFunctionOnSet(f, both) = f[w] + SumFunctionOnSet(f, both \ {w})
  BY <1>2, <1>3, <1>4, SumWithout
<1>9. SumFunctionOnSet(f, done) <= SumFunctionOnSet(f, both \ {w})
  <2>1. \A x \in both \ {w} : f[x] \in Nat
    BY <1>4
  <2> QED BY <1>2, <1>5, <2>1, SumOfPart
<1>10. SumFunctionOnSet(f, both \ {w}) \in Nat
  <2>1. \A x \in both \ {w} : f[x] \in Nat
    BY <1>4
  <2> QED BY <1>5, <2>1, SumIsNatural
<1>11. RefundTotal(p, {"pending", "succeeded"}) <= payment[p].amount
  BY DEF RefundsBounded, Bounded
<1>12. payment[p].amount \in Nat
  BY AmountsAreNatural
<1> QED BY <1>1, <1>6, <1>7, <1>8, <1>9, <1>10, <1>11, <1>12

LEMMA RefundsAgreeFollows == LedgerInv /\ RefundsInv => RefundsAgree
<1> SUFFICES ASSUME LedgerInv, RefundsInv, NEW p \in Attempts \ (news \cup missed), HasRefund(p)
             PROVE  /\ payment[p].refunded = RefundTotal(p, {"succeeded"})
                    /\ payment[p].status = "REFUNDED" <=> payment[p].refunded = payment[p].amount
                    /\ payment[p].status = "REFUND_PENDING" <=> With(p, {"pending"}) # {}
                    /\ payment[p].status \in RefundStatuses
  BY DEF RefundsAgree
<1>1. payment[p].refunded = RefundTotal(p, {"succeeded"}) /\ payment[p].status = Verdict(p)
  BY DEF RefundsInv, VerdictShown, Shown
<1>2. RefundTotal(p, {"succeeded"}) = payment[p].amount => With(p, {"pending"}) = {}
  BY FullMeansDone DEF RefundsInv, LedgerInv
<1>3. payment[p].status \in RefundStatuses
  BY <1>1, VerdictIsStatus
<1> HIDE DEF RefundTotal, With
<1> QED BY <1>1, <1>2, <1>3 DEF Verdict

LEMMA RefundsStart == Init => RefundsInv
<1> SUFFICES ASSUME Init PROVE RefundsInv
  OBVIOUS
<1>1. \A p \in Attempts : /\ payment[p].amount = 0
                          /\ \A w \in Refunders : refund[p][w].status = "none"
  BY DEF Init, NoPayment
<1>2. \A p \in Attempts, states \in SUBSET {"pending", "succeeded", "failed"} : With(p, states) = {}
  BY <1>1 DEF With
<1>3. \A p \in Attempts : RefundTotal(p, {"pending", "succeeded"}) = 0 /\ ~HasRefund(p)
  BY <1>2, SumOfNone DEF RefundTotal, HasRefund
<1> QED BY <1>1, <1>3 DEF RefundsInv, RefundsBounded, Bounded, VerdictShown, Shown

\* Nothing that a row's refunds are compared with changes.
LEMMA TotalStays ==
    ASSUME NEW p, NEW states, refund'[p] = refund[p]
    PROVE  RefundTotal(p, states)' = RefundTotal(p, states) /\ With(p, states)' = With(p, states)
<1>1. With(p, states)' = With(p, states)
  BY DEF With
<1>2. [w \in Refunders |-> refund'[p][w].amount] = [w \in Refunders |-> refund[p][w].amount]
  OBVIOUS
<1> QED BY <1>1, <1>2 DEF RefundTotal

LEMMA BoundedStays ==
    ASSUME NEW p \in Attempts, Bounded(p), refund'[p] = refund[p],
           payment'[p].amount = payment[p].amount
    PROVE  Bounded(p)'
BY TotalStays DEF Bounded

LEMMA VerdictStays ==
    ASSUME NEW p \in Attempts, refund'[p] = refund[p], payment'[p].amount = payment[p].amount
    PROVE  Verdict(p)' = Verdict(p) /\ HasRefund(p)' = HasRefund(p)
<1>1. \A states \in SUBSET {"pending", "succeeded", "failed"} :
        RefundTotal(p, states)' = RefundTotal(p, states) /\ With(p, states)' = With(p, states)
  BY TotalStays
<1> QED BY <1>1 DEF Verdict, HasRefund

\* An intent's id that is known stays known.
LEMMA IntentStays ==
    ASSUME NEW p \in Attempts, HasIntent(p), p \in saved => p \in saved',
           payment'[p].provider = payment[p].provider,
           payment[p].status \in Settled => payment'[p].status \in Settled
    PROVE  HasIntent(p)'
BY DEF HasIntent

LEMMA QuietRow ==
    ASSUME NEW p \in Attempts, Bounded(p), Shown(p), refund'[p] = refund[p],
           payment'[p] = payment[p], p \in saved => p \in saved',
           p \in news \cup missed => p \in news' \cup missed'
    PROVE  Bounded(p)' /\ Shown(p)'
<1>1. Bounded(p)'
  BY BoundedStays
<1>2. Verdict(p)' = Verdict(p) /\ HasRefund(p)' = HasRefund(p)
  BY VerdictStays
<1>3. RefundTotal(p, {"succeeded"})' = RefundTotal(p, {"succeeded"})
  BY TotalStays
<1>4. HasIntent(p) => HasIntent(p)'
  BY IntentStays
<1> QED BY <1>1, <1>2, <1>3, <1>4 DEF Shown

\* No refund is looked at, and rows only become known.
LEMMA RefundsKept ==
    ASSUME RefundsInv, UNCHANGED <<payment, refund, news, missed>>, saved \subseteq saved'
    PROVE  RefundsInv'
<1>1. ASSUME NEW p \in Attempts PROVE Bounded(p)' /\ Shown(p)'
  BY QuietRow DEF RefundsInv, RefundsBounded, VerdictShown
<1> QED BY <1>1 DEF RefundsInv, RefundsBounded, VerdictShown

\* One row changes, the others are left alone.
LEMMA OneRowMoves ==
    ASSUME RefundsInv, NEW p \in Attempts, saved' = saved,
           \A q \in Attempts \ {p} : /\ refund'[q] = refund[q] /\ payment'[q] = payment[q]
                                     /\ q \in news \cup missed => q \in news' \cup missed',
           Bounded(p)', Shown(p)'
    PROVE  RefundsInv'
<1>1. ASSUME NEW q \in Attempts PROVE Bounded(q)' /\ Shown(q)'
  <2>1. CASE q = p
    BY <2>1
  <2>2. CASE q # p
    BY <2>2, QuietRow DEF RefundsInv, RefundsBounded, VerdictShown
  <2> QED BY <2>1, <2>2
<1> QED BY <1>1 DEF RefundsInv, RefundsBounded, VerdictShown

\* A row that is new or not settled has no refund that was shown.
LEMMA RefundsRestated ==
    ASSUME LedgerInv, RefundsInv, NEW p \in Attempts, NEW s, Restated(p, s),
           payment[p].status \notin Settled, UNCHANGED <<saved, refund, news, missed>>
    PROVE  RefundsInv'
<1>1. payment'[p].amount = payment[p].amount /\ \A q \in Attempts \ {p} : payment'[q] = payment[q]
  BY DEF Restated
<1>2. Bounded(p)'
  BY <1>1, BoundedStays DEF RefundsInv, RefundsBounded
<1>3. HasRefund(p)' = HasRefund(p)
  BY <1>1, VerdictStays
<1>4. ~(p \notin news \cup missed /\ HasRefund(p))
  BY VerdictIsStatus DEF RefundsInv, VerdictShown, Shown
<1>5. Shown(p)'
  BY <1>3, <1>4 DEF Shown
<1> QED BY <1>1, <1>2, <1>5, OneRowMoves

LEMMA RefundsReserve ==
    ASSUME LedgerInv, RefundsInv, NEW c \in Requests, NEW p \in Attempts,
           NEW purpose \in {"DEPOSIT", "BALANCE"}, NEW tip \in Tips,
           NEW provider \in {"stripe_connect", "stripe_terminal"},
           Reserve(c, p, purpose, provider, tip), PaymentsTypeOK'
    PROVE  RefundsInv'
<1>1. payment[p].status = "NONE" /\ UNCHANGED <<saved, refund, news, missed>>
  BY DEF Reserve, Reserved
<1>2. \A q \in Attempts \ {p} : payment'[q] = payment[q]
  BY RowReserved DEF LedgerInv
<1>3. \A w \in Refunders : refund[p][w].status = "none"
  BY <1>1 DEF LedgerInv, RefundsFollow, SessionsFollow
<1>4. With(p, {"pending", "succeeded"})' = {} /\ ~HasRefund(p)'
  BY <1>1, <1>3 DEF With, HasRefund
<1>5. RefundTotal(p, {"pending", "succeeded"})' = 0
  BY <1>4, SumOfNone DEF RefundTotal
<1>6. payment'[p].amount \in Nat
  BY DEF PaymentsTypeOK, Payments
<1>7. Bounded(p)' /\ Shown(p)'
  BY <1>1, <1>3, <1>4, <1>5, <1>6 DEF Bounded, Shown
<1> QED BY <1>1, <1>2, <1>7, OneRowMoves

\* What is asked for was already under way, or is the first of it.
LEMMA RefundsRequested ==
    ASSUME LedgerInv, RefundsInv, NEW c \in Requests, NEW p \in Attempts, RefundRequest(c, p)
    PROVE  RefundsInv'
<1>1. /\ payment[p].status \in {"PAID", "REFUND_PENDING"} /\ UNCHANGED <<saved, refund, news, missed>>
      /\ payment' = [payment EXCEPT ![p].status = "REFUND_PENDING"]
  BY DEF RefundRequest, SetStatus
<1>2. /\ payment'[p].status = "REFUND_PENDING" /\ payment'[p].amount = payment[p].amount
      /\ payment'[p].provider = payment[p].provider /\ payment'[p].refunded = payment[p].refunded
      /\ \A q \in Attempts \ {p} : payment'[q] = payment[q]
  BY <1>1 DEF LedgerInv, PaymentsTypeOK, Payments
<1>3. Bounded(p)'
  BY <1>1, <1>2, BoundedStays DEF RefundsInv, RefundsBounded
<1>4. /\ Verdict(p)' = Verdict(p) /\ HasRefund(p)' = HasRefund(p)
      /\ RefundTotal(p, {"succeeded"})' = RefundTotal(p, {"succeeded"})
  BY <1>1, <1>2, VerdictStays, TotalStays
<1>5. Verdict(p) # "PAID"
  BY VerdictIsStatus DEF RefundStatuses
<1>6. "REFUND_PENDING" \in Settled
  BY DEF Settled, RefundStatuses
<1>7. HasIntent(p) => HasIntent(p)'
  BY <1>1, <1>2, <1>6, IntentStays
<1>8. Shown(p)'
  BY <1>1, <1>2, <1>4, <1>5, <1>7 DEF RefundsInv, VerdictShown, Shown
<1> QED BY <1>1, <1>2, <1>3, <1>8, OneRowMoves

\* What Stripe's list says is shown, or nothing is done.
LEMMA RefundsReconciled ==
    ASSUME LedgerInv, RefundsInv, NEW p \in Attempts, Reconciled(p), UNCHANGED <<saved, refund>>,
           HasIntent(p) \/ (p \in news \cup missed => p \in news' \cup missed'),
           \A q \in Attempts \ {p} : q \in news \cup missed => q \in news' \cup missed'
    PROVE  RefundsInv'
<1>1. CASE HasIntent(p) /\ HasRefund(p)
  <2>1. PICK returned \in 0 .. payment[p].amount :
          /\ returned = RefundTotal(p, {"succeeded"})
          /\ payment' = [payment EXCEPT ![p].status = Verdict(p), ![p].refunded = returned]
    BY <1>1 DEF Reconciled
  <2> DEFINE v == Verdict(p)
  <2>2. v \in Settled
    BY VerdictIsStatus
  <2>3. payment' = [payment EXCEPT ![p] = [payment[p] EXCEPT !.status = v, !.refunded = returned]]
    BY <2>1
  <2> HIDE DEF v
  <2>4. /\ payment'[p].status = v /\ payment'[p].amount = payment[p].amount
        /\ payment'[p].provider = payment[p].provider /\ payment'[p].refunded = returned
        /\ \A q \in Attempts \ {p} : payment'[q] = payment[q]
    BY <2>3 DEF LedgerInv, PaymentsTypeOK, Payments
  <2>5. Bounded(p)'
    BY <2>4, BoundedStays DEF RefundsInv, RefundsBounded
  <2>6. /\ Verdict(p)' = v /\ HasRefund(p)' = HasRefund(p)
        /\ RefundTotal(p, {"succeeded"})' = returned
    BY <2>1, <2>4, VerdictStays, TotalStays DEF v
  <2>7. HasIntent(p)'
    BY <1>1, <2>2, <2>4, IntentStays
  <2>8. Shown(p)'
    BY <2>4, <2>6, <2>7 DEF Shown
  <2> QED BY <2>4, <2>5, <2>8, OneRowMoves
<1>2. CASE ~HasRefund(p)
  <2>1. payment' = payment
    BY <1>2 DEF Reconciled
  <2>2. Bounded(p)' /\ HasRefund(p)' = HasRefund(p)
    BY <2>1, BoundedStays, VerdictStays DEF RefundsInv, RefundsBounded
  <2>3. Shown(p)'
    BY <1>2, <2>2 DEF Shown
  <2> QED BY <2>1, <2>2, <2>3, OneRowMoves
<1>3. CASE ~HasIntent(p)
  <2>1. payment' = payment
    BY <1>3 DEF Reconciled
  <2>2. Bounded(p)' /\ Shown(p)'
    BY <1>3, <2>1, QuietRow DEF RefundsInv, RefundsBounded, VerdictShown
  <2> QED BY <2>1, <2>2, OneRowMoves
<1> QED BY <1>1, <1>2, <1>3

\* Refunds that Stripe lists after one was issued or changed.
LEMMA IssuedRow ==
    ASSUME PaymentsTypeOK, NEW p \in Attempts, NEW who \in Refunders, NEW amount \in Nat,
           NEW outcome \in {"pending", "succeeded", "failed"}, Issue(p, who, amount, outcome)
    PROVE  /\ AmountsOf(p)'[who] = amount /\ refund'[p][who].amount = amount
           /\ refund'[p][who].status = outcome
           /\ \A w \in Refunders \ {who} : /\ refund'[p][w] = refund[p][w]
                                           /\ AmountsOf(p)'[w] = AmountsOf(p)[w]
           /\ \A q \in Attempts \ {p} : refund'[q] = refund[q]
           /\ news' = news \cup {p}
BY DEF Issue, PaymentsTypeOK, AmountsOf

LEMMA RefundsIssued ==
    ASSUME LedgerInv, RefundsInv, NEW p \in Attempts, NEW who \in Refunders, NEW amount \in Nat,
           NEW outcome \in {"pending", "succeeded", "failed"}, Issue(p, who, amount, outcome),
           amount >= 1, UNCHANGED <<payment, saved, missed>>,
           \/ refund[p][who].status = "none" /\ amount <= Remaining(p)
           \/ refund[p][who].status \in {"pending", "succeeded"} /\ amount = refund[p][who].amount
    PROVE  RefundsInv'
<1> DEFINE some == With(p, {"pending", "succeeded"})
           then == With(p, {"pending", "succeeded"})'
           f == AmountsOf(p)
           g == AmountsOf(p)'
<1>1. /\ g[who] = amount /\ refund'[p][who].amount = amount /\ refund'[p][who].status = outcome
      /\ \A w \in Refunders \ {who} : refund'[p][w] = refund[p][w] /\ g[w] = f[w]
      /\ \A q \in Attempts \ {p} : refund'[q] = refund[q]
      /\ news' = news \cup {p}
  BY IssuedRow DEF LedgerInv
<1>2. /\ IsFiniteSet(some) /\ some \subseteq Refunders
      /\ RefundTotal(p, {"pending", "succeeded"}) = SumFunctionOnSet(f, some)
  BY TotalIsSum
<1>3. \A w \in Refunders : f[w] \in Nat /\ f[w] = refund[p][w].amount /\ f[w] \in Int
  BY AmountsAreNatural DEF LedgerInv
<1>4. RefundTotal(p, {"pending", "succeeded"})' = SumFunctionOnSet(g, then)
  BY DEF RefundTotal, AmountsOf
<1>5. payment[p].amount \in Nat /\ payment'[p].amount = payment[p].amount
  BY AmountsAreNatural DEF LedgerInv
<1>6. SumFunctionOnSet(f, some) <= payment[p].amount /\ SumFunctionOnSet(f, some) \in Nat
  BY <1>2, TotalIsNatural DEF RefundsInv, RefundsBounded, Bounded, LedgerInv
<1>7. then = IF outcome = "failed" THEN some \ {who} ELSE some \cup {who}
  BY <1>1 DEF With
<1> HIDE DEF some, then, f, g
<1>8. SumFunctionOnSet(g, then) <= payment[p].amount
  <2>1. CASE refund[p][who].status = "none"
    <3>1. who \notin some
      BY <2>1 DEF some, With
    <3>2. amount <= payment[p].amount - SumFunctionOnSet(f, some)
      BY <1>2, <2>1 DEF Remaining
    <3>3. \A w \in some : g[w] = f[w]
      BY <1>1, <1>2, <3>1
    <3>4. SumFunctionOnSet(g, some) = SumFunctionOnSet(f, some)
      BY <1>2, <3>3, SumDependsOnValues
    <3>5. CASE outcome = "failed"
      <4>1. then = some
        BY <1>7, <3>1, <3>5
      <4> QED BY <1>6, <3>4, <4>1
    <3>6. CASE outcome # "failed"
      <4>1. \A w \in some \cup {who} : g[w] \in Int
        BY <1>1, <1>2, <1>3, <3>3
      <4>2. SumFunctionOnSet(g, some \cup {who}) = g[who] + SumFunctionOnSet(g, some)
        BY <1>2, <3>1, <4>1, SumWith
      <4> QED BY <1>1, <1>5, <1>6, <1>7, <3>2, <3>4, <3>6, <4>2
    <3> QED BY <3>5, <3>6
  <2>2. CASE refund[p][who].status # "none"
    <3>1. who \in some /\ amount = refund[p][who].amount
      BY <2>2 DEF some, With
    <3>2. then \in SUBSET some
      BY <1>7, <3>1
    <3>3. \A w \in some : g[w] = f[w]
      BY <1>1, <1>2, <1>3, <3>1
    <3>4. SumFunctionOnSet(g, then) = SumFunctionOnSet(f, then)
      <4>1. IsFiniteSet(then)
        BY <1>2, <3>2, FS_Subset
      <4> QED BY <3>2, <3>3, <4>1, SumDependsOnValues
    <3>5. SumFunctionOnSet(f, then) <= SumFunctionOnSet(f, some)
      <4>1. \A w \in some : f[w] \in Nat
        BY <1>2, <1>3
      <4> QED BY <1>2, <3>2, <4>1, SumOfPart
    <3>6. SumFunctionOnSet(f, then) \in Nat
      <4>1. IsFiniteSet(then) /\ \A w \in then : f[w] \in Nat
        BY <1>2, <1>3, <3>2, FS_Subset
      <4> QED BY <4>1, SumIsNatural
    <3> QED BY <1>5, <1>6, <3>4, <3>5, <3>6
  <2> QED BY <2>1, <2>2
<1>9. Bounded(p)'
  <2>1. \A w \in Refunders : refund'[p][w].status # "none" => refund'[p][w].amount >= 1
    BY <1>1 DEF RefundsInv, RefundsBounded, Bounded
  <2> QED BY <1>4, <1>5, <1>8, <2>1 DEF Bounded
<1>10. Shown(p)'
  BY <1>1 DEF Shown
<1>11. \A q \in Attempts \ {p} : q \in news \cup missed => q \in news' \cup missed'
  BY <1>1
<1> QED BY <1>1, <1>9, <1>10, <1>11, OneRowMoves

LEMMA RefundsStripe ==
    ASSUME LedgerInv, RefundsInv, NEW p \in Attempts, Stripe(p)
    PROVE  RefundsInv'
<1>t. payment \in [Attempts -> Payments]
  BY DEF LedgerInv, PaymentsTypeOK
<1>1. CASE Lapse(p) \/ ClientPays(p) \/ SessionExpires(p)
  <2>1. UNCHANGED <<payment, saved, refund, news, missed>>
    BY <1>1 DEF Lapse, ClientPays, SessionExpires, SessionEnds
  <2> QED BY <2>1, RefundsKept
<1>2. CASE ConnectCompleted(p) \/ ConnectExpired(p) \/ TerminalEvent(p)
  <2>1. /\ SetStatus(p, "PAID") \/ SetStatus(p, "EXPIRED")
        /\ payment[p].status \notin Settled /\ UNCHANGED <<saved, refund, news, missed>>
    BY <1>2 DEF ConnectCompleted, Completed, ConnectExpired, TerminalEvent, Settled, RefundStatuses
  <2>2. Restated(p, "PAID") \/ Restated(p, "EXPIRED")
    BY <1>t, <2>1, StatusSet DEF PaymentStatuses, Settled
  <2> QED BY <2>1, <2>2, RefundsRestated
<1>3. CASE DashboardRefund(p)
  <2>1. PICK amount \in 1 .. payment[p].amount, outcome \in {"pending", "succeeded"} :
          amount <= Remaining(p) /\ Issue(p, "dashboard", amount, outcome)
    BY <1>3 DEF DashboardRefund
  <2>2. payment[p].amount \in Nat
    BY <1>t DEF Payments
  <2>3. amount \in Nat /\ amount >= 1 /\ "dashboard" \in Refunders
    BY <1>3, <2>2 DEF DashboardRefund
  <2>4. refund[p]["dashboard"].status = "none" /\ UNCHANGED <<payment, saved, missed>>
    BY <1>3 DEF DashboardRefund
  <2> QED BY <2>1, <2>3, <2>4, RefundsIssued
<1>4. CASE RefundEvent(p)
  <2>1. Reconciled(p) /\ UNCHANGED <<saved, refund>>
    BY <1>4 DEF RefundEvent
  <2>2. news' = news \ {p} /\ missed' = IF HasIntent(p) THEN missed \ {p} ELSE missed \cup {p}
    BY <1>4 DEF RefundEvent
  <2>3. \A q \in Attempts \ {p} : q \in news \cup missed => q \in news' \cup missed'
    BY <2>2
  <2>4. HasIntent(p) \/ p \in news' \cup missed'
    BY <2>2
  <2> QED BY <2>1, <2>3, <2>4, RefundsReconciled
<1>5. ASSUME NEW who \in Refunders, RefundSettles(p, who)
      PROVE  RefundsInv'
  <2> DEFINE amount == refund[p][who].amount
  <2>1. /\ refund[p][who].status \in {"pending", "succeeded"}
        /\ Issue(p, who, amount, "succeeded") \/ Issue(p, who, amount, "failed")
        /\ UNCHANGED <<payment, saved, missed>>
    BY <1>5 DEF RefundSettles
  <2>2. amount \in Nat
    BY DEF LedgerInv, PaymentsTypeOK, Refunds
  <2>3. amount >= 1
    BY <2>1 DEF RefundsInv, RefundsBounded, Bounded
  <2> QED BY <2>1, <2>2, <2>3, RefundsIssued
<1> QED BY <1>1, <1>2, <1>3, <1>4, <1>5 DEF Stripe

LEMMA RefundsRefunding ==
    ASSUME LedgerInv, RefundsInv, NEW c \in Requests, NEW p \in Attempts, Refunding(c, p)
    PROVE  RefundsInv'
<1>1. CASE RefundRequest(c, p)
  BY <1>1, RefundsRequested
<1>2. CASE RefundCreate(c, p)
  <2>1. UNCHANGED <<payment, saved, missed>> /\ "studio" \in Refunders
    BY <1>2 DEF RefundCreate, Refunding
  <2>2. CASE refund[p]["studio"].status = "none"
    <3>1. PICK amount \in 1 .. payment[p].amount, outcome \in {"pending", "succeeded"} :
            amount = Remaining(p) /\ Issue(p, "studio", amount, outcome)
      BY <1>2, <2>2 DEF RefundCreate
    <3>2. payment[p].amount \in Nat
      BY DEF LedgerInv, PaymentsTypeOK, Payments
    <3>3. amount \in Nat /\ amount >= 1 /\ amount <= Remaining(p)
      BY <3>1, <3>2
    <3> QED BY <2>1, <2>2, <3>1, <3>3, RefundsIssued
  <2>3. CASE refund[p]["studio"].status # "none"
    <3>1. UNCHANGED <<refund, news>>
      BY <1>2, <2>3 DEF RefundCreate
    <3> QED BY <2>1, <3>1, RefundsKept
  <2> QED BY <2>2, <2>3
<1>3. CASE Reconcile(c, p)
  <2>1. Reconciled(p) /\ UNCHANGED <<saved, refund, news, missed>>
    BY <1>3 DEF Reconcile
  <2> QED BY <2>1, RefundsReconciled
<1> QED BY <1>1, <1>2, <1>3 DEF Refunding

LEMMA RefundsStep == LedgerInv /\ RefundsInv /\ [Next]_vars => RefundsInv'
<1> SUFFICES ASSUME LedgerInv, RefundsInv, [Next]_vars PROVE RefundsInv'
  OBVIOUS
<1>1. ASSUME NEW c \in Requests, NEW p \in Attempts, Collecting(c, p)
      PROVE  RefundsInv'
  <2>1. ASSUME NEW purpose \in {"DEPOSIT", "BALANCE"}, NEW tip \in Tips,
               NEW provider \in {"stripe_connect", "stripe_terminal"},
               Reserve(c, p, purpose, provider, tip)
        PROVE  RefundsInv'
    BY <2>1, RefundsReserve, TypeStep DEF LedgerInv
  <2>2. ASSUME NEW purpose \in {"DEPOSIT", "BALANCE"}, NEW tip \in Tips,
               NEW provider \in {"stripe_connect", "stripe_terminal"},
               Resume(c, p, purpose, provider, tip)
        PROVE  RefundsInv'
    BY <2>2, RefundsKept DEF Resume
  <2>3. CASE CreateSession(c, p) \/ SaveSession(c, p)
    <3>1. UNCHANGED <<payment, refund, news, missed>> /\ saved \subseteq saved'
      BY <2>3 DEF CreateSession, SaveSession
    <3> QED BY <3>1, RefundsKept
  <2> QED BY <1>1, <2>1, <2>2, <2>3 DEF Collecting
<1>2. ASSUME NEW c \in Requests, NEW p \in Attempts, Refunding(c, p)
      PROVE  RefundsInv'
  BY <1>2, RefundsRefunding
<1>3. ASSUME NEW p \in Attempts, Stripe(p)
      PROVE  RefundsInv'
  BY <1>3, RefundsStripe
<1>4. ASSUME NEW c \in Requests, RequestDies(c)
      PROVE  RefundsInv'
  BY <1>4, RefundsKept DEF RequestDies
<1>5. CASE Cancel \/ Complete \/ UNCHANGED vars
  <2>1. UNCHANGED <<payment, saved, refund, news, missed>>
    BY <1>5 DEF Cancel, Complete, vars
  <2> QED BY <2>1, RefundsKept
<1> QED BY <1>1, <1>2, <1>3, <1>4, <1>5 DEF Next

\* However requests, webhooks, dashboard refunds and crashes interleave: Stripe never
\* collects more than the price or the deposit, with the balance exactly the price, and
\* a ledger that has handled the events shows what was refunded and the deposit's state.
THEOREM LedgerAlwaysAgrees == Spec => []LedgerAgrees
<1>1. Init => MoneyInv /\ RefundsInv
  BY MoneyStart, RefundsStart
<1>2. LedgerInv /\ MoneyInv /\ RefundsInv /\ [Next]_vars => MoneyInv' /\ RefundsInv'
  BY MoneyStep, RefundsStep
<1>3. LedgerInv /\ MoneyInv /\ RefundsInv => LedgerAgrees
  BY RefundsAgreeFollows DEF LedgerAgrees, MoneyInv, LedgerInv
<1> QED BY <1>1, <1>2, <1>3, LedgerInvariant, PTL DEF Spec

\* However often and concurrently owners ask, the app issues one refund of a payment,
\* and one that failed stays so.
THEOREM OneStudioRefund == Spec => StudioRefundsOnce
<1>1. LedgerInv /\ [Next]_vars
        => [\A p \in Attempts : "studio" \in Refunders /\ refund[p]["studio"].status # "none"
              => /\ refund'[p]["studio"].amount = refund[p]["studio"].amount
                 /\ refund[p]["studio"].status = "failed" => refund'[p]["studio"].status = "failed"]_vars
  <2> SUFFICES ASSUME LedgerInv, [Next]_vars, NEW q \in Attempts, "studio" \in Refunders,
                      refund[q]["studio"].status # "none"
               PROVE  /\ refund'[q]["studio"].amount = refund[q]["studio"].amount
                      /\ refund[q]["studio"].status = "failed" => refund'[q]["studio"].status = "failed"
    OBVIOUS
  <2>1. ASSUME NEW p \in Attempts, NEW who \in Refunders, NEW amount \in Nat,
               NEW outcome \in {"pending", "succeeded", "failed"}, Issue(p, who, amount, outcome),
               \/ refund[p][who].status = "none"
               \/ refund[p][who].status \in {"pending", "succeeded"} /\ amount = refund[p][who].amount
        PROVE  /\ refund'[q]["studio"].amount = refund[q]["studio"].amount
               /\ refund[q]["studio"].status = "failed" => refund'[q]["studio"].status = "failed"
    <3>1. /\ refund'[p][who].amount = amount /\ refund'[p][who].status = outcome
          /\ \A w \in Refunders \ {who} : refund'[p][w] = refund[p][w]
          /\ \A r \in Attempts \ {p} : refund'[r] = refund[r]
      BY <2>1, IssuedRow DEF LedgerInv
    <3>2. CASE q = p /\ who = "studio"
      BY <2>1, <3>1, <3>2
    <3>3. CASE ~(q = p /\ who = "studio")
      BY <3>1, <3>3
    <3> QED BY <3>2, <3>3
  <2>2. ASSUME NEW p \in Attempts, DashboardRefund(p)
        PROVE  /\ refund'[q]["studio"].amount = refund[q]["studio"].amount
               /\ refund[q]["studio"].status = "failed" => refund'[q]["studio"].status = "failed"
    <3>1. PICK amount \in 1 .. payment[p].amount, outcome \in {"pending", "succeeded"} :
            Issue(p, "dashboard", amount, outcome)
      BY <2>2 DEF DashboardRefund
    <3>2. payment[p].amount \in Nat
      BY DEF LedgerInv, PaymentsTypeOK, Payments
    <3>3. amount \in Nat /\ "dashboard" \in Refunders /\ refund[p]["dashboard"].status = "none"
      BY <2>2, <3>2 DEF DashboardRefund
    <3> QED BY <2>1, <3>1, <3>3
  <2>3. ASSUME NEW p \in Attempts, NEW who \in Refunders, RefundSettles(p, who)
        PROVE  /\ refund'[q]["studio"].amount = refund[q]["studio"].amount
               /\ refund[q]["studio"].status = "failed" => refund'[q]["studio"].status = "failed"
    <3>1. refund[p][who].amount \in Nat
      BY DEF LedgerInv, PaymentsTypeOK, Refunds
    <3> QED BY <2>1, <2>3, <3>1 DEF RefundSettles
  <2>4. ASSUME NEW c \in Requests, NEW p \in Attempts, RefundCreate(c, p)
        PROVE  /\ refund'[q]["studio"].amount = refund[q]["studio"].amount
               /\ refund[q]["studio"].status = "failed" => refund'[q]["studio"].status = "failed"
    <3>1. CASE refund[p]["studio"].status = "none"
      <4>1. PICK amount \in 1 .. payment[p].amount, outcome \in {"pending", "succeeded"} :
              Issue(p, "studio", amount, outcome)
        BY <2>4, <3>1 DEF RefundCreate
      <4>2. payment[p].amount \in Nat
        BY DEF LedgerInv, PaymentsTypeOK, Payments
      <4>3. amount \in Nat
        BY <4>2
      <4> QED BY <2>1, <3>1, <4>1, <4>3
    <3>2. CASE refund[p]["studio"].status # "none"
      BY <2>4, <3>2 DEF RefundCreate
    <3> QED BY <3>1, <3>2
  <2>5. CASE refund' = refund
    BY <2>5
  <2>6. \/ refund' = refund
        \/ \E p \in Attempts : DashboardRefund(p)
        \/ \E p \in Attempts, who \in Refunders : RefundSettles(p, who)
        \/ \E c \in Requests, p \in Attempts : RefundCreate(c, p)
    <3>1. ASSUME NEW c \in Requests, NEW p \in Attempts, Collecting(c, p)
          PROVE  refund' = refund
      BY <3>1 DEF Collecting, Reserve, Reserved, Resume, CreateSession, SaveSession
    <3>2. ASSUME NEW c \in Requests, NEW p \in Attempts, Refunding(c, p)
          PROVE  refund' = refund \/ RefundCreate(c, p)
      BY <3>2 DEF Refunding, RefundRequest, Reconcile
    <3>3. ASSUME NEW p \in Attempts, Stripe(p)
          PROVE  refund' = refund \/ DashboardRefund(p) \/ \E who \in Refunders : RefundSettles(p, who)
      BY <3>3 DEF Stripe, Lapse, ClientPays, SessionExpires, SessionEnds, ConnectCompleted,
                  ConnectExpired, TerminalEvent, Completed, RefundEvent
    <3>4. CASE (\E c \in Requests : RequestDies(c)) \/ Cancel \/ Complete \/ UNCHANGED vars
      BY <3>4 DEF RequestDies, Cancel, Complete, vars
    <3> QED BY <3>1, <3>2, <3>3, <3>4 DEF Next
  <2> QED BY <2>2, <2>3, <2>4, <2>5, <2>6
<1> QED BY <1>1, LedgerInvariant, PTL DEF Spec, StudioRefundsOnce

\* What was refunded stays refunded, in the ledger and at Stripe.
THEOREM RefundsAlwaysStand == Spec => RefundsStand
BY RefundsAlwaysSurvive, OneStudioRefund DEF RefundsStand
=============================================================================
