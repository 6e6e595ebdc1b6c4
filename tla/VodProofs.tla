------------------------------ MODULE VodProofs ------------------------------
(***************************************************************************)
(* The quota of video on demand, for any requests, subscriptions and       *)
(* handlers in flight: accepted requests hold quota, the handlers          *)
(* implement VodQuota, the counter in the user's row covers what requests  *)
(* hold, and rejections are final.                                         *)
(***************************************************************************)
EXTENDS VodRequests, FiniteSetTheorems, WellFoundedInduction, TLAPS

(***************************************************************************)
(* The part of the inductive invariant about requests and what handlers    *)
(* have read of them; Counters, below, is the part about the user's row.   *)
(***************************************************************************)
HandlersInvariant ==
    /\ request \in [Request -> RequestRow]
    /\ session = [x \in Session |-> session[x]]
    /\ \A x \in Busy : session[x].op \in Handler /\ session[x].on \subseteq Request
    /\ AcceptedHoldsQuota
    /\ ViewsHold

(***************************************************************************)
(* Some member of a nonempty set of subsets of a finite set has no other   *)
(* inside it.                                                              *)
(***************************************************************************)
LEMMA LeastSubset ==
    ASSUME NEW T, IsFiniteSet(T), NEW M, M \subseteq SUBSET T, M # {}
    PROVE  \E B \in M : \A U \in M : U \subseteq B => U = B
<1>1. IsWellFoundedOn(StrictSubsetOrdering(T), FiniteSubsetsOf(T))
    BY FS_StrictSubsetOrderingWellFounded
<1>2. M \subseteq FiniteSubsetsOf(T)
    BY FS_Subset DEF FiniteSubsetsOf
<1>3. PICK B \in M : \A U \in M : <<U, B>> \notin StrictSubsetOrdering(T)
    BY <1>1, <1>2, WFMin
<1> QED BY <1>3 DEF StrictSubsetOrdering

-----------------------------------------------------------------------------
(* MapThenSumSet: the sum over a finite set adds up, whatever element it   *)
(* is begun with.                                                          *)

Some(U) == CHOOSE x \in U : TRUE

\* g is how MapThenSumSet adds up f over T and its subsets.
AddsUp(g, f, T) ==
    g = [U \in SUBSET T |-> IF U = {} THEN 0 ELSE f[Some(U)] + g[U \ {Some(U)}]]

Sum(f, T) == MapThenSumSet(LAMBDA x : f[x], T)

LEMMA SumUnfolds ==
    ASSUME NEW T, NEW f
    PROVE  Sum(f, T) = (CHOOSE g : AddsUp(g, f, T))[T]
BY DEF Sum, MapThenSumSet, MapThenFoldSet, AddsUp, Some

LEMMA AddsUpFacts ==
    ASSUME NEW T, NEW f, NEW g, AddsUp(g, f, T)
    PROVE  /\ g[{}] = 0
           /\ \A U \in SUBSET T : U # {} => /\ g[U] = f[Some(U)] + g[U \ {Some(U)}]
                                            /\ Some(U) \in U
<1> DEFINE h == [U \in SUBSET T |-> IF U = {} THEN 0 ELSE f[Some(U)] + g[U \ {Some(U)}]]
<1>1. \A U \in SUBSET T : h[U] = IF U = {} THEN 0 ELSE f[Some(U)] + g[U \ {Some(U)}]
    OBVIOUS
<1>2. g = h
    BY DEF AddsUp
<1> HIDE DEF h
<1> QED BY <1>1, <1>2 DEF Some

LEMMA AddsUpOnce ==
    ASSUME NEW T, IsFiniteSet(T), NEW T2, NEW f, NEW g, NEW g2,
           AddsUp(g, f, T), AddsUp(g2, f, T2)
    PROVE  \A U \in SUBSET (T \cap T2) : g[U] = g2[U]
<1> DEFINE M == {U \in SUBSET (T \cap T2) : g[U] # g2[U]}
<1> SUFFICES ASSUME M # {} PROVE FALSE
    OBVIOUS
<1>0. M \subseteq SUBSET T
    OBVIOUS
<1>1. PICK B \in M : \A U \in M : U \subseteq B => U = B
    <2> HIDE DEF M
    <2> QED BY <1>0, LeastSubset
<1>2. B \in SUBSET T /\ B \in SUBSET T2 /\ g[B] # g2[B]
    OBVIOUS
<1>3. B # {}
    BY <1>2, AddsUpFacts
<1>4. /\ g[B] = f[Some(B)] + g[B \ {Some(B)}]
      /\ g2[B] = f[Some(B)] + g2[B \ {Some(B)}]
      /\ Some(B) \in B
    BY <1>2, <1>3, AddsUpFacts
<1>5. B \ {Some(B)} \notin M
    BY <1>1, <1>4
<1>6. g[B \ {Some(B)}] = g2[B \ {Some(B)}]
    BY <1>2, <1>5
<1> QED BY <1>2, <1>4, <1>6

LEMMA AddsUpExists ==
    ASSUME NEW T, IsFiniteSet(T), NEW f
    PROVE  AddsUp(CHOOSE g : AddsUp(g, f, T), f, T)
<1> DEFINE M == {U \in SUBSET T : ~ \E g : AddsUp(g, f, U)}
           G(U) == CHOOSE g : AddsUp(g, f, U)
<1> SUFFICES ASSUME M # {} PROVE FALSE
    OBVIOUS
<1>0. M \subseteq SUBSET T
    OBVIOUS
<1>1. PICK B \in M : \A U \in M : U \subseteq B => U = B
    <2> HIDE DEF M
    <2> QED BY <1>0, LeastSubset
<1>2. \A U \in SUBSET B : U # B => AddsUp(G(U), f, U)
    BY <1>1
<1> DEFINE h == [U \in SUBSET B |-> IF U = {} THEN 0
                                    ELSE f[Some(U)] + G(U \ {Some(U)})[U \ {Some(U)}]]
<1>3. \A U \in SUBSET B :
          h[U] = IF U = {} THEN 0 ELSE f[Some(U)] + G(U \ {Some(U)})[U \ {Some(U)}]
    OBVIOUS
<1>4. \A U \in SUBSET B : IsFiniteSet(U)
    BY FS_Subset
<1> HIDE DEF h, G
<1>5. ASSUME NEW U \in SUBSET B, U # {}
      PROVE  h[U] = f[Some(U)] + h[U \ {Some(U)}]
    <2> DEFINE V == U \ {Some(U)}
    <2>1. Some(U) \in U
        BY <1>5 DEF Some
    <2>2. V \in SUBSET B /\ V # B /\ h[U] = f[Some(U)] + G(V)[V]
        BY <1>3, <1>5, <2>1
    <2>3. AddsUp(G(V), f, V)
        BY <1>2, <2>2
    <2> HIDE DEF V
    <2>4. CASE V = {}
        BY <1>3, <2>2, <2>3, <2>4, AddsUpFacts DEF V
    <2>5. CASE V # {}
        <3> DEFINE W == V \ {Some(V)}
        <3>1. G(V)[V] = f[Some(V)] + G(V)[W] /\ Some(V) \in V
            BY <2>3, <2>5, AddsUpFacts
        <3>2. W \in SUBSET B /\ W # B /\ W \in SUBSET (V \cap W)
            BY <2>2, <3>1
        <3>3. AddsUp(G(W), f, W)
            BY <1>2, <3>2
        <3>4. h[V] = f[Some(V)] + G(W)[W]
            BY <1>3, <2>2, <2>5
        <3> HIDE DEF W
        <3>5. G(V)[W] = G(W)[W]
            BY <1>4, <2>2, <2>3, <3>2, <3>3, AddsUpOnce
        <3> QED BY <2>2, <3>1, <3>4, <3>5 DEF V
    <2> QED BY <2>4, <2>5
<1>6. h = [U \in SUBSET B |-> h[U]]
    BY DEF h
<1>7. AddsUp(h, f, B)
    <2> DEFINE k == [U \in SUBSET B |-> IF U = {} THEN 0 ELSE f[Some(U)] + h[U \ {Some(U)}]]
    <2>1. \A U \in SUBSET B : h[U] = k[U]
        BY <1>3, <1>5
    <2>2. k = [U \in SUBSET B |-> k[U]]
        OBVIOUS
    <2>3. h = k
        <3> HIDE DEF k
        <3> QED BY <1>6, <2>1, <2>2
    <2> QED BY <2>3 DEF AddsUp
<1> QED BY <1>1, <1>7

(***************************************************************************)
(* A sum without elements is 0, any other is begun with some element.      *)
(***************************************************************************)
LEMMA SumBegins ==
    ASSUME NEW T, IsFiniteSet(T), NEW f
    PROVE  /\ Sum(f, {}) = 0
           /\ T # {} => /\ Some(T) \in T
                        /\ Sum(f, T) = f[Some(T)] + Sum(f, T \ {Some(T)})
<1> DEFINE G(U) == CHOOSE g : AddsUp(g, f, U)
<1>1. \A U \in SUBSET T : AddsUp(G(U), f, U) /\ IsFiniteSet(U)
    BY FS_Subset, AddsUpExists
<1>2. \A U : Sum(f, U) = G(U)[U]
    BY SumUnfolds
<1> HIDE DEF G
<1>3. G({})[{}] = 0
    BY <1>1, AddsUpFacts
<1>4. ASSUME T # {}
      PROVE  Some(T) \in T /\ Sum(f, T) = f[Some(T)] + Sum(f, T \ {Some(T)})
    <2> DEFINE V == T \ {Some(T)}
    <2>1. Some(T) \in T /\ G(T)[T] = f[Some(T)] + G(T)[V]
        BY <1>1, <1>4, AddsUpFacts
    <2>2. V \in SUBSET (T \cap V)
        OBVIOUS
    <2>3. AddsUp(G(T), f, T) /\ AddsUp(G(V), f, V)
        BY <1>1
    <2> HIDE DEF V
    <2>4. G(T)[V] = G(V)[V]
        BY <2>2, <2>3, AddsUpOnce
    <2> QED BY <1>2, <2>1, <2>4 DEF V
<1> QED BY <1>2, <1>3, <1>4

LEMMA SumOfNone == \A f : Sum(f, {}) = 0
BY SumBegins, FS_EmptySet

LEMMA SumIsNat ==
    ASSUME NEW T, IsFiniteSet(T), NEW f, \A x \in T : f[x] \in Nat
    PROVE  Sum(f, T) \in Nat
<1> DEFINE M == {U \in SUBSET T : Sum(f, U) \notin Nat}
<1> SUFFICES ASSUME M # {} PROVE FALSE
    OBVIOUS
<1>0. M \subseteq SUBSET T
    OBVIOUS
<1>1. PICK B \in M : \A U \in M : U \subseteq B => U = B
    <2> HIDE DEF M
    <2> QED BY <1>0, LeastSubset
<1>2. IsFiniteSet(B) /\ B \in SUBSET T /\ Sum(f, B) \notin Nat
    BY FS_Subset
<1>3. B # {}
    <2>1. 0 \in Nat
        OBVIOUS
    <2> QED BY <1>2, <2>1, SumOfNone
<1>4. Some(B) \in B /\ Sum(f, B) = f[Some(B)] + Sum(f, B \ {Some(B)})
    BY <1>2, <1>3, SumBegins
<1>5. Sum(f, B \ {Some(B)}) \in Nat
    BY <1>1, <1>4
<1> QED BY <1>2, <1>4, <1>5

(***************************************************************************)
(* A sum may be begun with any element.                                    *)
(***************************************************************************)
LEMMA SumSplits ==
    ASSUME NEW T, IsFiniteSet(T), NEW f, \A y \in T : f[y] \in Nat, NEW x \in T
    PROVE  Sum(f, T) = f[x] + Sum(f, T \ {x})
<1> DEFINE M == {U \in SUBSET T : \E y \in U : Sum(f, U) # f[y] + Sum(f, U \ {y})}
<1> SUFFICES ASSUME M # {} PROVE FALSE
    OBVIOUS
<1>0. M \subseteq SUBSET T
    OBVIOUS
<1>1. PICK B \in M : \A U \in M : U \subseteq B => U = B
    <2> HIDE DEF M
    <2> QED BY <1>0, LeastSubset
<1> DEFINE p == Some(B)
<1>2. \A U \in SUBSET T : IsFiniteSet(U) /\ Sum(f, U) \in Nat
    BY FS_Subset, SumIsNat
<1>3. PICK y \in B : Sum(f, B) # f[y] + Sum(f, B \ {y})
    OBVIOUS
<1>4. p \in B /\ Sum(f, B) = f[p] + Sum(f, B \ {p})
    BY <1>2, SumBegins
<1> HIDE DEF p
<1>5. p # y
    BY <1>3, <1>4
<1>6. \A U \in SUBSET B : U # B => \A z \in U : Sum(f, U) = f[z] + Sum(f, U \ {z})
    BY <1>1
<1> DEFINE U == (B \ {p}) \ {y}
<1>7. (B \ {y}) \ {p} = U /\ U \in SUBSET T
    OBVIOUS
<1>8. Sum(f, B \ {p}) = f[y] + Sum(f, U)
    BY <1>4, <1>5, <1>6
<1>9. Sum(f, B \ {y}) = f[p] + Sum(f, U)
    BY <1>4, <1>5, <1>6, <1>7
<1>10. f[p] \in Nat /\ f[y] \in Nat /\ Sum(f, U) \in Nat
    BY <1>2, <1>4, <1>7
<1> HIDE DEF U
<1>11. f[p] + (f[y] + Sum(f, U)) = f[y] + (f[p] + Sum(f, U))
    BY <1>10
<1> QED BY <1>3, <1>4, <1>8, <1>9, <1>11

(***************************************************************************)
(* Smaller parts and fewer of them make a smaller sum.                     *)
(***************************************************************************)
LEMMA SumOfLess ==
    ASSUME NEW T, IsFiniteSet(T), NEW f, NEW g,
           \A x \in T : f[x] \in Nat /\ g[x] \in Nat /\ f[x] <= g[x]
    PROVE  Sum(f, T) <= Sum(g, T)
<1> DEFINE M == {U \in SUBSET T : ~ (Sum(f, U) <= Sum(g, U))}
<1> SUFFICES ASSUME M # {} PROVE FALSE
    OBVIOUS
<1>0. M \subseteq SUBSET T
    OBVIOUS
<1>1. PICK B \in M : \A U \in M : U \subseteq B => U = B
    <2> HIDE DEF M
    <2> QED BY <1>0, LeastSubset
<1>2. \A U \in SUBSET T : IsFiniteSet(U) /\ Sum(f, U) \in Nat /\ Sum(g, U) \in Nat
    BY FS_Subset, SumIsNat
<1>3. B \in SUBSET T /\ ~ (Sum(f, B) <= Sum(g, B))
    OBVIOUS
<1>4. PICK y \in B : TRUE
    <2> SUFFICES ASSUME B = {} PROVE FALSE
        OBVIOUS
    <2>1. Sum(f, B) = 0 /\ Sum(g, B) = 0
        BY SumOfNone
    <2> QED BY <1>3, <2>1
<1> DEFINE U == B \ {y}
<1>5. U \in SUBSET T /\ Sum(f, U) <= Sum(g, U)
    BY <1>1, <1>4
<1>6. Sum(f, B) = f[y] + Sum(f, U) /\ Sum(g, B) = g[y] + Sum(g, U)
    BY <1>2, <1>3, <1>4, SumSplits
<1>7. Sum(f, U) \in Nat /\ Sum(g, U) \in Nat
    BY <1>2, <1>5
<1>8. f[y] \in Nat /\ g[y] \in Nat /\ f[y] <= g[y]
    BY <1>3, <1>4
<1> HIDE DEF U
<1>9. f[y] + Sum(f, U) <= g[y] + Sum(g, U)
    BY <1>5, <1>7, <1>8
<1> QED BY <1>3, <1>6, <1>9

LEMMA SumOfFewer ==
    ASSUME NEW T, IsFiniteSet(T), NEW f, \A x \in T : f[x] \in Nat, NEW U \in SUBSET T
    PROVE  Sum(f, U) <= Sum(f, T)
<1> DEFINE M == {V \in SUBSET T : U \subseteq V /\ ~ (Sum(f, U) <= Sum(f, V))}
<1> SUFFICES ASSUME M # {} PROVE FALSE
    OBVIOUS
<1>0. M \subseteq SUBSET T
    OBVIOUS
<1>1. PICK B \in M : \A V \in M : V \subseteq B => V = B
    <2> HIDE DEF M
    <2> QED BY <1>0, LeastSubset
<1>2. \A V \in SUBSET T : IsFiniteSet(V) /\ Sum(f, V) \in Nat
    BY FS_Subset, SumIsNat
<1>3. B \in SUBSET T /\ U \subseteq B /\ ~ (Sum(f, U) <= Sum(f, B))
    OBVIOUS
<1>4. PICK y \in B : y \notin U
    BY <1>2, <1>3
<1> DEFINE V == B \ {y}
<1>5. V \in SUBSET T /\ Sum(f, U) <= Sum(f, V)
    BY <1>1, <1>4
<1>6. Sum(f, B) = f[y] + Sum(f, V) /\ f[y] \in Nat
    BY <1>2, <1>3, <1>4, SumSplits
<1>7. Sum(f, U) \in Nat /\ Sum(f, V) \in Nat
    BY <1>2, <1>5
<1> HIDE DEF V
<1>8. Sum(f, U) <= f[y] + Sum(f, V)
    BY <1>5, <1>6, <1>7
<1> QED BY <1>3, <1>6, <1>8

(***************************************************************************)
(* One part that grows by one lets the sum grow by one.                    *)
(***************************************************************************)
LEMMA SumOfOneMore ==
    ASSUME NEW T, IsFiniteSet(T), NEW f, NEW g, NEW a,
           \A x \in T : f[x] \in Nat /\ g[x] \in Nat,
           \A x \in T \ {a} : g[x] <= f[x],
           a \in T => g[a] <= f[a] + 1
    PROVE  Sum(g, T) <= Sum(f, T) + 1
<1>1. Sum(f, T) \in Nat /\ Sum(g, T) \in Nat
    BY SumIsNat
<1>2. CASE a \notin T
    <2>1. Sum(g, T) <= Sum(f, T)
        BY <1>2, SumOfLess
    <2> QED BY <1>1, <2>1
<1>3. CASE a \in T
    <2> DEFINE U == T \ {a}
    <2>1. Sum(f, T) = f[a] + Sum(f, U) /\ Sum(g, T) = g[a] + Sum(g, U)
        BY <1>3, SumSplits
    <2>2. IsFiniteSet(U)
        BY FS_Subset
    <2>3. Sum(g, U) <= Sum(f, U) /\ Sum(f, U) \in Nat /\ Sum(g, U) \in Nat
        BY <2>2, SumOfLess, SumIsNat
    <2>4. f[a] \in Nat /\ g[a] \in Nat /\ g[a] <= f[a] + 1
        BY <1>3
    <2> HIDE DEF U
    <2>5. g[a] + Sum(g, U) <= f[a] + Sum(f, U) + 1
        BY <2>3, <2>4
    <2> QED BY <2>1, <2>5
<1> QED BY <1>2, <1>3

-----------------------------------------------------------------------------
(* Numbers.                                                                *)

(***************************************************************************)
(* In a finite set that is not empty, some element is measured by a set    *)
(* that no other element's measure is smaller than.                        *)
(***************************************************************************)
LEMMA LeastMeasure ==
    ASSUME NEW S, IsFiniteSet(S), S # {}
    PROVE  \A f \in [S -> SUBSET S] :
               \E m \in S : \A y \in S : f[y] \subseteq f[m] => f[y] = f[m]
<1> TAKE f \in [S -> SUBSET S]
<1> DEFINE M == {f[m] : m \in S}
<1>1. M \subseteq SUBSET S /\ M # {}
    OBVIOUS
<1>2. PICK B \in M : \A T \in M : T \subseteq B => T = B
    <2> HIDE DEF M
    <2> QED BY <1>1, LeastSubset
<1> QED BY <1>2

(***************************************************************************)
(* A finite set of numbers that is not empty has a least and a greatest    *)
(* element: the one with the fewest below it, and above it.                *)
(***************************************************************************)
LEMMA MinMaxExist ==
    ASSUME NEW S \in SUBSET Nat, IsFiniteSet(S), S # {}
    PROVE  Min(S) \in S /\ Max(S) \in S
<1> DEFINE below == [m \in S |-> {y \in S : y < m}]
           above == [m \in S |-> {y \in S : y > m}]
<1>0. \A f \in [S -> SUBSET S] :
          \E m \in S : \A y \in S : f[y] \subseteq f[m] => f[y] = f[m]
    BY LeastMeasure
<1>1. \E m \in S : \A y \in S : m =< y
    <2>1. below \in [S -> SUBSET S]
        OBVIOUS
    <2>2. \A k \in S : below[k] = {y \in S : y < k}
        OBVIOUS
    <2> HIDE DEF below
    <2>3. PICK m \in S : \A y \in S : below[y] \subseteq below[m] => below[y] = below[m]
        BY <1>0, <2>1
    <2>4. ASSUME NEW y \in S, y < m PROVE FALSE
        <3>1. y \in below[m]
            BY <2>2, <2>4
        <3>2. y \notin below[y]
            BY <2>2
        <3>3. ASSUME NEW z \in below[y] PROVE z \in below[m]
            <4>1. z \in S /\ z < y
                BY <2>2
            <4>2. z < m
                BY <2>4, <4>1
            <4> QED BY <2>2, <4>1, <4>2
        <3> QED BY <2>3, <3>1, <3>2, <3>3
    <2> QED BY <2>4
<1>2. \E m \in S : \A y \in S : m >= y
    <2>1. above \in [S -> SUBSET S]
        OBVIOUS
    <2>2. \A k \in S : above[k] = {y \in S : y > k}
        OBVIOUS
    <2> HIDE DEF above
    <2>3. PICK m \in S : \A y \in S : above[y] \subseteq above[m] => above[y] = above[m]
        BY <1>0, <2>1
    <2>4. ASSUME NEW y \in S, y > m PROVE FALSE
        <3>1. y \in above[m]
            BY <2>2, <2>4
        <3>2. y \notin above[y]
            BY <2>2
        <3>3. ASSUME NEW z \in above[y] PROVE z \in above[m]
            <4>1. z \in S /\ z > y
                BY <2>2
            <4>2. z > m
                BY <2>4, <4>1
            <4> QED BY <2>2, <4>1, <4>2
        <3> QED BY <2>3, <3>1, <3>2, <3>3
    <2> QED BY <2>4
<1> QED BY <1>1, <1>2 DEF Min, Max

LEMMA SubscriptionsAreFinite ==
    ASSUME NEW S \in SUBSET Subscription
    PROVE  S \in SUBSET Nat /\ IsFiniteSet(S)
BY RequestsAssumption, FS_Subset

LEMMA ChosenIsSubscription ==
    /\ WithQuota # {} => Min(WithQuota) \in WithQuota
    /\ Running # {} => Max(Running) \in Running
    /\ WithQuota \subseteq Subscription /\ Running \subseteq Subscription
<1>1. WithQuota \in SUBSET Subscription /\ Running \in SUBSET Subscription
    BY DEF WithQuota, Running
<1> QED BY <1>1, SubscriptionsAreFinite, MinMaxExist

-----------------------------------------------------------------------------
(* What handlers in flight know.                                           *)

(***************************************************************************)
(* What a step may do to a row: leave it, delete it, insert it with an     *)
(* identity nobody knows, or write it and take no quota away.              *)
(***************************************************************************)
Kept(r) ==
    \/ request'[r] = request[r]
    \/ request'[r] = NoRow
    \/ /\ \A x \in Busy : r \notin session[x].on
       /\ request'[r] = [NoRow EXCEPT !.status = "PENDING"]
    \/ /\ r \in Rows
       /\ request[r].held => request'[r].held
       /\ request'[r].held => request'[r].of \in Subscription
       /\ request'[r].status \in Accepted => request'[r].held
       /\ request[r].of \in Subscription => request'[r].of \in Subscription

LEMMA RowFacts ==
    /\ NoRow \in RequestRow /\ NoRow.status = "none" /\ ~NoRow.held
    /\ [NoRow EXCEPT !.status = "PENDING"] \in RequestRow
    /\ [NoRow EXCEPT !.status = "PENDING"].status = "PENDING"
    /\ ~[NoRow EXCEPT !.status = "PENDING"].held
    /\ "PENDING" \notin Accepted /\ "none" \notin Accepted
BY DEF NoRow, RequestRow, Status, Accepted

(***************************************************************************)
(* Rows: what is accepted holds quota.                                     *)
(***************************************************************************)
LEMMA RowsKept ==
    ASSUME HandlersInvariant,
           request' \in [Request -> RequestRow], \A r \in Request : Kept(r)
    PROVE  /\ AcceptedHoldsQuota'
           /\ \A r \in Request : request'[r].held => request'[r].of \in Subscription
<1>1. ASSUME NEW r \in Request
      PROVE  /\ request'[r].held => request'[r].of \in Subscription
             /\ request'[r].status \in Accepted => request'[r].held
    BY RowFacts DEF Kept, HandlersInvariant, AcceptedHoldsQuota, ViewsHold
<1> QED BY <1>1 DEF AcceptedHoldsQuota

(***************************************************************************)
(* The view of a handler that stays in flight.                             *)
(***************************************************************************)
LEMMA ViewKept ==
    ASSUME HandlersInvariant, NEW x \in Busy, session'[x] = session[x],
           \A r \in Request : Kept(r)
    PROVE  \A r \in session[x].on \cap Rows' :
               /\ r \in Rows
               /\ session[x].op = "detect" => request'[r].held
               /\ session[x].op = "approve" /\ session[x].row.of \in Subscription =>
                      request'[r].of \in Subscription
<1> TAKE r \in session[x].on \cap Rows'
<1>1. r \in Request /\ request'[r].status # "none"
    BY DEF HandlersInvariant, Rows
<1>2. \/ request'[r] = request[r]
      \/ /\ r \in Rows
         /\ request[r].held => request'[r].held
         /\ request[r].of \in Subscription => request'[r].of \in Subscription
    BY <1>1, RowFacts DEF Kept
<1>3. r \in Rows
    BY <1>1, <1>2 DEF Rows
<1> QED BY <1>2, <1>3 DEF HandlersInvariant, ViewsHold

(***************************************************************************)
(* A step in which no handler begins.                                      *)
(***************************************************************************)
LEMMA NoneBegins ==
    ASSUME HandlersInvariant,
           request' \in [Request -> RequestRow], \A r \in Request : Kept(r),
           session' = [x \in Session |-> session'[x]],
           Busy' \subseteq Busy, \A x \in Busy' : session'[x] = session[x]
    PROVE  HandlersInvariant'
<1>1. AcceptedHoldsQuota' /\ \A r \in Request : request'[r].held => request'[r].of \in Subscription
    BY RowsKept
<1>2. \A x \in Busy' : session'[x].op \in Handler /\ session'[x].on \subseteq Request
    BY DEF HandlersInvariant
<1>3. \A x \in Takers' : session'[x].of \in Subscription
    BY DEF HandlersInvariant, ViewsHold, Takers
<1>4. \A x \in Busy' : \A r \in session'[x].on \cap Rows' :
          /\ session'[x].op = "detect" => request'[r].held
          /\ session'[x].op = "approve" /\ session'[x].row.of \in Subscription =>
                 request'[r].of \in Subscription
    BY ViewKept
<1>5. ViewsHold'
    BY <1>1, <1>3, <1>4 DEF ViewsHold
<1> QED BY <1>1, <1>2, <1>5 DEF HandlersInvariant

(***************************************************************************)
(* A handler begins with a view that is true now.                          *)
(***************************************************************************)
LEMMA OneBegins ==
    ASSUME HandlersInvariant,
           request' \in [Request -> RequestRow], \A r \in Request : Kept(r),
           NEW x \in Session, NEW view, Begin(x, view),
           view.op \in Handler, view.on \subseteq Request,
           view.op \in {"create", "approve"} => view.of \in Subscription,
           view.op = "detect" => \A r \in view.on : request'[r].held,
           view.op = "approve" =>
               \A r \in view.on : view.row.of \in Subscription => request'[r].of \in Subscription
    PROVE  HandlersInvariant'
<1>1. /\ session' = [session EXCEPT ![x] = view]
      /\ session = [y \in Session |-> session[y]]
    BY DEF Begin, HandlersInvariant
<1>2. /\ session' = [y \in Session |-> session'[y]]
      /\ session'[x] = view
      /\ \A y \in Session \ {x} : session'[y] = session[y]
    BY <1>1
<1>3. Busy' \subseteq Busy \cup {x} /\ \A y \in Busy' \ {x} : y \in Busy /\ session'[y] = session[y]
    BY <1>2 DEF Busy
<1>4. AcceptedHoldsQuota' /\ \A r \in Request : request'[r].held => request'[r].of \in Subscription
    BY RowsKept
<1>5. \A y \in Busy' : session'[y].op \in Handler /\ session'[y].on \subseteq Request
    BY <1>2, <1>3 DEF HandlersInvariant
<1>6. \A y \in Takers' : session'[y].of \in Subscription
    BY <1>2, <1>3 DEF HandlersInvariant, ViewsHold, Takers
<1>7. \A y \in Busy' : \A r \in session'[y].on \cap Rows' :
          /\ session'[y].op = "detect" => request'[r].held
          /\ session'[y].op = "approve" /\ session'[y].row.of \in Subscription =>
                 request'[r].of \in Subscription
    <2> SUFFICES ASSUME NEW y \in Busy', NEW r \in session'[y].on \cap Rows'
                 PROVE  /\ session'[y].op = "detect" => request'[r].held
                        /\ session'[y].op = "approve" /\ session'[y].row.of \in Subscription =>
                               request'[r].of \in Subscription
        OBVIOUS
    <2>1. CASE y = x
        BY <1>2, <2>1
    <2>2. CASE y # x
        BY <1>3, <2>2, ViewKept
    <2> QED BY <2>1, <2>2
<1>8. ViewsHold'
    BY <1>4, <1>6, <1>7 DEF ViewsHold
<1> QED BY <1>2, <1>4, <1>5, <1>8 DEF HandlersInvariant

LEMMA EndFacts ==
    ASSUME HandlersInvariant, NEW x \in Session, End(x)
    PROVE  /\ session' = [y \in Session |-> session'[y]]
           /\ Busy' = Busy \ {x} /\ \A y \in Busy' : session'[y] = session[y]
<1>1. session' = [session EXCEPT ![x] = Idle] /\ session = [y \in Session |-> session[y]]
    BY DEF End, HandlersInvariant
<1> QED BY <1>1 DEF Busy, Idle

(***************************************************************************)
(* A handler ends, and has written nothing or one row.                     *)
(***************************************************************************)
LEMMA EndsUnwritten ==
    ASSUME HandlersInvariant, NEW x \in Session, End(x), request' = request
    PROVE  HandlersInvariant'
<1>1. request' \in [Request -> RequestRow] /\ \A r \in Request : Kept(r)
    BY DEF HandlersInvariant, Kept
<1> QED BY <1>1, EndFacts, NoneBegins

LEMMA EndsWritten ==
    ASSUME HandlersInvariant, NEW x \in Session, End(x),
           NEW r \in Request, NEW row \in RequestRow, request' = [request EXCEPT ![r] = row],
           Kept(r)
    PROVE  HandlersInvariant'
<1>1. request' \in [Request -> RequestRow]
    BY DEF HandlersInvariant
<1>2. \A q \in Request : Kept(q)
    BY DEF HandlersInvariant, Kept
<1> QED BY <1>1, <1>2, EndFacts, NoneBegins

(***************************************************************************)
(* The rows that the ends of a creation and an approval write.             *)
(***************************************************************************)
LEMMA CreateAcceptedKeeps ==
    ASSUME HandlersInvariant, NEW x \in Session, CreateAccepted(x)
    PROVE  HandlersInvariant'
<1>1. PICK r \in session[x].on \cap Rows, st \in Accepted :
          request' = [request EXCEPT ![r] = [status |-> st, held |-> TRUE, of |-> Min(WithQuota)]]
    BY DEF CreateAccepted, TakeQuota
<1>2. Min(WithQuota) \in Subscription
    BY ChosenIsSubscription DEF CreateAccepted
<1>3. r \in Request /\ r \in Rows
    BY DEF Rows
<1>4. [status |-> st, held |-> TRUE, of |-> Min(WithQuota)] \in RequestRow
    BY <1>2 DEF RequestRow, Status
<1>5. request'[r] = [status |-> st, held |-> TRUE, of |-> Min(WithQuota)]
    BY <1>1, <1>3 DEF HandlersInvariant
<1>6. Kept(r)
    BY <1>2, <1>3, <1>5 DEF Kept
<1>7. End(x)
    BY DEF CreateAccepted
<1> QED BY <1>1, <1>3, <1>4, <1>6, <1>7, EndsWritten

LEMMA CreateUnfundedKeeps ==
    ASSUME HandlersInvariant, NEW x \in Session, CreateUnfunded(x)
    PROVE  HandlersInvariant'
<1> DEFINE row(r) == [request[r] EXCEPT !.status = "FAILED", !.of = session[x].of]
<1>1. PICK r \in session[x].on \cap Rows : request' = [request EXCEPT ![r] = row(r)]
    BY DEF CreateUnfunded, TakeQuota
<1>2. session[x].of \in Subscription
    BY DEF CreateUnfunded, HandlersInvariant, ViewsHold, Takers, Busy
<1>3. r \in Request /\ r \in Rows /\ request[r] \in RequestRow
    BY DEF Rows, HandlersInvariant
<1>4. /\ row(r) \in RequestRow
      /\ row(r).held = request[r].held /\ row(r).of \in Subscription /\ row(r).status = "FAILED"
    BY <1>2, <1>3 DEF RequestRow, Status
<1>5. request'[r] = row(r)
    BY <1>1, <1>3 DEF HandlersInvariant
<1>6. Kept(r)
    BY <1>3, <1>4, <1>5 DEF Kept, Accepted
<1>7. End(x)
    BY DEF CreateUnfunded
<1> QED BY <1>1, <1>3, <1>4, <1>6, <1>7, EndsWritten

\* A write of the status alone
LEMMA StatusKept ==
    ASSUME HandlersInvariant, NEW r \in Rows, NEW st \in Status,
           st \in Accepted => request[r].held,
           request'[r] = [request[r] EXCEPT !.status = st]
    PROVE  /\ r \in Request /\ Kept(r)
           /\ [request[r] EXCEPT !.status = st] \in RequestRow
<1>1. r \in Request /\ request[r] \in RequestRow
    BY DEF Rows, HandlersInvariant
<1>2. /\ request'[r].held = request[r].held /\ request'[r].of = request[r].of
      /\ request'[r].status = st
      /\ request'[r] \in RequestRow
    BY <1>1 DEF RequestRow
<1>3. request[r].held => request[r].of \in Subscription
    BY <1>1 DEF HandlersInvariant, ViewsHold
<1> QED BY <1>1, <1>2, <1>3 DEF Kept

LEMMA CreateRefusedKeeps ==
    ASSUME HandlersInvariant, NEW x \in Session, CreateRefused(x)
    PROVE  HandlersInvariant'
<1>1. PICK r \in session[x].on \cap Rows :
          request' = [request EXCEPT ![r] = [request[r] EXCEPT !.status = "FAILED"]]
    BY DEF CreateRefused
<1>2. r \in Request /\ request'[r] = [request[r] EXCEPT !.status = "FAILED"]
    BY <1>1 DEF Rows, HandlersInvariant
<1>3. Kept(r) /\ [request[r] EXCEPT !.status = "FAILED"] \in RequestRow
    BY <1>2, StatusKept DEF Status, Accepted
<1>4. End(x)
    BY DEF CreateRefused
<1> QED BY <1>1, <1>2, <1>3, <1>4, EndsWritten

LEMMA ApproveAcceptedKeeps ==
    ASSUME HandlersInvariant, NEW x \in Session, ApproveAccepted(x)
    PROVE  HandlersInvariant'
<1> DEFINE of(r) == Written(session[x].row.of, session[x].of, request[r].of)
           row(r, st) == [status |-> st, held |-> TRUE, of |-> of(r)]
<1>1. PICK r \in session[x].on \cap Rows, st \in Accepted :
          request' = [request EXCEPT ![r] = row(r, st)]
    BY DEF ApproveAccepted, TakeQuota
<1>2. x \in Busy /\ session[x].of \in Subscription
    BY DEF ApproveAccepted, HandlersInvariant, ViewsHold, Takers, Busy
<1>3. of(r) \in Subscription
    BY <1>2 DEF ApproveAccepted, HandlersInvariant, ViewsHold, Written
<1>4. r \in Request /\ r \in Rows
    BY DEF Rows
<1>5. row(r, st) \in RequestRow
    BY <1>3 DEF RequestRow, Status
<1>6. request'[r] = row(r, st)
    BY <1>1, <1>4 DEF HandlersInvariant
<1>7. Kept(r)
    BY <1>3, <1>4, <1>6 DEF Kept
<1>8. End(x)
    BY DEF ApproveAccepted
<1> QED BY <1>1, <1>4, <1>5, <1>7, <1>8, EndsWritten

LEMMA ApproveRefusedKeeps ==
    ASSUME HandlersInvariant, NEW x \in Session, ApproveRefused(x)
    PROVE  HandlersInvariant'
<1> DEFINE st(r) == Written(session[x].row.status, "FAILED", request[r].status)
<1>1. PICK r \in session[x].on \cap Rows :
          request' = [request EXCEPT ![r] = [request[r] EXCEPT !.status = st(r)]]
    BY DEF ApproveRefused
<1>2. r \in Request /\ request'[r] = [request[r] EXCEPT !.status = st(r)]
    BY <1>1 DEF Rows, HandlersInvariant
<1>3. st(r) \in Status /\ (st(r) \in Accepted => request[r].held)
    BY <1>2 DEF Written, Status, Accepted, HandlersInvariant, AcceptedHoldsQuota, RequestRow
<1>4. Kept(r) /\ [request[r] EXCEPT !.status = st(r)] \in RequestRow
    BY <1>2, <1>3, StatusKept
<1>5. End(x)
    BY DEF ApproveRefused
<1> QED BY <1>1, <1>2, <1>4, <1>5, EndsWritten

LEMMA DetectedKeeps ==
    ASSUME HandlersInvariant, NEW x \in Session, Detected(x)
    PROVE  HandlersInvariant'
<1>1. PICK found \in SUBSET session[x].on :
          /\ found \subseteq Rows
          /\ request' = [r \in Request |-> IF r \in found
                             THEN [request[r] EXCEPT !.status = "SUCCEEDED"] ELSE request[r]]
    BY DEF Detected
<1>2. \A r \in found : request[r].held
    BY <1>1 DEF Detected, HandlersInvariant, ViewsHold, Busy
<1>3. ASSUME NEW r \in Request PROVE Kept(r) /\ request'[r] \in RequestRow
    <2>1. CASE r \in found
        BY <1>1, <1>2, <2>1, StatusKept DEF Status, Accepted
    <2>2. CASE r \notin found
        BY <1>1, <2>2 DEF Kept, HandlersInvariant
    <2> QED BY <2>1, <2>2
<1>4. request' \in [Request -> RequestRow] /\ \A r \in Request : Kept(r)
    BY <1>1, <1>3
<1>5. End(x)
    BY DEF Detected
<1> QED BY <1>4, <1>5, EndFacts, NoneBegins

(***************************************************************************)
(* Handlers that begin.                                                    *)
(***************************************************************************)
LEMMA CreateKeeps ==
    ASSUME HandlersInvariant, NEW x \in Session, NEW r \in Request, Create(x, r)
    PROVE  HandlersInvariant'
<1>1. request' = [request EXCEPT ![r] = [NoRow EXCEPT !.status = "PENDING"]]
          /\ \A y \in Session : r \notin session[y].on
    BY DEF Create
<1>2. request' \in [Request -> RequestRow]
    BY <1>1, RowFacts DEF HandlersInvariant
<1>3. \A q \in Request : Kept(q)
    BY <1>1 DEF HandlersInvariant, Kept, Busy
<1>4. CASE ~ autoApprove
    <2>1. session' = session
        BY <1>4 DEF Create
    <2>2. session' = [y \in Session |-> session'[y]] /\ Busy' = Busy
        BY <2>1 DEF HandlersInvariant, Busy
    <2> QED BY <1>2, <1>3, <2>1, <2>2, NoneBegins
<1>5. CASE autoApprove
    <2> DEFINE view == [Idle EXCEPT !.op = "create", !.on = {r}, !.used = used,
                                    !.of = Max(Running)]
    <2>1. Begin(x, view) /\ Running # {}
        BY <1>5 DEF Create
    <2>2. Max(Running) \in Subscription
        BY <2>1, ChosenIsSubscription
    <2>3. view.op = "create" /\ view.on = {r} /\ view.of = Max(Running)
        BY DEF Idle
    <2> HIDE DEF view
    <2> QED BY <1>2, <1>3, <2>1, <2>2, <2>3, OneBegins DEF Handler
<1> QED BY <1>4, <1>5

LEMMA ApproveKeeps ==
    ASSUME HandlersInvariant, NEW x \in Session, NEW r \in Request, Approve(x, r)
    PROVE  HandlersInvariant'
<1> DEFINE view == [Idle EXCEPT !.op = "approve", !.on = {r}, !.row = request[r],
                                !.used = used, !.of = Min(WithQuota)]
<1>1. Begin(x, view) /\ WithQuota # {} /\ request' = request
    BY DEF Approve
<1>2. Min(WithQuota) \in Subscription
    BY <1>1, ChosenIsSubscription
<1>3. /\ view.op = "approve" /\ view.on = {r} /\ view.of = Min(WithQuota)
      /\ view.row = request[r]
    BY DEF Idle
<1>4. request' \in [Request -> RequestRow] /\ \A q \in Request : Kept(q)
    BY <1>1 DEF HandlersInvariant, Kept
<1> HIDE DEF view
<1> QED BY <1>1, <1>2, <1>3, <1>4, OneBegins DEF Handler

LEMMA RecountKeeps ==
    ASSUME HandlersInvariant, NEW x \in Session, NEW granted, NEW ended,
           Recount(x, granted, ended)
    PROVE  HandlersInvariant'
<1>1. PICK view : Begin(x, view) /\ view.op = "recount" /\ view.on = {}
    <2> DEFINE effective == (Running \ ended) \cup granted
               lapsed == Marked \ Running
               view == [Idle EXCEPT !.op = "recount", !.limit = limit, !.used = used,
                                    !.newLimit = Quota(effective), !.newUsed = Usage(effective),
                                    !.granted = granted, !.ended = ended \cup lapsed]
    <2>1. Begin(x, view)
        BY DEF Recount
    <2>2. view.op = "recount" /\ view.on = {}
        BY DEF Idle
    <2> QED BY <2>1, <2>2
<1>2. request' = request
    BY DEF Recount
<1>3. request' \in [Request -> RequestRow] /\ \A q \in Request : Kept(q)
    BY <1>2 DEF HandlersInvariant, Kept
<1> QED BY <1>1, <1>3, OneBegins DEF Handler

LEMMA EditKeeps ==
    ASSUME HandlersInvariant, NEW x \in Session, NEW granted, NEW ended,
           Edit(x, granted, ended)
    PROVE  HandlersInvariant'
<1>1. PICK l, u : Begin(x, [Idle EXCEPT !.op = "edit", !.limit = limit, !.used = used,
                                        !.newLimit = l, !.newUsed = u,
                                        !.granted = granted, !.ended = ended])
    BY DEF Edit
<1>2. PICK view : Begin(x, view) /\ view.op = "edit" /\ view.on = {}
    <2> DEFINE view == [Idle EXCEPT !.op = "edit", !.limit = limit, !.used = used,
                                    !.newLimit = l, !.newUsed = u,
                                    !.granted = granted, !.ended = ended]
    <2>1. Begin(x, view)
        BY <1>1
    <2>2. view.op = "edit" /\ view.on = {}
        BY DEF Idle
    <2> QED BY <2>1, <2>2
<1>3. request' = request
    BY DEF Edit
<1>4. request' \in [Request -> RequestRow] /\ \A q \in Request : Kept(q)
    BY <1>3 DEF HandlersInvariant, Kept
<1> QED BY <1>2, <1>4, OneBegins DEF Handler

LEMMA DetectKeeps ==
    ASSUME HandlersInvariant, NEW x \in Session, Detect(x)
    PROVE  HandlersInvariant'
<1> DEFINE view == [Idle EXCEPT !.op = "detect", !.on = Waiting]
<1>1. Begin(x, view) /\ request' = request
    BY DEF Detect
<1>2. view.op = "detect" /\ view.on = Waiting
    BY DEF Idle
<1>3. Waiting \subseteq Request /\ \A r \in Waiting : request[r].held
    BY DEF Waiting, HandlersInvariant, AcceptedHoldsQuota, Accepted
<1>4. request' \in [Request -> RequestRow] /\ \A q \in Request : Kept(q)
    BY <1>1 DEF HandlersInvariant, Kept
<1> HIDE DEF view
<1> QED BY <1>1, <1>2, <1>3, <1>4, OneBegins DEF Handler

(***************************************************************************)
(* Steps of one transaction, and steps that touch no request.              *)
(***************************************************************************)
LEMMA AtOnceKeeps ==
    ASSUME HandlersInvariant, session' = session,
           request' \in [Request -> RequestRow], \A r \in Request : Kept(r)
    PROVE  HandlersInvariant'
<1>1. session' = [x \in Session |-> session'[x]] /\ Busy' = Busy
    BY DEF HandlersInvariant, Busy
<1> QED BY <1>1, NoneBegins

LEMMA DeleteKeeps ==
    ASSUME HandlersInvariant, NEW R, Delete(R)
    PROVE  HandlersInvariant'
<1>1. session' = session
          /\ request' = [r \in Request |-> IF r \in R THEN NoRow ELSE request[r]]
    BY DEF Delete
<1>2. request' \in [Request -> RequestRow] /\ \A r \in Request : Kept(r)
    BY <1>1, RowFacts DEF HandlersInvariant, Kept
<1> QED BY <1>1, <1>2, AtOnceKeeps

LEMMA RejectKeeps ==
    ASSUME HandlersInvariant, NEW r \in Request, Reject(r)
    PROVE  HandlersInvariant'
<1>1. /\ r \in Rows /\ session' = session
      /\ request' = [request EXCEPT ![r] = [request[r] EXCEPT !.status = "REJECTED"]]
    BY DEF Reject
<1>2. request'[r] = [request[r] EXCEPT !.status = "REJECTED"]
    BY <1>1 DEF HandlersInvariant
<1>3. Kept(r) /\ [request[r] EXCEPT !.status = "REJECTED"] \in RequestRow
    BY <1>1, <1>2, StatusKept DEF Status, Accepted
<1>4. request' \in [Request -> RequestRow] /\ \A q \in Request : Kept(q)
    BY <1>1, <1>3 DEF HandlersInvariant, Kept
<1> QED BY <1>1, <1>4, AtOnceKeeps

LEMMA UntouchedKeeps ==
    ASSUME HandlersInvariant, request' = request, session' = session
    PROVE  HandlersInvariant'
<1>1. request' \in [Request -> RequestRow] /\ \A r \in Request : Kept(r)
    BY DEF HandlersInvariant, Kept
<1> QED BY <1>1, AtOnceKeeps

LEMMA InitHandlers == Init => HandlersInvariant
<1> SUFFICES ASSUME Init PROVE HandlersInvariant
    OBVIOUS
<1>1. \A r \in Request : request[r] = NoRow
    BY DEF Init
<1>2. Busy = {} /\ Takers = {}
    BY DEF Init, Busy, Takers, Idle
<1>3. request \in [Request -> RequestRow] /\ session = [x \in Session |-> session[x]]
    BY RowFacts DEF Init
<1>4. AcceptedHoldsQuota /\ ViewsHold
    BY <1>1, <1>2, RowFacts DEF AcceptedHoldsQuota, ViewsHold
<1> QED BY <1>2, <1>3, <1>4 DEF HandlersInvariant

LEMMA StepKeeps == HandlersInvariant /\ [Next]_vars => HandlersInvariant'
<1> SUFFICES ASSUME HandlersInvariant, [Next]_vars PROVE HandlersInvariant'
    OBVIOUS
<1>1. ASSUME NEW x \in Session, ByUser(x) PROVE HandlersInvariant'
    BY <1>1, CreateKeeps, CreateAcceptedKeeps, CreateUnfundedKeeps, CreateRefusedKeeps DEF ByUser
<1>2. ASSUME NEW x \in Session, ByAdmin(x) PROVE HandlersInvariant'
    <2>1. CASE Edited(x)
        BY <2>1, EndsUnwritten DEF Edited
    <2> QED BY <1>2, <2>1, ApproveKeeps, ApproveAcceptedKeeps, ApproveRefusedKeeps, EditKeeps
            DEF ByAdmin
<1>3. ASSUME NEW x \in Session, ByJob(x) PROVE HandlersInvariant'
    <2>1. CASE Recounted(x) \/ Abort(x)
        BY <2>1, EndsUnwritten DEF Recounted, Abort
    <2> QED BY <1>3, <2>1, RecountKeeps, DetectKeeps, DetectedKeeps DEF ByJob
<1>4. ASSUME NEW R \in SUBSET Request, Delete(R) PROVE HandlersInvariant'
    BY <1>4, DeleteKeeps
<1>5. ASSUME NEW r \in Request, Reject(r) PROVE HandlersInvariant'
    BY <1>5, RejectKeeps
<1>6. CASE UpdateSettings \/ (\E s \in Subscription : Lapse(s) \/ Extend(s)) \/ UNCHANGED vars
    BY <1>6, UntouchedKeeps DEF UpdateSettings, Lapse, Extend, vars
<1> QED BY <1>1, <1>2, <1>3, <1>4, <1>5, <1>6 DEF Next

(***************************************************************************)
(* Whichever handlers overlap, a request that MoviePilot was told to       *)
(* download holds quota of a subscription, and so does what the sync job   *)
(* completes (approve_vod_request, create_vod_request, _run_vod_sync).     *)
(***************************************************************************)
THEOREM AcceptedAlwaysHoldsQuota == Spec => []AcceptedHoldsQuota
<1>1. HandlersInvariant => AcceptedHoldsQuota
    BY DEF HandlersInvariant
<1>2. Spec => []HandlersInvariant
    BY InitHandlers, StepKeeps, PTL DEF Spec
<1> QED BY <1>1, <1>2, PTL

-----------------------------------------------------------------------------
(* The quota.                                                              *)

(***************************************************************************)
(* No request holds more than it did, what holds quota was accepted, and    *)
(* what an approval has in hand is deleted or names what it named.         *)
(***************************************************************************)
Released ==
    \A r \in Request :
        /\ request'[r].held => /\ request[r].held /\ request'[r].of = request[r].of
                               /\ request'[r].status \in Accepted \cup {"REJECTED"}
        /\ \/ \A x \in Takers : session[x].op = "approve" => r \notin session[x].on
           \/ request'[r].status = "none"
           \/ r \in Rows /\ request'[r].of = request[r].of

(***************************************************************************)
(* Request r takes quota of s.                                             *)
(***************************************************************************)
Taken(r, s) ==
    /\ Cardinality(HeldOf(s)) < Times[s]
    /\ ~ request[r].held
    /\ request'[r].held /\ request'[r].of = s /\ request'[r].status \in Accepted
    /\ \A q \in Request \ {r} : request'[q] = request[q]

LEMMA HeldIsFinite ==
    ASSUME NEW s \in Subscription
    PROVE  /\ IsFiniteSet(HeldOf(s)) /\ Cardinality(HeldOf(s)) \in Nat
           /\ \A T \in SUBSET HeldOf(s) : /\ Cardinality(T) \in Nat
                                          /\ Cardinality(T) <= Cardinality(HeldOf(s))
<1>1. HeldOf(s) \in SUBSET Request
    BY DEF HeldOf
<1>2. IsFiniteSet(HeldOf(s))
    BY <1>1, RequestsAssumption, FS_Subset
<1> QED BY <1>2, FS_CardinalityType, FS_Subset

LEMMA ReleasedHeld ==
    ASSUME Released, NEW s \in Subscription
    PROVE  /\ HeldOf(s)' \subseteq HeldOf(s)
           /\ Cardinality(HeldOf(s)') \in Nat
           /\ Cardinality(HeldOf(s)') <= Cardinality(HeldOf(s))
<1>1. HeldOf(s)' \subseteq HeldOf(s)
    BY DEF Released, HeldOf
<1> QED BY <1>1, HeldIsFinite

LEMMA ReleasedGivesBack ==
    ASSUME Released
    PROVE  Ledger!Next
<1>1. Ledger!GiveBack
    BY ReleasedHeld, HeldIsFinite DEF Ledger!GiveBack
<1> QED BY <1>1 DEF Ledger!Next

LEMMA TakenSpends ==
    ASSUME NEW r \in Request, NEW s \in Subscription, Taken(r, s)
    PROVE  Ledger!Next
<1>1. HeldOf(s)' = HeldOf(s) \cup {r} /\ r \notin HeldOf(s)
    BY DEF Taken, HeldOf
<1>2. Cardinality(HeldOf(s)') = Cardinality(HeldOf(s)) + 1
    BY <1>1, HeldIsFinite, FS_AddElement
<1>3. \A t \in Subscription \ {s} : HeldOf(t)' = HeldOf(t)
    BY DEF Taken, HeldOf
<1>4. Ledger!Spend(s)
    BY <1>2, <1>3 DEF Ledger!Spend, Taken
<1> QED BY <1>4 DEF Ledger!Next

(***************************************************************************)
(* What no step may disturb, stated once.                                  *)
(***************************************************************************)
Apart == HandlersInvariant /\ TakersApart /\ ApprovalsAreAlone

LEMMA ApartFacts ==
    ASSUME Apart
    PROVE  /\ \A r \in Request : request[r].held =>
                  r \in Rows /\ request[r].status \in Accepted \cup {"REJECTED"}
           /\ \A x \in Takers : \A r \in session[x].on : r \in Request /\ ~ request[r].held
           /\ \A x \in Takers : session[x].op = "approve" => session[x].of \in Subscription
BY DEF Apart, TakersApart, HandlersInvariant, ViewsHold, Takers, Rows, Accepted

(***************************************************************************)
(* No taker begins and no request takes quota.                             *)
(***************************************************************************)
LEMMA NoTakerBegins ==
    ASSUME Apart, Released,
           Takers' \subseteq Takers, \A x \in Takers' : session'[x] = session[x]
    PROVE  TakersApart'
<1>1. Takers' \subseteq Takers /\ \A x \in Takers' : session'[x] = session[x]
    OBVIOUS
<1>2. \A r \in Request : request'[r].held => request'[r].status \in Accepted \cup {"REJECTED"}
    BY DEF Released
<1>3. \A x \in Takers' : \A r \in session'[x].on \cap Rows' : ~ request'[r].held
    BY <1>1, ApartFacts DEF Released
<1>4. \A x, y \in Takers' : x # y =>
          session'[x].op = "create" /\ session'[x].on \cap session'[y].on = {}
    BY <1>1 DEF Apart, TakersApart
<1>5. \A x \in Takers' : session'[x].op = "approve" =>
          (Cardinality(HeldOf(session[x].of)) < Times[session[x].of])'
    <2> SUFFICES ASSUME NEW x \in Takers', session'[x].op = "approve"
                 PROVE  (Cardinality(HeldOf(session[x].of)) < Times[session[x].of])'
        OBVIOUS
    <2>1. PICK s \in Subscription : s = session[x].of /\ s = session'[x].of
        BY <1>1, ApartFacts
    <2>2. Cardinality(HeldOf(s)) < Times[s]
        BY <1>1, <2>1 DEF Apart, TakersApart
    <2>3. Times[s] \in Nat /\ Cardinality(HeldOf(s)) \in Nat
        BY RequestsAssumption, HeldIsFinite
    <2>4. Cardinality(HeldOf(s)') \in Nat /\ Cardinality(HeldOf(s)') <= Cardinality(HeldOf(s))
        BY ReleasedHeld
    <2>5. HeldOf(s)' = HeldOf(session[x].of)'
        BY <2>1 DEF HeldOf
    <2>6. Cardinality(HeldOf(s)') < Times[s]
        BY <2>2, <2>3, <2>4
    <2> QED BY <2>1, <2>5, <2>6
<1>6. ASSUME NEW x \in Takers', session'[x].op = "approve", NEW r \in session'[x].on \cap Rows'
      PROVE  request'[r].of = session'[x].row.of
    <2>1. x \in Takers /\ session'[x] = session[x] /\ r \in session[x].on
        BY <1>1
    <2>2. r \in Request /\ request'[r].status # "none"
        BY <2>1 DEF Rows
    <2>3. r \in Rows /\ request'[r].of = request[r].of
        BY <1>6, <2>1, <2>2 DEF Released
    <2> QED BY <1>6, <2>1, <2>3 DEF Apart, TakersApart
<1> QED BY <1>2, <1>3, <1>4, <1>5, <1>6 DEF TakersApart

(***************************************************************************)
(* A taker ends and its request takes quota: it was the only one, or all   *)
(* others are creations with requests of their own.                        *)
(***************************************************************************)
LEMMA TakerEnds ==
    ASSUME Apart, NEW x \in Takers, NEW r \in session[x].on, NEW s, Taken(r, s), End(x)
    PROVE  TakersApart'
<1>1. Takers' \subseteq Takers \ {x} /\ \A y \in Takers' : session'[y] = session[y]
    BY EndFacts DEF Apart, Takers, Busy
<1>2. \A y \in Takers' : session'[y].op = "create" /\ r \notin session'[y].on
    BY <1>1 DEF Apart, TakersApart
<1>3. \A q \in Request : request'[q].held => request'[q].status \in Accepted \cup {"REJECTED"}
    BY ApartFacts DEF Taken
<1>4. \A y \in Takers' : \A q \in session'[y].on \cap Rows' : ~ request'[q].held
    BY <1>1, <1>2, ApartFacts DEF Taken
<1>5. \A y, z \in Takers' : y # z =>
          session'[y].op = "create" /\ session'[y].on \cap session'[z].on = {}
    BY <1>1 DEF Apart, TakersApart
<1>6. \A y \in Takers' : session'[y].op # "approve"
    BY <1>2
<1> QED BY <1>3, <1>4, <1>5, <1>6 DEF TakersApart

(***************************************************************************)
(* A taker begins with request r, which holds nothing and which no other   *)
(* taker has; an approval has chosen a subscription with quota.            *)
(***************************************************************************)
LEMMA TakerBegins ==
    ASSUME Apart, Released, NEW x \in Session, NEW view, Begin(x, view),
           view.op \in {"create", "approve"},
           NEW r \in Request, view.on = {r}, ~ request'[r].held,
           \A y \in Session : view.op = "create" => r \notin session[y].on,
           view.op = "approve" =>
               /\ view.of \in Subscription
               /\ Cardinality(HeldOf(view.of)) < Times[view.of]
               /\ view.row.of = request'[r].of
    PROVE  TakersApart'
<1>1. session' = [session EXCEPT ![x] = view] /\ session = [y \in Session |-> session[y]]
    BY DEF Begin, Apart, HandlersInvariant
<1>2. /\ session'[x] = view
      /\ Takers' = Takers \cup {x}
      /\ \A y \in Takers' \ {x} : y \in Takers /\ session'[y] = session[y]
    BY <1>1 DEF Takers, Busy
<1>3. \A q \in Request : request'[q].held => request'[q].status \in Accepted \cup {"REJECTED"}
    BY DEF Released
<1>4. \A y \in Takers' : \A q \in session'[y].on \cap Rows' : ~ request'[q].held
    BY <1>2, ApartFacts DEF Released
<1>5. ASSUME NEW y \in Takers' \ {x}
      PROVE  view.op = "create" /\ session'[y].op = "create"
    <2>1. y \in Busy /\ session'[y] = session[y] /\ session[y].op \in {"create", "approve"}
        BY <1>2 DEF Takers
    <2>2. {view.op, session[y].op} \in Overlaps
        BY <2>1 DEF Begin
    <2>3. {"approve"} \notin Overlaps /\ {"approve", "create"} \notin Overlaps
        BY DEF Apart, ApprovalsAreAlone
    <2>4. CASE view.op = "approve" /\ session[y].op = "approve"
        BY <2>2, <2>3, <2>4
    <2>5. CASE view.op = "approve" /\ session[y].op = "create"
        BY <2>2, <2>3, <2>5
    <2>6. CASE view.op = "create" /\ session[y].op = "approve"
        <3>1. {view.op, session[y].op} = {"approve", "create"}
            BY <2>6
        <3> QED BY <2>2, <2>3, <3>1
    <2> QED BY <2>1, <2>4, <2>5, <2>6
<1>6. \A y, z \in Takers' : y # z =>
          session'[y].op = "create" /\ session'[y].on \cap session'[z].on = {}
    <2> SUFFICES ASSUME NEW y \in Takers', NEW z \in Takers', y # z
                 PROVE  session'[y].op = "create" /\ session'[y].on \cap session'[z].on = {}
        OBVIOUS
    <2>1. CASE y = x
        BY <1>2, <1>5, <2>1 DEF Takers, Busy
    <2>2. CASE z = x
        BY <1>2, <1>5, <2>2 DEF Takers, Busy
    <2>3. CASE y # x /\ z # x
        BY <1>2, <2>3 DEF Apart, TakersApart
    <2> QED BY <2>1, <2>2, <2>3
<1>7. \A y \in Takers' : session'[y].op = "approve" =>
          (Cardinality(HeldOf(session[y].of)) < Times[session[y].of])'
    <2> SUFFICES ASSUME NEW y \in Takers', session'[y].op = "approve"
                 PROVE  (Cardinality(HeldOf(session[y].of)) < Times[session[y].of])'
        OBVIOUS
    <2>1. y = x /\ view.op = "approve"
        BY <1>2, <1>5
    <2>2. PICK s \in Subscription : s = view.of /\ s = session'[y].of
        BY <1>2, <2>1
    <2>3. Times[s] \in Nat /\ Cardinality(HeldOf(s)) \in Nat
        BY RequestsAssumption, HeldIsFinite
    <2>4. Cardinality(HeldOf(s)') \in Nat /\ Cardinality(HeldOf(s)') <= Cardinality(HeldOf(s))
        BY ReleasedHeld
    <2>5. HeldOf(s)' = HeldOf(session[y].of)'
        BY <2>2 DEF HeldOf
    <2>6. Cardinality(HeldOf(s)') < Times[s]
        BY <2>1, <2>2, <2>3, <2>4
    <2> QED BY <2>2, <2>5, <2>6
<1>8. \A y \in Takers' : session'[y].op = "approve" =>
          \A q \in session'[y].on \cap Rows' : request'[q].of = session'[y].row.of
    BY <1>2, <1>5
<1> QED BY <1>3, <1>4, <1>6, <1>7, <1>8 DEF TakersApart

-----------------------------------------------------------------------------
(* Every step spends one use or gives some back.                           *)

LEMMA EndReleases ==
    ASSUME Apart, Released, NEW x \in Session, End(x)
    PROVE  TakersApart' /\ Ledger!Next
<1>1. Takers' \subseteq Takers /\ \A y \in Takers' : session'[y] = session[y]
    BY EndFacts DEF Apart, Takers
<1> QED BY <1>1, NoTakerBegins, ReleasedGivesBack

LEMMA AtOnceReleases ==
    ASSUME Apart, Released, session' = session
    PROVE  TakersApart' /\ Ledger!Next
<1>1. Takers' = Takers
    BY DEF Takers, Busy
<1> QED BY <1>1, NoTakerBegins, ReleasedGivesBack

LEMMA SameReleases ==
    ASSUME Apart, request' = request
    PROVE  Released
BY ApartFacts DEF Released, Rows

(***************************************************************************)
(* A taker that fails leaves its request without quota.  If it names       *)
(* another subscription, it was a creation, which no approval runs beside. *)
(***************************************************************************)
LEMMA FailureReleases ==
    ASSUME Apart, NEW x \in Takers, NEW r \in session[x].on \cap Rows, NEW row,
           request' = [request EXCEPT ![r] = row], row.held = request[r].held,
           row.of = request[r].of \/ session[x].op = "create"
    PROVE  Released
<1>1. r \in Request /\ ~ request[r].held
    BY ApartFacts
<1>2. request'[r] = row /\ \A q \in Request \ {r} : request'[q] = request[q]
    BY <1>1 DEF Apart, HandlersInvariant
<1>3. session[x].op = "create" => \A y \in Takers : session[y].op # "approve"
    BY DEF Apart, TakersApart
<1> QED BY <1>1, <1>2, <1>3, ApartFacts DEF Released, Rows

LEMMA CreateSteps ==
    ASSUME Apart, NEW x \in Session, NEW r \in Request, Create(x, r)
    PROVE  TakersApart' /\ Ledger!Next
<1>1. /\ request' = [request EXCEPT ![r] = [NoRow EXCEPT !.status = "PENDING"]]
      /\ \A y \in Session : r \notin session[y].on
    BY DEF Create
<1>2. /\ request'[r] = [NoRow EXCEPT !.status = "PENDING"]
      /\ \A q \in Request \ {r} : request'[q] = request[q]
    BY <1>1 DEF Apart, HandlersInvariant
<1>3. Released /\ ~ request'[r].held
    BY <1>1, <1>2, RowFacts, ApartFacts DEF Released, Rows, Takers, Busy
<1>4. CASE ~ autoApprove
    BY <1>3, <1>4, AtOnceReleases DEF Create
<1>5. CASE autoApprove
    <2> DEFINE view == [Idle EXCEPT !.op = "create", !.on = {r}, !.used = used,
                                    !.of = Max(Running)]
    <2>1. Begin(x, view)
        BY <1>5 DEF Create
    <2>2. view.op = "create" /\ view.on = {r}
        BY DEF Idle
    <2> HIDE DEF view
    <2> QED BY <1>1, <1>3, <2>1, <2>2, TakerBegins, ReleasedGivesBack
<1> QED BY <1>4, <1>5

LEMMA ApproveSteps ==
    ASSUME Apart, NEW x \in Session, NEW r \in Request, Approve(x, r)
    PROVE  TakersApart' /\ Ledger!Next
<1> DEFINE view == [Idle EXCEPT !.op = "approve", !.on = {r}, !.row = request[r],
                                !.used = used, !.of = Min(WithQuota)]
<1>1. Begin(x, view) /\ WithQuota # {} /\ request' = request
    BY DEF Approve
<1>2. Min(WithQuota) \in Subscription /\ Cardinality(HeldOf(Min(WithQuota))) < Times[Min(WithQuota)]
    BY <1>1, ChosenIsSubscription DEF WithQuota
<1>3. /\ view.op = "approve" /\ view.on = {r} /\ view.of = Min(WithQuota)
      /\ view.row = request[r]
    BY DEF Idle
<1>4. Released
    BY <1>1, SameReleases
<1>5. ~ request'[r].held
    BY <1>1, ApartFacts DEF Approve, Accepted
<1> HIDE DEF view
<1> QED BY <1>1, <1>2, <1>3, <1>4, <1>5, TakerBegins, ReleasedGivesBack

LEMMA CreateAcceptedSteps ==
    ASSUME Apart, NEW x \in Session, CreateAccepted(x)
    PROVE  TakersApart' /\ Ledger!Next
<1>1. x \in Takers /\ End(x)
    BY DEF CreateAccepted, Takers, Busy
<1>2. PICK r \in session[x].on, st \in Accepted :
          request' = [request EXCEPT ![r] = [status |-> st, held |-> TRUE, of |-> Min(WithQuota)]]
    BY DEF CreateAccepted, TakeQuota
<1>3. /\ Min(WithQuota) \in Subscription
      /\ Cardinality(HeldOf(Min(WithQuota))) < Times[Min(WithQuota)]
    BY ChosenIsSubscription DEF CreateAccepted, WithQuota
<1>4. r \in Request /\ ~ request[r].held
    BY <1>1, ApartFacts
<1>5. /\ request'[r] = [status |-> st, held |-> TRUE, of |-> Min(WithQuota)]
      /\ \A q \in Request \ {r} : request'[q] = request[q]
    BY <1>2, <1>4 DEF Apart, HandlersInvariant
<1>6. Taken(r, Min(WithQuota))
    BY <1>3, <1>4, <1>5 DEF Taken
<1> QED BY <1>1, <1>3, <1>4, <1>6, TakerEnds, TakenSpends

(***************************************************************************)
(* An approval writes the subscription it has chosen, or leaves the one it *)
(* read in the row, which is the same.                                     *)
(***************************************************************************)
LEMMA ApproveAcceptedSteps ==
    ASSUME Apart, NEW x \in Session, ApproveAccepted(x)
    PROVE  TakersApart' /\ Ledger!Next
<1>1. x \in Takers /\ End(x) /\ session[x].op = "approve"
    BY DEF ApproveAccepted, Takers, Busy
<1>2. PICK r \in session[x].on \cap Rows, st \in Accepted :
          request' = [request EXCEPT ![r] =
              [status |-> st, held |-> TRUE,
               of |-> Written(session[x].row.of, session[x].of, request[r].of)]]
    BY DEF ApproveAccepted, TakeQuota
<1>3. /\ session[x].of \in Subscription
      /\ Cardinality(HeldOf(session[x].of)) < Times[session[x].of]
    BY <1>1, ApartFacts DEF Apart, TakersApart
<1>4. /\ r \in Request /\ ~ request[r].held
      /\ request[r].of = session[x].row.of
    BY <1>1, ApartFacts DEF Apart, TakersApart
<1>5. Written(session[x].row.of, session[x].of, request[r].of) = session[x].of
    BY <1>4 DEF Written
<1>6. /\ request'[r] = [status |-> st, held |-> TRUE, of |-> session[x].of]
      /\ \A q \in Request \ {r} : request'[q] = request[q]
    BY <1>2, <1>4, <1>5 DEF Apart, HandlersInvariant
<1>7. Taken(r, session[x].of)
    BY <1>3, <1>4, <1>6 DEF Taken
<1> QED BY <1>1, <1>3, <1>4, <1>7, TakerEnds, TakenSpends

LEMMA FailureSteps ==
    ASSUME Apart, NEW x \in Session, CreateUnfunded(x) \/ CreateRefused(x) \/ ApproveRefused(x)
    PROVE  TakersApart' /\ Ledger!Next
<1>1. x \in Takers /\ End(x)
    BY DEF CreateUnfunded, CreateRefused, ApproveRefused, Takers, Busy
<1>2. \A r \in session[x].on \cap Rows : request[r] \in RequestRow
    BY ApartFacts, <1>1 DEF Apart, HandlersInvariant
<1>3. CASE CreateUnfunded(x)
    <2> DEFINE row(r) == [request[r] EXCEPT !.status = "FAILED", !.of = session[x].of]
    <2>1. PICK r \in session[x].on \cap Rows : request' = [request EXCEPT ![r] = row(r)]
        BY <1>3 DEF CreateUnfunded, TakeQuota
    <2>2. row(r).held = request[r].held /\ session[x].op = "create"
        BY <1>2, <1>3 DEF CreateUnfunded, RequestRow
    <2> HIDE DEF row
    <2> QED BY <1>1, <2>1, <2>2, FailureReleases, EndReleases
<1>4. ASSUME NEW st, NEW r \in session[x].on \cap Rows,
             request' = [request EXCEPT ![r] = [request[r] EXCEPT !.status = st]]
      PROVE  TakersApart' /\ Ledger!Next
    <2> DEFINE row == [request[r] EXCEPT !.status = st]
    <2>1. row.held = request[r].held /\ row.of = request[r].of
        BY <1>2 DEF RequestRow
    <2>2. request' = [request EXCEPT ![r] = row]
        BY <1>4
    <2> HIDE DEF row
    <2> QED BY <1>1, <2>1, <2>2, FailureReleases, EndReleases
<1>5. CASE CreateRefused(x)
    BY <1>4, <1>5 DEF CreateRefused
<1>6. CASE ApproveRefused(x)
    BY <1>4, <1>6 DEF ApproveRefused
<1> QED BY <1>3, <1>5, <1>6

(***************************************************************************)
(* A handler begins that takes no quota.                                   *)
(***************************************************************************)
LEMMA OtherBegins ==
    ASSUME Apart, NEW x \in Session, NEW view, Begin(x, view),
           view.op \in {"recount", "edit", "detect"}, request' = request
    PROVE  TakersApart' /\ Ledger!Next
<1>1. session' = [session EXCEPT ![x] = view] /\ session = [y \in Session |-> session[y]]
    BY DEF Begin, Apart, HandlersInvariant
<1>2. Takers' \subseteq Takers /\ \A y \in Takers' : session'[y] = session[y]
    BY <1>1 DEF Takers, Busy
<1> QED BY <1>2, SameReleases, NoTakerBegins, ReleasedGivesBack

LEMMA JobSteps ==
    ASSUME Apart, NEW x \in Session, ByJob(x)
    PROVE  TakersApart' /\ Ledger!Next
<1>1. CASE \E granted, ended : Recount(x, granted, ended)
    <2>1. PICK granted, ended : Recount(x, granted, ended)
        BY <1>1
    <2> DEFINE effective == (Running \ ended) \cup granted
               lapsed == Marked \ Running
               view == [Idle EXCEPT !.op = "recount", !.limit = limit, !.used = used,
                                    !.newLimit = Quota(effective), !.newUsed = Usage(effective),
                                    !.granted = granted, !.ended = ended \cup lapsed]
    <2>2. Begin(x, view) /\ request' = request
        BY <2>1 DEF Recount
    <2>3. view.op = "recount"
        BY DEF Idle
    <2> HIDE DEF view
    <2> QED BY <2>2, <2>3, OtherBegins
<1>2. CASE Detect(x)
    <2> DEFINE view == [Idle EXCEPT !.op = "detect", !.on = Waiting]
    <2>1. Begin(x, view) /\ request' = request
        BY <1>2 DEF Detect
    <2>2. view.op = "detect"
        BY DEF Idle
    <2> HIDE DEF view
    <2> QED BY <2>1, <2>2, OtherBegins
<1>3. CASE Recounted(x) \/ Abort(x)
    BY <1>3, SameReleases, EndReleases DEF Recounted, Abort
<1>4. CASE Detected(x)
    <2>1. PICK found \in SUBSET session[x].on :
              /\ found \subseteq Rows
              /\ request' = [r \in Request |-> IF r \in found
                                 THEN [request[r] EXCEPT !.status = "SUCCEEDED"] ELSE request[r]]
        BY <1>4 DEF Detected
    <2>2. \A r \in Request : request[r] \in RequestRow
        BY DEF Apart, HandlersInvariant
    <2>3. ASSUME NEW r \in Request
          PROVE  /\ request'[r].held = request[r].held /\ request'[r].of = request[r].of
                 /\ request'[r].status \in {request[r].status, "SUCCEEDED"}
                 /\ r \notin Rows => request'[r].status = "none"
        BY <2>1, <2>2 DEF RequestRow, Rows
    <2>4. Released
        BY <2>3, ApartFacts DEF Released, Accepted
    <2> QED BY <1>4, <2>4, EndReleases DEF Detected
<1> QED BY <1>1, <1>2, <1>3, <1>4 DEF ByJob

LEMMA EditSteps ==
    ASSUME Apart, NEW x \in Session, NEW granted, NEW ended, Edit(x, granted, ended)
    PROVE  TakersApart' /\ Ledger!Next
<1>1. PICK l, u : Begin(x, [Idle EXCEPT !.op = "edit", !.limit = limit, !.used = used,
                                        !.newLimit = l, !.newUsed = u,
                                        !.granted = granted, !.ended = ended])
    BY DEF Edit
<1> DEFINE view == [Idle EXCEPT !.op = "edit", !.limit = limit, !.used = used,
                                !.newLimit = l, !.newUsed = u,
                                !.granted = granted, !.ended = ended]
<1>2. Begin(x, view) /\ request' = request
    BY <1>1 DEF Edit
<1>3. view.op = "edit"
    BY DEF Idle
<1> HIDE DEF view
<1> QED BY <1>2, <1>3, OtherBegins

LEMMA EditedSteps ==
    ASSUME Apart, NEW x \in Session, Edited(x)
    PROVE  TakersApart' /\ Ledger!Next
BY SameReleases, EndReleases DEF Edited

LEMMA AtOnceSteps ==
    ASSUME Apart,
           \/ \E R \in SUBSET Request : Delete(R)
           \/ \E r \in Request : Reject(r)
           \/ UpdateSettings
           \/ \E s \in Subscription : Lapse(s) \/ Extend(s)
           \/ UNCHANGED vars
    PROVE  TakersApart' /\ Ledger!Next
<1>1. ASSUME NEW R \in SUBSET Request, Delete(R) PROVE TakersApart' /\ Ledger!Next
    <2>1. session' = session
              /\ request' = [r \in Request |-> IF r \in R THEN NoRow ELSE request[r]]
        BY <1>1 DEF Delete
    <2>2. Released
        BY <2>1, RowFacts, ApartFacts DEF Released, Rows
    <2> QED BY <2>1, <2>2, AtOnceReleases
<1>2. ASSUME NEW r \in Request, Reject(r) PROVE TakersApart' /\ Ledger!Next
    <2>1. /\ session' = session /\ r \in Rows
          /\ request' = [request EXCEPT ![r] = [request[r] EXCEPT !.status = "REJECTED"]]
        BY <1>2 DEF Reject
    <2>2. request \in [Request -> RequestRow]
        BY DEF Apart, HandlersInvariant
    <2>3. /\ request'[r].held = request[r].held /\ request'[r].of = request[r].of
          /\ request'[r].status = "REJECTED"
          /\ \A q \in Request \ {r} : request'[q] = request[q]
        BY <2>1, <2>2 DEF RequestRow
    <2>4. Released
        BY <2>1, <2>3, ApartFacts DEF Released, Rows
    <2> QED BY <2>1, <2>4, AtOnceReleases
<1>3. CASE UpdateSettings \/ (\E s \in Subscription : Lapse(s) \/ Extend(s)) \/ UNCHANGED vars
    BY <1>3, SameReleases, AtOnceReleases DEF UpdateSettings, Lapse, Extend, vars
<1> QED BY <1>1, <1>2, <1>3

LEMMA StepSpends == Apart /\ [Next]_vars => TakersApart' /\ Ledger!Next
<1> SUFFICES ASSUME Apart, [Next]_vars PROVE TakersApart' /\ Ledger!Next
    OBVIOUS
<1>1. ASSUME NEW x \in Session, ByUser(x) PROVE TakersApart' /\ Ledger!Next
    BY <1>1, CreateSteps, CreateAcceptedSteps, FailureSteps DEF ByUser
<1>2. ASSUME NEW x \in Session, ByAdmin(x) PROVE TakersApart' /\ Ledger!Next
    BY <1>2, ApproveSteps, ApproveAcceptedSteps, FailureSteps, EditSteps, EditedSteps DEF ByAdmin
<1>3. ASSUME NEW x \in Session, ByJob(x) PROVE TakersApart' /\ Ledger!Next
    BY <1>3, JobSteps
<1> QED BY <1>1, <1>2, <1>3, AtOnceSteps DEF Next

LEMMA InitLedger == Init => TakersApart /\ Ledger!Init
<1> SUFFICES ASSUME Init PROVE TakersApart /\ Ledger!Init
    OBVIOUS
<1>1. Takers = {} /\ \A r \in Request : ~ request[r].held
    BY RowFacts DEF Init, Takers, Busy, Idle
<1>2. TakersApart
    BY <1>1 DEF TakersApart
<1>3. \A s \in Subscription : HeldOf(s) = {}
    BY <1>1 DEF HeldOf
<1>4. \A s \in Subscription : Cardinality(HeldOf(s)) = 0
    BY <1>3, FS_EmptySet
<1> QED BY <1>2, <1>4 DEF Ledger!Init

(***************************************************************************)
(* If no handler that takes quota runs beside an approval, the handlers    *)
(* implement the quota: a subscription is spent one use at a time and      *)
(* never beyond its plan's number, whatever else overlaps (creations,      *)
(* recounts, the sync job, rejections and deletions).                      *)
(***************************************************************************)
THEOREM HandlersImplementQuota == ApprovalsAreAlone => (Spec => QuotaIsKept)
<1> SUFFICES ASSUME ApprovalsAreAlone PROVE Spec => QuotaIsKept
    OBVIOUS
<1>1. Init => Apart /\ Ledger!Init
    BY InitHandlers, InitLedger DEF Apart
<1>2. Apart /\ [Next]_vars => Apart' /\ Ledger!Next
    BY StepKeeps, StepSpends DEF Apart, ApprovalsAreAlone
<1> QED BY <1>1, <1>2, PTL DEF Spec, QuotaIsKept, Ledger!Spec

-----------------------------------------------------------------------------
(* What the requests hold of subscriptions, and the counter in the user's  *)
(* row.                                                                    *)

Holding == [s \in Subscription |-> Cardinality(HeldOf(s))]

LEMMA HoldingIsCounted == \A s \in Subscription : Holding[s] \in Nat
BY HeldIsFinite DEF Holding

LEMMA UsageIsSum == \A S \in SUBSET Subscription : Usage(S) = Sum(Holding, S)
<1> SUFFICES ASSUME NEW S \in SUBSET Subscription PROVE Usage(S) = Sum(Holding, S)
    OBVIOUS
<1> DEFINE Body(g) == [U \in SUBSET S |->
                          IF U = {} THEN 0
                          ELSE Cardinality(HeldOf(Some(U))) + g[U \ {Some(U)}]]
           h == CHOOSE g : g = Body(g)
           k == CHOOSE g : AddsUp(g, Holding, S)
<1>1. Usage(S) = h[S]
    BY DEF Usage, MapThenSumSet, MapThenFoldSet, Some
<1>2. Sum(Holding, S) = k[S]
    BY SumUnfolds
<1>3. \A U \in SUBSET S : U # {} => Holding[Some(U)] = Cardinality(HeldOf(Some(U)))
    BY DEF Some, Holding
<1>4. \A g : AddsUp(g, Holding, S) <=> g = Body(g)
    BY <1>3 DEF AddsUp
<1>5. IsFiniteSet(S)
    BY SubscriptionsAreFinite
<1>6. AddsUp(k, Holding, S)
    BY <1>5, AddsUpExists
<1>7. h = Body(h)
    <2> HIDE DEF Body, k
    <2> QED BY <1>4, <1>6
<1>8. AddsUp(h, Holding, S)
    BY <1>4, <1>7
<1> HIDE DEF h, k
<1>9. h[S] = k[S]
    BY <1>5, <1>6, <1>8, AddsUpOnce
<1> QED BY <1>1, <1>2, <1>9

LEMMA UsageIsSumNext == (\A S \in SUBSET Subscription : Usage(S) = Sum(Holding, S))'
BY UsageIsSum, PTL

LEMMA UsageFacts ==
    ASSUME NEW S \in SUBSET Subscription
    PROVE  /\ Usage(S) \in Nat
           /\ \A U \in SUBSET S : Usage(U) <= Usage(S)
<1>1. IsFiniteSet(S) /\ \A s \in S : Holding[s] \in Nat
    BY SubscriptionsAreFinite, HoldingIsCounted
<1>2. Sum(Holding, S) \in Nat /\ \A U \in SUBSET S : Sum(Holding, U) <= Sum(Holding, S)
    BY <1>1, SumIsNat, SumOfFewer
<1> QED BY <1>2, UsageIsSum

LEMMA QuotaIsNat == \A S \in SUBSET Subscription : Quota(S) \in Nat
<1> SUFFICES ASSUME NEW S \in SUBSET Subscription PROVE Quota(S) \in Nat
    OBVIOUS
<1>1. IsFiniteSet(S) /\ \A s \in S : Times[s] \in Nat
    BY SubscriptionsAreFinite, RequestsAssumption
<1>2. Quota(S) = Sum(Times, S)
    BY DEF Quota, Sum
<1> QED BY <1>1, <1>2, SumIsNat

(***************************************************************************)
(* Requests that let go of subscriptions lower the usage, and one request  *)
(* that is written raises it by one at most.                               *)
(***************************************************************************)
LEMMA UsageLowered ==
    ASSUME \A s \in Subscription : HeldOf(s)' \subseteq HeldOf(s)
    PROVE  \A S \in SUBSET Subscription : Usage(S)' \in Nat /\ Usage(S)' <= Usage(S)
<1> SUFFICES ASSUME NEW S \in SUBSET Subscription
             PROVE  Usage(S)' \in Nat /\ Usage(S)' <= Usage(S)
    OBVIOUS
<1>1. Usage(S)' = Sum(Holding', S) /\ Usage(S) = Sum(Holding, S)
    BY UsageIsSum, UsageIsSumNext
<1>2. ASSUME NEW s \in S
      PROVE  Holding[s] \in Nat /\ Holding'[s] \in Nat /\ Holding'[s] <= Holding[s]
    <2>1. Holding'[s] = Cardinality(HeldOf(s)') /\ Holding[s] = Cardinality(HeldOf(s))
        BY DEF Holding
    <2>2. HeldOf(s)' \in SUBSET HeldOf(s)
        OBVIOUS
    <2> QED BY <2>1, <2>2, HeldIsFinite
<1>3. IsFiniteSet(S)
    BY SubscriptionsAreFinite
<1> DEFINE f == Holding'
<1>4. \A s \in S : f[s] \in Nat /\ Holding[s] \in Nat /\ f[s] <= Holding[s]
    BY <1>2
<1> HIDE DEF f
<1>5. Sum(f, S) \in Nat /\ Sum(f, S) <= Sum(Holding, S)
    BY <1>3, <1>4, SumOfLess, SumIsNat
<1> QED BY <1>1, <1>5 DEF f

LEMMA UsageRaised ==
    ASSUME NEW r \in Request, \A q \in Request \ {r} : request'[q] = request[q]
    PROVE  \A S \in SUBSET Subscription : Usage(S)' \in Nat /\ Usage(S)' <= Usage(S) + 1
<1> SUFFICES ASSUME NEW S \in SUBSET Subscription
             PROVE  Usage(S)' \in Nat /\ Usage(S)' <= Usage(S) + 1
    OBVIOUS
<1> DEFINE f == Holding'
           a == request'[r].of
<1>1. Usage(S)' = Sum(f, S) /\ Usage(S) = Sum(Holding, S)
    BY UsageIsSum, UsageIsSumNext
<1>2. ASSUME NEW s \in S
      PROVE  /\ Holding[s] \in Nat /\ f[s] \in Nat /\ f[s] <= Holding[s] + 1
             /\ s # a => f[s] <= Holding[s]
    <2>1. f[s] = Cardinality(HeldOf(s)') /\ Holding[s] = Cardinality(HeldOf(s))
        BY DEF Holding
    <2>2. HeldOf(s)' \subseteq HeldOf(s) \cup {r}
        BY DEF HeldOf
    <2>3. s # a => HeldOf(s)' \subseteq HeldOf(s)
        BY DEF HeldOf
    <2>4. IsFiniteSet(HeldOf(s)) /\ Cardinality(HeldOf(s)) \in Nat
        BY HeldIsFinite
    <2>5. /\ IsFiniteSet(HeldOf(s) \cup {r})
          /\ Cardinality(HeldOf(s) \cup {r}) \in Nat
          /\ Cardinality(HeldOf(s) \cup {r}) <= Cardinality(HeldOf(s)) + 1
        <3>1. CASE r \in HeldOf(s)
            <4>1. HeldOf(s) \cup {r} = HeldOf(s)
                BY <3>1
            <4> QED BY <2>4, <4>1
        <3>2. CASE r \notin HeldOf(s)
            <4> DEFINE H == HeldOf(s)
            <4>1. IsFiniteSet(H) /\ Cardinality(H) \in Nat /\ r \notin H
                BY <2>4, <3>2
            <4> HIDE DEF H
            <4>2. IsFiniteSet(H \cup {r}) /\ Cardinality(H \cup {r}) = Cardinality(H) + 1
                BY <4>1, FS_AddElement
            <4>3. Cardinality(H) + 1 \in Nat /\ Cardinality(H) + 1 <= Cardinality(H) + 1
                BY <4>1
            <4>4. Cardinality(H \cup {r}) \in Nat /\ Cardinality(H \cup {r}) <= Cardinality(H) + 1
                BY <4>2, <4>3
            <4> QED BY <4>2, <4>4 DEF H
        <3> QED BY <3>1, <3>2
    <2>6. /\ Cardinality(HeldOf(s)') \in Nat
          /\ Cardinality(HeldOf(s)') <= Cardinality(HeldOf(s) \cup {r})
        BY <2>2, <2>5, FS_Subset, FS_CardinalityType
    <2>7. s # a => Cardinality(HeldOf(s)') <= Cardinality(HeldOf(s))
        BY <2>3, <2>4, FS_Subset, FS_CardinalityType
    <2> HIDE DEF f, a
    <2>8. Cardinality(HeldOf(s)') <= Cardinality(HeldOf(s)) + 1
        BY <2>4, <2>5, <2>6
    <2> QED BY <2>1, <2>4, <2>6, <2>7, <2>8
<1>3. IsFiniteSet(S)
    BY SubscriptionsAreFinite
<1> HIDE DEF f, a
<1>4. /\ \A s \in S : Holding[s] \in Nat /\ f[s] \in Nat
      /\ \A s \in S \ {a} : f[s] <= Holding[s]
      /\ a \in S => f[a] <= Holding[a] + 1
    BY <1>2
<1>5. Sum(f, S) \in Nat /\ Sum(f, S) <= Sum(Holding, S) + 1
    BY <1>3, <1>4, SumOfOneMore, SumIsNat
<1> QED BY <1>1, <1>5

(***************************************************************************)
(* What the counters and the rejections need: the columns and the counts   *)
(* in flight are numbers, and a handler that is alone has read the counter *)
(* that is still there, counts no fewer uses than its subscriptions will   *)
(* have, and works on no rejected request.                                 *)
(***************************************************************************)
Columns ==
    /\ limit \in Int /\ used \in Int
    /\ sub \in [Subscription -> Stage]
    /\ autoApprove \in BOOLEAN /\ overlapped \in BOOLEAN /\ edited \in BOOLEAN
    /\ \A r \in Request : request[r].held => r \in Rows

InFlight(v) ==
    /\ v.used \in Int /\ v.newLimit \in Int /\ v.newUsed \in Int
    /\ v.granted \subseteq Subscription

UpToDate(v) ==
    /\ v.op # "detect" => v.used = used
    /\ v.op = "recount" => Usage((Running \ v.ended) \cup v.granted) <= v.newUsed
    /\ \A r \in v.on \cap Rows : request[r].status # "REJECTED"

Covered == edited \/ Usage(Running) <= used

Undisturbed ==
    ~ overlapped =>
        /\ Covered
        /\ \A x \in Busy : UpToDate(session[x])
        /\ \A x, y \in Busy : x = y

Counters == Columns /\ (\A x \in Busy : InFlight(session[x])) /\ Undisturbed

StaysRejected(r) ==
    request[r].status = "REJECTED" => request'[r].status \in {"REJECTED", "none"} \/ overlapped'

Counted == Counters' /\ \A r \in Request : StaysRejected(r)

LEMMA RunningAreSubscriptions ==
    Running \in SUBSET Subscription /\ Running' \in SUBSET Subscription
BY DEF Running

(***************************************************************************)
(* A handler ends: nobody is in flight, if it was not disturbed.           *)
(***************************************************************************)
LEMMA EndCounts ==
    ASSUME HandlersInvariant, Counters, NEW x \in Busy, End(x), Columns',
           ~ overlapped => Covered',
           \A r \in Request : ~ overlapped => StaysRejected(r)
    PROVE  Counted
<1>1. Busy' = Busy \ {x} /\ \A y \in Busy' : session'[y] = session[y]
    BY EndFacts DEF Busy
<1>2. \A y \in Busy' : InFlight(session'[y])
    BY <1>1 DEF Counters
<1>3. overlapped' = overlapped
    BY DEF End
<1>4. ~ overlapped => Busy' = {}
    BY <1>1 DEF Counters, Undisturbed
<1>5. Undisturbed'
    BY <1>3, <1>4 DEF Undisturbed
<1>6. \A r \in Request : StaysRejected(r)
    BY <1>3 DEF StaysRejected
<1>7. (\A y \in Busy : InFlight(session[y]))'
    BY <1>2
<1> QED BY <1>5, <1>6, <1>7 DEF Counters, Counted

LEMMA BeginCounts ==
    ASSUME HandlersInvariant, Counters, NEW x \in Session, NEW view, Begin(x, view),
           Columns', InFlight(view),
           ~ overlapped => Covered' /\ UpToDate(view)',
           \A r \in Request : ~ overlapped => StaysRejected(r)
    PROVE  Counted
<1>1. session' = [session EXCEPT ![x] = view] /\ session = [y \in Session |-> session[y]]
    BY DEF Begin, HandlersInvariant
<1>2. /\ session'[x] = view
      /\ \A y \in Busy' \ {x} : y \in Busy /\ session'[y] = session[y]
    BY <1>1 DEF Busy
<1>3. (\A y \in Busy : InFlight(session[y]))'
    <2> SUFFICES ASSUME NEW y \in Busy' PROVE InFlight(session'[y])
        BY DEF InFlight
    <2> QED BY <1>2 DEF Counters
<1>4. ~ overlapped' => ~ overlapped /\ Busy = {}
    BY DEF Begin, Counters, Columns
<1>5. ~ overlapped' => \A y \in Busy' : y = x
    BY <1>2, <1>4
<1>6. ASSUME ~ overlapped' PROVE (\A y \in Busy : UpToDate(session[y]))'
    <2> SUFFICES ASSUME NEW y \in Busy' PROVE UpToDate(session[y])'
        OBVIOUS
    <2>1. session'[y] = view
        BY <1>2, <1>5, <1>6
    <2> QED BY <1>4, <1>6, <2>1
<1>7. Undisturbed'
    BY <1>4, <1>5, <1>6 DEF Undisturbed
<1>8. \A r \in Request : StaysRejected(r)
    BY <1>4 DEF StaysRejected
<1> QED BY <1>3, <1>7, <1>8 DEF Counted, Counters

(***************************************************************************)
(* A step at once: whoever is in flight is disturbed or stays up to date.  *)
(***************************************************************************)
LEMMA AtOnceCounts ==
    ASSUME HandlersInvariant, Counters, session' = session, Columns',
           overlapped => overlapped',
           ~ overlapped' => /\ Covered'
                            /\ \A x \in Busy : UpToDate(session[x])',
           \A r \in Request : ~ overlapped' => StaysRejected(r)
    PROVE  Counted
<1>1. Busy' = Busy
    BY DEF Busy
<1>2. (\A y \in Busy : InFlight(session[y]))'
    <2> SUFFICES ASSUME NEW y \in Busy' PROVE InFlight(session'[y])
        BY DEF InFlight
    <2> QED BY <1>1 DEF Counters
<1>3. ASSUME ~ overlapped' PROVE (\A y \in Busy : UpToDate(session[y]))'
    BY <1>1, <1>3
<1>4. ~ overlapped' => \A x, y \in Busy' : x = y
    BY <1>1 DEF Counters, Undisturbed
<1>5. Undisturbed'
    BY <1>3, <1>4 DEF Undisturbed
<1>6. \A r \in Request : StaysRejected(r)
    BY DEF StaysRejected
<1> QED BY <1>2, <1>5, <1>6 DEF Counted, Counters

(***************************************************************************)
(* Requests keep what they hold or let go of it.                           *)
(***************************************************************************)
HeldLowered == \A s \in Subscription : HeldOf(s)' \subseteq HeldOf(s)

LEMMA StillCovered ==
    ASSUME Columns, HeldLowered, used' = used, edited' = edited, Running' \subseteq Running,
           Covered
    PROVE  Covered'
<1>1. PICK S \in SUBSET Running : S = Running'
    OBVIOUS
<1>2. Running \in SUBSET Subscription /\ S \in SUBSET Subscription
    BY RunningAreSubscriptions
<1>3. Usage(S)' \in Nat /\ Usage(S)' <= Usage(S)
    BY <1>2, UsageLowered DEF HeldLowered
<1>4. Usage(S) \in Nat /\ Usage(Running) \in Nat /\ Usage(S) <= Usage(Running)
    BY <1>2, UsageFacts
<1>5. Usage(Running)' = Usage(S)'
    BY <1>1
<1>6. used \in Int
    BY DEF Columns
<1>7. Usage(Running) <= used => (Usage(Running) <= used)'
    BY <1>3, <1>4, <1>5, <1>6
<1> QED BY <1>7 DEF Covered

LEMMA StillUpToDate ==
    ASSUME Columns, HeldLowered, used' = used, Running' \subseteq Running,
           NEW v, InFlight(v), UpToDate(v),
           \A r \in v.on \cap Rows' : r \in Rows /\ request'[r].status \in {request[r].status, "PENDING"}
    PROVE  UpToDate(v)'
<1>1. v.op # "detect" => v.used = used'
    BY DEF UpToDate
<1>2. \A r \in v.on \cap Rows' : request'[r].status # "REJECTED"
    BY DEF UpToDate
<1>3. ASSUME v.op = "recount"
      PROVE  (Usage((Running \ v.ended) \cup v.granted) <= v.newUsed)'
    <2> DEFINE T == (Running \ v.ended) \cup v.granted
    <2>1. PICK S : S = (Running' \ v.ended) \cup v.granted
        OBVIOUS
    <2>2. T \in SUBSET Subscription /\ S \in SUBSET T /\ S \in SUBSET Subscription
        BY <2>1, RunningAreSubscriptions DEF InFlight
    <2>3. Usage(S)' \in Nat /\ Usage(S)' <= Usage(S)
        BY <2>2, UsageLowered DEF HeldLowered
    <2>4. Usage(T) <= v.newUsed /\ v.newUsed \in Int
        BY <1>3 DEF UpToDate, InFlight
    <2> HIDE DEF T
    <2>5. Usage(S) \in Nat /\ Usage(T) \in Nat /\ Usage(S) <= Usage(T)
        BY <2>2, UsageFacts
    <2>6. Usage(S)' <= v.newUsed
        BY <2>3, <2>4, <2>5
    <2> QED BY <2>1, <2>6
<1> QED BY <1>1, <1>2, <1>3 DEF UpToDate

(***************************************************************************)
(* A handler that ends with one row written.                               *)
(***************************************************************************)
LEMMA WrittenRow ==
    ASSUME HandlersInvariant, Counters, NEW r \in Rows, NEW row,
           request' = [request EXCEPT ![r] = row], row.status # "none",
           sub' = sub, limit' = limit, autoApprove' = autoApprove, overlapped' = overlapped,
           edited' = edited, used' \in Int
    PROVE  /\ Columns'
           /\ request'[r] = row /\ \A q \in Request \ {r} : request'[q] = request[q]
           /\ ~ overlapped /\ used' = used + 1 => Covered'
<1>1. /\ r \in Request /\ request'[r] = row
      /\ \A q \in Request \ {r} : request'[q] = request[q]
    BY DEF HandlersInvariant, Rows
<1>2. Columns'
    BY <1>1 DEF Counters, Columns, Rows
<1>3. ASSUME ~ overlapped, used' = used + 1 PROVE Covered'
    <2>1. PICK S \in SUBSET Subscription : S = Running /\ S = Running'
        BY DEF Running
    <2>2. Usage(S)' \in Nat /\ Usage(S)' <= Usage(S) + 1
        BY <1>1, UsageRaised
    <2>3. (edited \/ Usage(S) <= used) /\ used \in Int /\ Usage(S) \in Nat
        BY <1>3, <2>1, UsageFacts DEF Counters, Undisturbed, Columns, Covered
    <2>4. ~ edited => Usage(S)' <= used'
        BY <1>3, <2>2, <2>3
    <2> QED BY <2>1, <2>4 DEF Covered
<1> QED BY <1>1, <1>2, <1>3


LEMMA TakenCounts ==
    ASSUME HandlersInvariant, Counters, NEW x \in Busy, End(x), session[x].op # "detect",
           NEW r \in session[x].on \cap Rows, NEW row, TakeQuota(x, r, row),
           row.status # "none", sub' = sub, limit' = limit, edited' = edited
    PROVE  Counted
<1>1. /\ request' = [request EXCEPT ![r] = row] /\ used' = session[x].used + 1
      /\ autoApprove' = autoApprove /\ overlapped' = overlapped
    BY DEF TakeQuota, End
<1>2. used' \in Int
    BY <1>1 DEF Counters, InFlight
<1>3. ~ overlapped => used' = used + 1 /\ request[r].status # "REJECTED"
    BY <1>1 DEF Counters, Undisturbed, UpToDate
<1>4. Columns' /\ \A q \in Request \ {r} : request'[q] = request[q]
    BY <1>1, <1>2, WrittenRow
<1>5. ~ overlapped => Covered'
    BY <1>1, <1>2, <1>3, WrittenRow
<1>6. \A q \in Request : ~ overlapped => StaysRejected(q)
    BY <1>3, <1>4 DEF StaysRejected
<1> QED BY <1>4, <1>5, <1>6, EndCounts

LEMMA WrittenCounts ==
    ASSUME HandlersInvariant, Counters, NEW x \in Busy, End(x),
           NEW r \in session[x].on \cap Rows, NEW st \in Status,
           request' = [request EXCEPT ![r] = [request[r] EXCEPT !.status = st]],
           st # "none", UNCHANGED <<limit, used, sub, edited>>
    PROVE  Counted
<1> DEFINE row == [request[r] EXCEPT !.status = st]
<1>1. r \in Rows /\ r \in Request /\ request[r] \in RequestRow
    BY DEF Rows, HandlersInvariant
<1>2. row.held = request[r].held /\ row.of = request[r].of /\ row.status = st
    BY <1>1 DEF RequestRow
<1>3. autoApprove' = autoApprove /\ overlapped' = overlapped /\ used' \in Int
    BY DEF End, Counters, Columns
<1>4. request' = [request EXCEPT ![r] = row]
    OBVIOUS
<1> HIDE DEF row
<1>5. Columns' /\ request'[r] = row /\ \A q \in Request \ {r} : request'[q] = request[q]
    BY <1>1, <1>2, <1>3, <1>4, WrittenRow
<1>6. HeldLowered
    BY <1>1, <1>2, <1>5 DEF HeldLowered, HeldOf
<1>7. ~ overlapped => Covered'
    BY <1>6, StillCovered DEF Counters, Undisturbed, Running
<1>8. ~ overlapped => request[r].status # "REJECTED"
    BY <1>1 DEF Counters, Undisturbed, UpToDate
<1>9. \A q \in Request : ~ overlapped => StaysRejected(q)
    BY <1>5, <1>8 DEF StaysRejected
<1> QED BY <1>5, <1>7, <1>9, EndCounts

LEMMA TakerEndCounts ==
    ASSUME HandlersInvariant, Counters, NEW x \in Session,
           CreateAccepted(x) \/ CreateUnfunded(x) \/ ApproveAccepted(x)
    PROVE  Counted
<1>1. x \in Busy /\ End(x) /\ session[x].op # "detect" /\ sub' = sub /\ limit' = limit
          /\ edited' = edited
    BY DEF CreateAccepted, CreateUnfunded, ApproveAccepted, Busy
<1>2. \E r \in session[x].on \cap Rows : \E row : TakeQuota(x, r, row) /\ row.status # "none"
    <2>1. CASE CreateAccepted(x)
        <3>1. PICK r \in session[x].on \cap Rows, st \in Accepted :
                  TakeQuota(x, r, [status |-> st, held |-> TRUE, of |-> Min(WithQuota)])
            BY <2>1 DEF CreateAccepted
        <3> DEFINE row == [status |-> st, held |-> TRUE, of |-> Min(WithQuota)]
        <3>2. TakeQuota(x, r, row) /\ row.status # "none"
            BY <3>1 DEF Accepted
        <3> QED BY <3>2
    <2>2. CASE CreateUnfunded(x)
        <3>1. PICK r \in session[x].on \cap Rows :
                  TakeQuota(x, r, [request[r] EXCEPT !.status = "FAILED", !.of = session[x].of])
            BY <2>2 DEF CreateUnfunded
        <3> DEFINE row == [request[r] EXCEPT !.status = "FAILED", !.of = session[x].of]
        <3>2. request[r] \in RequestRow
            BY DEF Rows, HandlersInvariant
        <3>3. TakeQuota(x, r, row) /\ row.status # "none"
            BY <3>1, <3>2 DEF RequestRow
        <3> QED BY <3>3
    <2>3. CASE ApproveAccepted(x)
        <3>1. PICK r \in session[x].on \cap Rows, st \in Accepted :
                  TakeQuota(x, r, [status |-> st, held |-> TRUE,
                                   of |-> Written(session[x].row.of, session[x].of, request[r].of)])
            BY <2>3 DEF ApproveAccepted
        <3> DEFINE row == [status |-> st, held |-> TRUE,
                           of |-> Written(session[x].row.of, session[x].of, request[r].of)]
        <3>2. TakeQuota(x, r, row) /\ row.status # "none"
            BY <3>1 DEF Accepted
        <3> QED BY <3>2
    <2> QED BY <2>1, <2>2, <2>3
<1>3. PICK r \in session[x].on \cap Rows : \E row : TakeQuota(x, r, row) /\ row.status # "none"
    BY <1>2
<1>4. PICK row : TakeQuota(x, r, row) /\ row.status # "none"
    BY <1>3
<1> QED BY <1>1, <1>4, TakenCounts

LEMMA RefusedCounts ==
    ASSUME HandlersInvariant, Counters, NEW x \in Session,
           CreateRefused(x) \/ ApproveRefused(x)
    PROVE  Counted
<1>1. x \in Busy /\ End(x) /\ UNCHANGED <<limit, used, sub, edited>>
    BY DEF CreateRefused, ApproveRefused, Busy
<1>2. PICK r \in session[x].on \cap Rows, st \in Status \ {"none"} :
          request' = [request EXCEPT ![r] = [request[r] EXCEPT !.status = st]]
    <2>1. CASE CreateRefused(x)
        BY <2>1 DEF CreateRefused, Status
    <2>2. CASE ApproveRefused(x)
        <3> DEFINE st(r) == Written(session[x].row.status, "FAILED", request[r].status)
        <3>1. PICK r \in session[x].on \cap Rows :
                  request' = [request EXCEPT ![r] = [request[r] EXCEPT !.status = st(r)]]
            BY <2>2 DEF ApproveRefused
        <3>2. st(r) \in Status \ {"none"}
            BY DEF Written, Rows, HandlersInvariant, RequestRow, Status
        <3> QED BY <3>1, <3>2
    <2> QED BY <2>1, <2>2
<1> QED BY <1>1, <1>2, WrittenCounts

LEMMA DetectedCounts ==
    ASSUME HandlersInvariant, Counters, NEW x \in Session, Detected(x)
    PROVE  Counted
<1>1. PICK found \in SUBSET session[x].on :
          /\ found \subseteq Rows
          /\ request' = [r \in Request |-> IF r \in found
                             THEN [request[r] EXCEPT !.status = "SUCCEEDED"] ELSE request[r]]
    BY DEF Detected
<1>2. x \in Busy /\ End(x) /\ UNCHANGED <<limit, used, sub, autoApprove, overlapped, edited>>
    BY DEF Detected, Busy, End
<1>3. ASSUME NEW r \in Request
      PROVE  /\ request'[r].held = request[r].held /\ request'[r].of = request[r].of
             /\ r \notin found => request'[r] = request[r]
             /\ r \in found => request'[r].status = "SUCCEEDED"
    BY <1>1 DEF HandlersInvariant, RequestRow
<1>4. HeldLowered
    BY <1>3 DEF HeldLowered, HeldOf
<1>5. Columns'
    BY <1>2, <1>3 DEF Counters, Columns, Rows
<1>6. ~ overlapped => Covered'
    BY <1>2, <1>4, StillCovered DEF Counters, Undisturbed, Running
<1>7. \A r \in found : ~ overlapped => request[r].status # "REJECTED"
    BY <1>1, <1>2 DEF Counters, Undisturbed, UpToDate
<1>8. \A r \in Request : ~ overlapped => StaysRejected(r)
    BY <1>3, <1>7 DEF StaysRejected
<1> QED BY <1>2, <1>5, <1>6, <1>8, EndCounts

LEMMA AbortCounts ==
    ASSUME HandlersInvariant, Counters, NEW x \in Session, Abort(x)
    PROVE  Counted
<1>1. x \in Busy /\ End(x) /\ UNCHANGED <<request, limit, used, sub, autoApprove, overlapped, edited>>
    BY DEF Abort, End
<1>2. Columns' /\ HeldLowered
    BY <1>1 DEF Counters, Columns, Rows, HeldLowered, HeldOf
<1>3. ~ overlapped => Covered'
    BY <1>1, <1>2, StillCovered DEF Counters, Undisturbed, Running
<1> QED BY <1>1, <1>2, <1>3, EndCounts DEF StaysRejected

(***************************************************************************)
(* The recount writes what it has counted, which covers the subscriptions  *)
(* that run when it commits.                                               *)
(***************************************************************************)
LEMMA RecountedCounts ==
    ASSUME HandlersInvariant, Counters, NEW x \in Session, Recounted(x)
    PROVE  Counted
<1> DEFINE v == session[x]
<1>1. /\ x \in Busy /\ End(x) /\ request' = request /\ v.op = "recount"
      /\ autoApprove' = autoApprove /\ overlapped' = overlapped /\ edited' = FALSE
      /\ limit' = Written(v.limit, v.newLimit, limit)
      /\ used'  = Written(v.used, v.newUsed, used)
      /\ sub' = [s \in Subscription |-> CASE s \in v.ended   -> "over"
                                          [] s \in v.granted -> "running"
                                          [] OTHER           -> sub[s]]
    BY DEF Recounted, End, Busy
<1>2. InFlight(v)
    BY <1>1 DEF Counters
<1> HIDE DEF v
<1>3. limit' \in Int /\ used' \in Int
    BY <1>1, <1>2 DEF Written, InFlight, Counters, Columns
<1>4. sub' \in [Subscription -> Stage]
    BY <1>1 DEF Counters, Columns, Stage
<1>5. Columns'
    BY <1>1, <1>3, <1>4 DEF Counters, Columns, Rows
<1>6. ASSUME ~ overlapped PROVE Covered'
    <2> DEFINE T == (Running \ v.ended) \cup v.granted
    <2>1. UpToDate(v)
        BY <1>1, <1>6 DEF Counters, Undisturbed, v
    <2>2. v.used = used /\ Usage(T) <= v.newUsed
        BY <1>1, <2>1 DEF UpToDate
    <2>3. used' = v.newUsed
        BY <1>1, <2>2 DEF Written
    <2>4. Running' \subseteq T
        BY <1>1 DEF Running
    <2>5. PICK S : S = Running'
        OBVIOUS
    <2>6. T \in SUBSET Subscription /\ S \in SUBSET T /\ S \in SUBSET Subscription
        BY <1>2, <2>4, <2>5, RunningAreSubscriptions DEF InFlight
    <2> HIDE DEF T
    <2>7. Usage(S) <= Usage(T) /\ Usage(S) \in Nat /\ Usage(T) \in Nat
        BY <2>6, UsageFacts
    <2>8. HeldLowered
        BY <1>1 DEF HeldLowered, HeldOf
    <2>9. Usage(S)' <= Usage(S) /\ Usage(S)' \in Nat
        BY <2>6, <2>8, UsageLowered DEF HeldLowered
    <2>10. v.newUsed \in Int
        BY <1>2 DEF InFlight
    <2>11. Usage(S)' <= used'
        BY <2>2, <2>3, <2>7, <2>9, <2>10
    <2> QED BY <2>5, <2>11 DEF Covered
<1> QED BY <1>1, <1>5, <1>6, EndCounts DEF StaysRejected

(***************************************************************************)
(* Handlers that begin.                                                    *)
(***************************************************************************)
LEMMA BeginsUnwritten ==
    ASSUME HandlersInvariant, Counters, NEW x \in Session, NEW view, Begin(x, view),
           InFlight(view), UNCHANGED <<request, limit, used, sub, autoApprove, edited>>,
           ~ overlapped => UpToDate(view)
    PROVE  Counted
<1>1. overlapped' \in BOOLEAN
    BY DEF Begin
<1>2. Columns' /\ HeldLowered /\ Running' = Running /\ Rows' = Rows
    BY <1>1 DEF Counters, Columns, Rows, HeldLowered, HeldOf, Running
<1>3. ~ overlapped => Covered'
    BY <1>2, StillCovered DEF Counters, Undisturbed
<1>4. ~ overlapped => UpToDate(view)'
    BY <1>2, StillUpToDate DEF Counters
<1> QED BY <1>2, <1>3, <1>4, BeginCounts DEF StaysRejected

LEMMA CreateCounts ==
    ASSUME HandlersInvariant, Counters, NEW x \in Session, NEW r \in Request, Create(x, r)
    PROVE  Counted
<1>1. /\ request' = [request EXCEPT ![r] = [NoRow EXCEPT !.status = "PENDING"]]
      /\ r \notin Rows /\ \A y \in Session : r \notin session[y].on
      /\ UNCHANGED <<limit, used, sub, autoApprove, edited>>
    BY DEF Create
<1>2. /\ request'[r] = [NoRow EXCEPT !.status = "PENDING"]
      /\ \A q \in Request \ {r} : request'[q] = request[q]
    BY <1>1 DEF HandlersInvariant
<1>3. overlapped' \in BOOLEAN
    BY DEF Create, Begin, Counters, Columns
<1>4. Columns' /\ HeldLowered
    BY <1>1, <1>2, <1>3, RowFacts DEF Counters, Columns, Rows, HeldLowered, HeldOf
<1>5. Running' = Running
    BY <1>1 DEF Running
<1>6. ~ overlapped => Covered'
    BY <1>1, <1>4, <1>5, StillCovered DEF Counters, Undisturbed
<1>7. \A q \in Request : StaysRejected(q)
    BY <1>1, <1>2 DEF StaysRejected, Rows
<1>8. CASE ~ autoApprove
    <2>1. session' = session /\ overlapped' = overlapped
        BY <1>8 DEF Create
    <2>2. ASSUME ~ overlapped, NEW y \in Busy PROVE UpToDate(session[y])'
        <3>1. PICK v : v = session[y]
            OBVIOUS
        <3>2. y \in Session /\ InFlight(v) /\ UpToDate(v)
            BY <2>2, <3>1 DEF Counters, Undisturbed, Busy
        <3>3. v.on \subseteq Request /\ r \notin v.on
            BY <1>1, <3>1, <3>2 DEF HandlersInvariant
        <3>4. \A q \in v.on \cap Rows' : q \in Rows /\ request'[q].status = request[q].status
            BY <1>2, <3>3 DEF Rows
        <3>5. UpToDate(v)'
            BY <1>1, <1>4, <1>5, <3>2, <3>4, StillUpToDate DEF Counters
        <3>6. v = session'[y]
            BY <2>1, <3>1
        <3> QED BY <3>5, <3>6
    <2> QED BY <1>4, <1>6, <1>7, <2>1, <2>2, AtOnceCounts
<1>9. CASE autoApprove
    <2> DEFINE w == [Idle EXCEPT !.op = "create", !.on = {r}, !.used = used,
                                 !.of = Max(Running)]
    <2>1. PICK view : view = w
        OBVIOUS
    <2>2. Begin(x, view)
        BY <1>9, <2>1 DEF Create
    <2>3. /\ view.op = "create" /\ view.on = {r} /\ view.used = used
          /\ view.newLimit = 0 /\ view.newUsed = 0 /\ view.granted = {}
        BY <2>1 DEF Idle
    <2> HIDE DEF w
    <2>4. InFlight(view)
        BY <2>3 DEF InFlight, Counters, Columns
    <2>5. UpToDate(view)'
        BY <1>1, <1>2, <2>3, RowFacts DEF UpToDate
    <2> QED BY <1>4, <1>6, <1>7, <2>2, <2>4, <2>5, BeginCounts
<1> QED BY <1>8, <1>9

LEMMA ApproveCounts ==
    ASSUME HandlersInvariant, Counters, NEW x \in Session, NEW r \in Request, Approve(x, r)
    PROVE  Counted
<1> DEFINE w == [Idle EXCEPT !.op = "approve", !.on = {r}, !.row = request[r],
                             !.used = used, !.of = Min(WithQuota)]
<1>1. PICK view : view = w
    OBVIOUS
<1>2. Begin(x, view) /\ UNCHANGED <<request, limit, used, sub, autoApprove, edited>>
    BY <1>1 DEF Approve
<1>3. /\ view.op = "approve" /\ view.on = {r} /\ view.used = used
      /\ view.newLimit = 0 /\ view.newUsed = 0 /\ view.granted = {}
    BY <1>1 DEF Idle
<1> HIDE DEF w
<1>4. InFlight(view)
    BY <1>3 DEF InFlight, Counters, Columns
<1>5. UpToDate(view)
    BY <1>3 DEF UpToDate, Approve
<1> QED BY <1>2, <1>4, <1>5, BeginsUnwritten

LEMMA RecountCounts ==
    ASSUME HandlersInvariant, Counters, NEW x \in Session, NEW granted, NEW ended,
           Recount(x, granted, ended)
    PROVE  Counted
<1> DEFINE effective == (Running \ ended) \cup granted
           lapsed == Marked \ Running
           w == [Idle EXCEPT !.op = "recount", !.limit = limit, !.used = used,
                             !.newLimit = Quota(effective), !.newUsed = Usage(effective),
                             !.granted = granted, !.ended = ended \cup lapsed]
<1>1. PICK view : view = w
    OBVIOUS
<1>2. Begin(x, view) /\ UNCHANGED <<request, limit, used, sub, autoApprove, edited>>
    BY <1>1 DEF Recount
<1>3. granted \subseteq Subscription /\ effective \in SUBSET Subscription
    BY RunningAreSubscriptions DEF Recount
<1>4. /\ view.op = "recount" /\ view.on = {} /\ view.used = used
      /\ view.newLimit = Quota(effective) /\ view.newUsed = Usage(effective)
      /\ view.granted = granted /\ view.ended = ended \cup lapsed
    BY <1>1 DEF Idle
<1>5. (Running \ view.ended) \cup view.granted \in SUBSET effective
    BY <1>4
<1> HIDE DEF w, effective, lapsed
<1>6. Quota(effective) \in Nat /\ Usage(effective) \in Nat
    BY <1>3, QuotaIsNat, UsageFacts
<1>7. InFlight(view)
    BY <1>3, <1>4, <1>6 DEF InFlight, Counters, Columns
<1>8. UpToDate(view)
    BY <1>3, <1>4, <1>5, UsageFacts DEF UpToDate
<1> QED BY <1>2, <1>7, <1>8, BeginsUnwritten

(***************************************************************************)
(* An edit of plans and counters begins, commits, and an extension is      *)
(* committed at once: none of them counts.                                 *)
(***************************************************************************)
LEMMA EditCounts ==
    ASSUME HandlersInvariant, Counters, NEW x \in Session, NEW granted, NEW ended,
           Edit(x, granted, ended)
    PROVE  Counted
<1>1. PICK l, u : /\ l \in {limit, Quota(granted)} \cup Entered /\ u \in {used} \cup Entered
                  /\ Begin(x, [Idle EXCEPT !.op = "edit", !.limit = limit, !.used = used,
                                           !.newLimit = l, !.newUsed = u,
                                           !.granted = granted, !.ended = ended])
    BY DEF Edit
<1>2. PICK view : view = [Idle EXCEPT !.op = "edit", !.limit = limit, !.used = used,
                                      !.newLimit = l, !.newUsed = u,
                                      !.granted = granted, !.ended = ended]
    OBVIOUS
<1>3. /\ view.op = "edit" /\ view.on = {} /\ view.used = used
      /\ view.newLimit = l /\ view.newUsed = u /\ view.granted = granted
    BY <1>2 DEF Idle
<1>4. Begin(x, view) /\ UNCHANGED <<request, limit, used, sub, autoApprove, edited>>
    BY <1>1, <1>2 DEF Edit
<1>5. granted \in SUBSET Subscription
    BY DEF Edit, Known
<1>6. used \in Int /\ l \in Int /\ u \in Int
    BY <1>1, <1>5, QuotaIsNat, RequestsAssumption DEF Counters, Columns
<1>7. InFlight(view)
    BY <1>3, <1>5, <1>6 DEF InFlight
<1>8. UpToDate(view)
    BY <1>3 DEF UpToDate
<1> QED BY <1>4, <1>7, <1>8, BeginsUnwritten

LEMMA EditedCounts ==
    ASSUME HandlersInvariant, Counters, NEW x \in Session, Edited(x)
    PROVE  Counted
<1> DEFINE v == session[x]
<1>1. /\ x \in Busy /\ End(x) /\ request' = request
      /\ autoApprove' = autoApprove /\ overlapped' = overlapped /\ edited' = TRUE
      /\ limit' = Written(v.limit, v.newLimit, limit)
      /\ used'  = Written(v.used, v.newUsed, used)
    BY DEF Edited, End, Busy
<1>2. InFlight(v)
    BY <1>1 DEF Counters
<1> HIDE DEF v
<1>3. limit' \in Int /\ used' \in Int
    BY <1>1, <1>2 DEF Written, InFlight, Counters, Columns
<1>4. sub' \in [Subscription -> Stage]
    BY DEF Edited, Counters, Columns, Stage
<1>5. Columns'
    BY <1>1, <1>3, <1>4 DEF Counters, Columns, Rows
<1>6. Covered'
    BY <1>1 DEF Covered
<1> QED BY <1>1, <1>5, <1>6, EndCounts DEF StaysRejected

LEMMA ExtendCounts ==
    ASSUME HandlersInvariant, Counters, NEW s \in Subscription, Extend(s)
    PROVE  Counted
<1>1. /\ session' = session /\ UNCHANGED <<request, limit, used, autoApprove>>
      /\ overlapped' = (overlapped \/ Busy # {}) /\ edited' = TRUE
    BY DEF Extend
<1>2. overlapped' \in BOOLEAN /\ (overlapped => overlapped') /\ (~ overlapped' => Busy = {})
    BY <1>1 DEF Counters, Columns
<1>3. sub' \in [Subscription -> Stage]
    BY DEF Extend, Counters, Columns, Stage
<1>4. Columns' /\ Covered'
    BY <1>1, <1>2, <1>3 DEF Counters, Columns, Rows, Covered
<1>5. \A r \in Request : StaysRejected(r)
    BY <1>1 DEF StaysRejected
<1> QED BY <1>1, <1>2, <1>4, <1>5, AtOnceCounts

LEMMA DetectCounts ==
    ASSUME HandlersInvariant, Counters, NEW x \in Session, Detect(x)
    PROVE  Counted
<1> DEFINE w == [Idle EXCEPT !.op = "detect", !.on = Waiting]
<1>1. PICK view : view = w
    OBVIOUS
<1>2. Begin(x, view) /\ UNCHANGED <<request, limit, used, sub, autoApprove, edited>>
    BY <1>1 DEF Detect
<1>3. /\ view.op = "detect" /\ view.on = Waiting /\ view.used = 0
      /\ view.newLimit = 0 /\ view.newUsed = 0 /\ view.granted = {}
    BY <1>1 DEF Idle
<1> HIDE DEF w
<1>4. InFlight(view)
    BY <1>3 DEF InFlight
<1>5. UpToDate(view)
    BY <1>3 DEF UpToDate, Waiting
<1> QED BY <1>2, <1>4, <1>5, BeginsUnwritten

(***************************************************************************)
(* Steps at once.  A deletion or a rejection beside a handler disturbs it. *)
(***************************************************************************)
LEMMA DeleteCounts ==
    ASSUME HandlersInvariant, Counters, NEW R, Delete(R)
    PROVE  Counted
<1>1. /\ session' = session /\ UNCHANGED <<limit, used, sub, autoApprove, edited>>
      /\ overlapped' = (overlapped \/ Busy # {})
      /\ request' = [r \in Request |-> IF r \in R THEN NoRow ELSE request[r]]
    BY DEF Delete
<1>2. \A r \in Request : request'[r] \in {NoRow, request[r]}
    BY <1>1
<1>3. overlapped' \in BOOLEAN /\ (overlapped => overlapped') /\ (~ overlapped' => Busy = {})
    BY <1>1 DEF Counters, Columns
<1>4. Columns' /\ HeldLowered
    BY <1>1, <1>2, <1>3, RowFacts DEF Counters, Columns, Rows, HeldLowered, HeldOf
<1>5. ~ overlapped' => Covered'
    BY <1>1, <1>3, <1>4, StillCovered DEF Counters, Undisturbed, Running
<1>6. \A r \in Request : StaysRejected(r)
    BY <1>2, RowFacts DEF StaysRejected
<1> QED BY <1>1, <1>3, <1>4, <1>5, <1>6, AtOnceCounts

LEMMA RejectCounts ==
    ASSUME HandlersInvariant, Counters, NEW r \in Request, Reject(r)
    PROVE  Counted
<1>1. /\ session' = session /\ UNCHANGED <<limit, used, sub, autoApprove, edited>>
      /\ overlapped' = (overlapped \/ Busy # {})
      /\ request' = [request EXCEPT ![r].status = "REJECTED"] /\ r \in Rows
    BY DEF Reject
<1>2. /\ request'[r].held = request[r].held /\ request'[r].of = request[r].of
      /\ request'[r].status = "REJECTED"
      /\ \A q \in Request \ {r} : request'[q] = request[q]
    BY <1>1 DEF HandlersInvariant, RequestRow
<1>3. overlapped' \in BOOLEAN /\ (overlapped => overlapped') /\ (~ overlapped' => Busy = {})
    BY <1>1 DEF Counters, Columns
<1>4. Columns' /\ HeldLowered
    BY <1>1, <1>2, <1>3 DEF Counters, Columns, Rows, HeldLowered, HeldOf
<1>5. ~ overlapped' => Covered'
    BY <1>1, <1>3, <1>4, StillCovered DEF Counters, Undisturbed, Running
<1>6. \A q \in Request : StaysRejected(q)
    BY <1>2 DEF StaysRejected
<1> QED BY <1>1, <1>3, <1>4, <1>5, <1>6, AtOnceCounts

LEMMA LapseCounts ==
    ASSUME HandlersInvariant, Counters,
           UpdateSettings \/ (\E s \in Subscription : Lapse(s)) \/ UNCHANGED vars
    PROVE  Counted
<1>1. /\ session' = session /\ UNCHANGED <<request, limit, used, overlapped, edited>>
      /\ autoApprove' \in BOOLEAN
    BY DEF UpdateSettings, Lapse, vars, Counters, Columns
<1>2. /\ sub' \in [Subscription -> Stage]
      /\ Running' \subseteq Running
    <2>1. CASE UpdateSettings \/ UNCHANGED vars
        BY <2>1 DEF UpdateSettings, vars, Counters, Columns, Running
    <2>2. CASE \E s \in Subscription : Lapse(s)
        BY <2>2 DEF Lapse, Counters, Columns, Running, Stage
    <2> QED BY <2>1, <2>2
<1>3. Columns' /\ HeldLowered /\ Rows' = Rows
    BY <1>1, <1>2 DEF Counters, Columns, Rows, HeldLowered, HeldOf
<1>4. ~ overlapped => Covered'
    BY <1>1, <1>2, <1>3, StillCovered DEF Counters, Undisturbed
<1>5. ASSUME ~ overlapped, NEW y \in Busy PROVE UpToDate(session[y])'
    <2>1. PICK v : v = session[y]
        OBVIOUS
    <2>2. InFlight(v) /\ UpToDate(v)
        BY <1>5, <2>1 DEF Counters, Undisturbed
    <2>3. UpToDate(v)'
        BY <1>1, <1>2, <1>3, <2>2, StillUpToDate DEF Counters
    <2>4. v = session'[y]
        BY <1>1, <2>1
    <2> QED BY <2>3, <2>4
<1> QED BY <1>1, <1>3, <1>4, <1>5, AtOnceCounts DEF StaysRejected

LEMMA StepCounts == HandlersInvariant /\ Counters /\ [Next]_vars => Counted
<1> SUFFICES ASSUME HandlersInvariant, Counters, [Next]_vars PROVE Counted
    OBVIOUS
<1>1. ASSUME NEW x \in Session, ByUser(x) PROVE Counted
    BY <1>1, CreateCounts, TakerEndCounts, RefusedCounts DEF ByUser
<1>2. ASSUME NEW x \in Session, ByAdmin(x) PROVE Counted
    BY <1>2, ApproveCounts, TakerEndCounts, RefusedCounts, EditCounts, EditedCounts DEF ByAdmin
<1>3. ASSUME NEW x \in Session, ByJob(x) PROVE Counted
    BY <1>3, RecountCounts, RecountedCounts, DetectCounts, DetectedCounts, AbortCounts DEF ByJob
<1>4. ASSUME NEW R \in SUBSET Request, Delete(R) PROVE Counted
    BY <1>4, DeleteCounts
<1>5. ASSUME NEW r \in Request, Reject(r) PROVE Counted
    BY <1>5, RejectCounts
<1> QED BY <1>1, <1>2, <1>3, <1>4, <1>5, LapseCounts, ExtendCounts DEF Next

LEMMA InitCounts == Init => Counters
<1> SUFFICES ASSUME Init PROVE Counters
    OBVIOUS
<1>1. Busy = {} /\ Running = {}
    BY DEF Init, Busy, Running, Idle
<1>2. /\ limit \in Int /\ used \in Int
      /\ autoApprove \in BOOLEAN /\ overlapped \in BOOLEAN /\ edited \in BOOLEAN
    <2>1. autoApprove = FALSE /\ overlapped = FALSE /\ edited = FALSE /\ limit = 0 /\ used = 0
        BY Zenon DEF Init
    <2>2. limit \in Int /\ used \in Int
        BY <2>1
    <2>3. autoApprove \in BOOLEAN /\ overlapped \in BOOLEAN /\ edited \in BOOLEAN
        BY <2>1, Zenon
    <2> QED BY <2>2, <2>3
<1>3. sub \in [Subscription -> Stage] /\ \A r \in Request : ~ request[r].held
    BY RowFacts DEF Init, Stage
<1>4. Columns
    BY <1>2, <1>3 DEF Columns
<1>5. Usage(Running) = 0
    <2>1. Usage({}) = Sum(Holding, {})
        BY UsageIsSum
    <2> QED BY <1>1, <2>1, SumOfNone
<1>6. Undisturbed
    BY <1>1, <1>5 DEF Undisturbed, Covered, Init
<1> QED BY <1>1, <1>4, <1>6 DEF Counters

LEMMA AlwaysCounted == Spec => [](HandlersInvariant /\ Counters)
<1>1. Init => HandlersInvariant /\ Counters
    BY InitHandlers, InitCounts
<1>2. HandlersInvariant /\ Counters /\ [Next]_vars => (HandlersInvariant /\ Counters)'
    BY StepKeeps, StepCounts DEF Counted
<1> QED BY <1>1, <1>2, PTL DEF Spec

(***************************************************************************)
(* Columns stay in range, what was accepted holds quota, handlers in       *)
(* flight know what is still true, and if no handler that takes quota runs *)
(* beside an approval, those in flight do not share a use.                 *)
(***************************************************************************)
THEOREM RequestsStayConsistent == Spec => []RequestsInvariant
<1>1. HandlersInvariant /\ Counters => TypeOK /\ AcceptedHoldsQuota /\ ViewsHold
    BY DEF HandlersInvariant, Counters, Columns, TypeOK
<1>2. CASE ApprovalsAreAlone
    <2>1. Init => Apart
        BY <1>2, InitHandlers, InitLedger DEF Apart
    <2>2. Apart /\ [Next]_vars => Apart'
        BY <1>2, StepKeeps, StepSpends DEF Apart, ApprovalsAreAlone
    <2>3. Spec => []Apart
        BY <2>1, <2>2, PTL DEF Spec
    <2>4. Apart => TakersApart
        BY DEF Apart
    <2>5. HandlersInvariant /\ Counters /\ Apart => RequestsInvariant
        BY <1>1, <2>4 DEF RequestsInvariant
    <2> QED BY <2>3, <2>5, AlwaysCounted, PTL
<1>3. CASE ~ ApprovalsAreAlone
    <2>1. HandlersInvariant /\ Counters => RequestsInvariant
        BY <1>1, <1>3 DEF RequestsInvariant, TakersApart
    <2> QED BY <2>1, AlwaysCounted, PTL
<1> QED BY <1>2, <1>3

(***************************************************************************)
(* As long as handlers do not overlap, the counter in the user's row       *)
(* covers what requests hold of running subscriptions, whatever is         *)
(* created, approved, refused, deleted and recounted, and whenever         *)
(* subscriptions begin and end (sync_user_subscription_entitlements); an   *)
(* admin's edit of plans and counters suspends this until the next count   *)
(* (update_user, bulk_assign_subscription, bulk_extend_subscription).      *)
(***************************************************************************)
THEOREM CounterCoversUse == Spec => []UsedCoversHeld
<1>1. HandlersInvariant /\ Counters => UsedCoversHeld
    <2> SUFFICES ASSUME Counters PROVE UsedCoversHeld
        OBVIOUS
    <2>1. Running \in SUBSET Subscription
        BY RunningAreSubscriptions
    <2>2. Usage(Running) \in Nat /\ used \in Int
        BY <2>1, UsageFacts DEF Counters, Columns
    <2>3. ~ overlapped /\ ~ edited => Usage(Running) <= used
        BY DEF Counters, Undisturbed, Covered
    <2> QED BY <2>2, <2>3 DEF UsedCoversHeld
<1> QED BY <1>1, AlwaysCounted, PTL

(***************************************************************************)
(* A rejected request stays rejected until it is deleted, unless a handler *)
(* had it in hand (reject_vod_request looks at no handler in flight).      *)
(***************************************************************************)
THEOREM RejectionsAreFinal == Spec => RejectionIsFinal
<1>1. HandlersInvariant /\ Counters /\ [Next]_vars =>
          [\A r \in Request : request[r].status = "REJECTED" =>
               request'[r].status \in {"REJECTED", "none"} \/ overlapped']_vars
    BY StepCounts DEF Counted, StaysRejected
<1> QED BY <1>1, AlwaysCounted, PTL DEF Spec, RejectionIsFinal

=============================================================================
