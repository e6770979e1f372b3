---------------------------- MODULE SumTheorems ----------------------------
(***************************************************************************)
(* What SumFunction and SumFunctionOnSet of the community modules compute: *)
(* the sum over an empty set is zero, adding an element adds its value,    *)
(* and only the values summed matter. The ledgers of this project (refunds *)
(* of a payment, payments of an invoice) are stated with these sums.       *)
(*                                                                         *)
(* The fold behind them is a recursive function on the subsets of a set,   *)
(* chosen by CHOOSE. That one exists is shown by induction over the finite *)
(* subsets: the set of those for which a claim fails has a smallest member *)
(* (strict inclusion is well founded), and that member cannot be.          *)
(***************************************************************************)
EXTENDS FiniteSetsExt, FiniteSetTheorems, TLAPS

(* A family of subsets of a finite set has a smallest member.              *)
LEMMA SmallestSet ==
    ASSUME NEW S, IsFiniteSet(S), NEW F \in SUBSET SUBSET S, F # {}
    PROVE  \E m \in F : \A s \in F : s \subseteq m => s = m
<1>1. IsWellFoundedOn(StrictSubsetOrdering(S), SUBSET S)
  BY FS_StrictSubsetOrderingWellFounded, FS_FiniteSubsetsOfFinite
<1>2. \E m \in F : \A s \in F : ~ (<<s, m>> \in StrictSubsetOrdering(S))
  BY <1>1, WFMin, Zenon
<1>3. QED
  BY <1>2 DEF StrictSubsetOrdering

(* Induction over the subsets of a finite set, with the claim as a set.    *)
LEMMA SubsetInduction ==
    ASSUME NEW S, IsFiniteSet(S), NEW P \in SUBSET SUBSET S,
           \A s \in SUBSET S : (\A t \in SUBSET s : t # s => t \in P) => s \in P
    PROVE  P = SUBSET S
<1> DEFINE F == (SUBSET S) \ P
<1> SUFFICES ASSUME F # {} PROVE FALSE
  OBVIOUS
<1>1. F \in SUBSET SUBSET S
  OBVIOUS
<1>2. PICK m \in F : \A s \in F : s \subseteq m => s = m
  <2> HIDE DEF F
  <2>1. QED
    BY <1>1, SmallestSet
<1>3. \A t \in SUBSET m : t # m => t \in P
  BY <1>2
<1>4. QED
  BY <1>3

-----------------------------------------------------------------------------
(* The recursive function behind the sum of f over S.                      *)
first(s) == CHOOSE x \in s : TRUE
step(f, g, s) == IF s = {} THEN 0 ELSE f[first(s)] + g[s \ {first(s)}]
Sums(f, S, g) == g = [s \in SUBSET S |-> step(f, g, s)]

(* CHOOSE picks a member of a set that has one.                            *)
LEMMA FirstIn == ASSUME NEW s, s # {} PROVE first(s) \in s
BY DEF first

(* Two such functions agree where both are defined.                        *)
LEMMA SumsUnique ==
    ASSUME NEW f, NEW T, NEW S \in SUBSET T, IsFiniteSet(S),
           NEW g, NEW h, Sums(f, T, g), Sums(f, S, h)
    PROVE  \A s \in SUBSET S : g[s] = h[s]
<1> DEFINE P == {s \in SUBSET S : g[s] = h[s]}
<1>1. ASSUME NEW s \in SUBSET S, \A t \in SUBSET s : t # s => t \in P PROVE s \in P
  <2>1. g[s] = step(f, g, s) /\ h[s] = step(f, h, s)
    BY DEF Sums
  <2>2. CASE s = {}
    BY <2>1, <2>2 DEF step
  <2>3. CASE s # {}
    BY <2>1, <2>3, <1>1, FirstIn DEF step
  <2>4. QED
    BY <2>2, <2>3
<1> HIDE DEF P
<1>2. P = SUBSET S
  <2>1. P \in SUBSET SUBSET S
    BY DEF P
  <2> QED
   BY <1>1, <2>1, SubsetInduction, Zenon
<1>3. QED
  BY <1>2 DEF P

(* There is one, for every finite set.                                     *)
LEMMA SumsExist ==
    ASSUME NEW f, NEW S, IsFiniteSet(S)
    PROVE  \E g : Sums(f, S, g)
<1> DEFINE G(s) == CHOOSE g : Sums(f, s, g)
           P == {s \in SUBSET S : \E g : Sums(f, s, g)}
<1>1. ASSUME NEW s \in SUBSET S, \A t \in SUBSET s : t # s => t \in P PROVE s \in P
  <2> DEFINE h == [t \in SUBSET s |-> IF t = s THEN step(f, G(s \ {first(s)}), s) ELSE G(t)[t]]
  <2>1. \A t \in SUBSET s : t # s => Sums(f, t, G(t))
    BY <1>1
  <2>2. \A t, u \in SUBSET s : t # s /\ u # s /\ u \subseteq t => G(t)[u] = G(u)[u]
    <3> SUFFICES ASSUME NEW t \in SUBSET s, NEW u \in SUBSET s, t # s, u # s, u \subseteq t
                 PROVE  G(t)[u] = G(u)[u]
      OBVIOUS
    <3>1. Sums(f, t, G(t)) /\ Sums(f, u, G(u))
      BY <2>1
    <3>2. IsFiniteSet(u)
      BY FS_Subset
    <3> HIDE DEF G, P, h
    <3>3. \A v \in SUBSET u : G(t)[v] = G(u)[v]
      BY <3>1, <3>2, SumsUnique
    <3>4. QED
      BY <3>3
  <2> HIDE DEF G
  <2>3. ASSUME NEW t \in SUBSET s PROVE h[t] = step(f, h, t)
    <3>1. CASE t = {}
      <4>1. CASE s = {}
        BY <3>1, <4>1 DEF step
      <4>2. CASE s # {}
        <5>1. h[t] = G(t)[t]
          BY <3>1, <4>2
        <5>2. G(t)[t] = step(f, G(t), t)
          BY <2>1, <3>1, <4>2 DEF Sums
        <5>3. QED
          BY <5>1, <5>2, <3>1 DEF step
      <4>3. QED
        BY <4>1, <4>2
    <3>2. CASE t # {}
      <4> DEFINE u == t \ {first(t)}
      <4>1. u \in SUBSET s /\ u # s /\ u # t
        BY <3>2, FirstIn
      <4>2. h[u] = G(u)[u]
        BY <4>1
      <4>3. CASE t = s
        BY <4>3, <4>2, <4>1, <3>2 DEF step
      <4>4. CASE t # s
        <5>1. h[t] = G(t)[t]
          BY <4>4
        <5>2. G(t)[t] = f[first(t)] + G(t)[u]
          BY <2>1, <4>4, <3>2, <4>1 DEF Sums, step
        <5>3. G(t)[u] = G(u)[u]
          BY <2>2, <4>4, <4>1
        <5>4. QED
          BY <5>1, <5>2, <5>3, <4>2, <3>2 DEF step
      <4>5. QED
        BY <4>3, <4>4
    <3>3. QED
      BY <3>1, <3>2
  <2>4. Sums(f, s, h)
    BY <2>3 DEF Sums
  <2>5. QED
    BY <2>4
<1> HIDE DEF P
<1>2. P \in SUBSET SUBSET S
  BY DEF P
<1>3. P = SUBSET S
  BY <1>1, <1>2, SubsetInduction, Zenon
<1>4. QED
  BY <1>3 DEF P

(* So the sum takes one element out and goes on with the rest.             *)
LEMMA SumIsRecursive ==
    ASSUME NEW f, NEW S, IsFiniteSet(S), S # {}
    PROVE  SumFunctionOnSet(f, S) = f[first(S)] + SumFunctionOnSet(f, S \ {first(S)})
<1> DEFINE G(s) == CHOOSE g : Sums(f, s, g)
<1>1. \A s : SumFunctionOnSet(f, s) = G(s)[s]
  BY DEF SumFunctionOnSet, FoldFunctionOnSet, MapThenFoldSet, Sums, step, first
<1>2. PICK r \in SUBSET S : r = S \ {first(S)}
  OBVIOUS
<1>3. IsFiniteSet(r)
  BY FS_Subset
<1>4. Sums(f, S, G(S)) /\ Sums(f, r, G(r))
  BY <1>3, SumsExist
<1> HIDE DEF G
<1>5. \A g, h : Sums(f, S, g) /\ Sums(f, r, h) => \A s \in SUBSET r : g[s] = h[s]
  BY <1>3, SumsUnique
<1>6. G(S)[S] = f[first(S)] + G(S)[r]
  BY <1>2, <1>4 DEF Sums, step
<1>7. G(S)[r] = G(r)[r]
  BY <1>4, <1>5
<1>8. QED
  BY <1>1, <1>2, <1>6, <1>7

(* Nothing adds up to zero.                                                *)
LEMMA SumOfNone ==
    ASSUME NEW f
    PROVE  SumFunctionOnSet(f, {}) = 0
<1> DEFINE G == CHOOSE g : Sums(f, {}, g)
<1>1. SumFunctionOnSet(f, {}) = G[{}]
  BY DEF SumFunctionOnSet, FoldFunctionOnSet, MapThenFoldSet, Sums, step, first
<1>2. Sums(f, {}, G)
  BY FS_EmptySet, SumsExist
<1> HIDE DEF G
<1>3. QED
  BY <1>1, <1>2 DEF Sums, step

(* Integers add up to an integer.                                          *)
LEMMA SumIsInt ==
    ASSUME NEW S, IsFiniteSet(S), NEW f, \A x \in S : f[x] \in Int
    PROVE  SumFunctionOnSet(f, S) \in Int
<1> DEFINE P == {s \in SUBSET S : SumFunctionOnSet(f, s) \in Int}
<1>1. ASSUME NEW s \in SUBSET S, \A t \in SUBSET s : t # s => t \in P PROVE s \in P
  <2>1. CASE s = {}
    BY <2>1, SumOfNone
  <2>2. CASE s # {}
    <3>1. first(s) \in s /\ IsFiniteSet(s)
      BY <2>2, FirstIn, FS_Subset
    <3>2. SumFunctionOnSet(f, s \ {first(s)}) \in Int
      BY <1>1, <3>1
    <3>3. QED
      BY <3>1, <3>2, <2>2, SumIsRecursive
  <2>3. QED
    BY <2>1, <2>2
<1>2. P \in SUBSET SUBSET S
  OBVIOUS
<1> HIDE DEF P
<1>3. P = SUBSET S
  BY <1>1, <1>2, SubsetInduction, Zenon
<1>4. QED
  BY <1>3 DEF P

(* Natural numbers add up to a natural number.                             *)
LEMMA SumIsNat ==
    ASSUME NEW S, IsFiniteSet(S), NEW f, \A x \in S : f[x] \in Nat
    PROVE  SumFunctionOnSet(f, S) \in Nat
<1> DEFINE P == {s \in SUBSET S : SumFunctionOnSet(f, s) \in Nat}
<1>1. ASSUME NEW s \in SUBSET S, \A t \in SUBSET s : t # s => t \in P PROVE s \in P
  <2>1. CASE s = {}
    BY <2>1, SumOfNone
  <2>2. CASE s # {}
    <3>1. first(s) \in s /\ IsFiniteSet(s)
      BY <2>2, FirstIn, FS_Subset
    <3>2. SumFunctionOnSet(f, s \ {first(s)}) \in Nat
      BY <1>1, <3>1
    <3>3. QED
      BY <3>1, <3>2, <2>2, SumIsRecursive
  <2>3. QED
    BY <2>1, <2>2
<1>2. P \in SUBSET SUBSET S
  OBVIOUS
<1> HIDE DEF P
<1>3. P = SUBSET S
  BY <1>1, <1>2, SubsetInduction, Zenon
<1>4. QED
  BY <1>3 DEF P

(* The sum depends only on the values summed.                              *)
LEMMA SumIsLocal ==
    ASSUME NEW S, IsFiniteSet(S), NEW f, NEW g, \A x \in S : f[x] = g[x]
    PROVE  SumFunctionOnSet(f, S) = SumFunctionOnSet(g, S)
<1> DEFINE P == {s \in SUBSET S : SumFunctionOnSet(f, s) = SumFunctionOnSet(g, s)}
<1>1. ASSUME NEW s \in SUBSET S, \A t \in SUBSET s : t # s => t \in P PROVE s \in P
  <2>1. CASE s = {}
    BY <2>1, SumOfNone
  <2>2. CASE s # {}
    <3>1. first(s) \in s /\ IsFiniteSet(s)
      BY <2>2, FirstIn, FS_Subset
    <3>2. SumFunctionOnSet(f, s \ {first(s)}) = SumFunctionOnSet(g, s \ {first(s)})
      BY <1>1, <3>1
    <3>3. QED
      BY <3>1, <3>2, <2>2, SumIsRecursive
  <2>3. QED
    BY <2>1, <2>2
<1>2. P \in SUBSET SUBSET S
  OBVIOUS
<1> HIDE DEF P
<1>3. P = SUBSET S
  BY <1>1, <1>2, SubsetInduction, Zenon
<1>4. QED
  BY <1>3 DEF P

(* Any element can be taken out first.                                     *)
LEMMA SumRemove ==
    ASSUME NEW S, IsFiniteSet(S), NEW f, \A x \in S : f[x] \in Int, NEW e \in S
    PROVE  SumFunctionOnSet(f, S) = f[e] + SumFunctionOnSet(f, S \ {e})
<1> DEFINE P == {s \in SUBSET S :
                   \A x \in s : SumFunctionOnSet(f, s) = f[x] + SumFunctionOnSet(f, s \ {x})}
<1>1. ASSUME NEW s \in SUBSET S, \A t \in SUBSET s : t # s => t \in P PROVE s \in P
  <2> SUFFICES ASSUME NEW x \in s
               PROVE  SumFunctionOnSet(f, s) = f[x] + SumFunctionOnSet(f, s \ {x})
    OBVIOUS
  <2> DEFINE c == first(s)
  <2>1. c \in s /\ IsFiniteSet(s)
    BY FirstIn, FS_Subset
  <2>2. SumFunctionOnSet(f, s) = f[c] + SumFunctionOnSet(f, s \ {c})
    BY <2>1, SumIsRecursive
  <2> HIDE DEF c
  <2>3. CASE x = c
    BY <2>2, <2>3
  <2>4. CASE x # c
    <3> DEFINE r == (s \ {c}) \ {x}
    <3>1. SumFunctionOnSet(f, s \ {c}) = f[x] + SumFunctionOnSet(f, r)
      <4>1. s \ {c} \in SUBSET s /\ s \ {c} # s /\ x \in s \ {c}
        BY <2>1, <2>4
      <4>2. QED
        BY <1>1, <4>1
    <3>2. SumFunctionOnSet(f, s \ {x}) = f[c] + SumFunctionOnSet(f, r)
      <4>1. s \ {x} \in SUBSET s /\ s \ {x} # s /\ c \in s \ {x} /\ (s \ {x}) \ {c} = r
        BY <2>1, <2>4
      <4>2. s \ {x} \in P
        BY <1>1, <4>1, Zenon
      <4>3. QED
        BY <4>1, <4>2
    <3>3. f[x] \in Int /\ f[c] \in Int /\ SumFunctionOnSet(f, r) \in Int
      <4>1. IsFiniteSet(r) /\ r \subseteq S
        BY <2>1, FS_Subset
      <4>2. QED
        BY <2>1, <4>1, SumIsInt
    <3>4. QED
      BY <2>2, <3>1, <3>2, <3>3
  <2>5. QED
    BY <2>3, <2>4
<1>2. P \in SUBSET SUBSET S
  OBVIOUS
<1> HIDE DEF P
<1>3. P = SUBSET S
  BY <1>1, <1>2, SubsetInduction, Zenon
<1>4. QED
  BY <1>3 DEF P

(* A new element adds its value.                                           *)
LEMMA SumAdd ==
    ASSUME NEW S, IsFiniteSet(S), NEW f, \A x \in S : f[x] \in Int,
           NEW e, e \notin S, f[e] \in Int
    PROVE  SumFunctionOnSet(f, S \cup {e}) = f[e] + SumFunctionOnSet(f, S)
<1>1. IsFiniteSet(S \cup {e}) /\ (S \cup {e}) \ {e} = S
  BY FS_AddElement
<1>2. QED
  BY <1>1, SumRemove

-----------------------------------------------------------------------------
(* The same for the sum of all values of a function. *)

(* A function that is nowhere defined sums to zero.                        *)
LEMMA SumFunctionOfNone ==
    ASSUME NEW f, DOMAIN f = {}
    PROVE  SumFunction(f) = 0
BY SumOfNone DEF SumFunction

(* Natural values sum to a natural number.                                 *)
LEMMA SumFunctionIsNat ==
    ASSUME NEW S, IsFiniteSet(S), NEW f \in [S -> Nat]
    PROVE  SumFunction(f) \in Nat
BY SumIsNat DEF SumFunction

(* A function with one more argument sums to that much more.               *)
LEMMA SumFunctionAdd ==
    ASSUME NEW S, IsFiniteSet(S), NEW e, e \notin S,
           NEW f \in [S -> Nat], NEW g \in [S \cup {e} -> Nat], \A x \in S : g[x] = f[x]
    PROVE  SumFunction(g) = SumFunction(f) + g[e]
<1>1. SumFunctionOnSet(g, S) = SumFunctionOnSet(f, S)
  BY SumIsLocal
<1>2. SumFunctionOnSet(g, S \cup {e}) = g[e] + SumFunctionOnSet(g, S)
  <2>1. \A x \in S : g[x] \in Int
    OBVIOUS
  <2>2. g[e] \in Int
    OBVIOUS
  <2>3. QED
    BY <2>1, <2>2, SumAdd
<1>3. SumFunctionOnSet(f, S) \in Nat /\ g[e] \in Nat
  BY SumIsNat
<1>4. QED
  BY <1>1, <1>2, <1>3 DEF SumFunction

(* g has one more entry than f, of the given amount.                       *)
OneMore(f, g, amount) ==
    \E S, n :
        /\ IsFiniteSet(S) /\ n \notin S
        /\ f \in [S -> Nat] /\ g \in [S \cup {n} -> Nat]
        /\ (\A x \in S : g[x] = f[x]) /\ g[n] = amount

(* One more entry in a ledger adds its amount.                             *)
LEMMA OneMoreAdds ==
    ASSUME NEW f, NEW g, NEW amount, OneMore(f, g, amount)
    PROVE  SumFunction(g) = SumFunction(f) + amount
<1>1. PICK S, n : /\ IsFiniteSet(S) /\ n \notin S
                  /\ f \in [S -> Nat] /\ g \in [S \cup {n} -> Nat]
                  /\ (\A x \in S : g[x] = f[x]) /\ g[n] = amount
  BY DEF OneMore
<1>2. SumFunction(g) = SumFunction(f) + g[n]
  BY <1>1, SumFunctionAdd
<1>3. QED
  BY <1>1, <1>2
=============================================================================
