-------------------------- MODULE ConsensusProofs --------------------------
(***************************************************************************)
(* What the strategies of Consensus.tla promise, for every well-formed     *)
(* context: any number of alternatives, positions, citations, critiques    *)
(* and objectives, any weights and values in their ranges.                 *)
(*                                                                         *)
(* The parts: sums over finite sets; orders by rank and the sequences they *)
(* arrange; arithmetic in units; rankings and their leader; the three      *)
(* strategies in one form; supports and evidence; the frontier; what an    *)
(* evaluation selects; what a supporter won changes; the orchestrator.     *)
(***************************************************************************)
EXTENDS Consensus, FiniteSetTheorems, SequenceTheorems, WellFoundedInduction, TLAPS
-----------------------------------------------------------------------------
(* Sums over finite sets. *)

(* A set with 0 and with the successor of each of its numbers has them all:  *)
(* a smallest missing number would have a predecessor.                       *)
LEMMA Upward ==
  ASSUME NEW S, 0 \in S, \A n \in Nat : n \in S => n + 1 \in S
  PROVE  Nat \subseteq S
<1> DEFINE missing == {n \in Nat : n \notin S}
           less == {pair \in Nat \X Nat : pair[1] < pair[2]}
<1>1. SUFFICES ASSUME missing # {} PROVE FALSE
  OBVIOUS
<1>2. IsWellFoundedOn(less, Nat)
  BY NatLessThanWellFounded DEF OpToRel
<1>3. PICK x \in missing : \A y \in missing : ~(<<y, x>> \in less)
  <2>1. missing \subseteq Nat OBVIOUS
  <2> HIDE DEF missing, less
  <2> QED BY <1>1, <1>2, <2>1, WFMin
<1>4. x \in Nat /\ x # 0 /\ x - 1 \in Nat /\ x - 1 < x
  OBVIOUS
<1>5. x - 1 \notin missing
  <2>1. <<x - 1, x>> \in less BY <1>4
  <2> QED BY <1>3, <2>1
<1>6. (x - 1) + 1 \in S
  BY <1>4, <1>5
<1> QED BY <1>4, <1>6

(* The elements a sum takes first, and what is left of it then. *)
First(s) == CHOOSE x \in s : TRUE

Adds(g, f, s) == g[s] = IF s = {} THEN 0 ELSE f[First(s)] + g[s \ {First(s)}]

LEMMA FirstLeaves ==
  ASSUME NEW s, IsFiniteSet(s), s # {}
  PROVE  /\ First(s) \in s /\ IsFiniteSet(s \ {First(s)})
         /\ Cardinality(s) \in Nat /\ Cardinality(s \ {First(s)}) \in Nat
         /\ Cardinality(s) = Cardinality(s \ {First(s)}) + 1
<1>1. First(s) \in s
  BY DEF First
<1>2. PICK x : x = First(s)
  OBVIOUS
<1>3. IsFiniteSet(s \ {x}) /\ Cardinality(s \ {x}) = Cardinality(s) - 1
  BY <1>1, <1>2, FS_RemoveElement
<1>4. Cardinality(s) \in Nat /\ Cardinality(s \ {x}) \in Nat
  BY <1>3, FS_CardinalityType
<1> QED BY <1>1, <1>2, <1>3, <1>4

Parts(f, S, g) == [s \in SUBSET S |-> IF s = {} THEN 0 ELSE f[First(s)] + g[s \ {First(s)}]]

(* The partial sums of a finite set exist. *)
LEMMA PartialSums ==
  ASSUME NEW f, NEW S, IsFiniteSet(S)
  PROVE  \E g : g = Parts(f, S, g)
<1> DEFINE defined == {n \in Nat : \E g : \A s \in SUBSET S : Cardinality(s) <= n => Adds(g, f, s)}
<1>0. ASSUME NEW s \in SUBSET S PROVE IsFiniteSet(s) /\ Cardinality(s) \in Nat /\ Cardinality(s) <= Cardinality(S)
  BY FS_Subset, FS_CardinalityType
<1>1. 0 \in defined
  <2> DEFINE g == [s \in SUBSET S |-> 0]
  <2>1. ASSUME NEW s \in SUBSET S, Cardinality(s) <= 0 PROVE Adds(g, f, s)
    <3>1. s = {} BY <1>0, <2>1, FS_EmptySet
    <3> QED BY <3>1 DEF Adds
  <2> HIDE DEF g
  <2> QED BY <2>1
<1>2. ASSUME NEW n \in Nat, n \in defined PROVE n + 1 \in defined
  <2>1. PICK g : \A s \in SUBSET S : Cardinality(s) <= n => Adds(g, f, s)
    BY <1>2
  <2> DEFINE h == [s \in SUBSET S |-> IF Cardinality(s) <= n THEN g[s] ELSE f[First(s)] + g[s \ {First(s)}]]
  <2>2. ASSUME NEW s \in SUBSET S, Cardinality(s) <= n + 1 PROVE Adds(h, f, s)
    <3>1. CASE s = {}
      <4>1. Cardinality(s) <= n BY <3>1, FS_EmptySet
      <4>2. h[s] = g[s] /\ Adds(g, f, s) BY <2>1, <4>1
      <4> HIDE DEF h
      <4> QED BY <3>1, <4>2 DEF Adds
    <3>2. CASE s # {}
      <4> DEFINE rest == s \ {First(s)}
      <4>1. /\ rest \in SUBSET S /\ Cardinality(rest) \in Nat /\ Cardinality(s) \in Nat
            /\ Cardinality(s) = Cardinality(rest) + 1
        BY <1>0, <3>2, FirstLeaves
      <4>2. h[rest] = g[rest]
        BY <2>2, <4>1
      <4>3. h[s] = f[First(s)] + g[rest]
        <5>1. CASE Cardinality(s) <= n
          <6>1. h[s] = g[s] /\ Adds(g, f, s) BY <2>1, <5>1
          <6> QED BY <3>2, <6>1 DEF Adds
        <5>2. CASE ~(Cardinality(s) <= n)
          BY <5>2
        <5> QED BY <5>1, <5>2
      <4> HIDE DEF h
      <4> QED BY <3>2, <4>2, <4>3 DEF Adds
    <3> QED BY <3>1, <3>2
  <2> HIDE DEF h
  <2> QED BY <2>2
<1>3. Cardinality(S) \in defined
  <2>1. Cardinality(S) \in Nat BY FS_CardinalityType
  <2> HIDE DEF defined
  <2> QED BY <1>1, <1>2, <2>1, Upward
<1>4. PICK g : \A s \in SUBSET S : Adds(g, f, s)
  BY <1>0, <1>3
<1> DEFINE h == [s \in SUBSET S |-> g[s]]
<1>5. ASSUME NEW s \in SUBSET S PROVE h[s] = IF s = {} THEN 0 ELSE f[First(s)] + h[s \ {First(s)}]
  <2>1. s \ {First(s)} \in SUBSET S OBVIOUS
  <2>2. h[s] = g[s] /\ h[s \ {First(s)}] = g[s \ {First(s)}] BY <2>1
  <2> HIDE DEF h
  <2> QED BY <1>4, <2>2 DEF Adds
<1>6. h = Parts(f, S, h)
  BY <1>5 DEF Parts
<1> HIDE DEF h
<1> QED BY <1>6

(* A function that sums like f on the subsets of a set. *)
Sums(g, f, S) == \A s \in SUBSET S : Adds(g, f, s)

LEMMA SumIsPartial ==
  ASSUME NEW f, NEW S, IsFiniteSet(S)
  PROVE  \E g : Sums(g, f, S) /\ SumFunctionOnSet(f, S) = g[S]
<1> DEFINE g == CHOOSE h : h = Parts(f, S, h)
<1>1. g = Parts(f, S, g)
  BY PartialSums
<1>2. SumFunctionOnSet(f, S) = g[S]
  BY DEF SumFunctionOnSet, FoldFunctionOnSet, MapThenFoldSet, First, Parts
<1> HIDE DEF g
<1>3. ASSUME NEW s \in SUBSET S PROVE Adds(g, f, s)
  <2> DEFINE rhs(t) == IF t = {} THEN 0 ELSE f[First(t)] + g[t \ {First(t)}]
  <2>1. g = [t \in SUBSET S |-> rhs(t)] BY <1>1 DEF Parts
  <2>2. g[s] = rhs(s)
    <3> HIDE DEF rhs
    <3> QED BY <2>1
  <2> QED BY <2>2 DEF Adds
<1> QED BY <1>2, <1>3 DEF Sums

(* Two such functions agree where they sum the same values. *)
LEMMA SumsAgree ==
  ASSUME NEW S, IsFiniteSet(S), NEW f, NEW e, \A x \in S : e[x] = f[x],
         NEW g, Sums(g, f, S), NEW h, Sums(h, e, S)
  PROVE  g[S] = h[S]
<1> DEFINE same == {n \in Nat : \A s \in SUBSET S : Cardinality(s) = n => g[s] = h[s]}
<1>0. ASSUME NEW s \in SUBSET S PROVE IsFiniteSet(s) /\ Cardinality(s) \in Nat
  BY FS_Subset, FS_CardinalityType
<1>1. 0 \in same
  <2>1. ASSUME NEW s \in SUBSET S, Cardinality(s) = 0 PROVE g[s] = h[s]
    <3>1. s = {} BY <1>0, <2>1, FS_EmptySet
    <3> QED BY <3>1 DEF Sums, Adds
  <2> QED BY <2>1
<1>2. ASSUME NEW n \in Nat, n \in same PROVE n + 1 \in same
  <2>1. ASSUME NEW s \in SUBSET S, Cardinality(s) = n + 1 PROVE g[s] = h[s]
    <3>1. s # {} BY <2>1, FS_EmptySet
    <3> DEFINE rest == s \ {First(s)}
    <3>2. First(s) \in S /\ rest \in SUBSET S /\ Cardinality(rest) = n
      BY <1>0, <2>1, <3>1, FirstLeaves
    <3>3. g[rest] = h[rest] BY <1>2, <3>2
    <3>4. g[s] = f[First(s)] + g[rest] /\ h[s] = e[First(s)] + h[rest]
      BY <3>1 DEF Sums, Adds
    <3> QED BY <3>2, <3>3, <3>4
  <2> QED BY <2>1
<1>3. Cardinality(S) \in same
  <2>1. Cardinality(S) \in Nat BY FS_CardinalityType
  <2> HIDE DEF same
  <2> QED BY <1>1, <1>2, <2>1, Upward
<1> QED BY <1>3

(* The sums of integers are integers. *)
LEMMA SumsAreIntegers ==
  ASSUME NEW S, IsFiniteSet(S), NEW f, \A x \in S : f[x] \in Int, NEW g, Sums(g, f, S)
  PROVE  \A s \in SUBSET S : g[s] \in Int
<1> DEFINE good == {n \in Nat : \A s \in SUBSET S : Cardinality(s) = n => g[s] \in Int}
<1>0. ASSUME NEW s \in SUBSET S PROVE IsFiniteSet(s) /\ Cardinality(s) \in Nat
  BY FS_Subset, FS_CardinalityType
<1>1. 0 \in good
  <2>1. ASSUME NEW s \in SUBSET S, Cardinality(s) = 0 PROVE g[s] \in Int
    <3>1. s = {} BY <1>0, <2>1, FS_EmptySet
    <3>2. Adds(g, f, s) BY DEF Sums
    <3>3. g[s] = 0 BY <3>1, <3>2 DEF Adds
    <3> QED BY <3>3
  <2> QED BY <2>1
<1>2. ASSUME NEW n \in Nat, n \in good PROVE n + 1 \in good
  <2>1. ASSUME NEW s \in SUBSET S, Cardinality(s) = n + 1 PROVE g[s] \in Int
    <3>1. s # {} BY <2>1, FS_EmptySet
    <3> DEFINE rest == s \ {First(s)}
    <3>2. First(s) \in S /\ rest \in SUBSET S /\ Cardinality(rest) = n
      BY <1>0, <2>1, <3>1, FirstLeaves
    <3>3. g[s] = f[First(s)] + g[rest] /\ g[rest] \in Int /\ f[First(s)] \in Int
      BY <1>2, <3>1, <3>2 DEF Sums, Adds
    <3>4. PICK a \in Int, b \in Int : g[s] = a + b
      BY <3>3
    <3> QED BY ONLY <3>4
  <2> QED BY <2>1
<1>3. Nat \subseteq good
  <2> HIDE DEF good
  <2> QED BY <1>1, <1>2, Upward
<1> QED BY <1>0, <1>3

(* Any element of a sum may be taken first. *)
LEMMA SumsExtract ==
  ASSUME NEW S, IsFiniteSet(S), NEW f, \A x \in S : f[x] \in Int, NEW g, Sums(g, f, S)
  PROVE  \A s \in SUBSET S : \A x \in s : g[s] = f[x] + g[s \ {x}]
<1> DEFINE good == {n \in Nat : \A s \in SUBSET S : Cardinality(s) = n => \A x \in s : g[s] = f[x] + g[s \ {x}]}
<1>0. ASSUME NEW s \in SUBSET S PROVE IsFiniteSet(s) /\ Cardinality(s) \in Nat /\ g[s] \in Int
  BY FS_Subset, FS_CardinalityType, SumsAreIntegers
<1>1. 0 \in good
  <2>1. ASSUME NEW s \in SUBSET S, Cardinality(s) = 0 PROVE s = {}
    BY <1>0, <2>1, FS_EmptySet
  <2> QED BY <2>1
<1>2. ASSUME NEW n \in Nat, n \in good PROVE n + 1 \in good
  <2>1. ASSUME NEW s \in SUBSET S, Cardinality(s) = n + 1, NEW x \in s PROVE g[s] = f[x] + g[s \ {x}]
    <3> DEFINE y == First(s)
               rest == s \ {y}
               other == s \ {x}
               both == rest \ {x}
    <3>1. y \in s /\ Cardinality(rest) = n
      BY <1>0, <2>1, FirstLeaves
    <3>2. g[s] = f[y] + g[rest]
      BY <2>1 DEF Sums, Adds
    <3>3. CASE x = y BY <3>2, <3>3
    <3>4. CASE x # y
      <4>1. /\ x \in rest /\ y \in other /\ other \ {y} = both
            /\ rest \in SUBSET S /\ other \in SUBSET S /\ both \in SUBSET S
        BY <3>1, <3>4
      <4>2. Cardinality(other) = n
        BY <1>0, <2>1, FS_RemoveElement
      <4>3. g[other] = f[y] + g[both]
        <5>1. \A z \in other : g[other] = f[z] + g[other \ {z}] BY <1>2, <4>1, <4>2
        <5>2. g[other] = f[y] + g[other \ {y}] BY <4>1, <5>1
        <5> QED BY <4>1, <5>2
      <4>4. g[rest] = f[x] + g[both]
        BY <1>2, <3>1, <4>1
      <4>5. f[x] \in Int /\ f[y] \in Int /\ g[both] \in Int BY <1>0, <3>1, <4>1
      <4> HIDE DEF other, rest, both, y
      <4>6. g[s] = f[x] + g[other] BY <3>2, <4>3, <4>4, <4>5
      <4> QED BY <4>6 DEF other
    <3> QED BY <3>3, <3>4
  <2> QED BY <2>1
<1>3. Nat \subseteq good
  <2> HIDE DEF good
  <2> QED BY <1>1, <1>2, Upward
<1> QED BY <1>0, <1>3

(* Values summed over a set. *)
LEMMA SumSame ==
  ASSUME NEW S, IsFiniteSet(S), NEW f, NEW e, \A x \in S : e[x] = f[x]
  PROVE  SumFunctionOnSet(f, S) = SumFunctionOnSet(e, S)
<1>1. PICK g : Sums(g, f, S) /\ SumFunctionOnSet(f, S) = g[S]
  BY SumIsPartial
<1>2. PICK h : Sums(h, e, S) /\ SumFunctionOnSet(e, S) = h[S]
  BY SumIsPartial
<1> QED BY <1>1, <1>2, SumsAgree

LEMMA SumOfNone == ASSUME NEW f PROVE SumFunctionOnSet(f, {}) = 0
<1>1. IsFiniteSet({})
  BY FS_EmptySet
<1>2. PICK g : Sums(g, f, {}) /\ SumFunctionOnSet(f, {}) = g[{}]
  BY <1>1, SumIsPartial
<1>3. Adds(g, f, {})
  BY <1>2 DEF Sums
<1> QED BY <1>2, <1>3 DEF Adds

LEMMA SumSplits ==
  ASSUME NEW S, IsFiniteSet(S), NEW f, \A x \in S : f[x] \in Int, NEW y \in S
  PROVE  /\ SumFunctionOnSet(f, S) = f[y] + SumFunctionOnSet(f, S \ {y})
         /\ SumFunctionOnSet(f, S) \in Int /\ SumFunctionOnSet(f, S \ {y}) \in Int
<1>1. PICK g : Sums(g, f, S) /\ SumFunctionOnSet(f, S) = g[S]
  BY SumIsPartial
<1>2. PICK T : T = S \ {y}
  OBVIOUS
<1>3. IsFiniteSet(T) /\ T \in SUBSET S
  BY <1>2, FS_Subset
<1>4. PICK h : Sums(h, f, T) /\ SumFunctionOnSet(f, T) = h[T]
  BY <1>3, SumIsPartial
<1>5. Sums(g, f, T)
  BY <1>1, <1>3 DEF Sums
<1>6. h[T] = g[T]
  <2>1. \A x \in T : f[x] = f[x] OBVIOUS
  <2> QED BY <1>3, <1>4, <1>5, <2>1, SumsAgree
<1>7. S \in SUBSET S
  OBVIOUS
<1>8. g[S] \in Int /\ g[T] \in Int
  BY <1>1, <1>3, <1>7, SumsAreIntegers
<1>9. g[S] = f[y] + g[T]
  BY <1>1, <1>2, <1>7, SumsExtract
<1> QED BY <1>1, <1>2, <1>4, <1>6, <1>8, <1>9

LEMMA SumIsInteger ==
  ASSUME NEW S, IsFiniteSet(S), NEW f, \A x \in S : f[x] \in Int
  PROVE  SumFunctionOnSet(f, S) \in Int
<1>1. CASE S = {} BY <1>1, SumOfNone
<1>2. CASE S # {} BY <1>2, SumSplits
<1> QED BY <1>1, <1>2

(* What holds of an empty sum and is kept by each element holds of a sum:    *)
(* sums of naturals are naturals, and a sum of zeros is zero.                *)
LEMMA SumInside ==
  ASSUME NEW S, IsFiniteSet(S), NEW N \in SUBSET Int, 0 \in N, \A a, b \in N : a + b \in N,
         NEW f, \A x \in S : f[x] \in N
  PROVE  SumFunctionOnSet(f, S) \in N
<1> DEFINE good == {n \in Nat : \A s \in SUBSET S : Cardinality(s) = n => SumFunctionOnSet(f, s) \in N}
<1>0. ASSUME NEW s \in SUBSET S PROVE IsFiniteSet(s) /\ Cardinality(s) \in Nat
  BY FS_Subset, FS_CardinalityType
<1>1. 0 \in good
  <2>1. ASSUME NEW s \in SUBSET S, Cardinality(s) = 0 PROVE SumFunctionOnSet(f, s) \in N
    <3>1. s = {} BY <1>0, <2>1, FS_EmptySet
    <3> QED BY <3>1, SumOfNone
  <2> QED BY <2>1
<1>2. ASSUME NEW n \in Nat, n \in good PROVE n + 1 \in good
  <2>1. ASSUME NEW s \in SUBSET S, Cardinality(s) = n + 1 PROVE SumFunctionOnSet(f, s) \in N
    <3>1. s # {} BY <2>1, FS_EmptySet
    <3>2. PICK y \in s : TRUE BY <3>1
    <3>3. PICK T : T = s \ {y} OBVIOUS
    <3>4. T \in SUBSET S /\ Cardinality(T) = n
      <4>1. IsFiniteSet(s) /\ Cardinality(s) \in Nat BY <1>0
      <4>2. Cardinality(T) = Cardinality(s) - 1 BY <3>2, <3>3, <4>1, FS_RemoveElement
      <4> QED BY <2>1, <3>3, <4>2
    <3>5. SumFunctionOnSet(f, T) \in N BY <1>2, <3>4
    <3>6. \A x \in s : f[x] \in Int OBVIOUS
    <3>7. SumFunctionOnSet(f, s) = f[y] + SumFunctionOnSet(f, T)
      BY <1>0, <3>3, <3>6, SumSplits
    <3>8. f[y] \in N OBVIOUS
    <3> QED BY <3>5, <3>7, <3>8
  <2> QED BY <2>1
<1>3. Nat \subseteq good
  <2> HIDE DEF good
  <2> QED BY <1>1, <1>2, Upward
<1>4. S \in SUBSET S
  OBVIOUS
<1> QED BY <1>0, <1>3, <1>4

LEMMA SumOfNaturals ==
  ASSUME NEW S, IsFiniteSet(S), NEW f, \A x \in S : f[x] \in Nat
  PROVE  SumFunctionOnSet(f, S) \in Nat
<1>1. Nat \in SUBSET Int /\ 0 \in Nat /\ \A a, b \in Nat : a + b \in Nat
  OBVIOUS
<1>2. PICK N : N = Nat
  OBVIOUS
<1> QED BY <1>1, <1>2, SumInside

LEMMA SumOfZeros ==
  ASSUME NEW S, IsFiniteSet(S), NEW f, \A x \in S : f[x] = 0
  PROVE  SumFunctionOnSet(f, S) = 0
<1>1. PICK N : N = {0}
  OBVIOUS
<1>2. N \in SUBSET Int /\ 0 \in N /\ (\A a, b \in N : a + b \in N) /\ \A x \in S : f[x] \in N
  BY <1>1
<1>3. SumFunctionOnSet(f, S) \in N
  BY <1>2, SumInside
<1> QED BY <1>1, <1>3

(* One element exchanged for another. *)
Swaps(S, old, new, f, e) ==
  /\ IsFiniteSet(S) /\ old \notin S /\ new \notin S /\ \A x \in S : e[x] = f[x]
  /\ f \in [S \cup {old} -> Int] /\ e \in [S \cup {new} -> Int]

LEMMA SumExchanges ==
  ASSUME NEW S, NEW old, NEW new, NEW f, NEW e, Swaps(S, old, new, f, e)
  PROVE  SumFunction(e) = (SumFunction(f) - f[old]) + e[new]
<1>0. /\ IsFiniteSet(S) /\ old \notin S /\ new \notin S /\ \A x \in S : e[x] = f[x]
      /\ f \in [S \cup {old} -> Int] /\ e \in [S \cup {new} -> Int]
  BY DEF Swaps
<1>1. /\ IsFiniteSet(S \cup {old}) /\ IsFiniteSet(S \cup {new})
      /\ (S \cup {old}) \ {old} = S /\ (S \cup {new}) \ {new} = S
  BY <1>0, FS_AddElement
<1>2. PICK F, E : F = S \cup {old} /\ E = S \cup {new}
  OBVIOUS
<1>3. /\ SumFunctionOnSet(f, F) = f[old] + SumFunctionOnSet(f, S) /\ SumFunctionOnSet(f, F) \in Int
      /\ SumFunctionOnSet(f, S) \in Int
  <2>1. (\A x \in F : f[x] \in Int) /\ old \in F /\ IsFiniteSet(F) /\ F \ {old} = S BY <1>0, <1>1, <1>2
  <2> QED BY <2>1, SumSplits
<1>4. /\ SumFunctionOnSet(e, E) = e[new] + SumFunctionOnSet(e, S) /\ SumFunctionOnSet(e, E) \in Int
      /\ SumFunctionOnSet(e, S) \in Int
  <2>1. (\A x \in E : e[x] \in Int) /\ new \in E /\ IsFiniteSet(E) /\ E \ {new} = S BY <1>0, <1>1, <1>2
  <2> QED BY <2>1, SumSplits
<1>5. SumFunctionOnSet(f, S) = SumFunctionOnSet(e, S)
  BY <1>0, SumSame
<1>6. SumFunction(f) = SumFunctionOnSet(f, F) /\ SumFunction(e) = SumFunctionOnSet(e, E)
  BY <1>0, <1>2 DEF SumFunction
<1>7. f[old] \in Int /\ e[new] \in Int
  BY <1>0
<1> QED BY <1>3, <1>4, <1>5, <1>6, <1>7

-----------------------------------------------------------------------------
(* Orders by rank. *)

Orders(ahead, S) ==
  /\ \A x \in S : <<x, x>> \notin ahead
  /\ \A x, y \in S : x # y => <<x, y>> \in ahead \/ <<y, x>> \in ahead
  /\ \A x, y, z \in S : <<x, y>> \in ahead /\ <<y, z>> \in ahead => <<x, z>> \in ahead

Rank(S, ahead, x) == Cardinality({y \in S : <<y, x>> \in ahead})

(* The places of a finite set's elements are all different. *)
LEMMA RankFacts ==
  ASSUME NEW S, IsFiniteSet(S), NEW ahead, Orders(ahead, S)
  PROVE  /\ \A x \in S : Rank(S, ahead, x) \in Nat /\ Rank(S, ahead, x) + 1 \in 1..Cardinality(S)
         /\ \A x, y \in S : Rank(S, ahead, x) = Rank(S, ahead, y) => x = y
<1> DEFINE Above(x) == {y \in S : <<y, x>> \in ahead}
<1>1. ASSUME NEW x \in S PROVE Above(x) \in SUBSET S /\ IsFiniteSet(Above(x)) /\ Cardinality(Above(x)) \in Nat
  <2>1. Above(x) \in SUBSET S OBVIOUS
  <2> QED BY <2>1, FS_Subset, FS_CardinalityType
<1>2. Cardinality(S) \in Nat
  BY FS_CardinalityType
<1>3. ASSUME NEW x \in S PROVE Cardinality(Above(x)) < Cardinality(S)
  <2>1. x \notin Above(x) BY DEF Orders
  <2>2. Above(x) # S BY <2>1
  <2> HIDE DEF Above
  <2>3. Cardinality(Above(x)) <= Cardinality(S) /\ Cardinality(S) # Cardinality(Above(x)) BY <1>1, <2>2, FS_Subset
  <2> QED BY <1>1, <1>2, <2>3
<1>4. ASSUME NEW x \in S, NEW y \in S, <<x, y>> \in ahead PROVE Cardinality(Above(x)) # Cardinality(Above(y))
  <2>1. Above(x) \in SUBSET Above(y) BY <1>4 DEF Orders
  <2>2. x \in Above(y) /\ x \notin Above(x) BY <1>4 DEF Orders
  <2> HIDE DEF Above
  <2> QED BY <1>1, <2>1, <2>2, FS_Subset
<1>5. \A x \in S : Rank(S, ahead, x) = Cardinality(Above(x))
  BY DEF Rank
<1>6. ASSUME NEW x \in S, NEW y \in S, Rank(S, ahead, x) = Rank(S, ahead, y) PROVE x = y
  BY <1>4, <1>5, <1>6 DEF Orders
<1>7. ASSUME NEW x \in S PROVE Rank(S, ahead, x) \in Nat /\ Rank(S, ahead, x) + 1 \in 1..Cardinality(S)
  <2> HIDE DEF Above
  <2> QED BY <1>1, <1>2, <1>3, <1>5
<1> QED BY <1>6, <1>7

(* Arranged, each element has one place. *)
ArrangesAll(r, S, ahead) ==
  /\ r \in [1..Cardinality(S) -> S]
  /\ \A x \in S : Rank(S, ahead, x) + 1 \in DOMAIN r /\ r[Rank(S, ahead, x) + 1] = x
  /\ \A n \in DOMAIN r : Rank(S, ahead, r[n]) = n - 1

LEMMA ArrangedFacts ==
  ASSUME NEW S, IsFiniteSet(S), NEW ahead, Orders(ahead, S)
  PROVE  ArrangesAll(Arranged(S, ahead), S, ahead)
<1> DEFINE N == Cardinality(S)
           place == [x \in S |-> Rank(S, ahead, x) + 1]
           r == Arranged(S, ahead)
<1>1. N \in Nat /\ IsFiniteSet(1..N) /\ Cardinality(1..N) = N
  BY FS_CardinalityType, FS_Interval
<1>2. /\ \A x \in S : Rank(S, ahead, x) \in Nat /\ Rank(S, ahead, x) + 1 \in 1..N
      /\ \A x, y \in S : Rank(S, ahead, x) = Rank(S, ahead, y) => x = y
  BY RankFacts
<1>3. place \in Injection(S, 1..N)
  <2>1. place \in [S -> 1..N] BY <1>2
  <2>2. ASSUME NEW x \in S, NEW y \in S, place[x] = place[y] PROVE x = y
    <3>1. Rank(S, ahead, x) + 1 = Rank(S, ahead, y) + 1 BY <2>2
    <3>2. Rank(S, ahead, x) = Rank(S, ahead, y) BY <1>2, <3>1
    <3> QED BY <1>2, <3>2
  <2> QED BY <2>1, <2>2 DEF Injection, IsInjective
<1>4. place \in Surjection(S, 1..N)
  <2> HIDE DEF place
  <2> QED BY <1>1, <1>3, FS_Injection
<1>5. \A n \in 1..N : \E x \in S : Rank(S, ahead, x) + 1 = n
  BY <1>4 DEF Surjection
<1>6. ASSUME NEW n \in 1..N PROVE r[n] \in S /\ Rank(S, ahead, r[n]) = n - 1
  <2>1. PICK x \in S : Rank(S, ahead, x) + 1 = n BY <1>5
  <2>2. Rank(S, ahead, x) = n - 1 BY <1>2, <2>1
  <2>3. r[n] = CHOOSE y \in S : Rank(S, ahead, y) = n - 1
    BY DEF Arranged, Rank
  <2> QED BY <2>2, <2>3
<1>7. r \in [1..N -> S]
  <2> DEFINE nth(n) == CHOOSE x \in S : Cardinality({y \in S : <<y, x>> \in ahead}) = n - 1
  <2>1. r = [n \in 1..N |-> nth(n)] BY DEF Arranged
  <2> HIDE DEF r, nth, N
  <2> QED BY <1>6, <2>1
<1>8. ASSUME NEW x \in S PROVE r[Rank(S, ahead, x) + 1] = x
  <2>1. PICK n : n = Rank(S, ahead, x) + 1 OBVIOUS
  <2>2. n \in 1..N /\ Rank(S, ahead, x) = n - 1 BY <1>2, <2>1
  <2>3. r[n] \in S /\ Rank(S, ahead, r[n]) = n - 1 BY <1>6, <2>2
  <2>4. r[n] = x
    <3> HIDE DEF r
    <3> QED BY <1>2, <2>2, <2>3
  <2> QED BY <2>1, <2>4
<1> HIDE DEF r, N
<1> QED BY <1>2, <1>6, <1>7, <1>8 DEF ArrangesAll, r, N

(* The first of an arrangement has nothing ahead, and is the only one. *)
LEMMA ArrangedFirst ==
  ASSUME NEW S, IsFiniteSet(S), S # {}, NEW ahead, Orders(ahead, S)
  PROVE  /\ 1 \in DOMAIN Arranged(S, ahead) /\ Arranged(S, ahead)[1] \in S
         /\ \A x \in S : Arranged(S, ahead)[1] = x <=> \A y \in S : <<y, x>> \notin ahead
<1> DEFINE r == Arranged(S, ahead)
<1>1. ArrangesAll(r, S, ahead)
  BY ArrangedFacts
<1>2. Cardinality(S) \in Nat /\ Cardinality(S) # 0
  BY FS_CardinalityType, FS_EmptySet
<1> HIDE DEF r
<1>3. 1 \in DOMAIN r /\ r[1] \in S /\ Rank(S, ahead, r[1]) = 0
  BY <1>1, <1>2 DEF ArrangesAll
<1>4. ASSUME NEW x \in S PROVE Rank(S, ahead, x) = 0 <=> \A y \in S : <<y, x>> \notin ahead
  <2> DEFINE above == {y \in S : <<y, x>> \in ahead}
  <2>1. above \in SUBSET S OBVIOUS
  <2>2. IsFiniteSet(above) BY <2>1, FS_Subset
  <2>3. Cardinality(above) = 0 <=> above = {} BY <2>2, FS_EmptySet
  <2> QED BY <2>3 DEF Rank
<1>5. \A x \in S : Rank(S, ahead, x) = 0 => x = r[1]
  BY <1>3, RankFacts
<1> QED BY <1>3, <1>4, <1>5 DEF r

(* What is kept of a sequence. *)
LEMMA KeepFacts ==
  ASSUME NEW A, NEW s \in Seq(A), NEW T
  PROVE  /\ Keep(s, T) \in Seq(A \cap T) /\ ToSet(Keep(s, T)) = ToSet(s) \cap T
         /\ Keep(s, T) = <<>> <=> ToSet(s) \cap T = {}
<1> DEFINE kept == {i \in DOMAIN s : s[i] \in T}
           ahead == {p \in kept \X kept : p[1] < p[2]}
           r == Arranged(kept, ahead)
<1>1. kept \in SUBSET (1..Len(s)) /\ Len(s) \in Nat /\ DOMAIN s = 1..Len(s)
  OBVIOUS
<1>2. IsFiniteSet(kept)
  <2>1. PICK D : D = 1..Len(s) OBVIOUS
  <2>2. IsFiniteSet(D) BY <1>1, <2>1, FS_Interval
  <2> HIDE DEF kept
  <2> QED BY <1>1, <2>1, <2>2, FS_Subset
<1>3. Orders(ahead, kept)
  <2>1. \A i, j \in kept : i \in Nat /\ j \in Nat /\ (<<i, j>> \in ahead <=> i < j) BY <1>1
  <2> HIDE DEF kept, ahead
  <2> QED BY <2>1 DEF Orders
<1>4. ArrangesAll(r, kept, ahead) /\ Cardinality(kept) \in Nat
  <2> HIDE DEF kept, ahead
  <2> QED BY <1>2, <1>3, ArrangedFacts, FS_CardinalityType
<1>5. /\ r \in [1..Cardinality(kept) -> kept]
      /\ \A i \in kept : \E n \in DOMAIN r : r[n] = i
  BY <1>4 DEF ArrangesAll
<1>6. Keep(s, T) = [n \in DOMAIN r |-> s[r[n]]]
  BY DEF Keep
<1> HIDE DEF r
<1>7. DOMAIN Keep(s, T) = 1..Cardinality(kept) /\ \A n \in DOMAIN r : Keep(s, T)[n] = s[r[n]]
  BY <1>5, <1>6
<1>8. \A n \in DOMAIN r : s[r[n]] \in A \cap T
  BY <1>1, <1>5
<1>9. Keep(s, T) \in Seq(A \cap T)
  BY <1>4, <1>5, <1>6, <1>8
<1>10. ToSet(Keep(s, T)) \subseteq ToSet(s) \cap T
  BY <1>5, <1>7, <1>8, <1>1 DEF ToSet
<1>11. ToSet(s) \cap T \subseteq ToSet(Keep(s, T))
  <2> SUFFICES ASSUME NEW x \in ToSet(s) \cap T PROVE x \in ToSet(Keep(s, T)) OBVIOUS
  <2>1. PICK i \in DOMAIN s : s[i] = x BY DEF ToSet
  <2>2. i \in kept BY <2>1
  <2>3. PICK n \in DOMAIN r : r[n] = i BY <1>5, <2>2
  <2>4. n \in DOMAIN Keep(s, T) /\ Keep(s, T)[n] = x BY <1>5, <1>7, <2>1, <2>3
  <2> QED BY <2>4 DEF ToSet
<1>12. Keep(s, T) = <<>> <=> ToSet(Keep(s, T)) = {}
  <2>1. PICK k \in Seq(A \cap T) : k = Keep(s, T) BY <1>9
  <2>2. ASSUME k # <<>> PROVE k[1] \in ToSet(k)
    <3>1. 1 \in DOMAIN k BY <2>2
    <3> QED BY <3>1 DEF ToSet
  <2>3. ToSet(<<>>) = {} BY DEF ToSet
  <2> QED BY <2>1, <2>2, <2>3
<1> QED BY <1>9, <1>10, <1>11, <1>12

-----------------------------------------------------------------------------
(* Arithmetic in units. *)

LEMMA QuotientFacts ==
  ASSUME NEW a \in Int, NEW u \in Nat \ {0}
  PROVE  a \div u \in Int /\ u * (a \div u) <= a /\ a < u * (a \div u) + u
OBVIOUS

LEMMA ProductGrows ==
  ASSUME NEW a \in Int, NEW b \in Int, a <= b, NEW w \in Nat
  PROVE  a * w \in Int /\ b * w \in Int /\ a * w <= b * w /\ w * a <= w * b
OBVIOUS

LEMMA QuotientGrows ==
  ASSUME NEW a \in Int, NEW b \in Int, a <= b, NEW u \in Nat \ {0}
  PROVE  a \div u <= b \div u
<1>1. PICK p \in Int, q \in Int : p = a \div u /\ q = b \div u
  BY QuotientFacts
<1>2. u * p <= a /\ a < u * p + u /\ u * q <= b /\ b < u * q + u
  BY <1>1, QuotientFacts
<1>3. SUFFICES ASSUME q + 1 <= p PROVE FALSE
  BY <1>1
<1>4. u * (q + 1) <= u * p
  BY <1>3, ProductGrows
<1>5. u * (q + 1) = u * q + u
  OBVIOUS
<1> QED BY <1>2, <1>4, <1>5

-----------------------------------------------------------------------------
(* Rankings. *)

(* The entry at a place has nothing ahead of it. *)
Leads(s, key, i) ==
  \A j \in DOMAIN s : j # i => key[s[i]] > key[s[j]] \/ (key[s[i]] = key[s[j]] /\ i < j)

(* A ranking scores each alternative, and the first is the leader. *)
Ranks(c, s, support, key, scores) ==
  /\ DOMAIN scores = 1..Len(scores) /\ Len(scores) \in Nat
  /\ scores = <<>> <=> s = <<>>
  /\ {scores[n].alternative : n \in DOMAIN scores} = ToSet(s)
  /\ \A n \in DOMAIN scores : \E a \in ToSet(s) : scores[n] = Score(a, support[a], StatusOf(c, a))
  /\ s # <<>> => \E i \in DOMAIN s : /\ Leads(s, key, i)
                                     /\ scores[1] = Score(s[i], support[s[i]], StatusOf(c, s[i]))

Entry(s, support, key, i) ==
  [alternative |-> s[i], place |-> i, support |-> support[s[i]], key |-> key[s[i]]]

Entries(s, support, key) == {Entry(s, support, key, i) : i \in DOMAIN s}

AheadIn(E) == {p \in E \X E : Ahead(p[1], p[2])}

LEMMA EntriesOrdered ==
  ASSUME NEW A, NEW s \in Seq(A), NEW support, NEW key, \A a \in A : key[a] \in Int
  PROVE  /\ IsFiniteSet(Entries(s, support, key))
         /\ Orders(AheadIn(Entries(s, support, key)), Entries(s, support, key))
<1> DEFINE E == Entries(s, support, key)
<1>1. IsFiniteSet(DOMAIN s)
  <2>1. DOMAIN s = 1..Len(s) /\ Len(s) \in Nat OBVIOUS
  <2> QED BY <2>1, FS_Interval
<1>2. IsFiniteSet(E)
  <2> DEFINE f == [i \in DOMAIN s |-> Entry(s, support, key, i)]
  <2>1. f \in Surjection(DOMAIN s, E) BY DEF Surjection, Entries
  <2> HIDE DEF f, E
  <2> QED BY <1>1, <2>1, FS_Surjection
<1>3. ASSUME NEW x \in E PROVE x.place \in Nat /\ x.key \in Int /\ x = Entry(s, support, key, x.place)
  <2>1. PICK i \in DOMAIN s : x = Entry(s, support, key, i) BY DEF Entries
  <2>2. s[i] \in A /\ i \in Nat OBVIOUS
  <2> QED BY <2>1, <2>2 DEF Entry
<1>4. \A x, y \in E : <<x, y>> \in AheadIn(E) <=> Ahead(x, y)
  <2> HIDE DEF E
  <2> QED BY DEF AheadIn
<1>5. \A x, y \in E : x.place = y.place => x = y
  <2> HIDE DEF E
  <2> QED BY <1>3
<1>6. Orders(AheadIn(E), E)
  <2> HIDE DEF E
  <2>1. \A x \in E : <<x, x>> \notin AheadIn(E) BY <1>3, <1>4 DEF Ahead
  <2>2. \A x, y \in E : x # y => <<x, y>> \in AheadIn(E) \/ <<y, x>> \in AheadIn(E) BY <1>3, <1>4, <1>5 DEF Ahead
  <2>3. \A x, y, z \in E : <<x, y>> \in AheadIn(E) /\ <<y, z>> \in AheadIn(E) => <<x, z>> \in AheadIn(E)
    BY <1>3, <1>4 DEF Ahead
  <2> QED BY <2>1, <2>2, <2>3 DEF Orders
<1> QED BY <1>2, <1>6

LEMMA RankedFacts ==
  ASSUME NEW c, NEW A, NEW s \in Seq(A), NEW support, NEW key, \A a \in A : key[a] \in Int
  PROVE  Ranks(c, s, support, key, Ranked(c, s, support, key))
<1> DEFINE E == Entries(s, support, key)
           r == Arranged(E, AheadIn(E))
           scores == Ranked(c, s, support, key)
           score(e) == Score(e.alternative, e.support, StatusOf(c, e.alternative))
<1>1. IsFiniteSet(E) /\ Orders(AheadIn(E), E)
  BY EntriesOrdered
<1>2. Cardinality(E) \in Nat /\ (E = {} <=> Cardinality(E) = 0)
  <2> HIDE DEF E
  <2> QED BY <1>1, FS_CardinalityType, FS_EmptySet
<1>3. ArrangesAll(r, E, AheadIn(E))
  <2> HIDE DEF E
  <2> QED BY <1>1, ArrangedFacts
<1>4. r \in [1..Cardinality(E) -> E] /\ \A e \in E : \E n \in DOMAIN r : r[n] = e
  <2> HIDE DEF E, r
  <2> QED BY <1>3 DEF ArrangesAll
<1>5. scores = [n \in DOMAIN r |-> score(r[n])]
  BY DEF Ranked, Entries, Entry, AheadIn
<1>6. \A i \in DOMAIN s : /\ Entry(s, support, key, i) \in E /\ s[i] \in A /\ s[i] \in ToSet(s)
                          /\ Entry(s, support, key, i).alternative = s[i]
                          /\ score(Entry(s, support, key, i)) = Score(s[i], support[s[i]], StatusOf(c, s[i]))
  BY DEF Entries, Entry, ToSet
<1>7. \A e \in E : \E i \in DOMAIN s : e = Entry(s, support, key, i)
  BY DEF Entries
<1>8. E = {} <=> s = <<>>
  <2>1. DOMAIN s = {} <=> s = <<>> OBVIOUS
  <2> HIDE DEF E
  <2> QED BY <1>6, <1>7, <2>1
<1>9. \A e \in E : score(e).alternative = e.alternative
  BY DEF Score
<1> HIDE DEF E, r
<1>10. DOMAIN scores = 1..Cardinality(E) /\ \A n \in DOMAIN r : scores[n] = score(r[n])
  <2> HIDE DEF score
  <2> QED BY <1>4, <1>5
<1>11. /\ DOMAIN scores = 1..Len(scores) /\ Len(scores) \in Nat
       /\ scores = <<>> <=> s = <<>>
  <2>1. Len(scores) = Cardinality(E)
    <3> HIDE DEF score
    <3> QED BY <1>2, <1>4, <1>5
  <2>2. scores \in Seq({score(e) : e \in E})
    <3>1. \A n \in 1..Cardinality(E) : score(r[n]) \in {score(e) : e \in E}
      <4> HIDE DEF score
      <4> QED BY <1>4
    <3>2. PICK T : T = {score(e) : e \in E} OBVIOUS
    <3>3. DOMAIN r = 1..Cardinality(E) BY <1>4
    <3> HIDE DEF score, scores
    <3>4. scores \in [1..Cardinality(E) -> T] BY <1>5, <3>1, <3>2, <3>3
    <3> QED BY <1>2, <3>2, <3>4
  <2>3. scores = <<>> <=> Len(scores) = 0
    <3> HIDE DEF scores
    <3> QED BY <2>2
  <2> QED BY <1>2, <1>8, <1>10, <2>1, <2>3
<1> HIDE DEF scores
<1>12. \A n \in DOMAIN scores : \E i \in DOMAIN s : scores[n] = Score(s[i], support[s[i]], StatusOf(c, s[i]))
  <2> SUFFICES ASSUME NEW n \in DOMAIN scores PROVE \E i \in DOMAIN s : scores[n] = Score(s[i], support[s[i]], StatusOf(c, s[i])) OBVIOUS
  <2>1. r[n] \in E /\ scores[n] = score(r[n])
    <3> HIDE DEF score
    <3> QED BY <1>4, <1>10
  <2>2. PICK i \in DOMAIN s : r[n] = Entry(s, support, key, i) BY <1>7, <2>1
  <2> QED BY <1>6, <2>1, <2>2
<1>13. {scores[n].alternative : n \in DOMAIN scores} = ToSet(s)
  <2>1. \A n \in DOMAIN scores : scores[n].alternative \in ToSet(s)
    <3> SUFFICES ASSUME NEW n \in DOMAIN scores PROVE scores[n].alternative \in ToSet(s) OBVIOUS
    <3>1. PICK i \in DOMAIN s : scores[n] = Score(s[i], support[s[i]], StatusOf(c, s[i])) BY <1>12
    <3>2. scores[n].alternative = s[i] BY <3>1 DEF Score
    <3> QED BY <1>6, <3>2
  <2>2. ASSUME NEW a \in ToSet(s) PROVE \E n \in DOMAIN scores : scores[n].alternative = a
    <3>1. PICK i \in DOMAIN s : s[i] = a BY DEF ToSet
    <3>2. PICK n \in DOMAIN r : r[n] = Entry(s, support, key, i) BY <1>4, <1>6
    <3>3. n \in DOMAIN scores /\ scores[n] = score(r[n])
      <4> HIDE DEF score
      <4> QED BY <1>4, <1>10, <3>2
    <3>4. r[n] \in E /\ r[n].alternative = a BY <1>6, <3>1, <3>2
    <3>5. scores[n].alternative = a
      <4> HIDE DEF score
      <4> QED BY <1>9, <3>3, <3>4
    <3> QED BY <3>3, <3>5
  <2> QED BY <2>1, <2>2
<1>14. ASSUME s # <<>>
       PROVE \E i \in DOMAIN s : Leads(s, key, i) /\ scores[1] = Score(s[i], support[s[i]], StatusOf(c, s[i]))
  <2>1. E # {} BY <1>8, <1>14
  <2>2. 1 \in DOMAIN r /\ r[1] \in E /\ \A y \in E : <<y, r[1]>> \notin AheadIn(E)
    BY <1>1, <2>1, ArrangedFirst DEF r
  <2>3. PICK i \in DOMAIN s : r[1] = Entry(s, support, key, i) BY <1>7, <2>2
  <2>4. scores[1] = score(r[1])
    <3> HIDE DEF score
    <3> QED BY <1>10, <2>2
  <2>5. scores[1] = Score(s[i], support[s[i]], StatusOf(c, s[i])) BY <1>6, <2>3, <2>4
  <2>6. ASSUME NEW j \in DOMAIN s, j # i PROVE key[s[i]] > key[s[j]] \/ (key[s[i]] = key[s[j]] /\ i < j)
    <3>1. Entry(s, support, key, j) \in E /\ s[i] \in A /\ s[j] \in A /\ i \in Nat /\ j \in Nat BY <1>6
    <3>2. ~Ahead(Entry(s, support, key, j), Entry(s, support, key, i))
      BY <2>2, <2>3, <3>1 DEF AheadIn
    <3>3. ~(key[s[j]] > key[s[i]] \/ (key[s[j]] = key[s[i]] /\ j < i))
      BY <3>2 DEF Ahead, Entry
    <3> QED BY <2>6, <3>1, <3>3
  <2> QED BY <2>5, <2>6 DEF Leads
<1>15. \A n \in DOMAIN scores : \E a \in ToSet(s) : scores[n] = Score(a, support[a], StatusOf(c, a))
  BY <1>6, <1>12
<1>16. Ranks(c, s, support, key, scores)
  BY <1>11, <1>13, <1>14, <1>15 DEF Ranks
<1> QED BY <1>16 DEF scores

(* There is one leader. *)
LEMMA OneLeader ==
  ASSUME NEW A, NEW s \in Seq(A), NEW key, \A a \in A : key[a] \in Int,
         NEW i \in DOMAIN s, NEW j \in DOMAIN s, Leads(s, key, i), Leads(s, key, j)
  PROVE  i = j
<1>1. s[i] \in A /\ s[j] \in A /\ i \in Nat /\ j \in Nat
  OBVIOUS
<1> QED BY <1>1 DEF Leads

(* The leader stays the leader when its own key grows and the others stay.   *)
LEMMA LeaderStays ==
  ASSUME NEW A, NEW s \in Seq(A), NEW key, NEW new, \A a \in A : key[a] \in Int /\ new[a] \in Int,
         NEW i \in DOMAIN s, Leads(s, key, i), new[s[i]] >= key[s[i]],
         \A a \in A : a # s[i] => new[a] = key[a]
  PROVE  Leads(s, new, i)
<1> SUFFICES ASSUME NEW j \in DOMAIN s, j # i
             PROVE  new[s[i]] > new[s[j]] \/ (new[s[i]] = new[s[j]] /\ i < j)
  BY DEF Leads
<1>1. s[i] \in A /\ s[j] \in A /\ key[s[i]] \in Int /\ key[s[j]] \in Int /\ new[s[i]] \in Int /\ i \in Nat /\ j \in Nat
  OBVIOUS
<1>2. key[s[i]] > key[s[j]] \/ (key[s[i]] = key[s[j]] /\ i < j)
  BY DEF Leads
<1>3. CASE s[j] = s[i]
  BY <1>1, <1>2, <1>3
<1>4. CASE s[j] # s[i]
  BY <1>1, <1>2, <1>4
<1> QED BY <1>3, <1>4

-----------------------------------------------------------------------------
(* A strategy's evaluation, in one form for the three of them. *)

Field(s, c) == IF s = "constraint_aware" THEN Undominated(c, Evidenced(c)) ELSE Rankable(c)

SupportOf(s, c, a) == IF s = "weighted" THEN ComputeSupport(c, a) ELSE BlendedSupport(c, a)

Supports(s, c) == [a \in ToSet(Field(s, c)) |-> SupportOf(s, c, a)]

KeyOf(s, c, a) ==
  IF s = "constraint_aware" THEN SupportOf(s, c, a) ELSE RankScore(c, a, SupportOf(s, c, a))

Keys(s, c) == [a \in ToSet(Field(s, c)) |-> KeyOf(s, c, a)]

Scores(s, c) == Ranked(c, Field(s, c), Supports(s, c), Keys(s, c))

(* The strategy gets to classify a leader. *)
Decides(s, c) ==
  /\ Rankable(c) # <<>>
  /\ s = "evidence_weighted" => EvidenceTotal(c, Scores(s, c)[1].alternative) # 0
  /\ s = "constraint_aware" => /\ Evidenced(c) # <<>> /\ ~Conflict(c, Field(s, c))
                               /\ Scores(s, c) # <<>>

(* What a result that classifies its leader says. *)
Decided(r, c, scores) ==
  /\ r.outcome = OutcomeFor(c, scores[1]) /\ r.support = scores[1].support /\ r.scores = scores
  /\ r.selected = IF r.outcome \in Selectable THEN scores[1].alternative ELSE Absent

LEMMA ClassifiedIsDecided ==
  ASSUME NEW c, NEW scores
  PROVE  /\ Decided(Classified(c, scores), c, scores)
         /\ \A b : Decided([Classified(c, scores) EXCEPT !.threshold_bound = b], c, scores)
<1> HIDE DEF OutcomeFor, Selectable
<1>1. Decided(Classified(c, scores), c, scores)
  BY DEF Decided, Classified, Recorded, Stopped
<1>2. ASSUME NEW b PROVE Decided([Classified(c, scores) EXCEPT !.threshold_bound = b], c, scores)
  BY DEF Decided, Classified, Recorded, Stopped
<1> QED BY <1>1, <1>2

LEMMA ScoresOfStrategies ==
  ASSUME NEW c
  PROVE  /\ Scores("weighted", c)
              = RankedByScore(c, [a \in ToSet(Rankable(c)) |-> ComputeSupport(c, a)])
         /\ Scores("evidence_weighted", c)
              = RankedByScore(c, [a \in ToSet(Rankable(c)) |-> BlendedSupport(c, a)])
         /\ Scores("constraint_aware", c) = SupportOrder(c, Undominated(c, Evidenced(c)))
<1>1. /\ Supports("weighted", c) = [a \in ToSet(Rankable(c)) |-> ComputeSupport(c, a)]
      /\ Supports("evidence_weighted", c) = [a \in ToSet(Rankable(c)) |-> BlendedSupport(c, a)]
      /\ Supports("constraint_aware", c) = [a \in ToSet(Undominated(c, Evidenced(c))) |-> BlendedSupport(c, a)]
  BY DEF Supports, Field, SupportOf
<1>2. ASSUME NEW s \in {"weighted", "evidence_weighted"}
      PROVE  /\ Keys(s, c) = [a \in DOMAIN Supports(s, c) |-> RankScore(c, a, Supports(s, c)[a])]
             /\ Field(s, c) = Rankable(c)
  BY DEF Keys, KeyOf, Supports, Field
<1>3. Keys("constraint_aware", c) = Supports("constraint_aware", c)
  BY DEF Keys, KeyOf, Supports
<1>4. Field("constraint_aware", c) = Undominated(c, Evidenced(c))
  BY DEF Field
<1>5. Scores("weighted", c) = RankedByScore(c, Supports("weighted", c))
  BY <1>2 DEF Scores, RankedByScore
<1>6. Scores("evidence_weighted", c) = RankedByScore(c, Supports("evidence_weighted", c))
  BY <1>2 DEF Scores, RankedByScore
<1>7. Scores("constraint_aware", c) = SupportOrder(c, Undominated(c, Evidenced(c)))
  BY <1>1, <1>3, <1>4 DEF Scores, SupportOrder
<1> QED BY <1>1, <1>5, <1>6, <1>7

LEMMA DecidesClassifies ==
  ASSUME NEW c, NEW s \in Strategies, Decides(s, c)
  PROVE  Decided(Evaluate(s, c), c, Scores(s, c))
<1>1. CASE s = "weighted"
  <2>1. Evaluate(s, c) = WeightedEvaluate(c) BY <1>1 DEF Evaluate
  <2>2. WeightedEvaluate(c) = Classified(c, Scores(s, c)) BY <1>1, ScoresOfStrategies DEF Decides, WeightedEvaluate
  <2> QED BY <2>1, <2>2, ClassifiedIsDecided
<1>2. CASE s = "evidence_weighted"
  <2>1. Evaluate(s, c) = EvidenceWeightedEvaluate(c) BY <1>2 DEF Evaluate
  <2>2. EvidenceWeightedEvaluate(c) = Classified(c, Scores(s, c))
    BY <1>2, ScoresOfStrategies DEF Decides, EvidenceWeightedEvaluate
  <2> QED BY <2>1, <2>2, ClassifiedIsDecided
<1>3. CASE s = "constraint_aware"
  <2>1. Evaluate(s, c) = ConstraintAwareEvaluate(c) BY <1>3 DEF Evaluate
  <2>2. Field(s, c) = Undominated(c, Evidenced(c)) BY <1>3 DEF Field
  <2>3. PICK b : b = ThresholdBound(c, Scores(s, c)) OBVIOUS
  <2>4. ConstraintAwareEvaluate(c) = [Classified(c, Scores(s, c)) EXCEPT !.threshold_bound = b]
    BY <1>3, <2>2, <2>3, ScoresOfStrategies DEF Decides, ConstraintAwareEvaluate
  <2> QED BY <2>1, <2>4, ClassifiedIsDecided
<1> QED BY <1>1, <1>2, <1>3 DEF Strategies

(* Otherwise the result says why there is no leader to select. *)
LEMMA UndecidedSelectsNothing ==
  ASSUME NEW c, NEW s \in Strategies, ~Decides(s, c),
         Evidenced(c) # <<>> => Scores("constraint_aware", c) # <<>>
  PROVE  /\ Evaluate(s, c).selected = Absent /\ Evaluate(s, c).support = Absent
         /\ Evaluate(s, c).outcome \in Outcomes
         /\ s # "constraint_aware" => Evaluate(s, c).scores \in {<<>>, Scores(s, c)}
         /\ s = "constraint_aware" =>
              \/ Rankable(c) = <<>> /\ Evaluate(s, c).scores = <<>>
              \/ Evidenced(c) = <<>> /\ Evaluate(s, c).scores = <<>>
              \/ /\ DOMAIN Evaluate(s, c).scores = DOMAIN Field(s, c)
                 /\ \A i \in DOMAIN Field(s, c) :
                      Evaluate(s, c).scores[i] = Score(Field(s, c)[i], BlendedSupport(c, Field(s, c)[i]), "SAT")
<1>1. /\ Infeasible(c).selected = Absent /\ Infeasible(c).support = Absent
      /\ Infeasible(c).outcome = "INFEASIBLE" /\ Infeasible(c).scores = <<>>
  BY DEF Infeasible, Stopped
<1>2. ASSUME NEW outcome, NEW scores
      PROVE  /\ Recorded(c, outcome, scores).selected = Absent /\ Recorded(c, outcome, scores).support = Absent
             /\ Recorded(c, outcome, scores).outcome = outcome /\ Recorded(c, outcome, scores).scores = scores
  BY DEF Recorded, Stopped
<1>3. CASE s = "weighted"
  <2>1. Evaluate(s, c) = Infeasible(c) BY <1>3 DEF Evaluate, WeightedEvaluate, Decides
  <2> QED BY <1>1, <1>3, <2>1 DEF Outcomes
<1>4. CASE s = "evidence_weighted"
  <2>1. Evaluate(s, c) = EvidenceWeightedEvaluate(c) BY <1>4 DEF Evaluate
  <2>2. PICK scores : scores = Scores(s, c) OBVIOUS
  <2>3. EvidenceWeightedEvaluate(c) \in {Infeasible(c), Recorded(c, "INSUFFICIENT_EVIDENCE", scores)}
    BY <1>4, <2>2, ScoresOfStrategies DEF Decides, EvidenceWeightedEvaluate
  <2> QED BY <1>1, <1>2, <1>4, <2>1, <2>2, <2>3 DEF Outcomes
<1>5. CASE s = "constraint_aware"
  <2>1. Evaluate(s, c) = ConstraintAwareEvaluate(c) BY <1>5 DEF Evaluate
  <2>2. Field(s, c) = Undominated(c, Evidenced(c)) BY <1>5 DEF Field
  <2>3. Scores(s, c) = SupportOrder(c, Field(s, c)) BY <1>5, <2>2, ScoresOfStrategies
  <2>4. CASE Rankable(c) = <<>>
    <3>1. Evaluate(s, c) = Infeasible(c) BY <2>1, <2>4 DEF ConstraintAwareEvaluate
    <3> QED BY <1>1, <1>5, <2>4, <3>1 DEF Outcomes
  <2>5. CASE Rankable(c) # <<>> /\ Evidenced(c) = <<>>
    <3>1. Evaluate(s, c) = Recorded(c, "INSUFFICIENT_EVIDENCE", <<>>) BY <2>1, <2>5 DEF ConstraintAwareEvaluate
    <3> QED BY <1>2, <1>5, <2>5, <3>1 DEF Outcomes
  <2>6. CASE Rankable(c) # <<>> /\ Evidenced(c) # <<>>
    <3>1. Conflict(c, Field(s, c)) BY <1>5, <2>6 DEF Decides
    <3>2. Evaluate(s, c) = FrontierResult(c, Field(s, c)) BY <2>1, <2>2, <2>6, <3>1 DEF ConstraintAwareEvaluate
    <3>3. PICK scores : scores = [i \in DOMAIN Field(s, c) |-> Score(Field(s, c)[i], BlendedSupport(c, Field(s, c)[i]), "SAT")]
      OBVIOUS
    <3>4. BlockingGateOutcome(c, "PARETO_SET") = "PARETO_SET" BY DEF BlockingGateOutcome
    <3>5. FrontierResult(c, Field(s, c)) = [Recorded(c, "PARETO_SET", scores) EXCEPT !.pareto_set = Field(s, c)]
      BY <3>3, <3>4 DEF FrontierResult
    <3>6. /\ Evaluate(s, c).selected = Absent /\ Evaluate(s, c).support = Absent
          /\ Evaluate(s, c).outcome = "PARETO_SET" /\ Evaluate(s, c).scores = scores
      BY <3>2, <3>5 DEF Recorded, Stopped
    <3>7. /\ DOMAIN scores = DOMAIN Field(s, c)
          /\ \A i \in DOMAIN Field(s, c) : scores[i] = Score(Field(s, c)[i], BlendedSupport(c, Field(s, c)[i]), "SAT")
      BY <3>3
    <3> QED BY <1>5, <3>6, <3>7 DEF Outcomes
  <2> QED BY <2>4, <2>5, <2>6
<1> QED BY <1>3, <1>4, <1>5 DEF Strategies

-----------------------------------------------------------------------------
(* The numbers of a well-formed context. *)

LEMMA UnitIsPositive == Unit \in Nat \ {0} /\ Unit \in Int
BY ConsensusAssumption

LEMMA QuotientOfNaturals ==
  ASSUME NEW a \in Nat, NEW u \in Nat \ {0}
  PROVE  a \div u \in Nat
<1>1. 0 \div u <= a \div u /\ 0 \div u \in Int /\ a \div u \in Int
  BY QuotientGrows, QuotientFacts
<1>2. u * (0 \div u) <= 0 /\ 0 < u * (0 \div u) + u
  BY QuotientFacts
<1>3. 0 \div u = 0
  <2>1. PICK q \in Int : q = 0 \div u BY <1>1
  <2>2. u * q <= 0 /\ 0 < u * q + u BY <1>2, <2>1
  <2>3. ~(q >= 1)
    <3> SUFFICES ASSUME 1 <= q PROVE FALSE BY <2>1
    <3>1. u * 1 <= u * q BY ProductGrows
    <3> QED BY <2>2, <3>1
  <2>4. ~(q <= -1)
    <3> SUFFICES ASSUME q <= -1 PROVE FALSE BY <2>1
    <3>1. u * q <= u * (-1) BY ProductGrows
    <3>2. u * (-1) = -u OBVIOUS
    <3> QED BY <2>2, <3>1, <3>2
  <2> QED BY <2>1, <2>3, <2>4
<1> QED BY <1>1, <1>3

LEMMA TimesFacts ==
  /\ \A x, y \in Int : Times(x, y) \in Int
  /\ \A x, y \in Nat : Times(x, y) \in Nat
  /\ \A x \in Int : Times(x, 0) = 0 /\ Times(0, x) = 0
  /\ \A x, y \in Int : \A w \in Nat : x <= y => Times(w, x) <= Times(w, y) /\ Times(x, w) <= Times(y, w)
<1> USE UnitIsPositive
<1>1. \A x, y \in Int : Times(x, y) \in Int
  BY QuotientFacts DEF Times
<1>2. ASSUME NEW x \in Nat, NEW y \in Nat PROVE Times(x, y) \in Nat
  <2>1. x * y \in Nat OBVIOUS
  <2> QED BY <2>1, QuotientOfNaturals DEF Times
<1>3. ASSUME NEW x \in Int PROVE Times(x, 0) = 0 /\ Times(0, x) = 0
  <2>1. x * 0 = 0 /\ 0 * x = 0 OBVIOUS
  <2>2. 0 \div Unit = 0
    <3>1. 0 \div Unit \in Nat BY QuotientOfNaturals
    <3>2. Unit * (0 \div Unit) <= 0 BY QuotientFacts
    <3>3. PICK q \in Nat : q = 0 \div Unit BY <3>1
    <3>4. ~(1 <= q)
      <4> SUFFICES ASSUME 1 <= q PROVE FALSE OBVIOUS
      <4>1. Unit * 1 <= Unit * q BY ProductGrows
      <4> QED BY <3>2, <3>3, <4>1
    <3> QED BY <3>3, <3>4
  <2> QED BY <2>1, <2>2 DEF Times
<1>4. ASSUME NEW x \in Int, NEW y \in Int, NEW w \in Nat, x <= y
      PROVE  Times(w, x) <= Times(w, y) /\ Times(x, w) <= Times(y, w)
  <2>1. x * w \in Int /\ y * w \in Int /\ w * x \in Int /\ w * y \in Int /\ x * w <= y * w /\ w * x <= w * y
    BY <1>4, ProductGrows
  <2> QED BY <2>1, QuotientGrows DEF Times
<1> QED BY <1>1, <1>2, <1>3, <1>4

LEMMA TimesGrows ==
  ASSUME NEW x \in Int, NEW y \in Int, NEW w \in Nat, x <= y
  PROVE  /\ Times(w, x) <= Times(w, y) /\ Times(x, w) <= Times(y, w)
         /\ Times(w, x) \in Int /\ Times(w, y) \in Int /\ Times(x, w) \in Int /\ Times(y, w) \in Int
<1>1. w \in Int
  OBVIOUS
<1> QED BY <1>1, TimesFacts

LEMMA ExtremeFacts ==
  /\ \A x \in Int : Max({0, x}) \in Nat
  /\ \A x, y \in Int : /\ Min({x, y}) \in Int /\ Min({x, y}) <= x /\ Min({x, y}) <= y
                       /\ Min({x, y}) \in {x, y}
<1>1. ASSUME NEW x \in Int PROVE Max({0, x}) \in Nat
  <2>1. \E m \in {0, x} : \A y \in {0, x} : m >= y
    <3>1. CASE x >= 0 BY <3>1
    <3>2. CASE ~(x >= 0) BY <3>2
    <3> QED BY <3>1, <3>2
  <2> QED BY <2>1 DEF Max
<1>2. ASSUME NEW x \in Int, NEW y \in Int
      PROVE  /\ Min({x, y}) \in Int /\ Min({x, y}) <= x /\ Min({x, y}) <= y
             /\ Min({x, y}) \in {x, y}
  <2>1. \E m \in {x, y} : \A z \in {x, y} : m <= z
    <3>1. CASE x <= y BY <3>1
    <3>2. CASE ~(x <= y) BY <3>2
    <3> QED BY <3>1, <3>2
  <2> QED BY <2>1 DEF Min
<1> QED BY <1>1, <1>2

LEMMA SmallerOfTwo ==
  ASSUME NEW x \in Int, NEW y \in Int
  PROVE  Min({x, y}) = IF x <= y THEN x ELSE y
<1>1. PICK m : m = Min({x, y})
  OBVIOUS
<1>2. m \in Int /\ m <= x /\ m <= y /\ m \in {x, y}
  BY <1>1, ExtremeFacts
<1> QED BY <1>1, <1>2

(* The weights are naturals. *)
LEMMA WeightFacts ==
  /\ \A x \in Stances : PositionWeights[x] \in Nat
  /\ PositionWeights["SUPPORT"] = Unit /\ PositionWeights["OPPOSE"] = 0
  /\ \A x \in Verifications : VerificationWeights[x] \in Nat
  /\ \A x \in TrustLevels : TrustMultiplier[x] \in Nat
  /\ TrustMultiplier["UNATTRIBUTED"] = 0 /\ TrustMultiplier["SYNTHETIC"] = 0
<1> USE UnitIsPositive
<1>1. ASSUME NEW k \in Nat, NEW n \in Nat \ {0} PROVE (k * Unit) \div n \in Nat /\ Unit \div n \in Nat
  <2>1. k * Unit \in Nat OBVIOUS
  <2> QED BY <2>1, QuotientOfNaturals
<1>2. /\ (3 * Unit) \div 4 \in Nat /\ Unit \div 4 \in Nat /\ Unit \div 2 \in Nat /\ (3 * Unit) \div 10 \in Nat
      /\ (8 * Unit) \div 10 \in Nat /\ Unit \div 10 \in Nat /\ (9 * Unit) \div 10 \in Nat
      /\ (6 * Unit) \div 10 \in Nat /\ (4 * Unit) \div 10 \in Nat
  BY <1>1
<1>3. PICK a, b, d, e, f, g, h, i, j : /\ a = (3 * Unit) \div 4 /\ b = Unit \div 4 /\ d = Unit \div 2
        /\ e = (3 * Unit) \div 10 /\ f = (8 * Unit) \div 10 /\ g = Unit \div 10 /\ h = (9 * Unit) \div 10
        /\ i = (6 * Unit) \div 10 /\ j = (4 * Unit) \div 10
  OBVIOUS
<1>4. /\ \A x \in Stances : PositionWeights[x] \in Nat
      /\ PositionWeights["SUPPORT"] = Unit /\ PositionWeights["OPPOSE"] = 0
  BY <1>2, <1>3 DEF PositionWeights, Stances
<1>5. \A x \in Verifications : VerificationWeights[x] \in Nat
  BY <1>2, <1>3 DEF VerificationWeights, Verifications
<1>6. /\ \A x \in TrustLevels : TrustMultiplier[x] \in Nat
      /\ TrustMultiplier["UNATTRIBUTED"] = 0 /\ TrustMultiplier["SYNTHETIC"] = 0
  BY <1>2, <1>3 DEF TrustMultiplier, TrustLevels
<1> QED BY <1>4, <1>5, <1>6

LEMMA PositionFacts ==
  ASSUME NEW c, NEW p, ValidPosition(c, p)
  PROVE  PositionScore(c, p) \in Nat
<1>1. PositionWeights[p.stance] \in Nat /\ p.confidence \in Nat
  BY WeightFacts DEF ValidPosition
<1> QED BY <1>1, TimesFacts DEF PositionScore

(* What the evidence of a position counts. *)
Counted(c, p, polarity) ==
  {i \in CappedByPublisher(c, EvidenceForPosition(c, p)) :
     /\ c.evidence[EvidenceForPosition(c, p)[i]].verification # "REJECTED"
     /\ c.evidence[EvidenceForPosition(c, p)[i]].polarity = polarity}

Citations(c, p, polarity) ==
  [i \in Counted(c, p, polarity) |-> CitationWeight(c.evidence[EvidenceForPosition(c, p)[i]])]

LEMMA CitationFacts ==
  ASSUME NEW c, ValidDebate(c), NEW p, ValidPosition(c, p), NEW polarity
  PROVE  /\ IsFiniteSet(Counted(c, p, polarity))
         /\ \A i \in Counted(c, p, polarity) :
              /\ EvidenceForPosition(c, p)[i] \in ToSet(p.evidence_ids) \cap DOMAIN c.evidence
              /\ Citations(c, p, polarity)[i] \in Nat
         /\ EvidenceStrength(c, p, polarity) = SumFunctionOnSet(Citations(c, p, polarity), Counted(c, p, polarity))
         /\ EvidenceStrength(c, p, polarity) \in Nat
<1> DEFINE cited == EvidenceForPosition(c, p)
           W == Counted(c, p, polarity)
           f == Citations(c, p, polarity)
<1>1. cited \in Seq(ToSet(p.evidence_ids) \cap DOMAIN c.evidence)
  BY KeepFacts DEF EvidenceForPosition, ValidPosition
<1>2. W \in SUBSET (1..Len(cited)) /\ Len(cited) \in Nat /\ DOMAIN cited = 1..Len(cited)
  BY <1>1 DEF Counted, CappedByPublisher
<1>3. IsFiniteSet(W)
  <2>1. PICK D : D = 1..Len(cited) OBVIOUS
  <2>2. IsFiniteSet(D) BY <1>2, <2>1, FS_Interval
  <2> HIDE DEF W
  <2> QED BY <1>2, <2>1, <2>2, FS_Subset
<1>4. ASSUME NEW i \in W PROVE cited[i] \in ToSet(p.evidence_ids) \cap DOMAIN c.evidence /\ f[i] \in Nat
  <2>1. cited[i] \in ToSet(p.evidence_ids) \cap DOMAIN c.evidence BY <1>1, <1>2
  <2>2. PICK e : e = c.evidence[cited[i]] OBVIOUS
  <2>3. e.verification \in Verifications /\ e.trust_level \in TrustLevels
    BY <2>1, <2>2 DEF ValidDebate
  <2>4. CitationWeight(e) \in Nat BY <2>3, WeightFacts, TimesFacts DEF CitationWeight
  <2>5. f[i] = CitationWeight(e) BY <2>2 DEF Citations
  <2> QED BY <2>1, <2>4, <2>5
<1>5. EvidenceStrength(c, p, polarity) = SumFunctionOnSet(f, W)
  <2>1. EvidenceStrength(c, p, polarity) = SumFunction(f) BY DEF EvidenceStrength, Citations, Counted
  <2>2. DOMAIN f = W BY DEF Citations
  <2> QED BY <2>1, <2>2 DEF SumFunction
<1>6. EvidenceStrength(c, p, polarity) \in Nat
  <2> HIDE DEF f, W, cited
  <2> QED BY <1>3, <1>4, <1>5, SumOfNaturals
<1> QED BY <1>3, <1>4, <1>5, <1>6

(* A position whose evidence counts cites something of a source, which was  *)
(* not rejected.                                                            *)
LEMMA StrengthHasCitation ==
  ASSUME NEW c, ValidDebate(c), NEW p, ValidPosition(c, p), NEW polarity, EvidenceStrength(c, p, polarity) # 0
  PROVE  \E e \in ToSet(p.evidence_ids) \cap DOMAIN c.evidence :
           /\ c.evidence[e].polarity = polarity /\ c.evidence[e].verification # "REJECTED"
           /\ c.evidence[e].trust_level \notin {"UNATTRIBUTED", "SYNTHETIC"}
<1>1. PICK i \in Counted(c, p, polarity) : Citations(c, p, polarity)[i] # 0
  BY CitationFacts, SumOfZeros
<1>2. PICK e : e = EvidenceForPosition(c, p)[i]
  OBVIOUS
<1>3. e \in ToSet(p.evidence_ids) \cap DOMAIN c.evidence
  BY <1>2, CitationFacts
<1>4. c.evidence[e].polarity = polarity /\ c.evidence[e].verification # "REJECTED"
  BY <1>2 DEF Counted
<1>5. CitationWeight(c.evidence[e]) # 0
  BY <1>1, <1>2 DEF Citations
<1>6. c.evidence[e].trust_level \notin {"UNATTRIBUTED", "SYNTHETIC"}
  <2> SUFFICES ASSUME c.evidence[e].trust_level \in {"UNATTRIBUTED", "SYNTHETIC"} PROVE FALSE OBVIOUS
  <2>1. VerificationWeights[c.evidence[e].verification] \in Int
    BY <1>3, WeightFacts DEF ValidDebate
  <2>2. TrustMultiplier[c.evidence[e].trust_level] = 0 BY WeightFacts
  <2> QED BY <1>5, <2>1, <2>2, TimesFacts DEF CitationWeight
<1> QED BY <1>3, <1>4, <1>6

-----------------------------------------------------------------------------
(* Supports. *)

LEMMA RelevantFacts ==
  ASSUME NEW c, ValidDebate(c), NEW a
  PROVE  /\ IsFiniteSet(Relevant(c, a)) /\ Cardinality(Relevant(c, a)) \in Nat
         /\ Relevant(c, a) # {} => Cardinality(Relevant(c, a)) \in Nat \ {0}
         /\ \A p \in Relevant(c, a) : ValidPosition(c, p) /\ p \in c.positions /\ p.alternative = a
<1>1. IsFiniteSet(c.positions) /\ Relevant(c, a) \in SUBSET c.positions
  BY DEF ValidDebate, Relevant
<1>2. IsFiniteSet(Relevant(c, a))
  BY <1>1, FS_Subset
<1>3. Cardinality(Relevant(c, a)) \in Nat /\ (Cardinality(Relevant(c, a)) = 0 <=> Relevant(c, a) = {})
  BY <1>2, FS_CardinalityType, FS_EmptySet
<1>4. \A p \in Relevant(c, a) : ValidPosition(c, p) /\ p \in c.positions /\ p.alternative = a
  BY <1>1 DEF ValidDebate, Relevant
<1> QED BY <1>2, <1>3, <1>4

LEMMA BackedFacts ==
  ASSUME NEW c, ValidDebate(c), ValidParameters(c), NEW p, ValidPosition(c, p)
  PROVE  \E m \in Nat : /\ BackedScore(c, p) = Times(PositionScore(c, p), m)
                        /\ \A q : /\ EvidenceStrength(c, q, "SUPPORT") = EvidenceStrength(c, p, "SUPPORT")
                                  /\ EvidenceStrength(c, q, "OPPOSE") = EvidenceStrength(c, p, "OPPOSE")
                                  => BackedScore(c, q) = Times(PositionScore(c, q), m)
<1>1. PICK e \in Nat, d \in Nat : e = EvidenceStrength(c, p, "SUPPORT") /\ d = EvidenceStrength(c, p, "OPPOSE")
  BY CitationFacts
<1>2. PICK evid : evid = Clamp(((e - d) * Unit) \div (e + d + Unit), -Unit, Unit)
  OBVIOUS
<1>3. evid \in Int
  <2>1. (e - d) * Unit \in Int /\ e + d + Unit \in Nat \ {0} BY UnitIsPositive
  <2>2. PICK x \in Int : x = ((e - d) * Unit) \div (e + d + Unit) BY <2>1, QuotientFacts
  <2> QED BY <1>2, <2>2, UnitIsPositive DEF Clamp
<1>4. PICK m : m = Unit + Times(c.params.lambda, Max({0, evid}))
  OBVIOUS
<1>5. m \in Nat
  <2>1. Max({0, evid}) \in Nat /\ c.params.lambda \in Nat BY <1>3, ExtremeFacts DEF ValidParameters
  <2>2. Times(c.params.lambda, Max({0, evid})) \in Nat BY <2>1, TimesFacts
  <2> QED BY <1>4, <2>2, UnitIsPositive
<1>6. BackedScore(c, p) = Times(PositionScore(c, p), m)
  BY <1>1, <1>2, <1>4 DEF BackedScore
<1>7. ASSUME NEW q, EvidenceStrength(c, q, "SUPPORT") = EvidenceStrength(c, p, "SUPPORT"),
             EvidenceStrength(c, q, "OPPOSE") = EvidenceStrength(c, p, "OPPOSE")
      PROVE  BackedScore(c, q) = Times(PositionScore(c, q), m)
  BY <1>1, <1>2, <1>4, <1>7 DEF BackedScore
<1> QED BY <1>5, <1>6, <1>7

LEMMA BackedIsNatural ==
  ASSUME NEW c, ValidDebate(c), ValidParameters(c), NEW p, ValidPosition(c, p)
  PROVE  BackedScore(c, p) \in Nat
<1>1. PICK m \in Nat : BackedScore(c, p) = Times(PositionScore(c, p), m)
  BY BackedFacts
<1> QED BY <1>1, PositionFacts, TimesFacts

(* The mean of naturals over the positions that count. *)
Mean(f, S) == IF S = {} THEN 0 ELSE SumFunction(f) \div Cardinality(S)

LEMMA SumOfFunction ==
  ASSUME NEW S, IsFiniteSet(S), NEW f, DOMAIN f = S, \A x \in S : f[x] \in Nat
  PROVE  SumFunction(f) \in Nat
BY SumOfNaturals DEF SumFunction

LEMMA MeanFacts ==
  ASSUME NEW S, IsFiniteSet(S), NEW f, DOMAIN f = S, \A x \in S : f[x] \in Nat
  PROVE  Mean(f, S) \in Nat
<1>1. SumFunction(f) \in Nat
  BY SumOfFunction
<1>2. S # {} => Cardinality(S) \in Nat \ {0}
  BY FS_CardinalityType, FS_EmptySet
<1> QED BY <1>1, <1>2, QuotientOfNaturals DEF Mean

PositionScores(c, a) == [p \in Relevant(c, a) |-> PositionScore(c, p)]
BackedScores(c, a) == [p \in Relevant(c, a) |-> BackedScore(c, p)]
Strengths(c, a) == [p \in Relevant(c, a) |-> EvidenceStrength(c, p, "SUPPORT")]

LEMMA SupportForms ==
  ASSUME NEW c, ValidDebate(c), ValidParameters(c), NEW a
  PROVE  /\ ComputeSupport(c, a) = Mean(PositionScores(c, a), Relevant(c, a))
         /\ ComputeSupport(c, a) \in Nat
         /\ EvidenceSupport(c, a) = Min({Unit, Mean(BackedScores(c, a), Relevant(c, a))})
         /\ Mean(BackedScores(c, a), Relevant(c, a)) \in Nat
         /\ EvidenceSupport(c, a) \in Nat
         /\ EvidenceTotal(c, a) = SumFunction(Strengths(c, a)) /\ EvidenceTotal(c, a) \in Nat
<1> DEFINE S == Relevant(c, a)
<1>1. IsFiniteSet(S) /\ \A p \in S : ValidPosition(c, p)
  BY RelevantFacts
<1>2. /\ ComputeSupport(c, a) = Mean(PositionScores(c, a), S)
      /\ EvidenceTotal(c, a) = SumFunction(Strengths(c, a))
  BY DEF ComputeSupport, EvidenceTotal, Mean, PositionScores, Strengths
<1>3. ComputeSupport(c, a) \in Nat
  <2>1. DOMAIN PositionScores(c, a) = S /\ \A p \in S : PositionScores(c, a)[p] \in Nat
    BY <1>1, PositionFacts DEF PositionScores
  <2> HIDE DEF S
  <2> QED BY <1>1, <1>2, <2>1, MeanFacts
<1>4. Mean(BackedScores(c, a), S) \in Nat
  <2>1. DOMAIN BackedScores(c, a) = S /\ \A p \in S : BackedScores(c, a)[p] \in Nat
    BY <1>1, BackedIsNatural DEF BackedScores
  <2> HIDE DEF S
  <2> QED BY <1>1, <2>1, MeanFacts
<1>5. EvidenceTotal(c, a) \in Nat
  <2>1. DOMAIN Strengths(c, a) = S /\ \A p \in S : Strengths(c, a)[p] \in Nat
    BY <1>1, CitationFacts DEF Strengths
  <2> HIDE DEF S
  <2> QED BY <1>1, <1>2, <2>1, SumOfFunction
<1>6. EvidenceSupport(c, a) = Min({Unit, Mean(BackedScores(c, a), S)})
  <2>1. CASE S = {}
    <3>1. EvidenceSupport(c, a) = 0 /\ Mean(BackedScores(c, a), S) = 0 BY <2>1 DEF EvidenceSupport, Mean
    <3>2. Min({Unit, 0}) = 0 BY SmallerOfTwo, UnitIsPositive
    <3> QED BY <3>1, <3>2
  <2>2. CASE S # {}
    BY <2>2 DEF EvidenceSupport, Mean, BackedScores
  <2> QED BY <2>1, <2>2
<1>7. EvidenceSupport(c, a) \in Nat
  <2>1. PICK m \in Nat : m = Mean(BackedScores(c, a), S) BY <1>4
  <2>2. Min({Unit, m}) \in {Unit, m} BY UnitIsPositive, SmallerOfTwo
  <2> QED BY <1>6, <2>1, <2>2, UnitIsPositive
<1> QED BY <1>2, <1>3, <1>4, <1>5, <1>6, <1>7

(* An alternative with evidence in its support has a position that cites it. *)
LEMMA TotalHasCitation ==
  ASSUME NEW c, ValidDebate(c), ValidParameters(c), NEW a, EvidenceTotal(c, a) # 0
  PROVE  \E p \in c.positions :
           /\ p.alternative = a
           /\ \E e \in ToSet(p.evidence_ids) \cap DOMAIN c.evidence :
                /\ c.evidence[e].polarity = "SUPPORT"
                /\ c.evidence[e].verification # "REJECTED"
                /\ c.evidence[e].trust_level \notin {"UNATTRIBUTED", "SYNTHETIC"}
<1>1. EvidenceTotal(c, a) = SumFunctionOnSet(Strengths(c, a), Relevant(c, a))
  <2>1. DOMAIN Strengths(c, a) = Relevant(c, a) BY DEF Strengths
  <2> QED BY <2>1, SupportForms DEF SumFunction
<1>2. PICK p \in Relevant(c, a) : Strengths(c, a)[p] # 0
  BY <1>1, RelevantFacts, SumOfZeros
<1>3. EvidenceStrength(c, p, "SUPPORT") # 0
  BY <1>2 DEF Strengths
<1> QED BY <1>3, RelevantFacts, StrengthHasCitation

(* value(a) is a number where an objective has one. *)
LEMMA ObjectiveFacts ==
  ASSUME NEW c, ValidObjectives(c), NEW a \in ToSet(c.alternatives)
  PROVE  WeightedObjectiveValue(c, a) \in Int \cup {Absent}
<1> DEFINE valued == {k \in DOMAIN c.objectives : c.values[k][a] # Absent}
           f == [k \in valued |-> Times(c.objectives[k].weight, c.values[k][a])]
<1>1. valued \in SUBSET DOMAIN c.objectives
  OBVIOUS
<1>2. IsFiniteSet(valued)
  BY <1>1, FS_Subset DEF ValidObjectives
<1>3. ASSUME NEW k \in valued PROVE f[k] \in Int
  <2>1. c.objectives[k].weight \in Int /\ c.values[k][a] \in Int BY DEF ValidObjectives
  <2> QED BY <2>1, TimesFacts
<1>4. DOMAIN f = valued
  OBVIOUS
<1>5. WeightedObjectiveValue(c, a) = IF valued = {} THEN Absent ELSE SumFunction(f)
  BY DEF WeightedObjectiveValue
<1>6. SumFunction(f) \in Int
  <2> HIDE DEF valued, f
  <2> QED BY <1>2, <1>3, <1>4, SumIsInteger DEF SumFunction
<1> QED BY <1>5, <1>6

(* Blends grow with what they blend. *)
LEMMA RankScoreFacts ==
  ASSUME NEW c, ValidObjectives(c), ValidParameters(c), NEW a \in ToSet(c.alternatives),
         NEW x \in Int, NEW y \in Int, x <= y
  PROVE  RankScore(c, a, x) \in Int /\ RankScore(c, a, x) <= RankScore(c, a, y)
<1>1. PICK v \in Int \cup {Absent} : v = WeightedObjectiveValue(c, a)
  BY ObjectiveFacts
<1>2. c.params.alpha \in Nat /\ Unit - c.params.alpha \in Int
  BY UnitIsPositive DEF ValidParameters
<1>3. CASE v = Absent
  BY <1>1, <1>3 DEF RankScore
<1>4. CASE v # Absent
  <2>1. v \in Int BY <1>4
  <2>2. PICK k \in Int : k = Times(Unit - c.params.alpha, v) BY <1>2, <2>1, TimesFacts
  <2>3. /\ Times(c.params.alpha, x) \in Int /\ Times(c.params.alpha, y) \in Int
        /\ Times(c.params.alpha, x) <= Times(c.params.alpha, y)
    BY <1>2, TimesGrows
  <2>4. \A z : RankScore(c, a, z) = Times(c.params.alpha, z) + k BY <1>1, <1>4, <2>2 DEF RankScore
  <2> QED BY <2>2, <2>3, <2>4
<1> QED BY <1>3, <1>4

LEMMA BlendFacts ==
  ASSUME NEW c, ValidParameters(c), NEW x \in Nat, NEW y \in Nat, NEW v \in Nat, NEW w \in Nat, x <= y, v <= w
  PROVE  /\ Times(Unit - c.params.evidence_weight, x) + Times(c.params.evidence_weight, v) \in Nat
         /\ Times(Unit - c.params.evidence_weight, x) + Times(c.params.evidence_weight, v)
              <= Times(Unit - c.params.evidence_weight, y) + Times(c.params.evidence_weight, w)
<1>1. PICK b \in Nat, r \in Nat : b = c.params.evidence_weight /\ r = Unit - c.params.evidence_weight
  BY UnitIsPositive DEF ValidParameters
<1>2. Times(r, x) \in Nat /\ Times(r, y) \in Nat /\ Times(b, v) \in Nat /\ Times(b, w) \in Nat
  BY TimesFacts
<1>3. Times(r, x) <= Times(r, y) /\ Times(b, v) <= Times(b, w)
  BY TimesGrows
<1> QED BY <1>1, <1>2, <1>3

-----------------------------------------------------------------------------
(* The alternatives a strategy compares. *)

LEMMA OfItsElements ==
  ASSUME NEW A, NEW s \in Seq(A)
  PROVE  /\ s \in Seq(ToSet(s)) /\ ToSet(s) \subseteq A /\ IsFiniteSet(ToSet(s))
         /\ s = <<>> <=> ToSet(s) = {}
<1>1. \A i \in DOMAIN s : s[i] \in ToSet(s)
  BY DEF ToSet
<1>2. s \in Seq(ToSet(s))
  BY <1>1
<1>3. ToSet(s) \subseteq A
  BY DEF ToSet
<1>4. IsFiniteSet(ToSet(s))
  <2>1. DOMAIN s = 1..Len(s) /\ Len(s) \in Nat OBVIOUS
  <2>2. IsFiniteSet(DOMAIN s) BY <2>1, FS_Interval
  <2>3. s \in Surjection(DOMAIN s, ToSet(s)) BY <1>1 DEF Surjection, ToSet
  <2> QED BY <2>2, <2>3, FS_Surjection
<1>5. s = <<>> <=> ToSet(s) = {}
  <2>1. s # <<>> => 1 \in DOMAIN s OBVIOUS
  <2> QED BY <1>1, <2>1 DEF ToSet
<1> QED BY <1>2, <1>3, <1>4, <1>5

Undefeated(c, S) == {a \in S : ~\E b \in S : b # a /\ Dominates(c, b, a)}

LEMMA ComparedFacts ==
  ASSUME NEW c, WellFormed(c)
  PROVE  /\ Rankable(c) \in Seq(ToSet(c.alternatives)) /\ Evidenced(c) \in Seq(ToSet(c.alternatives))
         /\ Undominated(c, Evidenced(c)) \in Seq(ToSet(c.alternatives))
         /\ ToSet(Rankable(c)) = {a \in ToSet(c.alternatives) : c.feasibility[a] # "UNSAT"}
         /\ ToSet(Evidenced(c)) = {a \in ToSet(Rankable(c)) : c.params.allow_unevidenced \/ EvidenceTotal(c, a) > 0}
         /\ ToSet(Undominated(c, Evidenced(c))) = Undefeated(c, ToSet(Evidenced(c)))
<1> DEFINE A == ToSet(c.alternatives)
<1>1. c.alternatives \in Seq(A)
  BY DEF WellFormed, ValidAlternatives
<1>2. ASSUME NEW s \in Seq(A), NEW T \in SUBSET ToSet(s) PROVE Keep(s, T) \in Seq(A) /\ ToSet(Keep(s, T)) = T
  <2>1. Keep(s, T) \in Seq(A \cap T) /\ ToSet(Keep(s, T)) = ToSet(s) \cap T BY KeepFacts
  <2> HIDE DEF A
  <2>2. Keep(s, T) \in Seq(A)
    <3>1. PICK k \in Seq(A \cap T) : k = Keep(s, T) BY <2>1
    <3>2. \A i \in DOMAIN k : k[i] \in A OBVIOUS
    <3> QED BY <3>1, <3>2
  <2> QED BY <2>1, <2>2
<1>3. Rankable(c) \in Seq(A) /\ ToSet(Rankable(c)) = {a \in A : c.feasibility[a] # "UNSAT"}
  BY <1>1, <1>2 DEF Rankable
<1>4. /\ Evidenced(c) \in Seq(A)
      /\ ToSet(Evidenced(c)) = {a \in ToSet(Rankable(c)) : c.params.allow_unevidenced \/ EvidenceTotal(c, a) > 0}
  <2>1. CASE c.params.allow_unevidenced
    BY <1>3, <2>1 DEF Evidenced
  <2>2. CASE ~c.params.allow_unevidenced
    <3>1. PICK T \in SUBSET ToSet(Rankable(c)) : T = {a \in ToSet(Rankable(c)) : EvidenceTotal(c, a) > 0} OBVIOUS
    <3>2. Evidenced(c) = Keep(Rankable(c), T) BY <2>2, <3>1 DEF Evidenced
    <3> QED BY <1>2, <1>3, <2>2, <3>1, <3>2
  <2> QED BY <2>1, <2>2
<1>5. /\ Undominated(c, Evidenced(c)) \in Seq(A)
      /\ ToSet(Undominated(c, Evidenced(c))) = Undefeated(c, ToSet(Evidenced(c)))
  <2>1. PICK s \in Seq(A) : s = Evidenced(c) BY <1>4
  <2>2. PICK T \in SUBSET ToSet(s) : T = Undefeated(c, ToSet(s)) BY DEF Undefeated
  <2>3. Undominated(c, s) = Keep(s, T) BY <2>2 DEF Undominated, Undefeated
  <2> QED BY <1>2, <2>1, <2>2, <2>3
<1> QED BY <1>3, <1>4, <1>5

(* Dominance is a strict order. *)
LEMMA DominanceFacts ==
  ASSUME NEW c, WellFormed(c)
  PROVE  /\ \A a \in ToSet(c.alternatives) : ~Dominates(c, a, a)
         /\ \A x, y, z \in ToSet(c.alternatives) : Dominates(c, x, y) /\ Dominates(c, y, z) => Dominates(c, x, z)
<1>1. \A k \in DOMAIN c.objectives, a \in ToSet(c.alternatives) : c.values[k][a] # Absent => c.values[k][a] \in Int
  BY DEF WellFormed, ValidObjectives
<1>2. c.params.epsilon \in Nat
  BY DEF WellFormed, ValidParameters
<1>3. ASSUME NEW a \in ToSet(c.alternatives), Dominates(c, a, a) PROVE FALSE
  <2>1. PICK k \in DOMAIN c.objectives : c.values[k][a] > c.values[k][a] + c.params.epsilon BY <1>3 DEF Dominates
  <2>2. c.values[k][a] \in Int BY <1>1, <1>3 DEF Dominates
  <2> QED BY <1>2, <2>1, <2>2
<1>4. ASSUME NEW x \in ToSet(c.alternatives), NEW y \in ToSet(c.alternatives), NEW z \in ToSet(c.alternatives),
             Dominates(c, x, y), Dominates(c, y, z)
      PROVE  Dominates(c, x, z)
  <2>1. \A k \in DOMAIN c.objectives :
          /\ c.values[k][x] # Absent /\ c.values[k][y] # Absent /\ c.values[k][z] # Absent
          /\ c.values[k][x] >= c.values[k][y] /\ c.values[k][y] >= c.values[k][z]
    BY <1>4 DEF Dominates
  <2>2. \A k \in DOMAIN c.objectives : c.values[k][x] \in Int /\ c.values[k][y] \in Int /\ c.values[k][z] \in Int
    BY <1>1, <2>1
  <2>3. PICK k \in DOMAIN c.objectives : c.values[k][x] > c.values[k][y] + c.params.epsilon BY <1>4 DEF Dominates
  <2>4. c.values[k][x] > c.values[k][z] + c.params.epsilon
    <3>1. PICK p \in Int, q \in Int, r \in Int : p = c.values[k][x] /\ q = c.values[k][y] /\ r = c.values[k][z] BY <2>2
    <3> QED BY <1>2, <2>1, <2>3, <3>1
  <2>5. \A j \in DOMAIN c.objectives : c.values[j][x] >= c.values[j][z]
    <3> SUFFICES ASSUME NEW j \in DOMAIN c.objectives PROVE c.values[j][x] >= c.values[j][z] OBVIOUS
    <3>1. PICK p \in Int, q \in Int, r \in Int : p = c.values[j][x] /\ q = c.values[j][y] /\ r = c.values[j][z] BY <2>2
    <3>2. p >= q /\ q >= r BY <2>1, <3>1
    <3> QED BY <3>1, <3>2
  <2> QED BY <2>1, <2>3, <2>4, <2>5 DEF Dominates
<1> QED BY <1>3, <1>4

Strict(over, S) ==
  /\ \A x \in S : <<x, x>> \notin over
  /\ \A x, y, z \in S : <<x, y>> \in over /\ <<y, z>> \in over => <<x, z>> \in over

(* In a finite set under a strict order, what is below something is below    *)
(* something with nothing above it.                                          *)
LEMMA Kernel ==
  ASSUME NEW S, IsFiniteSet(S), NEW over, Strict(over, S), NEW a \in S
  PROVE  \E b \in S : (b = a \/ <<b, a>> \in over) /\ \A d \in S : <<d, b>> \notin over
<1> DEFINE Above(x) == {y \in S : <<y, x>> \in over}
           Tops(x) == \E b \in S : (b = x \/ <<b, x>> \in over) /\ \A d \in S : <<d, b>> \notin over
           Good == {n \in Nat : \A x \in S : Cardinality(Above(x)) <= n => Tops(x)}
<1>1. ASSUME NEW x \in S
      PROVE  Above(x) \in SUBSET S /\ IsFiniteSet(Above(x)) /\ Cardinality(Above(x)) \in Nat
             /\ (Cardinality(Above(x)) = 0 <=> Above(x) = {})
  <2>1. Above(x) \in SUBSET S OBVIOUS
  <2>2. IsFiniteSet(Above(x)) BY <2>1, FS_Subset
  <2> HIDE DEF Above
  <2> QED BY <2>1, <2>2, FS_CardinalityType, FS_EmptySet
<1>2. ASSUME NEW x \in S, Above(x) = {} PROVE Tops(x)
  BY <1>2
<1>3. 0 \in Good
  <2> SUFFICES ASSUME NEW x \in S, Cardinality(Above(x)) <= 0 PROVE Tops(x)
    <3> HIDE DEF Tops, Above
    <3> QED OBVIOUS
  <2>1. Cardinality(Above(x)) = 0
    <3> HIDE DEF Above
    <3> QED BY <1>1
  <2> QED BY <1>1, <1>2, <2>1
<1>4. ASSUME NEW n \in Nat, n \in Good PROVE n + 1 \in Good
  <2> SUFFICES ASSUME NEW x \in S, Cardinality(Above(x)) <= n + 1 PROVE Tops(x)
    <3> HIDE DEF Tops, Above
    <3> QED OBVIOUS
  <2>1. CASE Above(x) = {}
    BY <1>2, <2>1
  <2>2. CASE Above(x) # {}
    <3>1. PICK y \in S : <<y, x>> \in over BY <2>2
    <3>2. Above(y) \in SUBSET Above(x) BY <3>1 DEF Strict
    <3>3. y \in Above(x) /\ y \notin Above(y) BY <3>1 DEF Strict
    <3>4. Cardinality(Above(y)) <= n
      <4> HIDE DEF Above
      <4>1. Cardinality(Above(y)) <= Cardinality(Above(x)) /\ Cardinality(Above(x)) # Cardinality(Above(y))
        BY <1>1, <3>2, <3>3, FS_Subset
      <4> QED BY <1>1, <4>1
    <3>5. Tops(y)
      <4> HIDE DEF Tops, Above
      <4> QED BY <1>4, <3>4
    <3>6. PICK b \in S : (b = y \/ <<b, y>> \in over) /\ \A d \in S : <<d, b>> \notin over BY <3>5
    <3>7. <<b, x>> \in over BY <3>1, <3>6 DEF Strict
    <3> QED BY <3>6, <3>7
  <2> QED BY <2>1, <2>2
<1>5. Nat \subseteq Good
  <2> HIDE DEF Good
  <2> QED BY <1>3, <1>4, Upward
<1>6. Tops(a)
  <2>1. Cardinality(Above(a)) \in Good /\ Cardinality(Above(a)) \in Nat
    <3> HIDE DEF Good, Above
    <3> QED BY <1>1, <1>5
  <2> HIDE DEF Tops, Above
  <2> QED BY <2>1
<1> QED BY <1>6

(* The frontier: each contender is on it or dominated from it. *)
LEMMA FrontierFacts ==
  ASSUME NEW c, WellFormed(c), NEW S \in SUBSET ToSet(c.alternatives), IsFiniteSet(S), NEW a \in S
  PROVE  a \in Undefeated(c, S) <=> ~\E b \in Undefeated(c, S) : Dominates(c, b, a)
<1> DEFINE over == {p \in S \X S : Dominates(c, p[1], p[2])}
<1>1. \A x, y \in S : <<x, y>> \in over <=> Dominates(c, x, y)
  OBVIOUS
<1> HIDE DEF over
<1>2. \A x \in S : <<x, x>> \notin over
  BY <1>1, DominanceFacts
<1>3. Strict(over, S)
  BY <1>1, <1>2, DominanceFacts DEF Strict
<1>4. PICK b \in S : (b = a \/ <<b, a>> \in over) /\ \A d \in S : <<d, b>> \notin over
  BY <1>3, Kernel
<1>5. b \in Undefeated(c, S)
  BY <1>1, <1>4 DEF Undefeated
<1>6. CASE a \in Undefeated(c, S)
  BY <1>1, <1>2, <1>6 DEF Undefeated
<1>7. CASE a \notin Undefeated(c, S)
  BY <1>1, <1>4, <1>5, <1>7
<1> QED BY <1>6, <1>7

LEMMA FrontierExists ==
  ASSUME NEW c, WellFormed(c), NEW S \in SUBSET ToSet(c.alternatives), IsFiniteSet(S), S # {}
  PROVE  Undefeated(c, S) # {}
BY FrontierFacts

LEMMA FieldFacts ==
  ASSUME NEW c, WellFormed(c), NEW s \in Strategies
  PROVE  /\ Field(s, c) \in Seq(ToSet(c.alternatives)) /\ Field(s, c) \in Seq(ToSet(Field(s, c)))
         /\ ToSet(Field(s, c)) \subseteq ToSet(c.alternatives)
         /\ \A a \in ToSet(c.alternatives) : SupportOf(s, c, a) \in Nat /\ KeyOf(s, c, a) \in Int
         /\ Ranks(c, Field(s, c), Supports(s, c), Keys(s, c), Scores(s, c))
<1> DEFINE A == ToSet(c.alternatives)
<1>1. Field(s, c) \in Seq(A)
  BY ComparedFacts DEF Field
<1>2. Field(s, c) \in Seq(ToSet(Field(s, c))) /\ ToSet(Field(s, c)) \subseteq A
  BY <1>1, OfItsElements
<1>3. ValidDebate(c) /\ ValidParameters(c) /\ ValidObjectives(c)
  BY DEF WellFormed
<1>4. ASSUME NEW a \in A PROVE SupportOf(s, c, a) \in Nat /\ KeyOf(s, c, a) \in Int
  <2>1. ComputeSupport(c, a) \in Nat /\ EvidenceSupport(c, a) \in Nat BY <1>3, SupportForms
  <2>2. BlendedSupport(c, a) \in Nat BY <1>3, <2>1, BlendFacts DEF BlendedSupport
  <2>3. SupportOf(s, c, a) \in Nat BY <2>1, <2>2 DEF SupportOf
  <2>4. PICK x \in Nat : x = SupportOf(s, c, a) BY <2>3
  <2>5. RankScore(c, a, x) \in Int BY <1>3, RankScoreFacts
  <2> QED BY <2>3, <2>4, <2>5 DEF KeyOf
<1>5. \A a \in ToSet(Field(s, c)) : Keys(s, c)[a] \in Int
  BY <1>2, <1>4 DEF Keys
<1>6. Ranks(c, Field(s, c), Supports(s, c), Keys(s, c), Scores(s, c))
  BY <1>2, <1>5, RankedFacts DEF Scores
<1> QED BY <1>1, <1>2, <1>4, <1>6

-----------------------------------------------------------------------------
(* What an evaluation selects. *)

LEMMA FrontierIsScored ==
  ASSUME NEW c, WellFormed(c), Evidenced(c) # <<>>
  PROVE  Scores("constraint_aware", c) # <<>>
<1>1. "constraint_aware" \in Strategies
  BY DEF Strategies
<1>2. ToSet(Evidenced(c)) \in SUBSET ToSet(c.alternatives) /\ IsFiniteSet(ToSet(Evidenced(c))) /\ ToSet(Evidenced(c)) # {}
  BY ComparedFacts, OfItsElements
<1>3. ToSet(Field("constraint_aware", c)) # {}
  BY <1>2, ComparedFacts, FrontierExists DEF Field
<1>4. Field("constraint_aware", c) # <<>>
  BY <1>1, <1>3, FieldFacts, OfItsElements
<1> QED BY <1>1, <1>4, FieldFacts DEF Ranks

(* The leader at place i is what the evaluation selects. *)
Selects(s, c, i) ==
  LET leader == Scores(s, c)[1]
  IN /\ Decides(s, c) /\ i \in DOMAIN Field(s, c) /\ Leads(Field(s, c), Keys(s, c), i)
     /\ leader = Score(Field(s, c)[i], Supports(s, c)[Field(s, c)[i]], StatusOf(c, Field(s, c)[i]))
     /\ Evaluate(s, c).outcome = OutcomeFor(c, leader) /\ OutcomeFor(c, leader) \in Selectable
     /\ Evaluate(s, c).selected = Field(s, c)[i] /\ Evaluate(s, c).support = leader.support

LEMMA DecidesLeads ==
  ASSUME NEW c, WellFormed(c), NEW s \in Strategies, Decides(s, c)
  PROVE  \E i \in DOMAIN Field(s, c) :
           /\ Leads(Field(s, c), Keys(s, c), i)
           /\ Scores(s, c)[1] = Score(Field(s, c)[i], Supports(s, c)[Field(s, c)[i]], StatusOf(c, Field(s, c)[i]))
<1>1. Ranks(c, Field(s, c), Supports(s, c), Keys(s, c), Scores(s, c))
  BY FieldFacts
<1>2. Field(s, c) # <<>>
  <2>1. CASE s = "constraint_aware" BY <1>1, <2>1 DEF Decides, Ranks
  <2>2. CASE s # "constraint_aware" BY <2>2 DEF Decides, Field
  <2> QED BY <2>1, <2>2
<1> QED BY <1>1, <1>2 DEF Ranks

LEMMA SelectionFacts ==
  ASSUME NEW c, WellFormed(c), NEW s \in Strategies, Evaluate(s, c).selected # Absent
  PROVE  \E i : Selects(s, c, i)
<1>1. Decides(s, c)
  BY FrontierIsScored, UndecidedSelectsNothing
<1>2. Decided(Evaluate(s, c), c, Scores(s, c))
  BY <1>1, DecidesClassifies
<1>3. PICK i \in DOMAIN Field(s, c) :
        /\ Leads(Field(s, c), Keys(s, c), i)
        /\ Scores(s, c)[1] = Score(Field(s, c)[i], Supports(s, c)[Field(s, c)[i]], StatusOf(c, Field(s, c)[i]))
  BY <1>1, DecidesLeads
<1>4. Scores(s, c)[1].alternative = Field(s, c)[i]
  BY <1>3 DEF Score
<1> QED BY <1>1, <1>2, <1>3, <1>4 DEF Decided, Selects

LEMMA EvaluationSucceeds ==
  ASSUME NEW c, WellFormed(c), NEW s \in Strategies
  PROVE  Evaluate(s, c).outcome \in Outcomes /\ Evaluate(s, c) # NoResult
<1>1. Evaluate(s, c).outcome \in Outcomes
  <2>1. CASE ~Decides(s, c)
    BY <2>1, FrontierIsScored, UndecidedSelectsNothing
  <2>2. CASE Decides(s, c)
    <3>1. Evaluate(s, c).outcome = OutcomeFor(c, Scores(s, c)[1]) BY <2>2, DecidesClassifies DEF Decided
    <3> QED BY <3>1 DEF OutcomeFor, BlockingGateOutcome, Outcomes
  <2> QED BY <2>1, <2>2
<1>2. ASSUME Evaluate(s, c) = NoResult PROVE FALSE
  <2>1. NoResult.outcome = "none" BY DEF NoResult
  <2> QED BY <1>1, <1>2, <2>1 DEF Outcomes
<1> QED BY <1>1, <1>2

(* What is scored by constraint_aware is the frontier of its contenders. *)
LEMMA FrontierOfContenders ==
  ASSUME NEW c, WellFormed(c)
  PROVE  LET front == ScoredAlternatives(Evaluate("constraint_aware", c))
             contenders == {a \in ToSet(Rankable(c)) : c.params.allow_unevidenced \/ EvidenceTotal(c, a) > 0}
         IN \A a \in contenders : a \in front <=> ~\E b \in front : Dominates(c, b, a)
<1> DEFINE s == "constraint_aware"
           E == ToSet(Evidenced(c))
           r == Evaluate(s, c)
           front == ScoredAlternatives(r)
<1>1. s \in Strategies
  BY DEF Strategies
<1>2. E = {a \in ToSet(Rankable(c)) : c.params.allow_unevidenced \/ EvidenceTotal(c, a) > 0}
  BY ComparedFacts
<1>3. E \in SUBSET ToSet(c.alternatives) /\ IsFiniteSet(E) /\ (Evidenced(c) = <<>> <=> E = {})
      /\ (Rankable(c) = <<>> => E = {})
  BY ComparedFacts, OfItsElements
<1>4. ToSet(Field(s, c)) = Undefeated(c, E)
  BY ComparedFacts DEF Field
<1> HIDE DEF E
<1>5. E = {} \/ front = Undefeated(c, E)
  <2>1. CASE Decides(s, c)
    <3>1. r.scores = Scores(s, c) BY <1>1, <2>1, DecidesClassifies DEF Decided
    <3>2. Ranks(c, Field(s, c), Supports(s, c), Keys(s, c), Scores(s, c)) BY <1>1, FieldFacts
    <3> QED BY <1>4, <3>1, <3>2 DEF Ranks, ScoredAlternatives
  <2>2. CASE ~Decides(s, c)
    <3>1. \/ E = {}
          \/ /\ DOMAIN r.scores = DOMAIN Field(s, c)
             /\ \A i \in DOMAIN Field(s, c) : r.scores[i] = Score(Field(s, c)[i], BlendedSupport(c, Field(s, c)[i]), "SAT")
      BY <1>1, <1>3, <2>2, FrontierIsScored, UndecidedSelectsNothing
    <3>2. ASSUME E # {} PROVE front = Undefeated(c, E)
      <4>1. DOMAIN r.scores = DOMAIN Field(s, c) BY <3>1, <3>2
      <4>2. ASSUME NEW i \in DOMAIN Field(s, c) PROVE r.scores[i].alternative = Field(s, c)[i]
        <5>1. r.scores[i] = Score(Field(s, c)[i], BlendedSupport(c, Field(s, c)[i]), "SAT") BY <3>1, <3>2
        <5> QED BY <5>1 DEF Score
      <4>3. front = {Field(s, c)[i] : i \in DOMAIN Field(s, c)} BY <4>1, <4>2 DEF ScoredAlternatives
      <4>4. front = ToSet(Field(s, c)) BY <4>3 DEF ToSet
      <4> QED BY <1>4, <4>4
    <3> QED BY <3>2
  <2> QED BY <2>1, <2>2
<1>6. \A a \in E : a \in Undefeated(c, E) <=> ~\E b \in Undefeated(c, E) : Dominates(c, b, a)
  BY <1>3, FrontierFacts
<1> QED BY <1>2, <1>5, <1>6

(* C-6 and C-8 of one evaluation. *)
LEMMA SelectionOverlooksNothing ==
  ASSUME NEW c, WellFormed(c), NEW s \in Strategies, Evaluate(s, c).selected # Absent
  PROVE  LET r == Evaluate(s, c)
         IN /\ r.outcome = "FULL_CONSENSUS" =>
                 /\ ~\E q \in c.critiques : q.severity = "BLOCKING" /\ q.resolution # "RESOLVED"
                 /\ ~\E p \in c.positions : p.alternative = r.selected /\ p.stance \notin {"SUPPORT", "ABSTAIN"}
            /\ r.outcome = "CONDITIONAL_CONSENSUS" <=> c.feasibility[r.selected] = "UNKNOWN"
<1>1. PICK i : Selects(s, c, i)
  BY SelectionFacts
<1>2. PICK leader : leader = Scores(s, c)[1]
  OBVIOUS
<1>3. PICK a : a = Field(s, c)[i]
  OBVIOUS
<1>4. /\ Evaluate(s, c).outcome = OutcomeFor(c, leader) /\ Evaluate(s, c).selected = a /\ leader.alternative = a
  BY <1>1, <1>2, <1>3 DEF Selects, Score
<1>5. \A q \in c.critiques : q.resolution \in Resolutions
  BY DEF WellFormed, ValidDebate
<1>6. OutcomeFor(c, leader) = "CONDITIONAL_CONSENSUS" <=> c.feasibility[a] = "UNKNOWN"
  BY <1>4 DEF OutcomeFor, BlockingGateOutcome, Unresolved
<1>7. ASSUME OutcomeFor(c, leader) = "FULL_CONSENSUS" PROVE Blocking(c) = {} /\ AllActiveSupportive(c, a)
  BY <1>4, <1>7 DEF OutcomeFor, BlockingGateOutcome
<1>8. Blocking(c) = {} => ~\E q \in c.critiques : q.severity = "BLOCKING" /\ q.resolution # "RESOLVED"
  BY <1>5 DEF Blocking, Resolutions
<1>9. AllActiveSupportive(c, a) => ~\E p \in c.positions : p.alternative = a /\ p.stance \notin {"SUPPORT", "ABSTAIN"}
  BY DEF AllActiveSupportive
<1> QED BY <1>4, <1>6, <1>7, <1>8, <1>9

(* What the evidence strategies select has evidence. *)
LEMMA SelectionHasEvidence ==
  ASSUME NEW c, WellFormed(c), NEW s \in {"evidence_weighted", "constraint_aware"}, Evaluate(s, c).selected # Absent,
         ~(s = "constraint_aware" /\ c.params.allow_unevidenced)
  PROVE  EvidenceTotal(c, Evaluate(s, c).selected) # 0
<1>1. s \in Strategies
  BY DEF Strategies
<1>2. PICK i : Selects(s, c, i)
  BY <1>1, SelectionFacts
<1>3. PICK a : a = Field(s, c)[i]
  OBVIOUS
<1>4. Evaluate(s, c).selected = a /\ Scores(s, c)[1].alternative = a /\ Decides(s, c) /\ i \in DOMAIN Field(s, c)
  BY <1>2, <1>3 DEF Selects, Score
<1>5. CASE s = "evidence_weighted"
  BY <1>4, <1>5 DEF Decides
<1>6. CASE s = "constraint_aware"
  <2>1. a \in ToSet(Field(s, c)) BY <1>3, <1>4 DEF ToSet
  <2>2. a \in ToSet(Evidenced(c)) BY <1>6, <2>1, ComparedFacts DEF Field, Undefeated
  <2>3. EvidenceTotal(c, a) > 0 BY <1>6, <2>2, ComparedFacts
  <2>4. EvidenceTotal(c, a) \in Nat BY SupportForms DEF WellFormed
  <2> QED BY <1>4, <2>3, <2>4
<1> QED BY <1>5, <1>6

-----------------------------------------------------------------------------
(* An opponent comes to support. *)

(* Contexts that differ in their positions only. *)
SameBut(c, d) ==
  /\ d.alternatives = c.alternatives /\ d.evidence = c.evidence /\ d.critiques = c.critiques
  /\ d.objectives = c.objectives /\ d.values = c.values /\ d.feasibility = c.feasibility
  /\ d.params = c.params

LEMMA SameFacts ==
  ASSUME NEW c, NEW d, SameBut(c, d)
  PROVE  /\ \A p : PositionScore(d, p) = PositionScore(c, p) /\ BackedScore(d, p) = BackedScore(c, p)
         /\ \A p, polarity : EvidenceStrength(d, p, polarity) = EvidenceStrength(c, p, polarity)
         /\ Rankable(d) = Rankable(c) /\ Blocking(d) = Blocking(c)
         /\ \A a : StatusOf(d, a) = StatusOf(c, a) /\ (Unresolved(d, a) <=> Unresolved(c, a))
         /\ \A a, x : RankScore(d, a, x) = RankScore(c, a, x)
         /\ \A t : Undominated(d, t) = Undominated(c, t) /\ (Conflict(d, t) <=> Conflict(c, t))
<1>1. \A p : PositionScore(d, p) = PositionScore(c, p)
  BY DEF SameBut, PositionScore
<1>2. ASSUME NEW p, NEW polarity PROVE EvidenceStrength(d, p, polarity) = EvidenceStrength(c, p, polarity)
  <2>1. EvidenceForPosition(d, p) = EvidenceForPosition(c, p) BY DEF SameBut, EvidenceForPosition
  <2>2. \A cited : CappedByPublisher(d, cited) = CappedByPublisher(c, cited) BY DEF SameBut, CappedByPublisher
  <2> QED BY <2>1, <2>2 DEF SameBut, EvidenceStrength
<1>3. \A p : BackedScore(d, p) = BackedScore(c, p)
  BY <1>1, <1>2 DEF SameBut, BackedScore
<1>4. Rankable(d) = Rankable(c) /\ Blocking(d) = Blocking(c)
  BY DEF SameBut, Rankable, Blocking
<1>5. \A a : StatusOf(d, a) = StatusOf(c, a) /\ (Unresolved(d, a) <=> Unresolved(c, a))
  BY DEF SameBut, StatusOf, Unresolved
<1>6. ASSUME NEW a PROVE WeightedObjectiveValue(d, a) = WeightedObjectiveValue(c, a)
  BY DEF SameBut, WeightedObjectiveValue
<1>7. \A a, x : RankScore(d, a, x) = RankScore(c, a, x)
  BY <1>6 DEF SameBut, RankScore
<1>8. \A a, b : Dominates(d, a, b) <=> Dominates(c, a, b)
  BY DEF SameBut, Dominates
<1>9. \A t : Undominated(d, t) = Undominated(c, t)
  BY <1>8 DEF Undominated
<1>10. ASSUME NEW t PROVE Conflict(d, t) <=> Conflict(c, t)
  <2>1. \A k : Argmax(d, k, t) = Argmax(c, k, t) BY DEF SameBut, Argmax
  <2> QED BY <2>1 DEF SameBut, Conflict
<1> QED BY <1>1, <1>2, <1>3, <1>4, <1>5, <1>7, <1>9, <1>10

(* A position of the debate is exchanged for one of another stance. *)
Exchanged(c, d, p, won) ==
  /\ SameBut(c, d) /\ p \in c.positions /\ p.stance = "OPPOSE" /\ won = [p EXCEPT !.stance = "SUPPORT"]
  /\ d.positions = (c.positions \ {p}) \cup {won}

LEMMA ExchangeFacts ==
  ASSUME NEW c, WellFormed(c), NEW d, NEW p, NEW won, Exchanged(c, d, p, won), DOMAIN d = DOMAIN c
  PROVE  /\ won \notin c.positions /\ won.alternative = p.alternative /\ won.evidence_ids = p.evidence_ids
         /\ won.stance = "SUPPORT" /\ won.confidence = p.confidence
         /\ WellFormed(d)
<1>1. ValidPosition(c, p) /\ p \in c.positions
  BY DEF Exchanged, WellFormed, ValidDebate
<1>2. DOMAIN p = {"agent", "alternative", "stance", "confidence", "evidence_ids"}
  BY <1>1 DEF ValidPosition
<1>3. /\ won.alternative = p.alternative /\ won.evidence_ids = p.evidence_ids /\ won.agent = p.agent
      /\ won.stance = "SUPPORT" /\ won.confidence = p.confidence /\ DOMAIN won = DOMAIN p
  BY <1>2 DEF Exchanged
<1>4. won # p
  BY <1>3 DEF Exchanged
<1>5. won \notin c.positions
  BY <1>1, <1>3, <1>4 DEF ValidPosition
<1>6. ASSUME NEW q \in d.positions PROVE ValidPosition(d, q)
  <2>1. CASE q = won
    <3>1. won.stance \in Stances /\ won.confidence \in 0..Unit /\ won.evidence_ids \in Seq(ToSet(won.evidence_ids))
      BY <1>1, <1>3 DEF ValidPosition, Stances
    <3>2. ASSUME NEW u \in d.positions, won.agent = u.agent, won.alternative = u.alternative PROVE u = won
      BY <1>1, <1>3, <3>2 DEF ValidPosition, Exchanged
    <3> QED BY <1>2, <1>3, <2>1, <3>1, <3>2 DEF ValidPosition
  <2>2. CASE q # won
    <3>1. q \in c.positions /\ q # p /\ ValidPosition(c, q) BY <2>2 DEF Exchanged, WellFormed, ValidDebate
    <3>2. ASSUME NEW u \in d.positions, q.agent = u.agent, q.alternative = u.alternative PROVE u = q
      <4>1. CASE u = won BY <1>1, <1>3, <3>1, <3>2, <4>1 DEF ValidPosition
      <4>2. CASE u # won BY <3>1, <3>2, <4>2 DEF ValidPosition, Exchanged
      <4> QED BY <4>1, <4>2
    <3> QED BY <3>1, <3>2 DEF ValidPosition
  <2> QED BY <2>1, <2>2
<1>7. IsFiniteSet(d.positions)
  <2>1. PICK P : P = c.positions \ {p} OBVIOUS
  <2>2. P \in SUBSET c.positions /\ IsFiniteSet(c.positions) BY <2>1 DEF WellFormed, ValidDebate
  <2>3. IsFiniteSet(P) BY <2>2, FS_Subset
  <2>4. IsFiniteSet(P \cup {won}) BY <2>3, FS_AddElement
  <2> QED BY <2>1, <2>4 DEF Exchanged
<1>8. ValidDebate(d)
  BY <1>6, <1>7 DEF ValidDebate, WellFormed, Exchanged, SameBut
<1>9. ValidAlternatives(d) /\ ValidObjectives(d) /\ ValidParameters(d)
  BY DEF ValidAlternatives, ValidObjectives, ValidParameters, WellFormed, Exchanged, SameBut
<1> QED BY <1>3, <1>5, <1>8, <1>9 DEF WellFormed

(* The positions that count, before and after. *)
LEMMA RelevantExchanged ==
  ASSUME NEW c, WellFormed(c), NEW d, NEW p, NEW won, Exchanged(c, d, p, won), DOMAIN d = DOMAIN c
  PROVE  /\ \A b : b # p.alternative => Relevant(d, b) = Relevant(c, b)
         /\ \E R : /\ IsFiniteSet(R) /\ p \notin R /\ won \notin R
                   /\ Relevant(c, p.alternative) = R \cup {p} /\ Relevant(d, p.alternative) = R \cup {won}
<1>1. /\ won \notin c.positions /\ won.alternative = p.alternative /\ won.stance = "SUPPORT"
      /\ p \in c.positions /\ p.stance = "OPPOSE" /\ d.positions = (c.positions \ {p}) \cup {won}
      /\ d.params = c.params
  BY ExchangeFacts DEF Exchanged, SameBut
<1>2. \A b : b # p.alternative => Relevant(d, b) = Relevant(c, b)
  BY <1>1 DEF Relevant
<1>3. PICK R : R = Relevant(c, p.alternative) \ {p}
  OBVIOUS
<1>4. Relevant(c, p.alternative) = R \cup {p} /\ Relevant(d, p.alternative) = R \cup {won}
  BY <1>1, <1>3 DEF Relevant
<1>5. p \notin R /\ won \notin R
  BY <1>1, <1>3 DEF Relevant
<1>6. IsFiniteSet(R)
  <2>1. R \in SUBSET Relevant(c, p.alternative) BY <1>3
  <2> QED BY <2>1, RelevantFacts, FS_Subset DEF WellFormed
<1> QED BY <1>2, <1>4, <1>5, <1>6

LEMMA MeanExchanges ==
  ASSUME NEW R, IsFiniteSet(R), NEW old, old \notin R, NEW new, new \notin R,
         NEW f \in [R \cup {old} -> Nat], NEW e \in [R \cup {new} -> Nat],
         \A x \in R : e[x] = f[x], f[old] <= e[new]
  PROVE  Mean(f, R \cup {old}) <= Mean(e, R \cup {new})
<1>1. /\ IsFiniteSet(R \cup {old}) /\ IsFiniteSet(R \cup {new}) /\ Cardinality(R) \in Nat
      /\ Cardinality(R \cup {old}) = Cardinality(R) + 1 /\ Cardinality(R \cup {new}) = Cardinality(R) + 1
  BY FS_AddElement, FS_CardinalityType
<1>2. SumFunction(e) = (SumFunction(f) - f[old]) + e[new]
  <2>1. Swaps(R, old, new, f, e) BY DEF Swaps
  <2> QED BY <2>1, SumExchanges
<1>3. SumFunction(f) \in Nat /\ SumFunction(e) \in Nat
  <2>1. DOMAIN f = R \cup {old} /\ \A x \in R \cup {old} : f[x] \in Nat OBVIOUS
  <2>2. DOMAIN e = R \cup {new} /\ \A x \in R \cup {new} : e[x] \in Nat OBVIOUS
  <2>3. PICK F, E : F = R \cup {old} /\ E = R \cup {new} OBVIOUS
  <2> QED BY <1>1, <2>1, <2>2, <2>3, SumOfFunction
<1>4. SumFunction(f) <= SumFunction(e)
  <2>1. f[old] \in Nat /\ e[new] \in Nat OBVIOUS
  <2> QED BY <1>2, <1>3, <2>1
<1>5. SumFunction(f) \div (Cardinality(R) + 1) <= SumFunction(e) \div (Cardinality(R) + 1)
  <2>1. PICK u \in Nat \ {0} : u = Cardinality(R) + 1 BY <1>1
  <2> QED BY <1>3, <1>4, <2>1, QuotientGrows
<1> QED BY <1>1, <1>5 DEF Mean

(* The support of the alternative grows, its evidence stays. *)
LEMMA SupportRises ==
  ASSUME NEW c, WellFormed(c), NEW d, NEW p, NEW won, Exchanged(c, d, p, won), DOMAIN d = DOMAIN c
  PROVE  /\ ComputeSupport(c, p.alternative) <= ComputeSupport(d, p.alternative)
         /\ EvidenceSupport(c, p.alternative) <= EvidenceSupport(d, p.alternative)
         /\ EvidenceTotal(c, p.alternative) = EvidenceTotal(d, p.alternative)
<1> DEFINE a == p.alternative
<1>1. PICK R : /\ IsFiniteSet(R) /\ p \notin R /\ won \notin R
               /\ Relevant(c, a) = R \cup {p} /\ Relevant(d, a) = R \cup {won}
  BY RelevantExchanged
<1>2. SameBut(c, d) /\ WellFormed(d) /\ p.stance = "OPPOSE" /\ won.stance = "SUPPORT"
      /\ won.evidence_ids = p.evidence_ids /\ won.confidence = p.confidence
  BY ExchangeFacts DEF Exchanged
<1>3. /\ ValidDebate(c) /\ ValidParameters(c) /\ ValidDebate(d) /\ ValidParameters(d)
  BY <1>2 DEF WellFormed
<1>4. /\ \A q \in R \cup {p} : ValidPosition(c, q)
      /\ \A q \in R \cup {won} : ValidPosition(d, q)
  BY <1>1, <1>3, RelevantFacts
<1>5. /\ \A q \in R \cup {p} : PositionScore(c, q) \in Nat /\ BackedScore(c, q) \in Nat /\ EvidenceStrength(c, q, "SUPPORT") \in Nat
      /\ \A q \in R \cup {won} : PositionScore(d, q) \in Nat /\ BackedScore(d, q) \in Nat /\ EvidenceStrength(d, q, "SUPPORT") \in Nat
  BY <1>3, <1>4, PositionFacts, BackedIsNatural, CitationFacts
<1>6. /\ \A q : PositionScore(d, q) = PositionScore(c, q) /\ BackedScore(d, q) = BackedScore(c, q)
      /\ \A q, polarity : EvidenceStrength(d, q, polarity) = EvidenceStrength(c, q, polarity)
  BY <1>2, SameFacts
<1>7. \A polarity : EvidenceStrength(c, won, polarity) = EvidenceStrength(c, p, polarity)
  <2>1. EvidenceForPosition(c, won) = EvidenceForPosition(c, p) BY <1>2 DEF EvidenceForPosition
  <2> QED BY <2>1 DEF EvidenceStrength
<1>8. PositionScore(c, p) <= PositionScore(c, won)
  <2>1. p.confidence \in Int BY <1>4 DEF ValidPosition
  <2>2. PositionScore(c, p) = 0 BY <1>2, <2>1, WeightFacts, TimesFacts DEF PositionScore
  <2>3. PositionScore(c, won) \in Nat BY <1>5, <1>6
  <2> QED BY <2>2, <2>3
<1>9. BackedScore(c, p) <= BackedScore(c, won)
  <2>1. PICK m \in Nat : /\ BackedScore(c, p) = Times(PositionScore(c, p), m)
                         /\ BackedScore(c, won) = Times(PositionScore(c, won), m)
    BY <1>3, <1>4, <1>7, BackedFacts
  <2>2. PositionScore(c, p) \in Int /\ PositionScore(c, won) \in Int BY <1>5, <1>6
  <2> QED BY <1>8, <2>1, <2>2, TimesGrows
<1>10. PICK f, e, g, h, t, v :
         /\ f = PositionScores(c, a) /\ e = PositionScores(d, a) /\ g = BackedScores(c, a) /\ h = BackedScores(d, a)
         /\ t = Strengths(c, a) /\ v = Strengths(d, a)
  OBVIOUS
<1>11. /\ f \in [R \cup {p} -> Nat] /\ e \in [R \cup {won} -> Nat] /\ \A q \in R : e[q] = f[q]
       /\ f[p] = PositionScore(c, p) /\ e[won] = PositionScore(c, won)
  BY <1>1, <1>5, <1>6, <1>10 DEF PositionScores
<1>12. /\ g \in [R \cup {p} -> Nat] /\ h \in [R \cup {won} -> Nat] /\ \A q \in R : h[q] = g[q]
       /\ g[p] = BackedScore(c, p) /\ h[won] = BackedScore(c, won)
  BY <1>1, <1>5, <1>6, <1>10 DEF BackedScores
<1>13. /\ t \in [R \cup {p} -> Nat] /\ v \in [R \cup {won} -> Nat] /\ \A q \in R : v[q] = t[q]
       /\ t[p] = EvidenceStrength(c, p, "SUPPORT") /\ v[won] = EvidenceStrength(c, won, "SUPPORT")
  BY <1>1, <1>5, <1>6, <1>10 DEF Strengths
<1>14. ComputeSupport(c, a) <= ComputeSupport(d, a)
  <2>1. Mean(f, R \cup {p}) <= Mean(e, R \cup {won}) BY <1>1, <1>8, <1>11, MeanExchanges
  <2> QED BY <1>1, <1>3, <1>10, <2>1, SupportForms
<1>15. EvidenceSupport(c, a) <= EvidenceSupport(d, a)
  <2>1. Mean(g, R \cup {p}) <= Mean(h, R \cup {won}) BY <1>1, <1>9, <1>12, MeanExchanges
  <2>2. PICK x \in Nat, y \in Nat : x = Mean(BackedScores(c, a), Relevant(c, a)) /\ y = Mean(BackedScores(d, a), Relevant(d, a))
    BY <1>3, SupportForms
  <2>3. x <= y BY <1>1, <1>10, <2>1, <2>2
  <2>4. EvidenceSupport(c, a) = Min({Unit, x}) /\ EvidenceSupport(d, a) = Min({Unit, y})
    BY <1>3, <2>2, SupportForms
  <2>5. Min({Unit, x}) <= Min({Unit, y}) BY <2>3, SmallerOfTwo, UnitIsPositive
  <2> QED BY <2>4, <2>5
<1>16. EvidenceTotal(c, a) = EvidenceTotal(d, a)
  <2>1. t[p] = v[won] /\ t[p] \in Nat BY <1>7, <1>13
  <2>2. Swaps(R, p, won, t, v) BY <1>1, <1>13 DEF Swaps
  <2>3. SumFunction(v) = (SumFunction(t) - t[p]) + v[won] BY <2>2, SumExchanges
  <2>4. SumFunction(t) \in Nat BY <1>3, <1>10, SupportForms
  <2>5. SumFunction(v) = SumFunction(t) BY <2>1, <2>3, <2>4
  <2> QED BY <1>3, <1>10, <2>5, SupportForms
<1> QED BY <1>14, <1>15, <1>16

(* The others' support and evidence stay. *)
LEMMA OthersKeepSupport ==
  ASSUME NEW c, WellFormed(c), NEW d, NEW p, NEW won, Exchanged(c, d, p, won), DOMAIN d = DOMAIN c,
         NEW b, b # p.alternative
  PROVE  /\ ComputeSupport(c, b) = ComputeSupport(d, b) /\ EvidenceSupport(c, b) = EvidenceSupport(d, b)
         /\ EvidenceTotal(c, b) = EvidenceTotal(d, b)
<1>1. SameBut(c, d) /\ WellFormed(d) /\ Relevant(d, b) = Relevant(c, b)
  BY ExchangeFacts, RelevantExchanged DEF Exchanged
<1>2. PositionScores(d, b) = PositionScores(c, b) /\ BackedScores(d, b) = BackedScores(c, b) /\ Strengths(d, b) = Strengths(c, b)
  BY <1>1, SameFacts DEF PositionScores, BackedScores, Strengths
<1> QED BY <1>1, <1>2, SupportForms DEF WellFormed

(* A strategy compares the same alternatives; the key and the support of the *)
(* alternative that wins a supporter grow and the others' stay.              *)
LEMMA ComparisonStays ==
  ASSUME NEW c, WellFormed(c), NEW d, NEW p, NEW won, Exchanged(c, d, p, won), DOMAIN d = DOMAIN c,
         NEW s \in Strategies
  PROVE  /\ Rankable(d) = Rankable(c) /\ Evidenced(d) = Evidenced(c) /\ Field(s, d) = Field(s, c)
         /\ \A b : EvidenceTotal(d, b) = EvidenceTotal(c, b)
         /\ \A b \in ToSet(c.alternatives) :
              /\ SupportOf(s, c, b) <= SupportOf(s, d, b) /\ KeyOf(s, c, b) <= KeyOf(s, d, b)
              /\ b # p.alternative => KeyOf(s, c, b) = KeyOf(s, d, b)
<1>1. SameBut(c, d) /\ WellFormed(d) /\ c.params = d.params
  BY ExchangeFacts DEF Exchanged, SameBut
<1>2. /\ Rankable(d) = Rankable(c)
      /\ \A a, x : RankScore(d, a, x) = RankScore(c, a, x)
      /\ \A t : Undominated(d, t) = Undominated(c, t)
  BY <1>1, SameFacts
<1>3. \A b : EvidenceTotal(d, b) = EvidenceTotal(c, b)
  BY SupportRises, OthersKeepSupport
<1>4. Evidenced(d) = Evidenced(c)
  BY <1>1, <1>2, <1>3 DEF Evidenced
<1>5. Field(s, d) = Field(s, c)
  BY <1>2, <1>4 DEF Field
<1>6. ASSUME NEW b \in ToSet(c.alternatives)
      PROVE  /\ SupportOf(s, c, b) <= SupportOf(s, d, b) /\ KeyOf(s, c, b) <= KeyOf(s, d, b)
             /\ b # p.alternative => KeyOf(s, c, b) = KeyOf(s, d, b)
  <2>1. PICK x \in Nat, y \in Nat, v \in Nat, w \in Nat :
          /\ x = ComputeSupport(c, b) /\ y = ComputeSupport(d, b)
          /\ v = EvidenceSupport(c, b) /\ w = EvidenceSupport(d, b)
    BY <1>1, SupportForms DEF WellFormed
  <2>2. x <= y /\ v <= w /\ (b # p.alternative => x = y /\ v = w)
    BY <2>1, SupportRises, OthersKeepSupport
  <2>3. BlendedSupport(c, b) <= BlendedSupport(d, b) /\ (b # p.alternative => BlendedSupport(c, b) = BlendedSupport(d, b))
    BY <1>1, <2>1, <2>2, BlendFacts DEF BlendedSupport, WellFormed
  <2>4. SupportOf(s, c, b) <= SupportOf(s, d, b) /\ (b # p.alternative => SupportOf(s, c, b) = SupportOf(s, d, b))
    BY <2>1, <2>2, <2>3 DEF SupportOf
  <2>5. PICK m \in Nat, n \in Nat : m = SupportOf(s, c, b) /\ n = SupportOf(s, d, b)
    <3>1. d.alternatives = c.alternatives BY <1>1 DEF SameBut
    <3> QED BY <1>1, <3>1, FieldFacts
  <2>6. RankScore(c, b, m) <= RankScore(c, b, n)
    <3>1. ValidObjectives(c) /\ ValidParameters(c) /\ m \in Int /\ n \in Int /\ m <= n
      BY <2>4, <2>5 DEF WellFormed
    <3> QED BY <3>1, RankScoreFacts
  <2> QED BY <1>2, <2>4, <2>5, <2>6 DEF KeyOf
<1> QED BY <1>2, <1>3, <1>4, <1>5, <1>6

LEMMA ClampGrows ==
  ASSUME NEW x \in Int, NEW y \in Int, x <= y
  PROVE  Clamp(x, 0, Unit) \in 0..Unit /\ Clamp(y, 0, Unit) \in 0..Unit /\ Clamp(x, 0, Unit) <= Clamp(y, 0, Unit)
BY UnitIsPositive DEF Clamp

(* The leader leads on, with at least its support. *)
LEMMA LeaderKeepsLead ==
  ASSUME NEW c, WellFormed(c), NEW d, NEW p, NEW won, Exchanged(c, d, p, won), DOMAIN d = DOMAIN c,
         NEW s \in Strategies, NEW i, Selects(s, c, i), Field(s, c)[i] = p.alternative
  PROVE  /\ Decides(s, d) /\ Scores(s, d)[1].alternative = p.alternative
         /\ Scores(s, c)[1].support \in Int /\ Scores(s, d)[1].support \in Int
         /\ Scores(s, c)[1].support <= Scores(s, d)[1].support
<1> DEFINE a == p.alternative
<1>1. PICK F : F = Field(s, c)
  OBVIOUS
<1>2. /\ WellFormed(d) /\ SameBut(c, d) /\ d.alternatives = c.alternatives
  BY ExchangeFacts DEF Exchanged, SameBut
<1>3. /\ Rankable(d) = Rankable(c) /\ Evidenced(d) = Evidenced(c) /\ Field(s, d) = F
      /\ \A b : EvidenceTotal(d, b) = EvidenceTotal(c, b)
  BY <1>1, ComparisonStays
<1>4. /\ Decides(s, c) /\ i \in DOMAIN F /\ Leads(F, Keys(s, c), i) /\ F[i] = a
      /\ Scores(s, c)[1] = Score(a, Supports(s, c)[a], StatusOf(c, a))
  BY <1>1 DEF Selects
<1>5. F \in Seq(ToSet(F)) /\ ToSet(F) \subseteq ToSet(c.alternatives) /\ a \in ToSet(F)
  <2>1. F \in Seq(ToSet(F)) /\ ToSet(F) \subseteq ToSet(c.alternatives) BY <1>1, FieldFacts
  <2>2. F[i] \in ToSet(F) BY <1>4 DEF ToSet
  <2> QED BY <1>4, <2>1, <2>2
<1>6. ASSUME NEW b \in ToSet(F)
      PROVE  /\ Keys(s, c)[b] = KeyOf(s, c, b) /\ Keys(s, d)[b] = KeyOf(s, d, b)
             /\ Supports(s, c)[b] = SupportOf(s, c, b) /\ Supports(s, d)[b] = SupportOf(s, d, b)
             /\ KeyOf(s, c, b) \in Int /\ KeyOf(s, d, b) \in Int
             /\ SupportOf(s, c, b) \in Nat /\ SupportOf(s, d, b) \in Nat
  <2>1. Keys(s, c)[b] = KeyOf(s, c, b) /\ Keys(s, d)[b] = KeyOf(s, d, b)
        /\ Supports(s, c)[b] = SupportOf(s, c, b) /\ Supports(s, d)[b] = SupportOf(s, d, b)
    BY <1>1, <1>3 DEF Keys, Supports
  <2> QED BY <1>2, <1>5, <2>1, FieldFacts
<1>7. Leads(F, Keys(s, d), i)
  <2>1. \A b \in ToSet(F) : Keys(s, c)[b] \in Int /\ Keys(s, d)[b] \in Int BY <1>6
  <2>2. Keys(s, d)[F[i]] >= Keys(s, c)[F[i]] BY <1>4, <1>5, <1>6, ComparisonStays
  <2>3. \A b \in ToSet(F) : b # F[i] => Keys(s, d)[b] = Keys(s, c)[b] BY <1>4, <1>5, <1>6, ComparisonStays
  <2>4. PICK old, new : old = Keys(s, c) /\ new = Keys(s, d) OBVIOUS
  <2> QED BY <1>4, <1>5, <2>1, <2>2, <2>3, <2>4, LeaderStays
<1>8. Ranks(d, F, Supports(s, d), Keys(s, d), Scores(s, d))
  BY <1>2, <1>3, FieldFacts
<1>9. F # <<>>
  BY <1>4
<1>10. PICK j \in DOMAIN F : /\ Leads(F, Keys(s, d), j)
                             /\ Scores(s, d)[1] = Score(F[j], Supports(s, d)[F[j]], StatusOf(d, F[j]))
  BY <1>8, <1>9 DEF Ranks
<1>11. j = i
  <2>1. \A b \in ToSet(F) : Keys(s, d)[b] \in Int BY <1>6
  <2> QED BY <1>4, <1>5, <1>7, <1>10, <2>1, OneLeader
<1>12. Scores(s, d)[1] = Score(a, Supports(s, d)[a], StatusOf(d, a))
  BY <1>4, <1>10, <1>11
<1>13. /\ Scores(s, d)[1].alternative = a /\ Scores(s, c)[1].alternative = a
       /\ Scores(s, d)[1].support = Clamp(SupportOf(s, d, a), 0, Unit)
       /\ Scores(s, c)[1].support = Clamp(SupportOf(s, c, a), 0, Unit)
  <2>1. PICK x, y : x = Supports(s, c)[a] /\ y = Supports(s, d)[a] OBVIOUS
  <2>2. x = SupportOf(s, c, a) /\ y = SupportOf(s, d, a) BY <1>5, <1>6, <2>1
  <2>3. Scores(s, c)[1] = Score(a, x, StatusOf(c, a)) /\ Scores(s, d)[1] = Score(a, y, StatusOf(d, a))
    BY <1>4, <1>12, <2>1
  <2>4. /\ Scores(s, d)[1].alternative = a /\ Scores(s, c)[1].alternative = a
        /\ Scores(s, d)[1].support = Clamp(y, 0, Unit) /\ Scores(s, c)[1].support = Clamp(x, 0, Unit)
    BY <2>3 DEF Score
  <2> QED BY <2>2, <2>4
<1>14. /\ Scores(s, c)[1].support \in Int /\ Scores(s, d)[1].support \in Int
       /\ Scores(s, c)[1].support <= Scores(s, d)[1].support
  <2>1. PICK x \in Nat, y \in Nat : x = SupportOf(s, c, a) /\ y = SupportOf(s, d, a) BY <1>5, <1>6
  <2>2. x <= y BY <1>5, <2>1, ComparisonStays
  <2>3. /\ Clamp(x, 0, Unit) \in 0..Unit /\ Clamp(y, 0, Unit) \in 0..Unit
        /\ Clamp(x, 0, Unit) <= Clamp(y, 0, Unit)
    BY <2>2, ClampGrows
  <2> QED BY <1>13, <2>1, <2>3
<1>15. Decides(s, d)
  <2>1. Scores(s, d) # <<>> BY <1>8, <1>9 DEF Ranks
  <2>2. Conflict(d, F) <=> Conflict(c, F) BY <1>2, SameFacts
  <2> QED BY <1>1, <1>3, <1>4, <1>13, <2>1, <2>2 DEF Decides
<1> QED BY <1>13, <1>14, <1>15

(* A supporter won never costs the selection anything. *)
LEMMA SelectionKeepsItsLead ==
  ASSUME NEW c, WellFormed(c), NEW s \in Strategies, Evaluate(s, c).selected # Absent,
         NEW p \in c.positions, p.alternative = Evaluate(s, c).selected, p.stance = "OPPOSE",
         NEW d, d = [c EXCEPT !.positions = (@ \ {p}) \cup {[p EXCEPT !.stance = "SUPPORT"]}]
  PROVE  /\ Evaluate(s, d).selected = Evaluate(s, c).selected
         /\ Evaluate(s, d).support >= Evaluate(s, c).support
         /\ Evaluate(s, d).outcome \in {Evaluate(s, c).outcome, "FULL_CONSENSUS"}
<1>1. PICK won : won = [p EXCEPT !.stance = "SUPPORT"]
  OBVIOUS
<1>2. Exchanged(c, d, p, won) /\ DOMAIN d = DOMAIN c
  BY <1>1 DEF Exchanged, SameBut, WellFormed
<1>3. PICK i : Selects(s, c, i)
  BY SelectionFacts
<1>4. PICK old, new, a : old = Scores(s, c)[1] /\ new = Scores(s, d)[1] /\ a = p.alternative
  OBVIOUS
<1>5. /\ Evaluate(s, c).outcome = OutcomeFor(c, old) /\ OutcomeFor(c, old) \in Selectable
      /\ Evaluate(s, c).selected = a /\ Evaluate(s, c).support = old.support /\ Field(s, c)[i] = a
      /\ old.alternative = a
  BY <1>3, <1>4 DEF Selects, Score
<1>6. /\ Decides(s, d) /\ new.alternative = a /\ old.support \in Int /\ new.support \in Int
      /\ old.support <= new.support
  BY <1>2, <1>3, <1>4, <1>5, LeaderKeepsLead
<1>7. /\ Evaluate(s, d).outcome = OutcomeFor(d, new) /\ Evaluate(s, d).support = new.support
      /\ Evaluate(s, d).selected = IF OutcomeFor(d, new) \in Selectable THEN a ELSE Absent
  BY <1>4, <1>6, DecidesClassifies DEF Decided
<1>8. /\ Unresolved(d, a) <=> Unresolved(c, a)
      /\ Blocking(d) = Blocking(c) /\ d.params = c.params
  BY <1>2, SameFacts DEF Exchanged, SameBut
<1>9. ~AllActiveSupportive(c, a)
  BY <1>4 DEF AllActiveSupportive
<1>10. c.params.partial_threshold \in Int
  BY DEF WellFormed, ValidParameters
<1>11. OutcomeFor(d, new) \in {OutcomeFor(c, old), "FULL_CONSENSUS"}
  <2>1. CASE Unresolved(c, a)
    BY <1>5, <1>6, <1>8, <2>1 DEF OutcomeFor, BlockingGateOutcome
  <2>2. CASE ~Unresolved(c, a)
    <3>1. OutcomeFor(c, old) = "PARTIAL_CONSENSUS" /\ old.support >= c.params.partial_threshold
      BY <1>5, <1>9, <2>2 DEF OutcomeFor, BlockingGateOutcome, Selectable
    <3>2. new.support >= d.params.partial_threshold BY <1>6, <1>8, <1>10, <3>1
    <3>3. OutcomeFor(d, new) \in {"PARTIAL_CONSENSUS", "FULL_CONSENSUS"}
      BY <1>6, <1>8, <2>2, <3>2 DEF OutcomeFor, BlockingGateOutcome
    <3> QED BY <3>1, <3>3
  <2> QED BY <2>1, <2>2
<1>12. OutcomeFor(d, new) \in Selectable
  BY <1>5, <1>11 DEF Selectable
<1> QED BY <1>5, <1>6, <1>7, <1>11, <1>12

-----------------------------------------------------------------------------
(* The orchestrator. *)

(* Every row is the evaluation of its strategy on the frozen context. *)
CInv ==
  /\ context \in Contexts
  /\ DOMAIN rows = Strategies /\ failed = {}
  /\ \A s \in Strategies : rows[s] # NoResult => rows[s] = Evaluate(s, context)

(* ConsensusOrchestrator.run stores what the strategy computes from the      *)
(* frozen context, and no strategy fails on a well-formed one.               *)
THEOREM RowsAreEvaluations == ConsensusSpec => []CInv
<1>1. ConsensusInit => CInv
  BY DEF ConsensusInit, CInv
<1>2. CInv /\ [ConsensusNext]_consensusVars => CInv'
  <2> SUFFICES ASSUME CInv, [ConsensusNext]_consensusVars PROVE CInv' OBVIOUS
  <2>1. CASE UNCHANGED consensusVars
    BY <2>1 DEF CInv, consensusVars
  <2>2. ASSUME NEW s \in Strategies, RunStrategy(s) PROVE CInv'
    <3>1. PICK r : r = Evaluate(s, context) OBVIOUS
    <3>2. WellFormed(context) BY ConsensusAssumption DEF CInv
    <3>3. r # NoResult BY <3>1, <3>2, EvaluationSucceeds
    <3>4. rows' = [rows EXCEPT ![s] = r] /\ failed' = failed /\ context' = context
      BY <2>2, <3>1, <3>3 DEF RunStrategy
    <3>5. DOMAIN rows' = Strategies BY <3>4 DEF CInv
    <3>6. ASSUME NEW t \in Strategies, rows'[t] # NoResult PROVE rows'[t] = Evaluate(t, context)
      <4>1. CASE t = s BY <3>1, <3>4, <4>1 DEF CInv
      <4>2. CASE t # s BY <3>4, <3>6, <4>2 DEF CInv
      <4> QED BY <4>1, <4>2
    <3> QED BY <3>4, <3>5, <3>6 DEF CInv
  <2>3. ASSUME NEW s \in Strategies, RunAgain(s) PROVE CInv'
    BY <2>3 DEF RunAgain, CInv, consensusVars
  <2> QED BY <2>1, <2>2, <2>3 DEF ConsensusNext
<1> QED BY <1>1, <1>2, PTL DEF ConsensusSpec

LEMMA StoredIsEvaluation ==
  ASSUME CInv, NEW s \in Strategies, Stored(s)
  PROVE  WellFormed(context) /\ rows[s] = Evaluate(s, context)
BY ConsensusAssumption DEF CInv, Stored

(* The types of one evaluation. *)
LEMMA EvaluationTyped ==
  ASSUME NEW c, WellFormed(c), NEW s \in Strategies
  PROVE  LET r == Evaluate(s, c)
         IN /\ r.outcome \in Outcomes
            /\ r.selected \in ScoredAlternatives(r) \cup {Absent}
            /\ r.selected # Absent => r.outcome \in Selectable
            /\ r.support \in 0..Unit \cup {Absent}
            /\ \A i \in DOMAIN r.scores : r.scores[i].support \in 0..Unit
<1>1. PICK r : r = Evaluate(s, c)
  OBVIOUS
<1>2. r.outcome \in Outcomes
  BY <1>1, EvaluationSucceeds
<1>3. ASSUME NEW a, NEW x \in Int, NEW status PROVE Score(a, x, status).support \in 0..Unit
  BY ClampGrows DEF Score
<1>4. /\ Ranks(c, Field(s, c), Supports(s, c), Keys(s, c), Scores(s, c))
      /\ \A a \in ToSet(Field(s, c)) : SupportOf(s, c, a) \in Int /\ Supports(s, c)[a] = SupportOf(s, c, a)
  <2>1. \A a \in ToSet(Field(s, c)) : Supports(s, c)[a] = SupportOf(s, c, a) BY DEF Supports
  <2>2. \A a \in ToSet(Field(s, c)) : SupportOf(s, c, a) \in Nat BY FieldFacts
  <2> QED BY <2>1, <2>2, FieldFacts
<1>5. \A n \in DOMAIN Scores(s, c) : Scores(s, c)[n].support \in 0..Unit
  <2> SUFFICES ASSUME NEW n \in DOMAIN Scores(s, c) PROVE Scores(s, c)[n].support \in 0..Unit OBVIOUS
  <2>1. PICK a \in ToSet(Field(s, c)) : Scores(s, c)[n] = Score(a, Supports(s, c)[a], StatusOf(c, a))
    BY <1>4 DEF Ranks
  <2>2. PICK x \in Int : x = Supports(s, c)[a] BY <1>4
  <2> QED BY <1>3, <2>1, <2>2
<1>6. CASE Decides(s, c)
  <2>1. Decided(r, c, Scores(s, c)) BY <1>1, <1>6, DecidesClassifies
  <2>2. 1 \in DOMAIN Scores(s, c)
    <3>1. PICK i \in DOMAIN Field(s, c) : TRUE BY <1>6, DecidesLeads
    <3>2. Field(s, c) # <<>> BY <3>1
    <3>3. PICK z : z = Scores(s, c) OBVIOUS
    <3>4. DOMAIN z = 1..Len(z) /\ Len(z) \in Nat /\ z # <<>> /\ {z[n].alternative : n \in DOMAIN z} = ToSet(Field(s, c))
      BY <1>4, <3>2, <3>3 DEF Ranks
    <3>5. ToSet(Field(s, c)) # {} BY <3>1 DEF ToSet
    <3>6. DOMAIN z # {} BY <3>4, <3>5
    <3> QED BY <3>3, <3>4, <3>6
  <2>3. r.selected \in ScoredAlternatives(r) \cup {Absent} BY <2>1, <2>2 DEF Decided, ScoredAlternatives
  <2> QED BY <1>1, <1>2, <1>5, <2>1, <2>2, <2>3 DEF Decided
<1>7. CASE ~Decides(s, c)
  <2>1. r.selected = Absent /\ r.support = Absent BY <1>1, <1>7, FrontierIsScored, UndecidedSelectsNothing
  <2>2. \A i \in DOMAIN r.scores : r.scores[i].support \in 0..Unit
    <3>1. CASE r.scores = <<>> BY <3>1
    <3>2. CASE r.scores = Scores(s, c) BY <1>5, <3>2
    <3>3. CASE /\ s = "constraint_aware" /\ DOMAIN r.scores = DOMAIN Field(s, c)
               /\ \A i \in DOMAIN Field(s, c) : r.scores[i] = Score(Field(s, c)[i], BlendedSupport(c, Field(s, c)[i]), "SAT")
      <4> SUFFICES ASSUME NEW i \in DOMAIN Field(s, c) PROVE r.scores[i].support \in 0..Unit BY <3>3
      <4>1. Field(s, c)[i] \in ToSet(Field(s, c)) BY DEF ToSet
      <4>2. PICK x \in Int : x = BlendedSupport(c, Field(s, c)[i]) BY <1>4, <3>3, <4>1 DEF SupportOf
      <4>3. r.scores[i] = Score(Field(s, c)[i], x, "SAT") BY <3>3, <4>2
      <4> QED BY <1>3, <4>3
    <3> QED BY <1>1, <1>7, <3>1, <3>2, <3>3, FrontierIsScored, UndecidedSelectsNothing
  <2> QED BY <1>1, <1>2, <2>1, <2>2
<1> QED BY <1>6, <1>7

(* The type invariant: every stored result has a known outcome, selects only *)
(* an alternative it scored, and only where the outcome selects one, and     *)
(* keeps each support between 0 and 1, whatever the weights and the values.  *)
THEOREM ConsensusTyped == ConsensusSpec => []ConsensusTypeOK
<1>1. CInv => ConsensusTypeOK
  <2> SUFFICES ASSUME CInv PROVE ConsensusTypeOK OBVIOUS
  <2>1. WellFormed(context) /\ DOMAIN rows = Strategies /\ failed \subseteq Strategies
    BY ConsensusAssumption DEF CInv
  <2>2. ASSUME NEW s \in Strategies, Stored(s)
        PROVE  LET r == rows[s]
               IN /\ r.outcome \in Outcomes
                  /\ r.selected \in ScoredAlternatives(r) \cup {Absent}
                  /\ r.selected # Absent => r.outcome \in Selectable
                  /\ r.support \in 0..Unit \cup {Absent}
                  /\ \A i \in DOMAIN r.scores : r.scores[i].support \in 0..Unit
    BY <2>1, <2>2, StoredIsEvaluation, EvaluationTyped
  <2> QED BY <2>1, <2>2 DEF ConsensusTypeOK
<1> QED BY <1>1, RowsAreEvaluations, PTL

(* Dominance with a margin has no cycles, so no evaluation of                *)
(* constraint_aware runs out of alternatives, and the frontier it scores is  *)
(* the kernel of dominance on its contenders.                                *)
THEOREM FrontierKernel == ConsensusSpec => []FrontierIsKernel
<1>1. CInv => FrontierIsKernel
  <2> SUFFICES ASSUME CInv PROVE FrontierIsKernel OBVIOUS
  <2>1. ASSUME Stored("constraint_aware")
        PROVE  LET front == ScoredAlternatives(rows["constraint_aware"])
               IN \A a \in Contenders : a \in front <=> ~\E b \in front : Dominates(context, b, a)
    <3>1. WellFormed(context) /\ rows["constraint_aware"] = Evaluate("constraint_aware", context)
      BY <2>1, StoredIsEvaluation DEF Strategies
    <3> QED BY <3>1, FrontierOfContenders DEF Contenders
  <2> QED BY <2>1 DEF FrontierIsKernel, CInv
<1> QED BY <1>1, RowsAreEvaluations, PTL

(* C-6 and C-8: a full consensus overlooks no unresolved blocking critique,  *)
(* no opponent and no doubt of feasibility, for every strategy.              *)
THEOREM ConsensusOverlooksNothing == ConsensusSpec => []NothingOverlooked
<1>1. CInv => NothingOverlooked
  <2> SUFFICES ASSUME CInv, NEW s \in Strategies, Stored(s), rows[s].selected # Absent
               PROVE  LET a == rows[s].selected
                      IN /\ rows[s].outcome = "FULL_CONSENSUS" =>
                              /\ ~\E q \in context.critiques : q.severity = "BLOCKING" /\ q.resolution # "RESOLVED"
                              /\ ~\E p \in context.positions : p.alternative = a
                                                               /\ p.stance \notin {"SUPPORT", "ABSTAIN"}
                         /\ rows[s].outcome = "CONDITIONAL_CONSENSUS" <=> context.feasibility[a] = "UNKNOWN"
    BY DEF NothingOverlooked
  <2> QED BY StoredIsEvaluation, SelectionOverlooksNothing
<1> QED BY <1>1, RowsAreEvaluations, PTL

(* What the evidence strategies select has a citation that counts: a sum of  *)
(* capped, weighted citations is not zero only if one of them is of a source *)
(* and was not rejected.                                                     *)
THEOREM ConsensusIsEvidenced == ConsensusSpec => []SelectionIsEvidenced
<1>1. CInv => SelectionIsEvidenced
  <2> SUFFICES ASSUME CInv, NEW s \in {"evidence_weighted", "constraint_aware"}, Stored(s), rows[s].selected # Absent,
                      ~(s = "constraint_aware" /\ context.params.allow_unevidenced)
               PROVE  \E p \in context.positions :
                        /\ p.alternative = rows[s].selected
                        /\ \E e \in ToSet(p.evidence_ids) \cap DOMAIN context.evidence :
                             /\ context.evidence[e].polarity = "SUPPORT"
                             /\ context.evidence[e].verification # "REJECTED"
                             /\ context.evidence[e].trust_level \notin {"UNATTRIBUTED", "SYNTHETIC"}
    BY DEF SelectionIsEvidenced
  <2>1. s \in Strategies BY DEF Strategies
  <2>2. WellFormed(context) /\ rows[s] = Evaluate(s, context) BY <2>1, StoredIsEvaluation
  <2>3. EvidenceTotal(context, rows[s].selected) # 0 BY <2>2, SelectionHasEvidence
  <2>4. ValidDebate(context) /\ ValidParameters(context) BY <2>2 DEF WellFormed
  <2> QED BY <2>3, <2>4, TotalHasCitation
<1> QED BY <1>1, RowsAreEvaluations, PTL

(* The strategies are monotone: an opponent who comes to support the         *)
(* selected alternative leaves it selected, with at least its support, and   *)
(* the outcome as it was or a full consensus.                                *)
THEOREM ConsensusIsMonotone == ConsensusSpec => []SupportNeverHurts
<1>1. CInv => SupportNeverHurts
  <2> SUFFICES ASSUME CInv, NEW s \in Strategies, Stored(s), rows[s].selected # Absent,
                      NEW p \in {q \in context.positions : q.alternative = rows[s].selected /\ q.stance = "OPPOSE"},
                      NEW d, d = [context EXCEPT !.positions = (@ \ {p}) \cup {[p EXCEPT !.stance = "SUPPORT"]}]
               PROVE  /\ Evaluate(s, d).selected = rows[s].selected
                      /\ Evaluate(s, d).support >= rows[s].support
                      /\ Evaluate(s, d).outcome \in {rows[s].outcome, "FULL_CONSENSUS"}
    BY DEF SupportNeverHurts
  <2>1. WellFormed(context) /\ rows[s] = Evaluate(s, context) BY StoredIsEvaluation
  <2>2. p \in context.positions /\ p.alternative = rows[s].selected /\ p.stance = "OPPOSE" OBVIOUS
  <2> QED BY <2>1, <2>2, SelectionKeepsItsLead
<1> QED BY <1>1, RowsAreEvaluations, PTL
=============================================================================
