----------------------------- MODULE TallyProofs -----------------------------
(***************************************************************************)
(* What Tally!Total does when one summand is added, removed or changed.    *)
(***************************************************************************)
EXTENDS Tally, Functions, FiniteSetTheorems, TLAPS

\* The tokens of a natural-valued function over a finite set are finitely
\* many, so a total is a natural number.
LEMMA TokensFinite ==
  ASSUME NEW S, IsFiniteSet(S), NEW f, \A x \in S : f[x] \in Nat
  PROVE  /\ IsFiniteSet(Tokens(f, S))
         /\ Total(f, S) \in Nat
<1> DEFINE Parts == {{x} \X (1..f[x]) : x \in S}
           part  == [x \in S |-> {x} \X (1..f[x])]
<1>1. part \in Surjection(S, Parts)
  BY DEF Surjection
<1>2. IsFiniteSet(Parts)
  BY <1>1, FS_Surjection
<1>3. ASSUME NEW T \in Parts PROVE IsFiniteSet(T)
  <2>1. PICK x \in S : T = {x} \X (1..f[x])
    OBVIOUS
  <2>2. IsFiniteSet({x})
    BY FS_Singleton
  <2>3. IsFiniteSet(1..f[x])
    BY FS_Interval
  <2>4. QED
    BY <2>1, <2>2, <2>3, FS_Product
<1>4. IsFiniteSet(UNION Parts)
  BY <1>2, <1>3, FS_UNION
<1>5. QED
  BY <1>4, FS_CardinalityType DEF Tokens, Total

\* The column of tokens of one element.
LEMMA ColumnCount ==
  ASSUME NEW x, NEW n \in Nat
  PROVE  /\ IsFiniteSet({x} \X (1..n))
         /\ Cardinality({x} \X (1..n)) = n
<1>1. IsFiniteSet({x}) /\ Cardinality({x}) = 1
  BY FS_Singleton
<1>2. IsFiniteSet(1..n) /\ Cardinality(1..n) = n
  BY FS_Interval
<1>3. /\ IsFiniteSet({x} \X (1..n))
      /\ Cardinality({x} \X (1..n)) = Cardinality({x}) * Cardinality(1..n)
  BY <1>1, <1>2, FS_Product
<1>4. QED
  BY <1>1, <1>2, <1>3

\* A total is the share of one element plus the total of the others.
LEMMA TotalSplit ==
  ASSUME NEW S, IsFiniteSet(S), NEW f, \A x \in S : f[x] \in Nat,
         NEW e \in S
  PROVE  /\ Total(f, S \ {e}) \in Nat
         /\ Total(f, S) = Total(f, S \ {e}) + f[e]
<1> DEFINE rest   == Tokens(f, S \ {e})
           column == {e} \X (1..f[e])
<1>1. IsFiniteSet(S \ {e})
  BY FS_Difference
<1>2. IsFiniteSet(rest) /\ Cardinality(rest) \in Nat
  BY <1>1, TokensFinite DEF Total
<1>3. IsFiniteSet(column) /\ Cardinality(column) = f[e]
  BY ColumnCount
<1>4. Tokens(f, S) = rest \cup column
  BY DEF Tokens
<1>5. rest \cap column = {}
  BY DEF Tokens
<1>6. Cardinality(rest \cup column)
        = Cardinality(rest) + Cardinality(column) - Cardinality(rest \cap column)
  BY <1>2, <1>3, FS_Union
<1>7. Cardinality(rest \cap column) = 0
  BY <1>5, FS_EmptySet
<1>8. QED
  BY <1>2, <1>3, <1>4, <1>6, <1>7 DEF Total

\* No share exceeds the total.
LEMMA TotalBounds ==
  ASSUME NEW S, IsFiniteSet(S), NEW f, \A x \in S : f[x] \in Nat,
         NEW e \in S
  PROVE  f[e] <= Total(f, S)
<1>1. /\ Total(f, S \ {e}) \in Nat
      /\ Total(f, S) = Total(f, S \ {e}) + f[e]
  BY TotalSplit
<1>2. QED
  BY <1>1

\* Functions that agree on S have the same total over S.
LEMMA TotalSame ==
  ASSUME NEW S, NEW f, NEW g, \A x \in S : f[x] = g[x]
  PROVE  Total(f, S) = Total(g, S)
<1>1. Tokens(f, S) = Tokens(g, S)
  BY DEF Tokens
<1>2. QED
  BY <1>1 DEF Total

\* Changing the share of one element changes the total by as much.
LEMMA TotalUpdate ==
  ASSUME NEW S, IsFiniteSet(S), NEW f, NEW g,
         \A x \in S : f[x] \in Nat, \A x \in S : g[x] \in Nat,
         NEW e \in S, \A x \in S \ {e} : f[x] = g[x]
  PROVE  Total(g, S) + f[e] = Total(f, S) + g[e]
<1>1. Total(f, S \ {e}) = Total(g, S \ {e})
  BY TotalSame
<1>2. /\ Total(f, S \ {e}) \in Nat
      /\ Total(f, S) = Total(f, S \ {e}) + f[e]
  BY TotalSplit
<1>3. Total(g, S) = Total(g, S \ {e}) + g[e]
  BY TotalSplit
<1>4. QED
  BY <1>1, <1>2, <1>3

\* One more share of one element is one more in all.
LEMMA TotalOneMore ==
  ASSUME NEW S, IsFiniteSet(S), NEW f, NEW g,
         \A x \in S : f[x] \in Nat, \A x \in S : g[x] \in Nat,
         NEW e \in S, \A x \in S \ {e} : f[x] = g[x], g[e] = f[e] + 1
  PROVE  Total(g, S) = Total(f, S) + 1
<1>1. Total(g, S) + f[e] = Total(f, S) + g[e]
  BY TotalUpdate
<1>2. Total(f, S) \in Nat /\ Total(g, S) \in Nat
  BY TokensFinite
<1>3. QED
  BY <1>1, <1>2

\* Shares that are all zero add up to nothing.
LEMMA TotalZero ==
  ASSUME NEW S, NEW f, \A x \in S : f[x] = 0
  PROVE  Total(f, S) = 0
<1>1. Tokens(f, S) = {}
  BY DEF Tokens
<1>2. QED
  BY <1>1, FS_EmptySet DEF Total
=============================================================================
