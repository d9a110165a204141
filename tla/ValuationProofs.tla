--------------------------- MODULE ValuationProofs ---------------------------
(* What the rounding of the valuation views may and may not do, for every    *)
(* amount, price and supply.                                                 *)
EXTENDS Valuation, TLAPS

\* The quotient of two naturals, by the two inequalities that define it.
LEMMA Quotient ==
  ASSUME NEW m \in Nat, NEW k \in Nat \ {0}
  PROVE  /\ m \div k \in Nat
         /\ k * (m \div k) <= m
         /\ m < k * (m \div k) + k
  OBVIOUS

\* A natural that k-fold stays within m is at most the quotient.
LEMMA QuotientIsGreatest ==
  ASSUME NEW m \in Nat, NEW k \in Nat \ {0}, NEW q \in Nat, k * q <= m
  PROVE  q <= m \div k
<1> DEFINE p == m \div k
<1>1. p \in Nat /\ m < k * p + k
  BY Quotient
<1> HIDE DEF p
<1>2. k * q < k * (p + 1)
  BY <1>1
<1>3. q < p + 1
  <2>1. SUFFICES ASSUME q >= p + 1 PROVE FALSE
    BY <1>1
  <2>2. k * (q - (p + 1)) >= 0
    BY <2>1, <1>1
  <2> QED
    BY <2>2, <1>2, <1>1
<1> QED
  BY <1>3, <1>1 DEF p

\* The least bound: a quotient of m is below q when k * q is above m.
LEMMA QuotientBelow ==
  ASSUME NEW m \in Nat, NEW k \in Nat \ {0}, NEW q \in Nat, m < k * q
  PROVE  m \div k < q
<1> DEFINE p == m \div k
<1>1. p \in Nat /\ k * p <= m
  BY Quotient
<1> HIDE DEF p
<1>2. SUFFICES ASSUME p >= q PROVE FALSE
  BY <1>1 DEF p
<1>3. k * (p - q) >= 0
  BY <1>1, <1>2
<1> QED
  BY <1>1, <1>3

\* Whoever holds no more LP units than there are is credited with no more than
\* the base reserve's net assets, whatever the two roundings: the base leg of a
\* meta reserve in clear_reserve_values (schema.go:570) cannot outgrow its base.
THEOREM ClaimWithinNav ==
  ASSUME NEW units \in Nat, NEW nav \in Nat, NEW supply \in Nat, units <= supply
  PROVE  ConvertToValue(units, nav, supply) \in 0..nav
<1> DEFINE m == units * (nav + 1)
<1> DEFINE k == supply + 1
<1>1. m \in Nat /\ k \in Nat \ {0}
  OBVIOUS
<1>2. m < k * (nav + 1)
  <2>1. (supply - units) * (nav + 1) >= 0
    OBVIOUS
  <2> QED
    BY <2>1
<1> HIDE DEF m, k
<1>3. m \div k < nav + 1
  BY <1>1, <1>2, QuotientBelow
<1>4. m \div k \in Nat
  BY <1>1, Quotient
<1> QED
  BY <1>3, <1>4 DEF ConvertToValue, m, k

\* Splitting a holding never gains: the parts' values sum to at most the whole's
\* (the truncation of convertToValue is in the reserve's favour).
THEOREM SplittingNeverGains ==
  ASSUME NEW u \in Nat, NEW v \in Nat, NEW nav \in Nat, NEW supply \in Nat
  PROVE  ConvertToValue(u, nav, supply) + ConvertToValue(v, nav, supply)
           <= ConvertToValue(u + v, nav, supply)
<1> DEFINE m == u * (nav + 1)
<1> DEFINE n == v * (nav + 1)
<1> DEFINE k == supply + 1
<1>1. m \in Nat /\ n \in Nat /\ k \in Nat \ {0}
  OBVIOUS
<1>2. (u + v) * (nav + 1) = m + n
  OBVIOUS
<1> HIDE DEF m, n, k
<1> DEFINE p == m \div k
<1> DEFINE q == n \div k
<1>3. p \in Nat /\ q \in Nat /\ k * p <= m /\ k * q <= n
  BY <1>1, Quotient
<1> HIDE DEF p, q
<1>4. k * (p + q) <= m + n
  BY <1>1, <1>3
<1>5. p + q <= (m + n) \div k
  BY <1>1, <1>3, <1>4, QuotientIsGreatest
<1> QED
  BY <1>2, <1>5 DEF ConvertToValue, p, q, m, n, k

\* More units are worth no less.
THEOREM ValueIsMonotone ==
  ASSUME NEW u \in Nat, NEW v \in Nat, NEW nav \in Nat, NEW supply \in Nat, u <= v
  PROVE  ConvertToValue(u, nav, supply) <= ConvertToValue(v, nav, supply)
<1> DEFINE w == v - u
<1>1. w \in Nat /\ u + w = v
  OBVIOUS
<1> HIDE DEF w
<1>2. ConvertToValue(u, nav, supply) + ConvertToValue(w, nav, supply)
        <= ConvertToValue(v, nav, supply)
  BY <1>1, SplittingNeverGains
<1>3. (u * (nav + 1)) \div (supply + 1) \in Nat /\ (w * (nav + 1)) \div (supply + 1) \in Nat
      /\ (v * (nav + 1)) \div (supply + 1) \in Nat
  BY <1>1, Quotient
<1> QED
  BY <1>2, <1>3 DEF ConvertToValue

\* The redemption basis is the par value at a price of par, and no more than it
\* below par: a deployment without the oracle gets the par figures (schema.go:
\* 487-489).
THEOREM RedeemedAtPar ==
  ASSUME NEW value \in Nat, NEW price \in Nat, price <= One
  PROVE  /\ Redeemed(value, One) = value
         /\ Redeemed(value, price) <= value
<1>1. One \in Nat \ {0}
  BY OneAssumption
<1>2. (value * One) \div One = value
  <2>1. value * One \in Nat /\ One * value <= value * One /\ value * One < One * (value + 1)
    BY <1>1
  <2>2. value <= (value * One) \div One
    BY <1>1, <2>1, QuotientIsGreatest
  <2>3. (value * One) \div One < value + 1
    BY <1>1, <2>1, QuotientBelow
  <2>4. (value * One) \div One \in Nat
    BY <1>1, <2>1, Quotient
  <2> QED
    BY <2>2, <2>3, <2>4
<1>3. value * price \in Nat /\ value * price < One * (value + 1)
  <2>1. (One - price) * value >= 0
    BY <1>1
  <2> QED
    BY <1>1, <2>1
<1>4. (value * price) \div One < value + 1
  BY <1>1, <1>3, QuotientBelow
<1>5. (value * price) \div One \in Nat
  BY <1>1, <1>3, Quotient
<1> QED
  BY <1>2, <1>4, <1>5 DEF Redeemed
=============================================================================
