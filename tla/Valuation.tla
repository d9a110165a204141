------------------------------ MODULE Valuation ------------------------------
(***************************************************************************)
(* The integer arithmetic of the views clear_reserve_par_values and        *)
(* clear_reserve_values (schema.go), which snapshotReserveAssets repeats.  *)
(* Amounts are natural numbers, so SQL's trunc of a quotient is \div.      *)
(***************************************************************************)
EXTENDS Integers

CONSTANT One  \* 1e18: a price of par

ASSUME OneAssumption == One \in Nat \ {0}

\* GREATEST(n, 0).
Nonneg(n) == IF n > 0 THEN n ELSE 0

\* Layer 2's figure for a value at a redemption price.
Redeemed(value, price) == (value * price) \div One

BugNoVirtualShare(units, nav, supply) ==
  (units * (nav + 1)) \div (IF supply = 0 THEN 1 ELSE supply)

\* convertToValue: LP units at the base reserve's net assets per share, with the
\* virtual offset of one the contract prices its shares with.
ConvertToValue(units, nav, supply) == (units * (nav + 1)) \div (supply + 1)
=============================================================================
