-------------------------- MODULE ReserveBookProofs --------------------------
(***************************************************************************)
(* For any reserves, users, amounts and number of operations, the tables   *)
(* of the reserve side agree with the contracts and with each other.       *)
(*                                                                         *)
(* Every log is worth something to each quantity: a holding, a balance,    *)
(* the difference of two accounts of the LP supply, that of two accounts   *)
(* of the IOU debt.  The argument is that                                  *)
(*   - a handler adds to each quantity what its log is worth (Effect);     *)
(*   - the logs of an operation are together worth, in the order emitted,  *)
(*     what the operation changes in the contracts (Settled);              *)
(*   - so what the tables lack of the contracts is what the queue is worth *)
(*     (BookInv), and nothing when the queue is empty.                     *)
(* Before that, the deployments' logs leave the directory of assets that   *)
(* metaLegs and applyReserveAmounts need, whatever contracts are indexed.  *)
(***************************************************************************)
EXTENDS ReserveBook, FoldLemmas, ValuationProofs

-----------------------------------------------------------------------------
(* The tables and what each holds.                                         *)

\* The tables of the database, by name.
Tables == {"reserves", "assets", "holdings", "balances", "iouSupply", "iouFees",
           "redemption", "swapIou", "values", "details"}
\* The columns of clear_reserves that only grow.
Totals == {"deposits", "withdrawals", "minted", "redeemed", "swaps"}

\* A row of clear_reserves and one of clear_reserve_assets.
ReserveRow == [kind : {None, "base", "meta"}, supply : Int, deposits : Nat, withdrawals : Nat,
               minted : Nat, redeemed : Nat, swaps : Nat]
AssetRow   == [iou : Ious \cup {None}, position : Int, iouSupply : Int]

\* v is what table t may hold.
IsTable(t, v) ==
  /\ t = "reserves" => v \in [Reserves -> ReserveRow]
                         /\ \A r \in Reserves : v[r].kind \in {None, KindOf(r)}
  /\ t = "assets" => /\ v \in [Reserves -> [Tokens -> AssetRow]]
                     /\ \A r \in Reserves, a \in Tokens : v[r][a].iou \in {None, Iou(r, a)}
  /\ t = "holdings" => v \in [Reserves -> [Tokens -> Int]]
  /\ t = "balances" => v \in [Reserves \cup Ious -> [Holders -> Int]]
  /\ t \in {"iouSupply", "iouFees"} => v \in [Ious -> Int]
  /\ t = "redemption" => v \in [Tokens -> Prices \cup {None}]
  /\ t = "swapIou" => v \in [Reserves -> Int]
  /\ t = "values" => DOMAIN v = Reserves /\ \A r \in Reserves : DOMAIN v[r] = Days
  /\ t = "details" => /\ DOMAIN v = Reserves
                      /\ \A r \in Reserves : /\ DOMAIN v[r] = Tokens
                                             /\ \A a \in Tokens : DOMAIN v[r][a] = Days

IsDb(d) == DOMAIN d = Tables /\ \A t \in Tables : IsTable(t, d[t])

\* e differs from d in the tables T at most.
Keeps(d, e, T) == DOMAIN e = Tables /\ \A t \in Tables \ T : e[t] = d[t]

\* d with v as its table t.
With(d, t, v) == [d EXCEPT ![t] = v]

\* Replacing a table changes no other.
LEMMA Put ==
  ASSUME NEW d, IsDb(d), NEW t \in Tables, NEW v, IsTable(t, v)
  PROVE  IsDb(With(d, t, v)) /\ Keeps(d, With(d, t, v), {t}) /\ With(d, t, v)[t] = v
BY DEF IsDb, Keeps, With

\* The tables of a database, one by one.
LEMMA DbType ==
  ASSUME NEW d, IsDb(d)
  PROVE  /\ DOMAIN d = Tables
         /\ d.reserves \in [Reserves -> ReserveRow]
         /\ \A r \in Reserves : d.reserves[r].kind \in {None, KindOf(r)}
         /\ d.assets \in [Reserves -> [Tokens -> AssetRow]]
         /\ \A r \in Reserves, a \in Tokens : d.assets[r][a].iou \in {None, Iou(r, a)}
         /\ d.holdings \in [Reserves -> [Tokens -> Int]]
         /\ d.balances \in [Reserves \cup Ious -> [Holders -> Int]]
         /\ d.iouSupply \in [Ious -> Int] /\ d.iouFees \in [Ious -> Int]
         /\ d.redemption \in [Tokens -> Prices \cup {None}]
         /\ d.swapIou \in [Reserves -> Int]
         /\ DOMAIN d.values = Reserves /\ \A r \in Reserves : DOMAIN d.values[r] = Days
         /\ DOMAIN d.details = Reserves
         /\ \A r \in Reserves : /\ DOMAIN d.details[r] = Tokens
                                /\ \A a \in Tokens : DOMAIN d.details[r][a] = Days
<1>1. \A t \in Tables : IsTable(t, d[t])
  BY DEF IsDb
<1>2. DOMAIN d = Tables
  BY DEF IsDb
<1> QED
  BY <1>1, <1>2 DEF IsTable, Tables

-----------------------------------------------------------------------------
(* What the statements change.                                             *)

\* adjustTokenBalance changes one holding.
LEMMA AdjustHoldingFrame ==
  ASSUME NEW d, IsDb(d), NEW r \in Reserves, NEW a \in Tokens \cup {None}, NEW n \in Int,
         NEW e, e = AdjustHolding(d, r, a, n)
  PROVE  /\ IsDb(e) /\ Keeps(d, e, {"holdings"})
         /\ \A s \in Reserves, b \in Tokens :
              e.holdings[s][b] = d.holdings[s][b] + IF s = r /\ b = a THEN n ELSE 0
<1>1. d.holdings \in [Reserves -> [Tokens -> Int]]
  BY DbType
<1>2. CASE a = None
  <2>1. \A b \in Tokens : b # None
    BY AddressAssumption
  <2> QED
    BY <1>1, <1>2, <2>1 DEF AdjustHolding, Keeps, IsDb
<1>3. CASE a # None
  <2> DEFINE H == [d.holdings EXCEPT ![r][a] = @ + n]
  <2>1. H \in [Reserves -> [Tokens -> Int]]
    BY <1>1, <1>3
  <2>2. \A s \in Reserves, b \in Tokens :
              H[s][b] = d.holdings[s][b] + IF s = r /\ b = a THEN n ELSE 0
    BY <1>1, <1>3
  <2>3. e = With(d, "holdings", H)
    BY <1>3 DEF AdjustHolding, With
  <2> HIDE DEF H
  <2>4. IsTable("holdings", H) /\ "holdings" \in Tables
    BY <2>1 DEF IsTable, Tables
  <2>5. IsDb(e) /\ Keeps(d, e, {"holdings"}) /\ e["holdings"] = H
    BY <2>3, <2>4, Put
  <2> QED
    BY <2>2, <2>5
<1> QED
  BY <1>2, <1>3

\* adjustBalance changes one balance.
LEMMA AdjustBalanceFrame ==
  ASSUME NEW d, IsDb(d), NEW t \in Reserves \cup Ious, NEW h \in Holders, NEW n \in Int,
         NEW e, e = AdjustBalance(d, t, h, n)
  PROVE  /\ IsDb(e) /\ Keeps(d, e, {"balances"})
         /\ \A s \in Reserves \cup Ious, k \in Holders :
              e.balances[s][k] = d.balances[s][k] + IF s = t /\ k = h THEN n ELSE 0
<1>1. d.balances \in [Reserves \cup Ious -> [Holders -> Int]]
  BY DbType
<1> DEFINE B == [d.balances EXCEPT ![t][h] = @ + n]
<1>2. B \in [Reserves \cup Ious -> [Holders -> Int]]
  BY <1>1
<1>3. \A s \in Reserves \cup Ious, k \in Holders :
            B[s][k] = d.balances[s][k] + IF s = t /\ k = h THEN n ELSE 0
  BY <1>1
<1>4. e = With(d, "balances", B)
  BY DEF AdjustBalance, With
<1> HIDE DEF B
<1>5. IsTable("balances", B) /\ "balances" \in Tables
  BY <1>2 DEF IsTable, Tables
<1>6. IsDb(e) /\ Keeps(d, e, {"balances"}) /\ e["balances"] = B
  BY <1>4, <1>5, Put
<1> QED
  BY <1>3, <1>6

\* A row of clear_reserves with one column changed.
LEMMA KindPut ==
  ASSUME NEW row \in ReserveRow, NEW n \in {None, "base", "meta"},
         NEW new, new = [row EXCEPT !.kind = n]
  PROVE  /\ new \in ReserveRow /\ new.kind = n
         /\ \A c \in Totals \cup {"supply"} : new[c] = row[c]
BY DEF ReserveRow, Totals

\* A row with another supply, or another total.
LEMMA SupplyPut ==
  ASSUME NEW row \in ReserveRow, NEW n \in Int, NEW new, new = [row EXCEPT !.supply = n]
  PROVE  /\ new \in ReserveRow /\ new.supply = n
         /\ \A c \in Totals \cup {"kind"} : new[c] = row[c]
BY DEF ReserveRow, Totals

LEMMA TotalPut ==
  ASSUME NEW row \in ReserveRow, NEW col \in Totals, NEW n \in Nat, NEW new, new = [row EXCEPT ![col] = n]
  PROVE  /\ new \in ReserveRow /\ new[col] = n /\ new.kind = row.kind /\ new.supply = row.supply
         /\ \A c \in Totals \ {col} : new[c] = row[c]
BY DEF ReserveRow, Totals

\* d with another row of r in clear_reserves.
PutRow(d, r, row) == [d EXCEPT !.reserves[r] = row]

\* clear_reserves with one row changed.
LEMMA RowsPut ==
  ASSUME NEW d, IsDb(d), NEW r \in Reserves, NEW row \in ReserveRow, row.kind \in {None, KindOf(r)},
         NEW e, e = PutRow(d, r, row)
  PROVE  /\ IsDb(e) /\ Keeps(d, e, {"reserves"})
         /\ \A s \in Reserves : e.reserves[s] = IF s = r THEN row ELSE d.reserves[s]
<1>1. /\ d.reserves \in [Reserves -> ReserveRow]
      /\ \A s \in Reserves : d.reserves[s].kind \in {None, KindOf(s)}
  BY DbType
<1> DEFINE R == [d.reserves EXCEPT ![r] = row]
<1>2. R \in [Reserves -> ReserveRow] /\ \A s \in Reserves : R[s] = IF s = r THEN row ELSE d.reserves[s]
  BY <1>1
<1>3. e = With(d, "reserves", R)
  BY DEF With, PutRow
<1> HIDE DEF R
<1>4. \A s \in Reserves : R[s].kind \in {None, KindOf(s)}
  BY <1>1, <1>2
<1>5. IsTable("reserves", R) /\ "reserves" \in Tables
  BY <1>2, <1>4 DEF IsTable, Tables
<1>6. IsDb(e) /\ Keeps(d, e, {"reserves"}) /\ e["reserves"] = R
  BY <1>3, <1>5, Put
<1> QED
  BY <1>2, <1>6

\* ensureReserve sets a missing kind and nothing else.
LEMMA EnsureReserveFrame ==
  ASSUME NEW d, IsDb(d), NEW r \in Reserves, NEW e, e = EnsureReserve(d, r)
  PROVE  /\ IsDb(e) /\ Keeps(d, e, {"reserves"})
         /\ \A s \in Reserves :
              /\ e.reserves[s].kind = IF s = r THEN KindOf(r) ELSE d.reserves[s].kind
              /\ \A c \in Totals \cup {"supply"} : e.reserves[s][c] = d.reserves[s][c]
<1>1. /\ d.reserves \in [Reserves -> ReserveRow]
      /\ \A s \in Reserves : d.reserves[s].kind \in {None, KindOf(s)}
  BY DbType
<1>2. CASE d.reserves[r].kind = None
  <2> DEFINE row == [d.reserves[r] EXCEPT !.kind = KindOf(r)]
  <2>1. KindOf(r) \in {None, "base", "meta"}
    BY DEF KindOf
  <2>2. /\ row \in ReserveRow /\ row.kind = KindOf(r)
        /\ \A c \in Totals \cup {"supply"} : row[c] = d.reserves[r][c]
    <3>1. d.reserves[r] \in ReserveRow
      BY <1>1
    <3> QED
      BY <2>1, <3>1, KindPut
  <2>3. e = PutRow(d, r, row)
    BY <1>2 DEF EnsureReserve, PutRow
  <2> HIDE DEF row
  <2>5. row.kind \in {None, KindOf(r)}
    BY <2>2
  <2>4. /\ IsDb(e) /\ Keeps(d, e, {"reserves"})
        /\ \A s \in Reserves : e.reserves[s] = IF s = r THEN row ELSE d.reserves[s]
    BY <2>2, <2>3, <2>5, RowsPut
  <2> QED
    BY <2>2, <2>4
<1>3. CASE d.reserves[r].kind # None
  BY <1>1, <1>3 DEF EnsureReserve, Keeps, IsDb
<1> QED
  BY <1>2, <1>3

\* A total grows.
Grown(d, r, col, n) == [d EXCEPT !.reserves[r][col] = @ + n]

\* Adding to one total of a reserve.
LEMMA TotalFrame ==
  ASSUME NEW d, IsDb(d), NEW r \in Reserves, NEW col \in Totals, NEW n \in Nat,
         NEW e, e = Grown(d, r, col, n)
  PROVE  /\ IsDb(e) /\ Keeps(d, e, {"reserves"})
         /\ \A s \in Reserves :
              /\ e.reserves[s].kind = d.reserves[s].kind /\ e.reserves[s].supply = d.reserves[s].supply
              /\ \A c \in Totals : e.reserves[s][c] = d.reserves[s][c] + IF s = r /\ c = col THEN n ELSE 0
<1>1. /\ d.reserves \in [Reserves -> ReserveRow]
      /\ \A s \in Reserves : d.reserves[s].kind \in {None, KindOf(s)}
  BY DbType
<1>2. \A s \in Reserves, c \in Totals : d.reserves[s][c] \in Nat
  BY <1>1 DEF ReserveRow, Totals
<1> DEFINE row == [d.reserves[r] EXCEPT ![col] = d.reserves[r][col] + n]
<1>3. d.reserves[r][col] + n \in Nat
  BY <1>2
<1>4. /\ row \in ReserveRow /\ row[col] = d.reserves[r][col] + n
      /\ row.kind = d.reserves[r].kind /\ row.supply = d.reserves[r].supply
      /\ \A c \in Totals \ {col} : row[c] = d.reserves[r][c]
  <2>1. d.reserves[r] \in ReserveRow
    BY <1>1
  <2> QED
    BY <1>3, <2>1, TotalPut
<1>5. row.kind \in {None, KindOf(r)}
  BY <1>1, <1>4
<1>6. e = PutRow(d, r, row)
  BY DEF Grown, PutRow
<1> HIDE DEF row
<1>7. /\ IsDb(e) /\ Keeps(d, e, {"reserves"})
      /\ \A s \in Reserves : e.reserves[s] = IF s = r THEN row ELSE d.reserves[s]
  BY <1>4, <1>5, <1>6, RowsPut
<1> QED
  BY <1>2, <1>4, <1>7

\* bumpReserve sets a missing kind and adds to one total.
LEMMA BumpFrame ==
  ASSUME NEW d, IsDb(d), NEW r \in Reserves, NEW col \in Totals, NEW n \in Nat,
         NEW e, e = Bump(d, r, col, n)
  PROVE  /\ IsDb(e) /\ Keeps(d, e, {"reserves"})
         /\ \A s \in Reserves :
              /\ e.reserves[s].kind = IF s = r THEN KindOf(r) ELSE d.reserves[s].kind
              /\ e.reserves[s].supply = d.reserves[s].supply
              /\ \A c \in Totals : e.reserves[s][c] = d.reserves[s][c] + IF s = r /\ c = col THEN n ELSE 0
<1>1. PICK f : f = EnsureReserve(d, r)
  OBVIOUS
<1>2. /\ IsDb(f) /\ Keeps(d, f, {"reserves"})
      /\ \A s \in Reserves :
           /\ f.reserves[s].kind = IF s = r THEN KindOf(r) ELSE d.reserves[s].kind
           /\ \A c \in Totals \cup {"supply"} : f.reserves[s][c] = d.reserves[s][c]
  BY <1>1, EnsureReserveFrame
<1>3. e = Grown(f, r, col, n)
  BY <1>1 DEF Bump, Grown
<1>4. /\ IsDb(e) /\ Keeps(f, e, {"reserves"})
      /\ \A s \in Reserves :
           /\ e.reserves[s].kind = f.reserves[s].kind /\ e.reserves[s].supply = f.reserves[s].supply
           /\ \A c \in Totals : e.reserves[s][c] = f.reserves[s][c] + IF s = r /\ c = col THEN n ELSE 0
  BY <1>2, <1>3, TotalFrame
<1>5. Keeps(d, e, {"reserves"})
  BY <1>2, <1>4 DEF Keeps
<1> QED
  BY <1>2, <1>4, <1>5

-----------------------------------------------------------------------------
(* The daily rows.                                                         *)

\* The rows a snapshot of r would write.
ValueRow(d, r) ==
  [block |-> block, gross |-> Gross(d, r), debt |-> Debt(d, r), supply |-> d.reserves[r].supply]
DetailRow(d, r, a) ==
  [block |-> block, balance |-> d.holdings[r][a], iouSupply |-> d.assets[r][a].iouSupply,
   value |-> LegValue(d, a, d.holdings[r][a]),
   iouValue |-> LegValue(d, a, d.assets[r][a].iouSupply)]

\* What Snapshot(d, r) leaves in the two histories.
ValueAfter(d, r, s, x) ==
  IF s = r /\ x = day /\ d.reserves[r].kind # None /\ Replaces(d.values[r][day])
  THEN ValueRow(d, r) ELSE d.values[s][x]
\* An asset's row for day x when r's assets are snapshotted.
DetailAfter(d, r, s, a, x) ==
  IF s = r /\ x = day /\ a \in Listed(d, r) /\ Replaces(d.details[r][a][day])
  THEN DetailRow(d, r, a) ELSE d.details[s][a][x]

\* The two histories after a snapshot of r.
ValuesAfter(d, r)  == IF d.reserves[r].kind # None /\ Replaces(d.values[r][day])
                      THEN [d EXCEPT !.values[r][day] = ValueRow(d, r)] ELSE d
DetailsAfter(d, r) == [a \in Tokens |->
                         IF a \in Listed(d, r) /\ Replaces(d.details[r][a][day])
                         THEN [d.details[r][a] EXCEPT ![day] = DetailRow(d, r, a)]
                         ELSE d.details[r][a]]

\* Replacing the value rows of a reserve.
LEMMA ValuesFrame ==
  ASSUME NEW d, IsDb(d), NEW r \in Reserves, day \in Days, NEW e, e = ValuesAfter(d, r)
  PROVE  /\ IsDb(e) /\ Keeps(d, e, {"values"})
         /\ \A s \in Reserves, x \in Days : e.values[s][x] = ValueAfter(d, r, s, x)
<1>1. DOMAIN d.values = Reserves /\ \A s \in Reserves : DOMAIN d.values[s] = Days
  BY DbType
<1>2. CASE d.reserves[r].kind # None /\ Replaces(d.values[r][day])
  <2>1. PICK row : row = ValueRow(d, r)
    OBVIOUS
  <2> DEFINE V == [d.values EXCEPT ![r][day] = row]
  <2>2. /\ DOMAIN V = Reserves /\ \A s \in Reserves : DOMAIN V[s] = Days
        /\ \A s \in Reserves, x \in Days : V[s][x] = IF s = r /\ x = day THEN row ELSE d.values[s][x]
    BY <1>1
  <2>3. e = With(d, "values", V)
    BY <1>2, <2>1 DEF ValuesAfter, With
  <2> HIDE DEF V
  <2>4. IsTable("values", V) /\ "values" \in Tables
    BY <2>2 DEF IsTable, Tables
  <2>5. IsDb(e) /\ Keeps(d, e, {"values"}) /\ e["values"] = V
    BY <2>3, <2>4, Put
  <2> QED
    BY <1>2, <2>1, <2>2, <2>5 DEF ValueAfter
<1>3. CASE ~ (d.reserves[r].kind # None /\ Replaces(d.values[r][day]))
  <2>1. e = d
    BY <1>3 DEF ValuesAfter
  <2> QED
    BY <1>3, <2>1 DEF ValueAfter, Keeps, IsDb
<1> QED
  BY <1>2, <1>3

\* A snapshot writes the two histories and no other table.
LEMMA SnapshotFrame ==
  ASSUME NEW d, IsDb(d), NEW r \in Reserves, day \in Days, NEW e, e = Snapshot(d, r)
  PROVE  /\ IsDb(e) /\ Keeps(d, e, {"values", "details"})
         /\ \A s \in Reserves, x \in Days : e.values[s][x] = ValueAfter(d, r, s, x)
         /\ \A s \in Reserves, a \in Tokens, x \in Days :
              e.details[s][a][x] = DetailAfter(d, r, s, a, x)
<1>1. PICK f : f = ValuesAfter(d, r)
  OBVIOUS
<1>2. /\ IsDb(f) /\ Keeps(d, f, {"values"})
      /\ \A s \in Reserves, x \in Days : f.values[s][x] = ValueAfter(d, r, s, x)
  BY <1>1, ValuesFrame
<1>3. f.details = d.details
  BY <1>2 DEF Keeps, Tables
<1>4. PICK new : new = DetailsAfter(d, r)
  OBVIOUS
<1>5. DOMAIN d.details = Reserves /\ \A s \in Reserves : /\ DOMAIN d.details[s] = Tokens
                                                         /\ \A a \in Tokens : DOMAIN d.details[s][a] = Days
  BY DbType
<1>6. /\ DOMAIN new = Tokens /\ \A a \in Tokens : DOMAIN new[a] = Days
      /\ \A a \in Tokens, x \in Days : new[a][x] = DetailAfter(d, r, r, a, x)
  <2>1. DOMAIN new = Tokens
    BY <1>4 DEF DetailsAfter
  <2>2. ASSUME NEW a \in Tokens
        PROVE  DOMAIN new[a] = Days /\ \A x \in Days : new[a][x] = DetailAfter(d, r, r, a, x)
    <3>1. PICK row : row = DetailRow(d, r, a)
      OBVIOUS
    <3>2. new[a] = IF a \in Listed(d, r) /\ Replaces(d.details[r][a][day])
                   THEN [d.details[r][a] EXCEPT ![day] = row] ELSE d.details[r][a]
      BY <1>4, <3>1 DEF DetailsAfter
    <3> QED
      BY <1>5, <3>1, <3>2 DEF DetailAfter
  <2> QED
    BY <2>1, <2>2
<1> DEFINE W == [d.details EXCEPT ![r] = new]
<1>7. /\ DOMAIN W = Reserves
      /\ \A s \in Reserves : /\ DOMAIN W[s] = Tokens
                             /\ \A a \in Tokens : DOMAIN W[s][a] = Days
      /\ \A s \in Reserves, a \in Tokens, x \in Days : W[s][a][x] = DetailAfter(d, r, s, a, x)
  <2>1. DOMAIN W = Reserves /\ \A s \in Reserves : W[s] = IF s = r THEN new ELSE d.details[s]
    BY <1>5
  <2> HIDE DEF W
  <2>2. \A s \in Reserves, a \in Tokens, x \in Days : W[s][a][x] = DetailAfter(d, r, s, a, x)
    BY <1>6, <2>1 DEF DetailAfter
  <2> QED
    BY <1>5, <1>6, <2>1, <2>2
<1>8. e = With(f, "details", W)
  BY <1>1, <1>3, <1>4 DEF Snapshot, ValuesAfter, ValueRow, DetailsAfter, DetailRow, With
<1> HIDE DEF W
<1>9. IsTable("details", W) /\ "details" \in Tables
  BY <1>7 DEF IsTable, Tables
<1>10. IsDb(e) /\ Keeps(f, e, {"details"}) /\ e["details"] = W
  BY <1>2, <1>8, <1>9, Put
<1>11. Keeps(d, e, {"values", "details"}) /\ e.values = f.values
  BY <1>2, <1>10 DEF Keeps, Tables
<1> QED
  BY <1>2, <1>7, <1>10, <1>11
-----------------------------------------------------------------------------
(* Supplies and the rows that mirror them.                                 *)

\* A debt added to a row of clear_reserve_assets.
LEMMA AssetRowPut ==
  ASSUME NEW row \in AssetRow, NEW n \in Int, NEW new, new = [row EXCEPT !.iouSupply = @ + n]
  PROVE  /\ new \in AssetRow /\ new.iou = row.iou /\ new.position = row.position
         /\ new.iouSupply = row.iouSupply + n
BY DEF AssetRow

\* The rows of clear_reserve_assets after a mirrored debt.
LEMMA MirroredRows ==
  ASSUME NEW A \in [Reserves -> [Tokens -> AssetRow]],
         \A r \in Reserves, a \in Tokens : A[r][a].iou \in {None, Iou(r, a)},
         NEW t, NEW n \in Int
  PROVE  /\ IsTable("assets", Mirrored(A, t, n))
         /\ \A r \in Reserves, a \in Tokens :
              LET row == Mirrored(A, t, n)[r][a]
              IN /\ row.iou = A[r][a].iou /\ row.position = A[r][a].position
                 /\ row.iouSupply = A[r][a].iouSupply + IF A[r][a].iou = t THEN n ELSE 0
<1>1. PICK B : B = Mirrored(A, t, n)
  OBVIOUS
<1>2. ASSUME NEW r \in Reserves, NEW a \in Tokens
      PROVE  /\ B[r][a] \in AssetRow /\ B[r][a].iou = A[r][a].iou
             /\ B[r][a].position = A[r][a].position
             /\ B[r][a].iouSupply = A[r][a].iouSupply + IF A[r][a].iou = t THEN n ELSE 0
  <2>1. PICK row \in AssetRow : row = A[r][a]
    OBVIOUS
  <2>2. PICK new : new = [row EXCEPT !.iouSupply = @ + n]
    OBVIOUS
  <2>3. /\ new \in AssetRow /\ new.iou = row.iou /\ new.position = row.position
        /\ new.iouSupply = row.iouSupply + n
    BY <2>2, AssetRowPut
  <2>4. B[r][a] = IF row.iou = t THEN new ELSE row
    BY <1>1, <2>1, <2>2 DEF Mirrored
  <2>5. row.iouSupply \in Int
    BY DEF AssetRow
  <2> QED
    BY <2>1, <2>3, <2>4, <2>5
<1>3. B \in [Reserves -> [Tokens -> AssetRow]]
  <2>1. B = [r \in Reserves |-> [a \in Tokens |-> B[r][a]]]
    BY <1>1 DEF Mirrored
  <2> QED
    BY <1>2, <2>1
<1>4. IsTable("assets", B)
  BY <1>2, <1>3 DEF IsTable
<1> QED
  BY <1>1, <1>2, <1>4

\* n more of the token t, in its supply and in the rows that mirror it.
SupplyAdded(d, e, t, n) ==
  /\ \A s \in Reserves :
       /\ e.reserves[s].kind = d.reserves[s].kind
       /\ \A c \in Totals : e.reserves[s][c] = d.reserves[s][c]
       /\ e.reserves[s].supply = d.reserves[s].supply + IF s = t THEN n ELSE 0
  /\ \A s \in Ious : e.iouSupply[s] = d.iouSupply[s] + IF s = t THEN n ELSE 0
  /\ \A r \in Reserves, a \in Tokens :
       /\ e.assets[r][a].iou = d.assets[r][a].iou
       /\ e.assets[r][a].position = d.assets[r][a].position
       /\ e.assets[r][a].iouSupply =
            d.assets[r][a].iouSupply + IF t \in Ious /\ d.assets[r][a].iou = t THEN n ELSE 0

\* addSupply moves a supply and, for an IOU, the debt that mirrors it.
LEMMA AddSupplyFrame ==
  ASSUME NEW d, IsDb(d), NEW t \in Reserves \cup Ious, NEW n \in Int,
         NEW e, e = AddSupply(d, t, n)
  PROVE  /\ IsDb(e) /\ Keeps(d, e, {"reserves", "iouSupply", "assets"})
         /\ SupplyAdded(d, e, t, n)
<1>1. /\ d.reserves \in [Reserves -> ReserveRow]
      /\ \A s \in Reserves : d.reserves[s].kind \in {None, KindOf(s)}
      /\ d.assets \in [Reserves -> [Tokens -> AssetRow]]
      /\ \A r \in Reserves, a \in Tokens : d.assets[r][a].iou \in {None, Iou(r, a)}
      /\ d.iouSupply \in [Ious -> Int]
  BY DbType
<1>2. \A s \in Reserves : d.reserves[s].supply \in Int
  BY <1>1 DEF ReserveRow
<1>3. \A r \in Reserves, a \in Tokens : d.assets[r][a].iouSupply \in Int
  BY <1>1 DEF AssetRow
<1>4. CASE t \in Reserves
  <2>1. t \notin Ious
    BY <1>4, AddressAssumption
  <2> DEFINE row == [d.reserves[t] EXCEPT !.supply = d.reserves[t].supply + n]
  <2>2. /\ row \in ReserveRow /\ row.supply = d.reserves[t].supply + n
        /\ \A c \in Totals \cup {"kind"} : row[c] = d.reserves[t][c]
    <3>1. d.reserves[t] \in ReserveRow /\ d.reserves[t].supply + n \in Int
      BY <1>1, <1>2, <1>4
    <3> QED
      BY <3>1, SupplyPut
  <2>3. e = PutRow(d, t, row)
    BY <1>4 DEF AddSupply, PutRow
  <2> HIDE DEF row
  <2>4. row.kind \in {None, KindOf(t)}
    BY <1>1, <1>4, <2>2
  <2>5. /\ IsDb(e) /\ Keeps(d, e, {"reserves"})
        /\ \A s \in Reserves : e.reserves[s] = IF s = t THEN row ELSE d.reserves[s]
    BY <1>4, <2>2, <2>3, <2>4, RowsPut
  <2>6. e.assets = d.assets /\ e.iouSupply = d.iouSupply
    BY <2>5 DEF Keeps, Tables
  <2>7. Keeps(d, e, {"reserves", "iouSupply", "assets"})
    BY <2>5 DEF Keeps
  <2>8. ASSUME NEW s \in Reserves
        PROVE  /\ e.reserves[s].kind = d.reserves[s].kind
               /\ \A c \in Totals : e.reserves[s][c] = d.reserves[s][c]
               /\ e.reserves[s].supply = d.reserves[s].supply + IF s = t THEN n ELSE 0
    BY <1>2, <2>2, <2>5
  <2>9. \A s \in Ious : e.iouSupply[s] = d.iouSupply[s] + IF s = t THEN n ELSE 0
    BY <1>1, <2>1, <2>6
  <2>10. \A r \in Reserves, a \in Tokens :
              /\ e.assets[r][a].iou = d.assets[r][a].iou
              /\ e.assets[r][a].position = d.assets[r][a].position
              /\ e.assets[r][a].iouSupply =
                   d.assets[r][a].iouSupply + IF t \in Ious /\ d.assets[r][a].iou = t THEN n ELSE 0
    BY <1>3, <2>1, <2>6
  <2> QED
    BY <2>5, <2>7, <2>8, <2>9, <2>10 DEF SupplyAdded
<1>5. CASE t \in Ious
  <2>1. t \notin Reserves
    BY <1>5, AddressAssumption
  <2> DEFINE S == [d.iouSupply EXCEPT ![t] = @ + n]
  <2>2. S \in [Ious -> Int] /\ \A s \in Ious : S[s] = d.iouSupply[s] + IF s = t THEN n ELSE 0
    BY <1>1, <1>5
  <2>3. PICK f : f = With(d, "iouSupply", S)
    OBVIOUS
  <2>4. PICK A : A = Mirrored(d.assets, t, n)
    OBVIOUS
  <2>5. e = With(f, "assets", A)
    <3>1. f = [d EXCEPT !.iouSupply[t] = @ + n] /\ f.assets = d.assets
      BY <2>3, DbType, ZenonT(30) DEF With, Tables
    <3>2. e = [[d EXCEPT !.iouSupply[t] = @ + n] EXCEPT !.assets = Mirrored(@, t, n)]
      BY <2>1 DEF AddSupply
    <3>3. e = [f EXCEPT !.assets = Mirrored(f.assets, t, n)]
      BY <3>1, <3>2
    <3> QED
      BY <2>4, <3>1, <3>3 DEF With
  <2> HIDE DEF S
  <2>6. IsDb(f) /\ Keeps(d, f, {"iouSupply"}) /\ f["iouSupply"] = S
    <3>1. IsTable("iouSupply", S) /\ "iouSupply" \in Tables
      BY <2>2 DEF IsTable, Tables
    <3> QED
      BY <2>3, <3>1, Put
  <2>7. /\ IsTable("assets", A)
        /\ \A r \in Reserves, a \in Tokens :
             /\ A[r][a].iou = d.assets[r][a].iou /\ A[r][a].position = d.assets[r][a].position
             /\ A[r][a].iouSupply =
                  d.assets[r][a].iouSupply + IF d.assets[r][a].iou = t THEN n ELSE 0
    BY <1>1, <2>4, MirroredRows
  <2>8. IsDb(e) /\ Keeps(f, e, {"assets"}) /\ e["assets"] = A
    <3>1. "assets" \in Tables
      BY DEF Tables
    <3> QED
      BY <2>5, <2>6, <2>7, <3>1, Put
  <2>9. /\ Keeps(d, e, {"reserves", "iouSupply", "assets"})
        /\ e.reserves = d.reserves /\ e.iouSupply = S
    BY <2>6, <2>8 DEF Keeps, Tables
  <2>10. \A s \in Reserves : d.reserves[s].supply = d.reserves[s].supply + IF s = t THEN n ELSE 0
    BY <1>2, <2>1
  <2>11. SupplyAdded(d, e, t, n)
    BY <1>5, <2>2, <2>7, <2>8, <2>9, <2>10 DEF SupplyAdded
  <2> QED
    BY <2>8, <2>9, <2>11
<1> QED
  BY <1>4, <1>5

\* Taking the snapshot again touches the histories only.
LEMMA ResnapshotFrame ==
  ASSUME NEW d, IsDb(d), NEW t, day \in Days, NEW e, e = Resnapshot(d, t)
  PROVE  IsDb(e) /\ Keeps(d, e, {"values", "details"})
<1>1. CASE e = d
  BY <1>1 DEF Keeps, IsDb
<1>2. CASE e # d
  <2> DEFINE owners == {r \in Reserves : \E a \in Listed(d, r) : d.assets[r][a].iou = t}
  <2>1. owners # {} /\ e = Snapshot(d, CHOOSE r \in owners : TRUE)
    BY <1>2 DEF Resnapshot
  <2>2. PICK r \in Reserves : e = Snapshot(d, r)
    <3>1. (CHOOSE r \in owners : TRUE) \in owners
      BY <2>1
    <3> QED
      BY <2>1, <3>1
  <2> QED
    BY <2>2, SnapshotFrame
<1> QED
  BY <1>1, <1>2
-----------------------------------------------------------------------------
(* The logs, and what each is worth to the quantities the tables keep.     *)

\* The kinds of logs, with what their fields range over.
Activity == {"Deposit", "Withdraw", "SingleAssetDeposit", "SingleAssetWithdraw", "Rebalanced",
             "Swap", "FlashLoan", "DonationRecognized", "IOUMinted", "IOURedeemed"}

TransferLog  == {l \in [event : {"Transfer"}, addr : Reserves \cup Ious, from : Holders \cup {Zero},
                        to : Holders \cup {Zero}, value : Nat] : l.from # Zero \/ l.to # Zero}
BasketLog    == [event : {"Deposit", "Withdraw"}, addr : Reserves, lp : Nat, amounts : Baskets,
                 native : Nat, base : Nat]
PaidInLog    == [event : {"SingleAssetDeposit"}, addr : Reserves, asset : Tokens, in : Nat,
                 fee : Nat, lp : Nat]
PaidOutLog   == [event : {"SingleAssetWithdraw"}, addr : Reserves, asset : Tokens, out : Nat,
                 fee : Nat, lp : Nat]
ExchangeLog  == [event : {"Rebalanced", "Swap"}, addr : Reserves, tokenIn : Tokens,
                 tokenOut : Tokens, in : Nat, out : Nat, iouTotal : Nat]
ReceivedLog  == [event : {"FlashLoan", "DonationRecognized", "IOUMinted"}, addr : Reserves,
                 asset : Tokens, in : Nat]
RedeemedLog  == [event : {"IOURedeemed"}, addr : Reserves, asset : Tokens, out : Nat]
FeeLog       == [event : {"ClearIOUMinted"}, addr : Ious, fee : Nat]
PriceLog     == [event : {"ClearOracleRedemptionPriceChanged"}, addr : {Oracle}, asset : Tokens,
                 price : Prices]
AddedLog     == {l \in [event : {"AssetAdded"}, addr : Reserves, asset : Tokens] :
                   Iou(l.addr, l.asset) \in Ious}
AnnouncedLog == [event : {"NewClearReserve"}, reserve : Reserves]

LaunchLog    == AddedLog \cup AnnouncedLog
OperationLog == TransferLog \cup BasketLog \cup PaidInLog \cup PaidOutLog \cup ExchangeLog \cup
                ReceivedLog \cup RedeemedLog \cup FeeLog \cup PriceLog
Log          == LaunchLog \cup OperationLog

\* The event of a log tells its kind.
LEMMA LogKinds ==
  ASSUME NEW l \in Log
  PROVE  /\ l.event = "Transfer" => l \in TransferLog
         /\ l.event \in {"Deposit", "Withdraw"} => l \in BasketLog
         /\ l.event = "SingleAssetDeposit" => l \in PaidInLog
         /\ l.event = "SingleAssetWithdraw" => l \in PaidOutLog
         /\ l.event \in {"Rebalanced", "Swap"} => l \in ExchangeLog
         /\ l.event \in {"FlashLoan", "DonationRecognized", "IOUMinted"} => l \in ReceivedLog
         /\ l.event = "IOURedeemed" => l \in RedeemedLog
         /\ l.event = "ClearIOUMinted" => l \in FeeLog
         /\ l.event = "ClearOracleRedemptionPriceChanged" => l \in PriceLog
         /\ l.event = "AssetAdded" => l \in AddedLog
         /\ l.event = "NewClearReserve" => l \in AnnouncedLog
<1>1. /\ l \in TransferLog => l.event = "Transfer"
      /\ l \in BasketLog => l.event \in {"Deposit", "Withdraw"}
      /\ l \in PaidInLog => l.event = "SingleAssetDeposit"
      /\ l \in PaidOutLog => l.event = "SingleAssetWithdraw"
      /\ l \in ExchangeLog => l.event \in {"Rebalanced", "Swap"}
      /\ l \in ReceivedLog => l.event \in {"FlashLoan", "DonationRecognized", "IOUMinted"}
      /\ l \in RedeemedLog => l.event = "IOURedeemed"
      /\ l \in FeeLog => l.event = "ClearIOUMinted"
      /\ l \in PriceLog => l.event = "ClearOracleRedemptionPriceChanged"
      /\ l \in AddedLog => l.event = "AssetAdded"
      /\ l \in AnnouncedLog => l.event = "NewClearReserve"
  BY DEF TransferLog, BasketLog, PaidInLog, PaidOutLog, ExchangeLog, ReceivedLog, RedeemedLog,
         FeeLog, PriceLog, AddedLog, AnnouncedLog
<1> QED
  BY <1>1 DEF Log, LaunchLog, OperationLog

\* What a basket has of asset a of the base reserve.
Amount(basket, a) ==
  IF \E i \in DOMAIN basket : BaseAssets[i] = a
  THEN basket[CHOOSE i \in DOMAIN basket : BaseAssets[i] = a] ELSE 0

\* What a log adds to a holding, a balance, a supply, a total and iou_total.
BasketFlow(l, r, a) ==
  IF r = Meta THEN (IF a = Native THEN l.native ELSE 0) + (IF a = Base THEN l.base ELSE 0)
              ELSE Amount(l.amounts, a)

HoldingFlow(l, r, a) ==
  IF l.event \notin Activity THEN 0
  ELSE IF l.addr # r THEN 0
  ELSE IF l.event = "Deposit" THEN BasketFlow(l, r, a)
  ELSE IF l.event = "Withdraw" THEN -BasketFlow(l, r, a)
  ELSE IF l.event = "SingleAssetDeposit" THEN IF a = l.asset THEN l.in - l.fee ELSE 0
  ELSE IF l.event = "SingleAssetWithdraw" THEN IF a = l.asset THEN -(l.out + l.fee) ELSE 0
  ELSE IF l.event \in {"Rebalanced", "Swap"}
       THEN (IF a = l.tokenIn THEN l.in ELSE 0) - (IF a = l.tokenOut THEN l.out ELSE 0)
  ELSE IF l.event = "IOURedeemed" THEN IF a = l.asset THEN -l.out ELSE 0
  ELSE IF a = l.asset THEN l.in ELSE 0

BalanceFlow(l, t, h) ==
  IF l.event = "Transfer" /\ l.addr = t
  THEN (IF h = l.to THEN l.value ELSE 0) - (IF h = l.from THEN l.value ELSE 0) ELSE 0

SupplyFlow(l, t) ==
  IF l.event = "Transfer" /\ l.addr = t
  THEN (IF l.from = Zero THEN l.value ELSE 0) - (IF l.to = Zero THEN l.value ELSE 0) ELSE 0

TotalFlow(l, r, col) ==
  IF l.event \notin Activity THEN 0
  ELSE IF l.addr # r THEN 0
  ELSE IF col = "deposits" /\ l.event \in {"Deposit", "SingleAssetDeposit"} THEN l.lp
  ELSE IF col = "withdrawals" /\ l.event \in {"Withdraw", "SingleAssetWithdraw"} THEN l.lp
  ELSE IF col = "minted" /\ l.event = "IOUMinted" THEN l.in
  ELSE IF col = "redeemed" /\ l.event = "IOURedeemed" THEN l.out
  ELSE IF col = "swaps" /\ l.event = "Swap" THEN 1
  ELSE 0

SwapFlow(l, r) == IF l.event = "Swap" /\ l.addr = r THEN l.iouTotal ELSE 0

\* What a log changes, of the quantities above.
Effect(d, e, l) ==
  /\ IsDb(e)
  /\ \A r \in Reserves :
       /\ e.reserves[r].supply = d.reserves[r].supply + SupplyFlow(l, r)
       /\ \A col \in Totals : e.reserves[r][col] = d.reserves[r][col] + TotalFlow(l, r, col)
       /\ e.swapIou[r] = d.swapIou[r] + SwapFlow(l, r)
       /\ d.reserves[r].kind # None => e.reserves[r].kind # None
       /\ \A a \in Tokens :
            /\ e.holdings[r][a] = d.holdings[r][a] + HoldingFlow(l, r, a)
            /\ e.assets[r][a].iou = d.assets[r][a].iou
            /\ e.assets[r][a].position = d.assets[r][a].position
            /\ e.assets[r][a].iouSupply =
                 d.assets[r][a].iouSupply + IF d.assets[r][a].iou = None THEN 0
                                            ELSE SupplyFlow(l, Iou(r, a))
  /\ \A t \in Reserves \cup Ious, h \in Holders :
       e.balances[t][h] = d.balances[t][h] + BalanceFlow(l, t, h)
  /\ \A t \in Ious : e.iouSupply[t] = d.iouSupply[t] + SupplyFlow(l, t)

\* The two histories are those of d with the rows of r taken anew from the
\* holdings and the debts e ends with.
Snapped(d, e, r) ==
  \E m : /\ IsDb(m) /\ Keeps(d, m, {"holdings", "reserves", "swapIou"}) /\ m.holdings = e.holdings
         /\ \A s \in Reserves : /\ m.reserves[s].supply = d.reserves[s].supply
                                /\ d.reserves[s].kind # None => m.reserves[s].kind # None
         /\ e.values = Snapshot(m, r).values /\ e.details = Snapshot(m, r).details

-----------------------------------------------------------------------------
(* The handlers of a reserve's own events.                                 *)

\* A statement that moves holdings, the snapshot, and a total.
LEMMA Booked ==
  ASSUME NEW d, IsDb(d), NEW m, IsDb(m), Keeps(d, m, {"holdings"}), NEW r \in Reserves,
         NEW col \in Totals, NEW n \in Nat, day \in Days,
         NEW e, e = Bump(Snapshot(m, r), r, col, n)
  PROVE  /\ IsDb(e) /\ Keeps(d, e, {"holdings", "reserves", "values", "details"})
         /\ e.holdings = m.holdings /\ Snapped(d, e, r)
         /\ \A s \in Reserves :
              /\ e.reserves[s].supply = d.reserves[s].supply
              /\ d.reserves[s].kind # None => e.reserves[s].kind # None
              /\ \A c \in Totals : e.reserves[s][c] = d.reserves[s][c] + IF s = r /\ c = col THEN n ELSE 0
<1>1. PICK f : f = Snapshot(m, r)
  OBVIOUS
<1>2. IsDb(f) /\ Keeps(m, f, {"values", "details"})
  BY <1>1, SnapshotFrame
<1>3. e = Bump(f, r, col, n)
  BY <1>1
<1>4. /\ IsDb(e) /\ Keeps(f, e, {"reserves"})
      /\ \A s \in Reserves :
           /\ e.reserves[s].kind = IF s = r THEN KindOf(r) ELSE f.reserves[s].kind
           /\ e.reserves[s].supply = f.reserves[s].supply
           /\ \A c \in Totals : e.reserves[s][c] = f.reserves[s][c] + IF s = r /\ c = col THEN n ELSE 0
  <2>1. IsDb(f)
    BY <1>2
  <2> QED
    BY <1>3, <2>1, BumpFrame, SMTT(30)
<1>5. Keeps(d, e, {"holdings", "reserves", "values", "details"})
  BY <1>2, <1>4 DEF Keeps
<1>6. /\ f.reserves = d.reserves /\ m.reserves = d.reserves /\ e.holdings = m.holdings
      /\ e.values = f.values /\ e.details = f.details
  <2>1. \A t \in {"holdings", "values", "details"} : t \in Tables \ {"reserves"}
    BY DEF Tables
  <2>2. \A t \in {"holdings", "reserves"} : t \in Tables \ {"values", "details"}
    BY DEF Tables
  <2>3. "reserves" \in Tables \ {"holdings"}
    BY DEF Tables
  <2>4. e["holdings"] = f["holdings"] /\ e["values"] = f["values"] /\ e["details"] = f["details"]
    BY <1>4, <2>1 DEF Keeps
  <2>5. f["holdings"] = m["holdings"] /\ f["reserves"] = m["reserves"]
    BY <1>2, <2>2 DEF Keeps
  <2>6. m["reserves"] = d["reserves"]
    BY <2>3 DEF Keeps
  <2> QED
    BY <2>4, <2>5, <2>6
<1>7. KindOf(r) # None
  BY AddressAssumption DEF KindOf
<1>8. Snapped(d, e, r)
  <2>1. Keeps(d, m, {"holdings", "reserves", "swapIou"})
    BY DEF Keeps
  <2>2. \A s \in Reserves : /\ m.reserves[s].supply = d.reserves[s].supply
                            /\ d.reserves[s].kind # None => m.reserves[s].kind # None
    BY <1>6
  <2> QED
    BY <1>1, <1>6, <2>1, <2>2 DEF Snapped
<1> QED
  BY <1>4, <1>5, <1>6, <1>7, <1>8
\* The directory has all of r's assets, each at its place in the reserve's list.
Complete(d, r) ==
  \A a \in Tokens :
    IF a \in AssetsOf(r)
    THEN /\ d.assets[r][a].iou # None
         /\ \E i \in DOMAIN ListOf(r) : ListOf(r)[i] = a /\ d.assets[r][a].position = i - 1
    ELSE d.assets[r][a].iou = None

\* metaLegs finds the legs for what they are.
LegsKnown(d) == MetaLegs(d, Meta) = [native |-> Native, base |-> Base]

\* What a handler of r's own events finds.
Ready(d, r) ==
  /\ Complete(d, r) /\ d.reserves[r].kind # None
  /\ r = Meta => LegsKnown(d)

\* The amount of an asset is the one at its place in the list.
LEMMA AmountAt ==
  ASSUME NEW basket \in Baskets
  PROVE  /\ DOMAIN basket = DOMAIN BaseAssets
         /\ \A i \in DOMAIN BaseAssets : basket[i] \in Nat /\ Amount(basket, BaseAssets[i]) = basket[i]
         /\ \A a : a \notin ToSet(BaseAssets) => Amount(basket, a) = 0
         /\ \A a : Amount(basket, a) \in Nat
<1>1. basket \in Seq(Nat) /\ Len(basket) = Len(BaseAssets) /\ BaseAssets \in Seq(Tokens)
  BY AmountAssumption, AddressAssumption
<1>2. DOMAIN basket = DOMAIN BaseAssets
  BY <1>1
<1>3. \A i, j \in DOMAIN BaseAssets : BaseAssets[i] = BaseAssets[j] => i = j
  BY AddressAssumption DEF IsInjective
<1>4. \A i \in DOMAIN BaseAssets : basket[i] \in Nat
  BY <1>1, <1>2
<1>5. ASSUME NEW i \in DOMAIN BaseAssets PROVE Amount(basket, BaseAssets[i]) = basket[i]
  BY <1>2, <1>3 DEF Amount
<1>6. ASSUME NEW a, a \notin ToSet(BaseAssets) PROVE Amount(basket, a) = 0
  BY <1>2, <1>6 DEF Amount, ToSet
<1>7. ASSUME NEW a PROVE Amount(basket, a) \in Nat
  <2>1. CASE a \in ToSet(BaseAssets)
    <3>1. PICK i \in DOMAIN BaseAssets : a = BaseAssets[i]
      BY <2>1 DEF ToSet
    <3> QED
      BY <1>4, <1>5, <3>1
  <2>2. CASE a \notin ToSet(BaseAssets)
    BY <1>6, <2>2
  <2> QED
    BY <2>1, <2>2
<1> QED
  BY <1>2, <1>4, <1>5, <1>6, <1>7

\* applyReserveAmounts adds the basket to the holdings.
LEMMA ApplyAmountsFrame ==
  ASSUME NEW d, IsDb(d), Complete(d, Base), NEW basket \in Baskets, NEW sign \in {1, -1},
         NEW e, e = ApplyAmounts(d, Base, basket, sign)
  PROVE  /\ IsDb(e) /\ Keeps(d, e, {"holdings"})
         /\ \A s \in Reserves, a \in Tokens :
              e.holdings[s][a] = d.holdings[s][a] + IF s = Base THEN sign * Amount(basket, a) ELSE 0
<1>1. d.holdings \in [Reserves -> [Tokens -> Int]] /\ Base \in Reserves
  BY DbType DEF Reserves
<1> DEFINE new == [a \in Tokens |->
                     LET i == d.assets[Base][a].position + 1
                     IN IF a \in Listed(d, Base) /\ i \in DOMAIN basket
                        THEN d.holdings[Base][a] + sign * basket[i] ELSE d.holdings[Base][a]]
<1>2. ASSUME NEW a \in Tokens
      PROVE  new[a] = d.holdings[Base][a] + sign * Amount(basket, a) /\ new[a] \in Int
  <2>1. Amount(basket, a) \in Nat /\ d.holdings[Base][a] \in Int
    BY <1>1, AmountAt
  <2>2. CASE a \in ToSet(BaseAssets)
    <3>1. PICK i \in DOMAIN BaseAssets : BaseAssets[i] = a /\ d.assets[Base][a].position = i - 1
      BY <2>2 DEF Complete, AssetsOf, ListOf
    <3>2. a \in Listed(d, Base)
      BY <2>2 DEF Complete, AssetsOf, ListOf, Listed
    <3>3. i \in DOMAIN basket /\ basket[i] = Amount(basket, a)
      BY <3>1, AmountAt
    <3>4. d.assets[Base][a].position + 1 = i
      <4>1. i \in Int
        BY AddressAssumption
      <4> QED
        BY <3>1, <4>1
    <3> QED
      BY <2>1, <3>2, <3>3, <3>4
  <2>3. CASE a \notin ToSet(BaseAssets)
    <3>1. a \notin Listed(d, Base)
      BY <2>3 DEF Complete, AssetsOf, ListOf, Listed
    <3>2. Amount(basket, a) = 0
      BY <2>3, AmountAt
    <3> QED
      BY <2>1, <3>1, <3>2
  <2> QED
    BY <2>2, <2>3
<1> DEFINE H == [d.holdings EXCEPT ![Base] = new]
<1>3. e = With(d, "holdings", H)
  BY DEF ApplyAmounts, With
<1>4. new = [a \in Tokens |-> new[a]]
  OBVIOUS
<1> HIDE DEF new
<1>5. /\ H \in [Reserves -> [Tokens -> Int]]
      /\ \A s \in Reserves : H[s] = IF s = Base THEN new ELSE d.holdings[s]
  BY <1>1, <1>2, <1>4
<1> HIDE DEF H
<1>6. IsTable("holdings", H) /\ "holdings" \in Tables
  BY <1>5 DEF IsTable, Tables
<1>7. IsDb(e) /\ Keeps(d, e, {"holdings"}) /\ e["holdings"] = H
  BY <1>3, <1>6, Put
<1> QED
  BY <1>1, <1>2, <1>5, <1>7

\* Two assets of a reserve, one after the other.
LEMMA AdjustTwo ==
  ASSUME NEW d, IsDb(d), NEW r \in Reserves, NEW p \in Tokens, NEW q \in Tokens,
         NEW n \in Int, NEW b \in Int,
         NEW e, e = AdjustHolding(AdjustHolding(d, r, p, n), r, q, b)
  PROVE  /\ IsDb(e) /\ Keeps(d, e, {"holdings"})
         /\ \A s \in Reserves, a \in Tokens :
              e.holdings[s][a] = d.holdings[s][a] +
                IF s = r THEN (IF a = p THEN n ELSE 0) + (IF a = q THEN b ELSE 0) ELSE 0
<1>1. p \in Tokens \cup {None} /\ q \in Tokens \cup {None}
  OBVIOUS
<1>2. PICK f : f = AdjustHolding(d, r, p, n)
  OBVIOUS
<1>3. e = AdjustHolding(f, r, q, b)
  BY <1>2
<1>4. /\ IsDb(f) /\ Keeps(d, f, {"holdings"})
      /\ \A s \in Reserves, a \in Tokens :
           f.holdings[s][a] = d.holdings[s][a] + IF s = r /\ a = p THEN n ELSE 0
  BY <1>1, <1>2, AdjustHoldingFrame, SMTT(30)
<1>5. IsDb(f)
  BY <1>4
<1>6. /\ IsDb(e) /\ Keeps(f, e, {"holdings"})
      /\ \A s \in Reserves, a \in Tokens :
           e.holdings[s][a] = f.holdings[s][a] + IF s = r /\ a = q THEN b ELSE 0
  BY <1>1, <1>3, <1>5, AdjustHoldingFrame
<1>7. Keeps(d, e, {"holdings"})
  BY <1>4, <1>6 DEF Keeps
<1>8. ASSUME NEW s \in Reserves, NEW a \in Tokens
      PROVE  e.holdings[s][a] = d.holdings[s][a] +
               IF s = r THEN (IF a = p THEN n ELSE 0) + (IF a = q THEN b ELSE 0) ELSE 0
  <2>1. d.holdings[s][a] \in Int
    BY DbType
  <2>2. f.holdings[s][a] = d.holdings[s][a] + IF s = r /\ a = p THEN n ELSE 0
    BY <1>4
  <2>3. e.holdings[s][a] = f.holdings[s][a] + IF s = r /\ a = q THEN b ELSE 0
    BY <1>6
  <2> QED
    BY <2>1, <2>2, <2>3
<1> QED
  BY <1>6, <1>7, <1>8

\* A balanced deposit or withdrawal adds its basket to the holdings.
LEMMA ApplyBalancedFrame ==
  ASSUME NEW d, IsDb(d), NEW l \in BasketLog, Ready(d, l.addr), NEW sign \in {1, -1},
         NEW e, e = ApplyBalanced(d, l, sign)
  PROVE  /\ IsDb(e) /\ Keeps(d, e, {"holdings"})
         /\ \A s \in Reserves, a \in Tokens :
              e.holdings[s][a] = d.holdings[s][a] +
                IF s = l.addr THEN sign * BasketFlow(l, s, a) ELSE 0
<1>1. l.addr \in Reserves /\ l.amounts \in Baskets /\ l.native \in Nat /\ l.base \in Nat
  BY DEF BasketLog
<1>2. Base # Meta /\ \A r \in Reserves : r = Base \/ r = Meta
  BY AddressAssumption DEF Reserves
<1>3. CASE l.addr = Meta
  <2>1. e = ApplyLegs(d, Meta, l.native, l.base, sign)
    BY <1>2, <1>3 DEF ApplyBalanced, KindOf
  <2>2. LegsKnown(d)
    BY <1>3 DEF Ready
  <2>3. PICK n \in Int, b \in Int : n = sign * l.native /\ b = sign * l.base
    BY <1>1
  <2>4. /\ IsDb(e) /\ Keeps(d, e, {"holdings"})
        /\ \A s \in Reserves, a \in Tokens :
             e.holdings[s][a] = d.holdings[s][a] +
               IF s = Meta THEN (IF a = Native THEN n ELSE 0) + (IF a = Base THEN b ELSE 0) ELSE 0
    <3>1. e = AdjustHolding(AdjustHolding(d, Meta, Native, n), Meta, Base, b)
      BY <2>1, <2>2, <2>3 DEF ApplyLegs, LegsKnown
    <3>2. Meta \in Reserves /\ Native \in Tokens /\ Base \in Tokens
      BY DEF Reserves, Tokens
    <3> QED
      BY <3>1, <3>2, AdjustTwo
  <2>5. ASSUME NEW a \in Tokens
        PROVE  sign * BasketFlow(l, Meta, a) = (IF a = Native THEN n ELSE 0) + (IF a = Base THEN b ELSE 0)
    <3>1. BasketFlow(l, Meta, a) = (IF a = Native THEN l.native ELSE 0) + (IF a = Base THEN l.base ELSE 0)
      BY DEF BasketFlow
    <3>2. CASE sign = 1
      BY <1>1, <2>3, <3>1, <3>2
    <3>3. CASE sign = -1
      BY <1>1, <2>3, <3>1, <3>3
    <3> QED
      BY <3>2, <3>3
  <2> QED
    BY <1>3, <2>4, <2>5
<1>4. CASE l.addr = Base
  <2>1. e = ApplyAmounts(d, Base, l.amounts, sign)
    BY <1>2, <1>4 DEF ApplyBalanced, KindOf
  <2>2. Complete(d, Base)
    BY <1>4 DEF Ready
  <2>3. /\ IsDb(e) /\ Keeps(d, e, {"holdings"})
        /\ \A s \in Reserves, a \in Tokens :
             e.holdings[s][a] = d.holdings[s][a] + IF s = Base THEN sign * Amount(l.amounts, a) ELSE 0
    BY <1>1, <2>1, <2>2, ApplyAmountsFrame
  <2> QED
    BY <1>2, <1>4, <2>3 DEF BasketFlow
<1> QED
  BY <1>1, <1>2, <1>3, <1>4
\* A handler that leaves supplies and balances alone.
LEMMA Lifted ==
  ASSUME NEW d, IsDb(d), NEW l \in Log, l.event \in Activity, NEW e, IsDb(e),
         Keeps(d, e, {"holdings", "reserves", "swapIou", "values", "details"}),
         \A r \in Reserves :
           /\ e.reserves[r].supply = d.reserves[r].supply
           /\ d.reserves[r].kind # None => e.reserves[r].kind # None
           /\ \A col \in Totals : e.reserves[r][col] = d.reserves[r][col] + TotalFlow(l, r, col)
           /\ e.swapIou[r] = d.swapIou[r] + SwapFlow(l, r)
           /\ \A a \in Tokens : e.holdings[r][a] = d.holdings[r][a] + HoldingFlow(l, r, a)
  PROVE  Effect(d, e, l)
<1>1. \A t, h : BalanceFlow(l, t, h) = 0 /\ SupplyFlow(l, t) = 0
  BY DEF BalanceFlow, SupplyFlow, Activity
<1>2. e.assets = d.assets /\ e.balances = d.balances /\ e.iouSupply = d.iouSupply
  <2>1. \A t \in {"assets", "balances", "iouSupply"} :
          t \in Tables \ {"holdings", "reserves", "swapIou", "values", "details"}
    BY DEF Tables
  <2>2. \A t \in {"assets", "balances", "iouSupply"} : e[t] = d[t]
    BY <2>1 DEF Keeps
  <2> QED
    BY <2>2
<1>3. /\ \A r \in Reserves : d.reserves[r].supply \in Int
      /\ \A r \in Reserves, a \in Tokens : d.assets[r][a].iouSupply \in Int
      /\ \A t \in Reserves \cup Ious, h \in Holders : d.balances[t][h] \in Int
      /\ \A t \in Ious : d.iouSupply[t] \in Int
  BY DbType DEF ReserveRow, AssetRow
<1>4. ASSUME NEW r \in Reserves, NEW a \in Tokens
      PROVE  /\ e.assets[r][a].iou = d.assets[r][a].iou
             /\ e.assets[r][a].position = d.assets[r][a].position
             /\ e.assets[r][a].iouSupply =
                  d.assets[r][a].iouSupply + IF d.assets[r][a].iou = None THEN 0
                                             ELSE SupplyFlow(l, Iou(r, a))
  BY <1>1, <1>2, <1>3
<1>5. \A r \in Reserves : e.reserves[r].supply = d.reserves[r].supply + SupplyFlow(l, r)
  BY <1>1, <1>3
<1>6. \A t \in Reserves \cup Ious, h \in Holders :
        e.balances[t][h] = d.balances[t][h] + BalanceFlow(l, t, h)
  BY <1>1, <1>2, <1>3
<1>7. \A t \in Ious : e.iouSupply[t] = d.iouSupply[t] + SupplyFlow(l, t)
  BY <1>1, <1>2, <1>3
<1> QED
  BY <1>4, <1>5, <1>6, <1>7 DEF Effect

\* An event that changes holdings and adds to one total has its effect.
LEMMA BookedEffect ==
  ASSUME NEW d, IsDb(d), NEW l \in Log, l.event \in Activity \ {"Swap"}, l.addr \in Reserves,
         NEW m, IsDb(m), Keeps(d, m, {"holdings"}),
         \A s \in Reserves, a \in Tokens :
           m.holdings[s][a] = d.holdings[s][a] + HoldingFlow(l, s, a),
         NEW col \in Totals, NEW n \in Nat, day \in Days,
         \A s \in Reserves, c \in Totals :
           TotalFlow(l, s, c) = IF s = l.addr /\ c = col THEN n ELSE 0,
         NEW e, e = Bump(Snapshot(m, l.addr), l.addr, col, n)
  PROVE  Effect(d, e, l) /\ Snapped(d, e, l.addr)
<1>1. PICK r \in Reserves : r = l.addr
  OBVIOUS
<1>2. e = Bump(Snapshot(m, r), r, col, n)
  BY <1>1
<1>3. /\ IsDb(e) /\ Keeps(d, e, {"holdings", "reserves", "values", "details"})
      /\ e.holdings = m.holdings /\ Snapped(d, e, r)
      /\ \A s \in Reserves :
           /\ e.reserves[s].supply = d.reserves[s].supply
           /\ d.reserves[s].kind # None => e.reserves[s].kind # None
           /\ \A c \in Totals : e.reserves[s][c] = d.reserves[s][c] + IF s = r /\ c = col THEN n ELSE 0
  BY <1>2, Booked
<1>4. Keeps(d, e, {"holdings", "reserves", "swapIou", "values", "details"})
  BY <1>3 DEF Keeps
<1>5. \A s \in Reserves : e.swapIou[s] = d.swapIou[s] + SwapFlow(l, s)
  <2>1. e["swapIou"] = d["swapIou"]
    BY <1>3 DEF Keeps, Tables
  <2>2. \A s \in Reserves : SwapFlow(l, s) = 0 /\ d.swapIou[s] \in Int
    BY DbType DEF SwapFlow
  <2> QED
    BY <2>1, <2>2
<1>6. l.event \in Activity
  OBVIOUS
<1>7. \A s \in Reserves :
           /\ e.reserves[s].supply = d.reserves[s].supply
           /\ d.reserves[s].kind # None => e.reserves[s].kind # None
           /\ \A c \in Totals : e.reserves[s][c] = d.reserves[s][c] + TotalFlow(l, s, c)
           /\ e.swapIou[s] = d.swapIou[s] + SwapFlow(l, s)
           /\ \A a \in Tokens : e.holdings[s][a] = d.holdings[s][a] + HoldingFlow(l, s, a)
  BY <1>1, <1>3, <1>5
<1>8. Effect(d, e, l)
  BY <1>3, <1>4, <1>6, <1>7, Lifted
<1> QED
  BY <1>1, <1>3, <1>8

\* Deposit and Withdraw have their effect.
LEMMA BalancedEffect ==
  ASSUME NEW d, IsDb(d), NEW l \in Log, l.event \in {"Deposit", "Withdraw"}, Ready(d, l.addr),
         day \in Days, NEW e, e = IF l.event = "Deposit" THEN Deposited(d, l) ELSE Withdrawn(d, l)
  PROVE  l.addr \in Reserves /\ Effect(d, e, l) /\ Snapped(d, e, l.addr)
<1>1. l \in BasketLog /\ l.addr \in Reserves /\ l.lp \in Nat
  BY LogKinds DEF BasketLog
<1>2. PICK sign \in {1, -1} : sign = IF l.event = "Deposit" THEN 1 ELSE -1
  OBVIOUS
<1>3. PICK m : m = ApplyBalanced(d, l, sign)
  OBVIOUS
<1>4. /\ IsDb(m) /\ Keeps(d, m, {"holdings"})
      /\ \A s \in Reserves, a \in Tokens :
           m.holdings[s][a] = d.holdings[s][a] + IF s = l.addr THEN sign * BasketFlow(l, s, a) ELSE 0
  BY <1>1, <1>3, ApplyBalancedFrame
<1>5. \A s \in Reserves, a \in Tokens : BasketFlow(l, s, a) \in Int
  <2>1. l.native \in Nat /\ l.base \in Nat /\ l.amounts \in Baskets
    BY <1>1 DEF BasketLog
  <2>2. \A a : Amount(l.amounts, a) \in Nat
    BY <2>1, AmountAt
  <2> QED
    BY <2>1, <2>2 DEF BasketFlow
<1>6. \A s \in Reserves, a \in Tokens :
        HoldingFlow(l, s, a) = IF s = l.addr THEN sign * BasketFlow(l, s, a) ELSE 0
  BY <1>2, <1>5 DEF HoldingFlow, Activity
<1>7. \A s \in Reserves, a \in Tokens :
        m.holdings[s][a] = d.holdings[s][a] + HoldingFlow(l, s, a)
  BY <1>4, <1>6
<1>8. PICK col \in Totals : col = IF l.event = "Deposit" THEN "deposits" ELSE "withdrawals"
  BY DEF Totals
<1>9. \A s \in Reserves, c \in Totals :
        TotalFlow(l, s, c) = IF s = l.addr /\ c = col THEN l.lp ELSE 0
  BY <1>8 DEF TotalFlow, Totals, Activity
<1>10. e = Bump(Snapshot(m, l.addr), l.addr, col, l.lp)
  BY <1>2, <1>3, <1>8 DEF Deposited, Withdrawn
<1>11. l.event \in Activity \ {"Swap"}
  BY DEF Activity
<1> QED
  BY <1>1, <1>4, <1>7, <1>9, <1>10, <1>11, BookedEffect
\* SingleAssetDeposit and SingleAssetWithdraw have theirs.
LEMMA SingleEffect ==
  ASSUME NEW d, IsDb(d), NEW l \in Log, l.event \in {"SingleAssetDeposit", "SingleAssetWithdraw"},
         day \in Days,
         NEW e, e = IF l.event = "SingleAssetDeposit" THEN SingleDeposited(d, l) ELSE SingleWithdrawn(d, l)
  PROVE  l.addr \in Reserves /\ Effect(d, e, l) /\ Snapped(d, e, l.addr)
<1>1. /\ l.addr \in Reserves /\ l.asset \in Tokens /\ l.lp \in Nat /\ l.fee \in Nat
      /\ l.event = "SingleAssetDeposit" => l.in \in Nat
      /\ l.event = "SingleAssetWithdraw" => l.out \in Nat
  BY LogKinds DEF PaidInLog, PaidOutLog
<1>2. PICK n \in Int : n = IF l.event = "SingleAssetDeposit" THEN l.in ELSE -l.out
  BY <1>1
<1>3. PICK b \in Int : b = -l.fee
  BY <1>1
<1>4. PICK m : m = AdjustHolding(AdjustHolding(d, l.addr, l.asset, n), l.addr, l.asset, b)
  OBVIOUS
<1>5. /\ IsDb(m) /\ Keeps(d, m, {"holdings"})
      /\ \A s \in Reserves, a \in Tokens :
           m.holdings[s][a] = d.holdings[s][a] +
             IF s = l.addr THEN (IF a = l.asset THEN n ELSE 0) + (IF a = l.asset THEN b ELSE 0) ELSE 0
  <2>1. l.addr \in Reserves /\ l.asset \in Tokens
    BY <1>1
  <2> QED
    BY <1>4, <2>1, AdjustTwo
<1>6. ASSUME NEW s \in Reserves, NEW a \in Tokens
      PROVE  HoldingFlow(l, s, a) =
        IF s = l.addr THEN (IF a = l.asset THEN n ELSE 0) + (IF a = l.asset THEN b ELSE 0) ELSE 0
  <2>1. n + b = IF l.event = "SingleAssetDeposit" THEN l.in - l.fee ELSE -(l.out + l.fee)
    BY <1>1, <1>2, <1>3
  <2>2. HoldingFlow(l, s, a) = IF s = l.addr /\ a = l.asset THEN n + b ELSE 0
    BY <2>1 DEF HoldingFlow, Activity
  <2> QED
    BY <2>2
<1>7. \A s \in Reserves, a \in Tokens :
        m.holdings[s][a] = d.holdings[s][a] + HoldingFlow(l, s, a)
  BY <1>5, <1>6
<1>8. PICK col \in Totals : col = IF l.event = "SingleAssetDeposit" THEN "deposits" ELSE "withdrawals"
  BY DEF Totals
<1>9. \A s \in Reserves, c \in Totals :
        TotalFlow(l, s, c) = IF s = l.addr /\ c = col THEN l.lp ELSE 0
  BY <1>8 DEF TotalFlow, Totals, Activity
<1>10. e = Bump(Snapshot(m, l.addr), l.addr, col, l.lp)
  BY <1>2, <1>3, <1>4, <1>8 DEF SingleDeposited, SingleWithdrawn
<1>11. l.event \in Activity \ {"Swap"}
  BY DEF Activity
<1>12. l.addr \in Reserves /\ l.lp \in Nat /\ IsDb(m) /\ Keeps(d, m, {"holdings"})
  BY <1>1, <1>5
<1> QED
  BY <1>7, <1>9, <1>10, <1>11, <1>12, BookedEffect

\* IOUMinted and IOURedeemed have theirs.
LEMMA IouEffect ==
  ASSUME NEW d, IsDb(d), NEW l \in Log, l.event \in {"IOUMinted", "IOURedeemed"}, day \in Days,
         NEW e, e = IF l.event = "IOUMinted" THEN IouMinted(d, l) ELSE IouRedeemed(d, l)
  PROVE  l.addr \in Reserves /\ Effect(d, e, l) /\ Snapped(d, e, l.addr)
<1>1. /\ l.addr \in Reserves /\ l.asset \in Tokens
      /\ l.event = "IOUMinted" => l.in \in Nat
      /\ l.event = "IOURedeemed" => l.out \in Nat
  BY LogKinds DEF ReceivedLog, RedeemedLog
<1>2. PICK v \in Nat : v = IF l.event = "IOUMinted" THEN l.in ELSE l.out
  BY <1>1
<1>3. PICK n \in Int : n = IF l.event = "IOUMinted" THEN v ELSE -v
  OBVIOUS
<1>4. PICK m : m = AdjustHolding(d, l.addr, l.asset, n)
  OBVIOUS
<1>5. /\ IsDb(m) /\ Keeps(d, m, {"holdings"})
      /\ \A s \in Reserves, a \in Tokens :
           m.holdings[s][a] = d.holdings[s][a] + IF s = l.addr /\ a = l.asset THEN n ELSE 0
  <2>1. l.addr \in Reserves /\ l.asset \in Tokens \cup {None}
    BY <1>1
  <2> QED
    BY <1>4, <2>1, AdjustHoldingFrame
<1>6. \A s \in Reserves, a \in Tokens :
        HoldingFlow(l, s, a) = IF s = l.addr /\ a = l.asset THEN n ELSE 0
  BY <1>1, <1>2, <1>3 DEF HoldingFlow, Activity
<1>7. \A s \in Reserves, a \in Tokens :
        m.holdings[s][a] = d.holdings[s][a] + HoldingFlow(l, s, a)
  BY <1>5, <1>6
<1>8. PICK col \in Totals : col = IF l.event = "IOUMinted" THEN "minted" ELSE "redeemed"
  BY DEF Totals
<1>9. \A s \in Reserves, c \in Totals :
        TotalFlow(l, s, c) = IF s = l.addr /\ c = col THEN v ELSE 0
  BY <1>2, <1>8 DEF TotalFlow, Totals, Activity
<1>10. e = Bump(Snapshot(m, l.addr), l.addr, col, v)
  BY <1>2, <1>3, <1>4, <1>8 DEF IouMinted, IouRedeemed
<1>11. l.event \in Activity \ {"Swap"}
  BY DEF Activity
<1>12. l.addr \in Reserves /\ IsDb(m) /\ Keeps(d, m, {"holdings"})
  BY <1>1, <1>5
<1> QED
  BY <1>7, <1>9, <1>10, <1>11, <1>12, BookedEffect

\* The handlers that make sure of the reserve's row first and bump no total.
LEMMA SnapshotLast ==
  ASSUME NEW d, IsDb(d), NEW r \in Reserves, day \in Days, NEW m, IsDb(m),
         Keeps(EnsureReserve(d, r), m, {"holdings", "swapIou"}), NEW f, f = Snapshot(m, r)
  PROVE  /\ IsDb(f) /\ Keeps(d, f, {"holdings", "reserves", "swapIou", "values", "details"})
         /\ f.holdings = m.holdings /\ f.swapIou = m.swapIou /\ Snapped(d, f, r)
         /\ \A s \in Reserves :
              /\ f.reserves[s].supply = d.reserves[s].supply
              /\ d.reserves[s].kind # None => f.reserves[s].kind # None
              /\ \A c \in Totals : f.reserves[s][c] = d.reserves[s][c]
<1>1. PICK k : k = EnsureReserve(d, r)
  OBVIOUS
<1>2. /\ IsDb(k) /\ Keeps(d, k, {"reserves"})
      /\ \A s \in Reserves :
           /\ k.reserves[s].kind = IF s = r THEN KindOf(r) ELSE d.reserves[s].kind
           /\ \A c \in Totals \cup {"supply"} : k.reserves[s][c] = d.reserves[s][c]
  BY <1>1, EnsureReserveFrame
<1>3. IsDb(f) /\ Keeps(m, f, {"values", "details"})
  BY SnapshotFrame
<1>4. Keeps(k, m, {"holdings", "swapIou"})
  BY <1>1
<1>5. Keeps(d, m, {"holdings", "reserves", "swapIou"})
  BY <1>2, <1>4 DEF Keeps
<1>6. Keeps(d, f, {"holdings", "reserves", "swapIou", "values", "details"})
  BY <1>3, <1>5 DEF Keeps
<1>7. m.reserves = k.reserves
  BY <1>4 DEF Keeps, Tables
<1>8. f.holdings = m.holdings /\ f.swapIou = m.swapIou /\ f.reserves = m.reserves
  BY <1>3 DEF Keeps, Tables
<1>9. KindOf(r) # None
  BY AddressAssumption DEF KindOf
<1>10. \A s \in Reserves :
         /\ m.reserves[s].supply = d.reserves[s].supply
         /\ d.reserves[s].kind # None => m.reserves[s].kind # None
         /\ \A c \in Totals : m.reserves[s][c] = d.reserves[s][c]
  BY <1>2, <1>7, <1>9
<1>11. Snapped(d, f, r)
  BY <1>5, <1>8, <1>10 DEF Snapped
<1> QED
  BY <1>3, <1>6, <1>8, <1>10, <1>11
\* What an event without a total adds to the totals.
LEMMA NoTotals ==
  ASSUME NEW d, IsDb(d), NEW l, l.event \in {"Rebalanced", "FlashLoan", "DonationRecognized"}
  PROVE  \A s \in Reserves : /\ d.swapIou[s] = d.swapIou[s] + SwapFlow(l, s)
                             /\ \A c \in Totals : d.reserves[s][c] = d.reserves[s][c] + TotalFlow(l, s, c)
<1>1. \A s \in Reserves, c \in Totals : TotalFlow(l, s, c) = 0 /\ SwapFlow(l, s) = 0
  BY DEF TotalFlow, SwapFlow, Activity
<1>2. \A s \in Reserves : d.swapIou[s] \in Int /\ \A c \in Totals : d.reserves[s][c] \in Int
  BY DbType DEF ReserveRow, Totals
<1>3. ASSUME NEW s \in Reserves PROVE d.swapIou[s] = d.swapIou[s] + SwapFlow(l, s)
  <2>1. SwapFlow(l, s) = 0
    BY DEF SwapFlow
  <2> QED
    BY <1>2, <2>1
<1>4. ASSUME NEW s \in Reserves, NEW c \in Totals
      PROVE  d.reserves[s][c] = d.reserves[s][c] + TotalFlow(l, s, c)
  BY <1>1, <1>2
<1> QED
  BY <1>3, <1>4

\* FlashLoan and DonationRecognized have theirs.
LEMMA ReceivedEffect ==
  ASSUME NEW d, IsDb(d), NEW l \in Log, l.event \in {"FlashLoan", "DonationRecognized"},
         day \in Days, NEW e, e = Received(d, l)
  PROVE  l.addr \in Reserves /\ Effect(d, e, l) /\ Snapped(d, e, l.addr)
<1>1. l.addr \in Reserves /\ l.asset \in Tokens /\ l.in \in Nat
  BY LogKinds DEF ReceivedLog
<1>2. PICK r \in Reserves, n \in Int : r = l.addr /\ n = l.in
  BY <1>1
<1>3. PICK k : k = EnsureReserve(d, r)
  OBVIOUS
<1>4. IsDb(k) /\ Keeps(d, k, {"reserves"})
  BY <1>3, EnsureReserveFrame
<1>5. PICK m : m = AdjustHolding(k, r, l.asset, n)
  OBVIOUS
<1>6. /\ IsDb(m) /\ Keeps(k, m, {"holdings"})
      /\ \A s \in Reserves, a \in Tokens :
           m.holdings[s][a] = k.holdings[s][a] + IF s = r /\ a = l.asset THEN n ELSE 0
  <2>1. PICK a \in Tokens \cup {None} : a = l.asset
    BY <1>1
  <2>2. m = AdjustHolding(k, r, a, n) /\ IsDb(k)
    BY <1>4, <1>5, <2>1
  <2>3. /\ IsDb(m) /\ Keeps(k, m, {"holdings"})
        /\ \A s \in Reserves, b \in Tokens :
             m.holdings[s][b] = k.holdings[s][b] + IF s = r /\ b = a THEN n ELSE 0
    BY <2>2, AdjustHoldingFrame
  <2> QED
    BY <2>1, <2>3
<1>7. e = Snapshot(m, r)
  BY <1>2, <1>3, <1>5 DEF Received
<1>8. IsDb(m) /\ Keeps(EnsureReserve(d, r), m, {"holdings", "swapIou"})
  BY <1>3, <1>6 DEF Keeps
<1>9. /\ IsDb(e) /\ Keeps(d, e, {"holdings", "reserves", "swapIou", "values", "details"})
      /\ e.holdings = m.holdings /\ e.swapIou = m.swapIou /\ Snapped(d, e, r)
      /\ \A s \in Reserves :
           /\ e.reserves[s].supply = d.reserves[s].supply
           /\ d.reserves[s].kind # None => e.reserves[s].kind # None
           /\ \A c \in Totals : e.reserves[s][c] = d.reserves[s][c]
  BY <1>7, <1>8, SnapshotLast
<1>10. k.holdings = d.holdings /\ m.swapIou = d.swapIou
  BY <1>4, <1>6 DEF Keeps, Tables
<1>11. \A s \in Reserves, a \in Tokens :
         HoldingFlow(l, s, a) = IF s = r /\ a = l.asset THEN n ELSE 0
  BY <1>2 DEF HoldingFlow, Activity
<1>12. \A s \in Reserves :
         /\ e.reserves[s].supply = d.reserves[s].supply
         /\ d.reserves[s].kind # None => e.reserves[s].kind # None
         /\ \A c \in Totals : e.reserves[s][c] = d.reserves[s][c] + TotalFlow(l, s, c)
         /\ e.swapIou[s] = d.swapIou[s] + SwapFlow(l, s)
         /\ \A a \in Tokens : e.holdings[s][a] = d.holdings[s][a] + HoldingFlow(l, s, a)
  <2>1. \A s \in Reserves : /\ d.swapIou[s] = d.swapIou[s] + SwapFlow(l, s)
                            /\ \A c \in Totals : d.reserves[s][c] = d.reserves[s][c] + TotalFlow(l, s, c)
    BY NoTotals
  <2> QED
    BY <1>6, <1>9, <1>10, <1>11, <2>1
<1>13. Effect(d, e, l)
  <2>1. l.event \in Activity
    BY DEF Activity
  <2>2. IsDb(e) /\ Keeps(d, e, {"holdings", "reserves", "swapIou", "values", "details"})
    BY <1>9
  <2> QED
    BY <1>12, <2>1, <2>2, Lifted
<1> QED
  BY <1>2, <1>9, <1>13

\* The two legs of an exchange, the second of them paid out.
LEMMA ExchangedFrame ==
  ASSUME NEW d, IsDb(d), NEW l \in ExchangeLog, NEW e, e = Exchanged(d, l)
  PROVE  /\ IsDb(e) /\ Keeps(d, e, {"holdings"})
         /\ \A s \in Reserves, a \in Tokens :
              e.holdings[s][a] = d.holdings[s][a] + HoldingFlow(l, s, a)
<1>1. /\ l.addr \in Reserves /\ l.tokenIn \in Tokens /\ l.tokenOut \in Tokens
      /\ l.in \in Nat /\ l.out \in Nat /\ l.event \in {"Rebalanced", "Swap"}
  BY DEF ExchangeLog
<1>2. PICK n \in Int, b \in Int : n = l.in /\ b = -l.out
  BY <1>1
<1>3. e = AdjustHolding(AdjustHolding(d, l.addr, l.tokenIn, n), l.addr, l.tokenOut, b)
  BY <1>2 DEF Exchanged
<1>4. /\ IsDb(e) /\ Keeps(d, e, {"holdings"})
      /\ \A s \in Reserves, a \in Tokens :
           e.holdings[s][a] = d.holdings[s][a] +
             IF s = l.addr THEN (IF a = l.tokenIn THEN n ELSE 0) + (IF a = l.tokenOut THEN b ELSE 0) ELSE 0
  <2>1. l.addr \in Reserves /\ l.tokenIn \in Tokens /\ l.tokenOut \in Tokens
    BY <1>1
  <2> QED
    BY <1>3, <2>1, AdjustTwo
<1>5. ASSUME NEW s \in Reserves, NEW a \in Tokens
      PROVE  HoldingFlow(l, s, a) =
        IF s = l.addr THEN (IF a = l.tokenIn THEN n ELSE 0) + (IF a = l.tokenOut THEN b ELSE 0) ELSE 0
  <2>1. HoldingFlow(l, s, a) =
          IF s = l.addr THEN (IF a = l.tokenIn THEN l.in ELSE 0) - (IF a = l.tokenOut THEN l.out ELSE 0) ELSE 0
    BY <1>1 DEF HoldingFlow, Activity
  <2> QED
    BY <1>1, <1>2, <2>1
<1> QED
  BY <1>4, <1>5

\* Rebalanced has its effect.
LEMMA RebalancedEffect ==
  ASSUME NEW d, IsDb(d), NEW l \in Log, l.event = "Rebalanced", day \in Days,
         NEW e, e = Rebalanced(d, l)
  PROVE  l.addr \in Reserves /\ Effect(d, e, l) /\ Snapped(d, e, l.addr)
<1>1. l \in ExchangeLog /\ l.addr \in Reserves
  BY LogKinds DEF ExchangeLog
<1>2. PICK r \in Reserves : r = l.addr
  BY <1>1
<1>3. PICK k : k = EnsureReserve(d, r)
  OBVIOUS
<1>4. IsDb(k) /\ Keeps(d, k, {"reserves"})
  BY <1>3, EnsureReserveFrame
<1>5. PICK m : m = Exchanged(k, l)
  OBVIOUS
<1>6. /\ IsDb(m) /\ Keeps(k, m, {"holdings"})
      /\ \A s \in Reserves, a \in Tokens :
           m.holdings[s][a] = k.holdings[s][a] + HoldingFlow(l, s, a)
  BY <1>1, <1>4, <1>5, ExchangedFrame
<1>7. e = Snapshot(m, r)
  BY <1>2, <1>3, <1>5 DEF Rebalanced
<1>8. IsDb(m) /\ Keeps(EnsureReserve(d, r), m, {"holdings", "swapIou"})
  BY <1>3, <1>6 DEF Keeps
<1>9. /\ IsDb(e) /\ Keeps(d, e, {"holdings", "reserves", "swapIou", "values", "details"})
      /\ e.holdings = m.holdings /\ e.swapIou = m.swapIou /\ Snapped(d, e, r)
      /\ \A s \in Reserves :
           /\ e.reserves[s].supply = d.reserves[s].supply
           /\ d.reserves[s].kind # None => e.reserves[s].kind # None
           /\ \A c \in Totals : e.reserves[s][c] = d.reserves[s][c]
  BY <1>7, <1>8, SnapshotLast
<1>10. k.holdings = d.holdings /\ m.swapIou = d.swapIou
  BY <1>4, <1>6 DEF Keeps, Tables
<1>11. \A s \in Reserves :
         /\ e.reserves[s].supply = d.reserves[s].supply
         /\ d.reserves[s].kind # None => e.reserves[s].kind # None
         /\ \A c \in Totals : e.reserves[s][c] = d.reserves[s][c] + TotalFlow(l, s, c)
         /\ e.swapIou[s] = d.swapIou[s] + SwapFlow(l, s)
         /\ \A a \in Tokens : e.holdings[s][a] = d.holdings[s][a] + HoldingFlow(l, s, a)
  <2>1. \A s \in Reserves : /\ d.swapIou[s] = d.swapIou[s] + SwapFlow(l, s)
                            /\ \A c \in Totals : d.reserves[s][c] = d.reserves[s][c] + TotalFlow(l, s, c)
    BY NoTotals
  <2> QED
    BY <1>6, <1>9, <1>10, <2>1
<1>12. Effect(d, e, l)
  <2>1. l.event \in Activity
    BY DEF Activity
  <2>2. IsDb(e) /\ Keeps(d, e, {"holdings", "reserves", "swapIou", "values", "details"})
    BY <1>9
  <2> QED
    BY <1>11, <2>1, <2>2, Lifted
<1> QED
  BY <1>2, <1>9, <1>12

\* n more in iou_total of r.
Owing(d, r, n) == [d EXCEPT !.swapIou[r] = @ + n]

\* A swap adds to iou_total and to nothing else.
LEMMA SwapIouFrame ==
  ASSUME NEW d, IsDb(d), NEW r \in Reserves, NEW n \in Int, NEW e, e = Owing(d, r, n)
  PROVE  /\ IsDb(e) /\ Keeps(d, e, {"swapIou"})
         /\ \A s \in Reserves : e.swapIou[s] = d.swapIou[s] + IF s = r THEN n ELSE 0
<1>1. d.swapIou \in [Reserves -> Int]
  BY DbType
<1> DEFINE S == [d.swapIou EXCEPT ![r] = @ + n]
<1>2. S \in [Reserves -> Int] /\ \A s \in Reserves : S[s] = d.swapIou[s] + IF s = r THEN n ELSE 0
  BY <1>1
<1>3. e = With(d, "swapIou", S)
  BY DEF With, Owing
<1> HIDE DEF S
<1>4. IsTable("swapIou", S) /\ "swapIou" \in Tables
  BY <1>2 DEF IsTable, Tables
<1>5. IsDb(e) /\ Keeps(d, e, {"swapIou"}) /\ e["swapIou"] = S
  BY <1>3, <1>4, Put
<1> QED
  BY <1>2, <1>5

\* Swap has its effect.
LEMMA SwappedEffect ==
  ASSUME NEW d, IsDb(d), NEW l \in Log, l.event = "Swap", day \in Days, NEW e, e = Swapped(d, l)
  PROVE  l.addr \in Reserves /\ Effect(d, e, l) /\ Snapped(d, e, l.addr)
<1>1. l \in ExchangeLog /\ l.addr \in Reserves /\ l.iouTotal \in Nat
  BY LogKinds DEF ExchangeLog
<1>2. PICK r \in Reserves, n \in Int : r = l.addr /\ n = l.iouTotal
  BY <1>1
<1>3. PICK k : k = EnsureReserve(d, r)
  OBVIOUS
<1>4. IsDb(k) /\ Keeps(d, k, {"reserves"})
  BY <1>3, EnsureReserveFrame
<1>5. PICK b : b = Owing(k, r, n)
  OBVIOUS
<1>6. /\ IsDb(b) /\ Keeps(k, b, {"swapIou"})
      /\ \A s \in Reserves : b.swapIou[s] = k.swapIou[s] + IF s = r THEN n ELSE 0
  BY <1>4, <1>5, SwapIouFrame
<1>7. PICK m : m = Exchanged(b, l)
  OBVIOUS
<1>8. /\ IsDb(m) /\ Keeps(b, m, {"holdings"})
      /\ \A s \in Reserves, a \in Tokens :
           m.holdings[s][a] = b.holdings[s][a] + HoldingFlow(l, s, a)
  BY <1>1, <1>6, <1>7, ExchangedFrame
<1>9. PICK f : f = Snapshot(m, r)
  OBVIOUS
<1>10. IsDb(m) /\ Keeps(EnsureReserve(d, r), m, {"holdings", "swapIou"})
  BY <1>3, <1>6, <1>8 DEF Keeps
<1>11. /\ IsDb(f) /\ Keeps(d, f, {"holdings", "reserves", "swapIou", "values", "details"})
       /\ f.holdings = m.holdings /\ f.swapIou = m.swapIou /\ Snapped(d, f, r)
       /\ \A s \in Reserves :
            /\ f.reserves[s].supply = d.reserves[s].supply
            /\ d.reserves[s].kind # None => f.reserves[s].kind # None
            /\ \A c \in Totals : f.reserves[s][c] = d.reserves[s][c]
  BY <1>9, <1>10, SnapshotLast
<1>12. IsDb(f) /\ "swaps" \in Totals /\ 1 \in Nat
  BY <1>11 DEF Totals
<1>13. e = Grown(f, r, "swaps", 1)
  BY <1>2, <1>3, <1>5, <1>7, <1>9 DEF Swapped, Grown, Owing
<1>14. /\ IsDb(e) /\ Keeps(f, e, {"reserves"})
       /\ \A s \in Reserves :
            /\ e.reserves[s].kind = f.reserves[s].kind /\ e.reserves[s].supply = f.reserves[s].supply
            /\ \A c \in Totals : e.reserves[s][c] = f.reserves[s][c] + IF s = r /\ c = "swaps" THEN 1 ELSE 0
  BY <1>12, <1>13, TotalFrame
<1>15. Keeps(d, e, {"holdings", "reserves", "swapIou", "values", "details"})
  BY <1>11, <1>14 DEF Keeps
<1>16. /\ k.holdings = d.holdings /\ k.swapIou = d.swapIou /\ b.holdings = k.holdings
       /\ m.swapIou = b.swapIou
  BY <1>4, <1>6, <1>8 DEF Keeps, Tables
<1>17. /\ e.holdings = f.holdings /\ e.swapIou = f.swapIou /\ e.values = f.values
       /\ e.details = f.details
  BY <1>14 DEF Keeps, Tables
<1>18. \A s \in Reserves :
         /\ e.reserves[s].supply = d.reserves[s].supply
         /\ d.reserves[s].kind # None => e.reserves[s].kind # None
  BY <1>11, <1>14
<1>19. \A s \in Reserves, c \in Totals : e.reserves[s][c] = d.reserves[s][c] + TotalFlow(l, s, c)
  <2>1. \A s \in Reserves, c \in Totals : TotalFlow(l, s, c) = IF s = r /\ c = "swaps" THEN 1 ELSE 0
    BY <1>2 DEF TotalFlow, Totals, Activity
  <2> QED
    BY <1>11, <1>14, <2>1
<1>20. \A s \in Reserves : e.swapIou[s] = d.swapIou[s] + SwapFlow(l, s)
  BY <1>2, <1>6, <1>11, <1>16, <1>17 DEF SwapFlow
<1>21. \A s \in Reserves, a \in Tokens : e.holdings[s][a] = d.holdings[s][a] + HoldingFlow(l, s, a)
  BY <1>8, <1>11, <1>16, <1>17
<1>22. Effect(d, e, l)
  <2>1. l.event \in Activity
    BY DEF Activity
  <2>2. IsDb(e)
    BY <1>14
  <2> QED
    BY <1>15, <1>18, <1>19, <1>20, <1>21, <2>1, <2>2, Lifted
<1>23. Snapped(d, e, r)
  BY <1>11, <1>17 DEF Snapped
<1> QED
  BY <1>2, <1>22, <1>23
-----------------------------------------------------------------------------
(* Transfers.                                                              *)

\* What a mint (n > 0) or burn of the token t at h leaves, before the snapshot.
LEMMA SupplyMoved ==
  ASSUME NEW k, IsDb(k), NEW t \in Reserves \cup Ious, NEW h \in Holders, NEW n \in Int,
         NEW m, m = AddSupply(AdjustBalance(k, t, h, n), t, n)
  PROVE  /\ IsDb(m) /\ Keeps(k, m, {"reserves", "balances", "iouSupply", "assets"})
         /\ SupplyAdded(k, m, t, n)
         /\ \A s \in Reserves \cup Ious, g \in Holders :
              m.balances[s][g] = k.balances[s][g] + IF s = t /\ g = h THEN n ELSE 0
<1>1. PICK f : f = AdjustBalance(k, t, h, n)
  OBVIOUS
<1>2. /\ IsDb(f) /\ Keeps(k, f, {"balances"})
      /\ \A s \in Reserves \cup Ious, g \in Holders :
           f.balances[s][g] = k.balances[s][g] + IF s = t /\ g = h THEN n ELSE 0
  BY <1>1, AdjustBalanceFrame
<1>3. m = AddSupply(f, t, n) /\ IsDb(f)
  BY <1>1, <1>2
<1>4. /\ IsDb(m) /\ Keeps(f, m, {"reserves", "iouSupply", "assets"})
      /\ SupplyAdded(f, m, t, n)
  BY <1>3, AddSupplyFrame
<1>5. Keeps(k, m, {"reserves", "balances", "iouSupply", "assets"})
  BY <1>2, <1>4 DEF Keeps
<1>6. /\ f.reserves = k.reserves /\ f.iouSupply = k.iouSupply /\ f.assets = k.assets
      /\ m.balances = f.balances
  BY <1>2, <1>4 DEF Keeps, Tables
<1>7. SupplyAdded(k, m, t, n)
  BY <1>4, <1>6 DEF SupplyAdded
<1> QED
  BY <1>2, <1>4, <1>5, <1>6, <1>7

\* The token's own row of clear_reserves is made sure of first.
Known(d, t) == IF t \in Reserves THEN EnsureReserve(d, t) ELSE d

\* A Transfer's token keeps the totals it has.
LEMMA KnownFrame ==
  ASSUME NEW d, IsDb(d), NEW t \in Reserves \cup Ious, NEW k, k = Known(d, t)
  PROVE  /\ IsDb(k) /\ Keeps(d, k, {"reserves"})
         /\ \A s \in Reserves :
              /\ d.reserves[s].kind # None => k.reserves[s].kind # None
              /\ \A c \in Totals \cup {"supply"} : k.reserves[s][c] = d.reserves[s][c]
<1>1. CASE t \in Reserves
  <2>1. k = EnsureReserve(d, t)
    BY <1>1 DEF Known
  <2>2. /\ IsDb(k) /\ Keeps(d, k, {"reserves"})
        /\ \A s \in Reserves :
             /\ k.reserves[s].kind = IF s = t THEN KindOf(t) ELSE d.reserves[s].kind
             /\ \A c \in Totals \cup {"supply"} : k.reserves[s][c] = d.reserves[s][c]
    BY <1>1, <2>1, EnsureReserveFrame
  <2>3. KindOf(t) # None
    BY AddressAssumption DEF KindOf
  <2> QED
    BY <2>2, <2>3
<1>2. CASE t \notin Reserves
  <2>1. k = d
    BY <1>2 DEF Known
  <2> QED
    BY <2>1 DEF Keeps, IsDb
<1> QED
  BY <1>1, <1>2

\* The histories are those of d, or those of a snapshot taken of t's reserve
\* with the holdings of d and the debts e ends with.
Resnapped(d, e, t) ==
  \/ e.values = d.values /\ e.details = d.details /\ e.assets = d.assets
  \/ \E m : /\ IsDb(m) /\ Keeps(d, m, {"reserves", "balances", "iouSupply", "assets"})
            /\ m.assets = e.assets
            /\ \A s \in Reserves : d.reserves[s].kind # None => m.reserves[s].kind # None
            /\ e.values = Resnapshot(m, t).values /\ e.details = Resnapshot(m, t).details

\* A mint or a burn.
LEMMA MintedEffect ==
  ASSUME NEW d, IsDb(d), NEW l \in TransferLog, NEW h \in Holders, NEW n \in Int, day \in Days,
         \A g \in Holders : BalanceFlow(l, l.addr, g) = IF g = h THEN n ELSE 0,
         SupplyFlow(l, l.addr) = n,
         NEW e, e = Resnapshot(AddSupply(AdjustBalance(Known(d, l.addr), l.addr, h, n), l.addr, n), l.addr)
  PROVE  Effect(d, e, l) /\ Resnapped(d, e, l.addr)
<1>1. PICK t \in Reserves \cup Ious : t = l.addr
  BY DEF TransferLog
<1>2. PICK k : k = Known(d, t)
  OBVIOUS
<1>3. /\ IsDb(k) /\ Keeps(d, k, {"reserves"})
      /\ \A s \in Reserves :
           /\ d.reserves[s].kind # None => k.reserves[s].kind # None
           /\ \A c \in Totals \cup {"supply"} : k.reserves[s][c] = d.reserves[s][c]
  BY <1>2, KnownFrame
<1>4. PICK m : m = AddSupply(AdjustBalance(k, t, h, n), t, n)
  OBVIOUS
<1>5. /\ IsDb(m) /\ Keeps(k, m, {"reserves", "balances", "iouSupply", "assets"})
      /\ SupplyAdded(k, m, t, n)
      /\ \A s \in Reserves \cup Ious, g \in Holders :
           m.balances[s][g] = k.balances[s][g] + IF s = t /\ g = h THEN n ELSE 0
  <2>1. IsDb(k)
    BY <1>3
  <2> QED
    BY <1>4, <2>1, SupplyMoved
<1>6. e = Resnapshot(m, t)
  BY <1>1, <1>2, <1>4
<1>7. IsDb(e) /\ Keeps(m, e, {"values", "details"})
  <2>1. IsDb(m)
    BY <1>5
  <2> QED
    BY <1>6, <2>1, ResnapshotFrame
<1>8. Keeps(d, m, {"reserves", "balances", "iouSupply", "assets"})
  BY <1>3, <1>5 DEF Keeps
<1>9. Resnapped(d, e, t)
  <2>1. e.assets = m.assets
    BY <1>7 DEF Keeps, Tables
  <2>2. \A s \in Reserves : d.reserves[s].kind # None => m.reserves[s].kind # None
    BY <1>3, <1>5 DEF SupplyAdded
  <2>3. IsDb(m)
    BY <1>5
  <2> QED
    BY <1>6, <1>8, <2>1, <2>2, <2>3 DEF Resnapped
<1>10. /\ e.reserves = m.reserves /\ e.assets = m.assets /\ e.iouSupply = m.iouSupply
       /\ e.balances = m.balances /\ e.holdings = m.holdings /\ e.swapIou = m.swapIou
  BY <1>7 DEF Keeps, Tables
<1>11. /\ m.holdings = d.holdings /\ m.swapIou = d.swapIou /\ k.assets = d.assets
       /\ k.balances = d.balances /\ k.iouSupply = d.iouSupply
  BY <1>3, <1>8 DEF Keeps, Tables
<1>12. /\ \A r \in Reserves, c \in Totals : d.reserves[r][c] \in Int
       /\ \A r \in Reserves : d.swapIou[r] \in Int
       /\ \A r \in Reserves, a \in Tokens : d.holdings[r][a] \in Int /\ d.assets[r][a].iouSupply \in Int
       /\ \A r \in Reserves, a \in Tokens : d.assets[r][a].iou \in {None, Iou(r, a)} \cap (Ious \cup {None})
       /\ \A s \in Reserves \cup Ious, g \in Holders : d.balances[s][g] \in Int
       /\ \A s \in Ious : d.iouSupply[s] \in Int
  BY DbType DEF ReserveRow, AssetRow, Totals
<1>13. /\ \A s : SupplyFlow(l, s) = IF s = t THEN n ELSE 0
       /\ \A s : \A g \in Holders : BalanceFlow(l, s, g) = IF s = t /\ g = h THEN n ELSE 0
  BY <1>1 DEF SupplyFlow, BalanceFlow
<1>14. /\ \A r \in Reserves, a \in Tokens : HoldingFlow(l, r, a) = 0
       /\ \A r \in Reserves, c \in Totals : TotalFlow(l, r, c) = 0
       /\ \A r \in Reserves : SwapFlow(l, r) = 0
  BY DEF HoldingFlow, TotalFlow, SwapFlow, Activity, TransferLog
<1>15. ASSUME NEW r \in Reserves
       PROVE  /\ e.reserves[r].supply = d.reserves[r].supply + SupplyFlow(l, r)
              /\ \A col \in Totals : e.reserves[r][col] = d.reserves[r][col] + TotalFlow(l, r, col)
              /\ e.swapIou[r] = d.swapIou[r] + SwapFlow(l, r)
              /\ d.reserves[r].kind # None => e.reserves[r].kind # None
  <2>1. e.reserves[r].supply = d.reserves[r].supply + SupplyFlow(l, r)
    BY <1>3, <1>5, <1>10, <1>13 DEF SupplyAdded
  <2>2. \A col \in Totals : e.reserves[r][col] = d.reserves[r][col] + TotalFlow(l, r, col)
    BY <1>3, <1>5, <1>10, <1>12, <1>14 DEF SupplyAdded
  <2>3. e.swapIou[r] = d.swapIou[r] + SwapFlow(l, r)
    BY <1>10, <1>11, <1>12, <1>14
  <2>4. d.reserves[r].kind # None => e.reserves[r].kind # None
    BY <1>3, <1>5, <1>10 DEF SupplyAdded
  <2> QED
    BY <2>1, <2>2, <2>3, <2>4
<1>16. ASSUME NEW r \in Reserves, NEW a \in Tokens
       PROVE  /\ e.holdings[r][a] = d.holdings[r][a] + HoldingFlow(l, r, a)
              /\ e.assets[r][a].iou = d.assets[r][a].iou
              /\ e.assets[r][a].position = d.assets[r][a].position
              /\ e.assets[r][a].iouSupply =
                   d.assets[r][a].iouSupply + IF d.assets[r][a].iou = None THEN 0
                                              ELSE SupplyFlow(l, Iou(r, a))
  <2>1. e.holdings[r][a] = d.holdings[r][a] + HoldingFlow(l, r, a)
    BY <1>10, <1>11, <1>12, <1>14
  <2>2. /\ e.assets[r][a].iou = d.assets[r][a].iou
        /\ e.assets[r][a].position = d.assets[r][a].position
        /\ e.assets[r][a].iouSupply =
             d.assets[r][a].iouSupply + IF t \in Ious /\ d.assets[r][a].iou = t THEN n ELSE 0
    BY <1>5, <1>10, <1>11 DEF SupplyAdded
  <2>3. (t \in Ious /\ d.assets[r][a].iou = t) <=> (d.assets[r][a].iou # None /\ Iou(r, a) = t)
    BY <1>12, AddressAssumption
  <2> QED
    BY <1>13, <2>1, <2>2, <2>3
<1>17. \A s \in Reserves \cup Ious, g \in Holders :
         e.balances[s][g] = d.balances[s][g] + BalanceFlow(l, s, g)
  BY <1>5, <1>10, <1>11, <1>13
<1>18. \A s \in Ious : e.iouSupply[s] = d.iouSupply[s] + SupplyFlow(l, s)
  BY <1>5, <1>10, <1>11, <1>13 DEF SupplyAdded
<1>19. Effect(d, e, l)
  BY <1>7, <1>15, <1>16, <1>17, <1>18 DEF Effect
<1> QED
  BY <1>1, <1>9, <1>19
\* Transfer has its effect.
LEMMA TransferEffect ==
  ASSUME NEW d, IsDb(d), NEW l \in Log, l.event = "Transfer", day \in Days,
         NEW e, e = Transferred(d, l)
  PROVE  l.addr \in Reserves \cup Ious /\ Effect(d, e, l) /\ Resnapped(d, e, l.addr)
<1>1. /\ l \in TransferLog /\ l.addr \in Reserves \cup Ious /\ l.value \in Nat
      /\ l.from \in Holders \cup {Zero} /\ l.to \in Holders \cup {Zero}
      /\ l.from # Zero \/ l.to # Zero
  BY LogKinds DEF TransferLog
<1>2. Zero \notin Holders
  BY AddressAssumption
<1>3. CASE l.from = Zero
  <2>1. PICK n \in Int, h \in Holders : n = l.value /\ h = l.to
    BY <1>1, <1>3
  <2>2. e = Resnapshot(AddSupply(AdjustBalance(Known(d, l.addr), l.addr, h, n), l.addr, n), l.addr)
    BY <1>3, <2>1 DEF Transferred, Known
  <2>3. \A g \in Holders : BalanceFlow(l, l.addr, g) = IF g = h THEN n ELSE 0
    BY <1>2, <1>3, <2>1 DEF BalanceFlow
  <2>4. SupplyFlow(l, l.addr) = n
    BY <1>1, <1>3, <2>1 DEF SupplyFlow
  <2>5. l \in TransferLog
    BY <1>1
  <2> QED
    BY <1>1, <2>2, <2>3, <2>4, <2>5, MintedEffect
<1>4. CASE l.from # Zero /\ l.to = Zero
  <2>1. PICK n \in Int, h \in Holders : n = -l.value /\ h = l.from
    BY <1>1, <1>4
  <2>2. e = Resnapshot(AddSupply(AdjustBalance(Known(d, l.addr), l.addr, h, n), l.addr, n), l.addr)
    BY <1>4, <2>1 DEF Transferred, Known
  <2>3. \A g \in Holders : BalanceFlow(l, l.addr, g) = IF g = h THEN n ELSE 0
    BY <1>1, <1>2, <1>4, <2>1 DEF BalanceFlow
  <2>4. SupplyFlow(l, l.addr) = n
    BY <1>1, <1>4, <2>1 DEF SupplyFlow
  <2>5. l \in TransferLog
    BY <1>1
  <2> QED
    BY <1>1, <2>2, <2>3, <2>4, <2>5, MintedEffect
<1>5. CASE l.from # Zero /\ l.to # Zero
  <2>1. PICK t \in Reserves \cup Ious, n \in Int, b \in Int, f \in Holders, h \in Holders :
          t = l.addr /\ n = -l.value /\ b = l.value /\ f = l.from /\ h = l.to
    BY <1>1, <1>5
  <2>2. PICK k : k = Known(d, t)
    OBVIOUS
  <2>3. /\ IsDb(k) /\ Keeps(d, k, {"reserves"})
        /\ \A s \in Reserves :
             /\ d.reserves[s].kind # None => k.reserves[s].kind # None
             /\ \A c \in Totals \cup {"supply"} : k.reserves[s][c] = d.reserves[s][c]
    BY <2>2, KnownFrame
  <2>4. PICK m : m = AdjustBalance(k, t, f, n)
    OBVIOUS
  <2>5. IsDb(k)
    BY <2>3
  <2>6. /\ IsDb(m) /\ Keeps(k, m, {"balances"})
        /\ \A s \in Reserves \cup Ious, g \in Holders :
             m.balances[s][g] = k.balances[s][g] + IF s = t /\ g = f THEN n ELSE 0
    BY <2>4, <2>5, AdjustBalanceFrame
  <2>7. IsDb(m) /\ e = AdjustBalance(m, t, h, b)
    BY <1>5, <2>1, <2>2, <2>4, <2>6 DEF Transferred, Known
  <2>8. /\ IsDb(e) /\ Keeps(m, e, {"balances"})
        /\ \A s \in Reserves \cup Ious, g \in Holders :
             e.balances[s][g] = m.balances[s][g] + IF s = t /\ g = h THEN b ELSE 0
    BY <2>7, AdjustBalanceFrame
  <2>9. Keeps(k, e, {"balances"})
    BY <2>6, <2>8 DEF Keeps
  <2>10. /\ e.reserves = k.reserves /\ e.assets = d.assets /\ e.iouSupply = d.iouSupply
         /\ k.balances = d.balances /\ e.holdings = d.holdings /\ e.swapIou = d.swapIou
         /\ e.values = d.values /\ e.details = d.details
    BY <2>3, <2>9 DEF Keeps, Tables
  <2>11. /\ \A r \in Reserves, c \in Totals : d.reserves[r][c] \in Int
         /\ \A r \in Reserves : d.swapIou[r] \in Int /\ d.reserves[r].supply \in Int
         /\ \A r \in Reserves, a \in Tokens : d.holdings[r][a] \in Int /\ d.assets[r][a].iouSupply \in Int
         /\ \A s \in Reserves \cup Ious : \A g \in Holders : d.balances[s][g] \in Int
         /\ \A s \in Ious : d.iouSupply[s] \in Int
    BY DbType DEF ReserveRow, AssetRow, Totals
  <2>12. /\ \A s : SupplyFlow(l, s) = 0
         /\ \A s : \A g \in Holders :
              BalanceFlow(l, s, g) =
                IF s = t THEN (IF g = h THEN b ELSE 0) + (IF g = f THEN n ELSE 0) ELSE 0
    BY <1>1, <1>5, <2>1 DEF SupplyFlow, BalanceFlow
  <2>13. /\ \A r \in Reserves, a \in Tokens : HoldingFlow(l, r, a) = 0
         /\ \A r \in Reserves, c \in Totals : TotalFlow(l, r, c) = 0
         /\ \A r \in Reserves : SwapFlow(l, r) = 0
    BY DEF HoldingFlow, TotalFlow, SwapFlow, Activity
  <2>14. ASSUME NEW r \in Reserves
         PROVE  /\ e.reserves[r].supply = d.reserves[r].supply + SupplyFlow(l, r)
                /\ \A col \in Totals : e.reserves[r][col] = d.reserves[r][col] + TotalFlow(l, r, col)
                /\ e.swapIou[r] = d.swapIou[r] + SwapFlow(l, r)
                /\ d.reserves[r].kind # None => e.reserves[r].kind # None
    <3>1. e.reserves[r].supply = d.reserves[r].supply + SupplyFlow(l, r)
      BY <2>3, <2>10, <2>11, <2>12
    <3>2. \A col \in Totals : e.reserves[r][col] = d.reserves[r][col] + TotalFlow(l, r, col)
      BY <2>3, <2>10, <2>11, <2>13
    <3>3. e.swapIou[r] = d.swapIou[r] + SwapFlow(l, r)
      BY <2>10, <2>11, <2>13
    <3>4. d.reserves[r].kind # None => e.reserves[r].kind # None
      BY <2>3, <2>10
    <3> QED
      BY <3>1, <3>2, <3>3, <3>4
  <2>15. ASSUME NEW r \in Reserves, NEW a \in Tokens
         PROVE  /\ e.holdings[r][a] = d.holdings[r][a] + HoldingFlow(l, r, a)
                /\ e.assets[r][a].iouSupply =
                     d.assets[r][a].iouSupply + IF d.assets[r][a].iou = None THEN 0
                                                ELSE SupplyFlow(l, Iou(r, a))
    BY <2>10, <2>11, <2>12, <2>13
  <2>16. ASSUME NEW s \in Reserves \cup Ious, NEW g \in Holders
         PROVE  e.balances[s][g] = d.balances[s][g] + BalanceFlow(l, s, g)
    <3>1. m.balances[s][g] = d.balances[s][g] + IF s = t /\ g = f THEN n ELSE 0
      BY <2>6, <2>10
    <3>2. e.balances[s][g] = m.balances[s][g] + IF s = t /\ g = h THEN b ELSE 0
      BY <2>8
    <3>3. d.balances[s][g] \in Int
      BY <2>11
    <3> QED
      BY <2>12, <3>1, <3>2, <3>3
  <2>17. \A s \in Ious : e.iouSupply[s] = d.iouSupply[s] + SupplyFlow(l, s)
    BY <2>10, <2>11, <2>12
  <2>18. Effect(d, e, l)
    BY <2>8, <2>10, <2>14, <2>15, <2>16, <2>17 DEF Effect
  <2>19. Resnapped(d, e, l.addr)
    BY <2>10 DEF Resnapped
  <2> QED
    BY <1>1, <2>18, <2>19
<1> QED
  BY <1>3, <1>4, <1>5

-----------------------------------------------------------------------------
(* The other handlers.                                                     *)

\* What a log that adds to no quantity leaves: supplies, totals, balances and
\* holdings are d's.
Untouched(d, e) ==
  /\ IsDb(e) /\ Keeps(d, e, {"reserves", "assets", "iouFees", "redemption"})
  /\ \A r \in Reserves :
       /\ d.reserves[r].kind # None => e.reserves[r].kind # None
       /\ \A c \in Totals \cup {"supply"} : e.reserves[r][c] = d.reserves[r][c]

\* The events that move no quantity.
Still == {"ClearIOUMinted", "ClearOracleRedemptionPriceChanged", "AssetAdded", "NewClearReserve"}

\* They add nothing to any of them.
LEMMA StillFlows ==
  ASSUME NEW l, l.event \in Still
  PROVE  /\ \A r, a : HoldingFlow(l, r, a) = 0
         /\ \A r, c : TotalFlow(l, r, c) = 0
         /\ \A r : SwapFlow(l, r) = 0
         /\ \A t : SupplyFlow(l, t) = 0
         /\ \A t, h : BalanceFlow(l, t, h) = 0
BY DEF Still, HoldingFlow, TotalFlow, SwapFlow, SupplyFlow, BalanceFlow, Activity

\* A step that leaves the quantities alone is the effect of such an event.
LEMMA StillEffect ==
  ASSUME NEW d, IsDb(d), NEW l, l.event \in Still, NEW e, Untouched(d, e), e.assets = d.assets
  PROVE  Effect(d, e, l) /\ e.values = d.values /\ e.details = d.details
<1>1. IsDb(e) /\ Keeps(d, e, {"reserves", "assets", "iouFees", "redemption"})
  BY DEF Untouched
<1>2. /\ e.holdings = d.holdings /\ e.balances = d.balances /\ e.iouSupply = d.iouSupply
      /\ e.swapIou = d.swapIou /\ e.values = d.values /\ e.details = d.details
  BY <1>1 DEF Keeps, Tables
<1>3. /\ \A r \in Reserves, c \in Totals : d.reserves[r][c] \in Int
      /\ \A r \in Reserves : d.swapIou[r] \in Int /\ d.reserves[r].supply \in Int
      /\ \A r \in Reserves, a \in Tokens : d.holdings[r][a] \in Int /\ d.assets[r][a].iouSupply \in Int
      /\ \A s \in Reserves \cup Ious : \A g \in Holders : d.balances[s][g] \in Int
      /\ \A s \in Ious : d.iouSupply[s] \in Int
  BY DbType DEF ReserveRow, AssetRow, Totals
<1>4. ASSUME NEW r \in Reserves
      PROVE  /\ e.reserves[r].supply = d.reserves[r].supply + SupplyFlow(l, r)
             /\ \A col \in Totals : e.reserves[r][col] = d.reserves[r][col] + TotalFlow(l, r, col)
             /\ e.swapIou[r] = d.swapIou[r] + SwapFlow(l, r)
             /\ d.reserves[r].kind # None => e.reserves[r].kind # None
  BY <1>2, <1>3, StillFlows DEF Untouched
<1>5. ASSUME NEW r \in Reserves, NEW a \in Tokens
      PROVE  /\ e.holdings[r][a] = d.holdings[r][a] + HoldingFlow(l, r, a)
             /\ e.assets[r][a].iouSupply =
                  d.assets[r][a].iouSupply + IF d.assets[r][a].iou = None THEN 0
                                             ELSE SupplyFlow(l, Iou(r, a))
  BY <1>2, <1>3, StillFlows
<1>6. \A s \in Reserves \cup Ious, h \in Holders :
        e.balances[s][h] = d.balances[s][h] + BalanceFlow(l, s, h)
  BY <1>2, <1>3, StillFlows
<1>7. \A s \in Ious : e.iouSupply[s] = d.iouSupply[s] + SupplyFlow(l, s)
  BY <1>2, <1>3, StillFlows
<1>8. Effect(d, e, l)
  BY <1>1, <1>4, <1>5, <1>6, <1>7 DEF Effect
<1> QED
  BY <1>2, <1>8
\* n more in the treasury fees of t; a redemption price.
Booking(d, t, n) == [d EXCEPT !.iouFees[t] = @ + n]
Priced(d, a, p)  == [d EXCEPT !.redemption[a] = p]

\* handleIouTreasuryFee writes clear_iou_tokens only.
LEMMA BookingFrame ==
  ASSUME NEW d, IsDb(d), NEW t \in Ious, NEW n \in Int, NEW e, e = Booking(d, t, n)
  PROVE  IsDb(e) /\ Keeps(d, e, {"iouFees"})
<1>1. d.iouFees \in [Ious -> Int]
  BY DbType
<1> DEFINE F == [d.iouFees EXCEPT ![t] = @ + n]
<1>2. F \in [Ious -> Int]
  BY <1>1
<1>3. e = With(d, "iouFees", F)
  BY DEF With, Booking
<1> HIDE DEF F
<1>4. IsTable("iouFees", F) /\ "iouFees" \in Tables
  BY <1>2 DEF IsTable, Tables
<1> QED
  BY <1>3, <1>4, Put

\* handleOracleRedemption writes the price only.
LEMMA PricedFrame ==
  ASSUME NEW d, IsDb(d), NEW a \in Tokens, NEW p \in Prices, NEW e, e = Priced(d, a, p)
  PROVE  IsDb(e) /\ Keeps(d, e, {"redemption"})
<1>1. d.redemption \in [Tokens -> Prices \cup {None}]
  BY DbType
<1> DEFINE F == [d.redemption EXCEPT ![a] = p]
<1>2. F \in [Tokens -> Prices \cup {None}]
  BY <1>1
<1>3. e = With(d, "redemption", F)
  BY DEF With, Priced
<1> HIDE DEF F
<1>4. IsTable("redemption", F) /\ "redemption" \in Tables
  BY <1>2 DEF IsTable, Tables
<1> QED
  BY <1>3, <1>4, Put

\* ClearIOUMinted has its effect.
LEMMA FeeEffect ==
  ASSUME NEW d, IsDb(d), NEW l \in Log, l.event = "ClearIOUMinted", NEW e, e = FeeBooked(d, l)
  PROVE  Effect(d, e, l) /\ e.values = d.values /\ e.details = d.details
           /\ e.assets = d.assets /\ e.holdings = d.holdings
<1>1. PICK t \in Ious, n \in Int : t = l.addr /\ n = l.fee
  BY LogKinds DEF FeeLog
<1>2. e = Booking(d, t, n)
  BY <1>1 DEF FeeBooked, Booking
<1>3. IsDb(e) /\ Keeps(d, e, {"iouFees"})
  BY <1>2, BookingFrame
<1>4. e.assets = d.assets /\ e.reserves = d.reserves /\ e.holdings = d.holdings
  BY <1>3 DEF Keeps, Tables
<1>5. Untouched(d, e)
  BY <1>3, <1>4 DEF Untouched, Keeps
<1>6. l.event \in Still
  BY DEF Still
<1> QED
  BY <1>4, <1>5, <1>6, StillEffect

\* ClearOracleRedemptionPriceChanged has its effect.
LEMMA PriceEffect ==
  ASSUME NEW d, IsDb(d), NEW l \in Log, l.event = "ClearOracleRedemptionPriceChanged",
         NEW e, e = [d EXCEPT !.redemption[l.asset] = l.price]
  PROVE  Effect(d, e, l) /\ e.values = d.values /\ e.details = d.details
           /\ e.assets = d.assets /\ e.holdings = d.holdings
<1>1. PICK a \in Tokens, p \in Prices : a = l.asset /\ p = l.price
  BY LogKinds DEF PriceLog
<1>2. e = Priced(d, a, p)
  BY <1>1 DEF Priced
<1>3. IsDb(e) /\ Keeps(d, e, {"redemption"})
  BY <1>2, PricedFrame
<1>4. e.assets = d.assets /\ e.reserves = d.reserves /\ e.holdings = d.holdings
  BY <1>3 DEF Keeps, Tables
<1>5. Untouched(d, e)
  BY <1>3, <1>4 DEF Untouched, Keeps
<1>6. l.event \in Still
  BY DEF Still
<1> QED
  BY <1>4, <1>5, <1>6, StillEffect

\* A finite set has a finite image.
LEMMA ImageFinite ==
  ASSUME NEW S, IsFiniteSet(S), NEW f, DOMAIN f = S, NEW T, T = {f[x] : x \in S}
  PROVE  IsFiniteSet(T)
<1> DEFINE g == [x \in S |-> f[x]]
<1>1. g \in Surjection(S, T)
  BY DEF Surjection
<1> QED
  BY <1>1, FS_Surjection

\* There are finitely many tokens, IOUs and holders.
LEMMA TokensFinite == IsFiniteSet(Tokens) /\ IsFiniteSet(Ious) /\ IsFiniteSet(Holders)
<1>1. ToSet(BaseAssets) = {BaseAssets[i] : i \in 1..Len(BaseAssets)} /\ Len(BaseAssets) \in Nat
  BY AddressAssumption DEF ToSet
<1>2. IsFiniteSet(1..Len(BaseAssets))
  BY <1>1, FS_Interval
<1>3. IsFiniteSet(ToSet(BaseAssets))
  <2>1. DOMAIN BaseAssets = 1..Len(BaseAssets)
    BY AddressAssumption
  <2>2. ToSet(BaseAssets) = {BaseAssets[i] : i \in DOMAIN BaseAssets}
    BY <1>1, <2>1
  <2>3. IsFiniteSet(DOMAIN BaseAssets)
    BY <1>2, <2>1
  <2> QED
    BY <2>2, <2>3, ImageFinite
<1>4. IsFiniteSet({Native, Base}) /\ IsFiniteSet({Meta, Treasury})
        /\ IsFiniteSet({Iou(Meta, Native), Iou(Meta, Base)})
  <2>1. \A x, y : IsFiniteSet({x, y})
    <3>1. ASSUME NEW x, NEW y PROVE IsFiniteSet({x, y})
      <4>1. IsFiniteSet({x})
        BY FS_Singleton
      <4>2. {x, y} = {x} \cup {y}
        OBVIOUS
      <4> QED
        BY <4>1, <4>2, FS_AddElement
    <3> QED
      BY <3>1
  <2> QED
    BY <2>1
<1>5. IsFiniteSet({Iou(Base, a) : a \in ToSet(BaseAssets)})
  <2>1. PICK f : f = [a \in ToSet(BaseAssets) |-> Iou(Base, a)]
    OBVIOUS
  <2>2. {Iou(Base, a) : a \in ToSet(BaseAssets)} = {f[a] : a \in ToSet(BaseAssets)}
    BY <2>1
  <2>3. DOMAIN f = ToSet(BaseAssets)
    BY <2>1
  <2> QED
    BY <1>3, <2>2, <2>3, ImageFinite
<1>6. IsFiniteSet(Users)
  BY AddressAssumption
<1> QED
  BY <1>3, <1>4, <1>5, <1>6, FS_Union DEF Tokens, Ious, Holders

\* So a reserve lists finitely many assets.
LEMMA ListedFinite ==
  ASSUME NEW d, NEW r
  PROVE  IsFiniteSet(Listed(d, r)) /\ Cardinality(Listed(d, r)) \in Nat
BY TokensFinite, FS_Subset, FS_CardinalityType DEF Listed

\* d with another row of asset a of r.
PutAsset(d, r, a, row) == [d EXCEPT !.assets[r][a] = row]

\* It changes that row only.
LEMMA PutAssetFrame ==
  ASSUME NEW d, IsDb(d), NEW r \in Reserves, NEW a \in Tokens, NEW row \in AssetRow,
         row.iou \in {None, Iou(r, a)}, NEW e, e = PutAsset(d, r, a, row)
  PROVE  /\ IsDb(e) /\ Keeps(d, e, {"assets"})
         /\ \A s \in Reserves, b \in Tokens :
              e.assets[s][b] = IF s = r /\ b = a THEN row ELSE d.assets[s][b]
<1>1. /\ d.assets \in [Reserves -> [Tokens -> AssetRow]]
      /\ \A s \in Reserves, b \in Tokens : d.assets[s][b].iou \in {None, Iou(s, b)}
  BY DbType
<1> DEFINE A == [d.assets EXCEPT ![r][a] = row]
<1>2. /\ A \in [Reserves -> [Tokens -> AssetRow]]
      /\ \A s \in Reserves, b \in Tokens : A[s][b] = IF s = r /\ b = a THEN row ELSE d.assets[s][b]
  BY <1>1
<1>3. e = With(d, "assets", A)
  BY DEF With, PutAsset
<1> HIDE DEF A
<1>4. IsTable("assets", A) /\ "assets" \in Tables
  BY <1>1, <1>2 DEF IsTable, Tables
<1>5. IsDb(e) /\ Keeps(d, e, {"assets"}) /\ e["assets"] = A
  BY <1>3, <1>4, Put
<1> QED
  BY <1>2, <1>5

\* AssetAdded writes one row and its place in the list.
LEMMA AddedFrame ==
  ASSUME NEW d, IsDb(d), NEW l \in AddedLog, NEW e, e = AssetAdded(d, l)
  PROVE  /\ l.addr \in Reserves /\ l.asset \in Tokens /\ Untouched(d, e)
         /\ e.reserves[l.addr].kind = KindOf(l.addr)
         /\ \A r \in Reserves, a \in Tokens :
              /\ e.assets[r][a].iouSupply = d.assets[r][a].iouSupply
              /\ r # l.addr \/ a # l.asset => e.assets[r][a] = d.assets[r][a]
         /\ e.assets[l.addr][l.asset].iou = Iou(l.addr, l.asset)
         /\ l.asset \notin Listed(d, l.addr) =>
              e.assets[l.addr][l.asset].position = Cardinality(Listed(d, l.addr))
<1>1. PICK r \in Reserves, a \in Tokens : r = l.addr /\ a = l.asset /\ Iou(r, a) \in Ious
  BY DEF AddedLog
<1>2. PICK k : k = EnsureReserve(d, r)
  OBVIOUS
<1>3. /\ IsDb(k) /\ Keeps(d, k, {"reserves"})
      /\ \A s \in Reserves :
           /\ k.reserves[s].kind = IF s = r THEN KindOf(r) ELSE d.reserves[s].kind
           /\ \A c \in Totals \cup {"supply"} : k.reserves[s][c] = d.reserves[s][c]
  BY <1>2, EnsureReserveFrame
<1>4. k.assets = d.assets
  BY <1>3 DEF Keeps, Tables
<1>5. PICK old \in AssetRow : old = d.assets[r][a]
  BY DbType
<1>6. PICK n \in Int : n = IF old.iou # None THEN old.position ELSE Cardinality(Listed(d, r))
  BY ListedFinite DEF AssetRow
<1>7. PICK row : row = [old EXCEPT !.iou = Iou(r, a),
                                   !.position = IF old.iou # None THEN @
                                                ELSE NextPosition(d, r)]
  OBVIOUS
<1>8. /\ row \in AssetRow /\ row.iou = Iou(r, a) /\ row.position = n
      /\ row.iouSupply = old.iouSupply
  BY <1>1, <1>6, <1>7 DEF AssetRow, NextPosition
<1>9. e = PutAsset(k, r, a, row)
  BY <1>1, <1>2, <1>5, <1>7 DEF AssetAdded, PutAsset
<1>10. IsDb(k) /\ row.iou \in {None, Iou(r, a)}
  BY <1>3, <1>8
<1>11. /\ IsDb(e) /\ Keeps(k, e, {"assets"})
       /\ \A s \in Reserves, b \in Tokens :
            e.assets[s][b] = IF s = r /\ b = a THEN row ELSE k.assets[s][b]
  BY <1>8, <1>9, <1>10, PutAssetFrame
<1>12. Keeps(d, e, {"reserves", "assets", "iouFees", "redemption"}) /\ e.reserves = k.reserves
  BY <1>3, <1>11 DEF Keeps, Tables
<1>13. KindOf(r) # None
  BY AddressAssumption DEF KindOf
<1>14. Untouched(d, e)
  BY <1>3, <1>11, <1>12, <1>13 DEF Untouched
<1>15. a \notin Listed(d, r) => old.iou = None
  BY <1>5 DEF Listed
<1>16. \A s \in Reserves, b \in Tokens :
        /\ e.assets[s][b].iouSupply = d.assets[s][b].iouSupply
        /\ s # r \/ b # a => e.assets[s][b] = d.assets[s][b]
  BY <1>4, <1>5, <1>8, <1>11
<1>17. e.assets[r][a] = row /\ e.reserves[r].kind = KindOf(r)
  BY <1>3, <1>11, <1>12
<1> QED
  BY <1>1, <1>6, <1>8, <1>14, <1>15, <1>16, <1>17

-----------------------------------------------------------------------------
(* The deployments.                                                        *)

\* Nothing has moved yet.
Blank(d) ==
  /\ \A r \in Reserves :
       /\ \A c \in Totals \cup {"supply"} : d.reserves[r][c] = 0
       /\ d.swapIou[r] = 0
       /\ \A a \in Tokens : d.holdings[r][a] = 0 /\ d.assets[r][a].iouSupply = 0
       /\ \A n \in Days : /\ d.values[r][n] = NoValue
                          /\ \A a \in Tokens : d.details[r][a][n] = NoDetail
  /\ \A t \in Reserves \cup Ious, h \in Holders : d.balances[t][h] = 0
  /\ \A t \in Ious : d.iouSupply[t] = 0

\* The contracts hold nothing.
BlankChain(c) ==
  /\ \A r \in Reserves, a \in Tokens : c.accounted[r][a] = 0
  /\ \A t \in Reserves \cup Ious, h \in Holders : c.owned[t][h] = 0
  /\ c.donated = 0

\* The directory has the first m assets of r's list, each at its place.
ListedUpTo(d, r, m) ==
  /\ \A i \in DOMAIN ListOf(r) :
       LET row == d.assets[r][ListOf(r)[i]]
       IN IF i <= m THEN row.iou # None /\ row.position = i - 1 ELSE row.iou = None
  /\ \A a \in Tokens :
       /\ a \notin AssetsOf(r) => d.assets[r][a].iou = None
       /\ d.assets[r][a].iou = None => d.assets[r][a].position = -1
  /\ Cardinality(Listed(d, r)) = m

\* The directory once the logs of the deployments are applied.
Directory(d) ==
  /\ \A r \in Reserves :
       ListedUpTo(d, r, IF r \in setup.indexed THEN Len(ListOf(r)) ELSE 0)
  /\ \A r \in Followed : d.reserves[r].kind # None
  /\ d.reserves[Base].kind # None \/ setup.legs[1] = Native

\* How many assets of each reserve are announced by the first j launch logs.
Width == Len(BaseAssets)
\* The logs of the deployments, and how many of those seen list an asset of r.
Steps == Width + 4
Seen(r, j) ==
  IF r \notin setup.indexed THEN 0
  ELSE IF r = Base THEN IF j = 0 THEN 0 ELSE IF j <= Width + 1 THEN j - 1 ELSE Width
  ELSE IF j <= Width + 1 THEN 0 ELSE IF j <= Width + 3 THEN j - Width - 1 ELSE 2

\* The tables after the first j logs of the deployments.
LaunchedTo(d, j) ==
  /\ \A r \in Reserves : ListedUpTo(d, r, Seen(r, j))
  /\ Base \in setup.indexed /\ j >= 2 => d.reserves[Base].kind # None
  /\ Factory \in setup.indexed /\ j >= 1 => d.reserves[Base].kind # None
  /\ Meta \in setup.indexed /\ j >= Width + 2 => d.reserves[Meta].kind # None

\* While the deployments are read.
Launching ==
  /\ Blank(db) /\ BlankChain(chain) /\ day = 1
  /\ \E j \in 0..Steps :
       /\ Len(pending) = Steps - j
       /\ \A i \in 1..Steps - j : pending[i] = LaunchLogs[j + i]
       /\ LaunchedTo(db, j)

\* Afterwards.
Running == pending \in Seq(OperationLog) /\ Directory(db)

\* What the contracts hold, typed.
IsChain(c) ==
  /\ DOMAIN c = {"accounted", "owned", "fees", "donated"}
  /\ c.accounted \in [Reserves -> [Tokens -> Int]]
  /\ c.owned \in [Reserves \cup Ious -> [Holders -> Int]]
  /\ c.fees \in [Ious -> Int] /\ c.donated \in Int

\* The directory of the reserves is right; nothing else is written meanwhile.
CoreInv ==
  /\ setup \in Setups /\ block \in 0..MaxOps /\ day \in Days
  /\ IsDb(db) /\ IsChain(chain)
  /\ IF block = 0 THEN pending \in Seq(LaunchLog) /\ Launching ELSE Running

\* The contracts' holdings and balances are never negative, and the base LP the
\* meta reserve owns is what it accounts for and what it was given.
Solvent(c) ==
  /\ \A r \in Reserves, a \in Tokens : c.accounted[r][a] \in Nat
  /\ \A t \in Reserves \cup Ious, h \in Holders : c.owned[t][h] \in Nat
  /\ c.donated \in Nat
  /\ c.owned[Base][Meta] = c.accounted[Meta][Base] + c.donated

\* The quantities the queue still owes the tables.
LpFlow(l, r)  == SupplyFlow(l, r) - TotalFlow(l, r, "deposits") + TotalFlow(l, r, "withdrawals")
DebtFlow(l, r) ==
  (IF l.event = "Transfer" /\ l.addr \in Ious /\ l.addr[1] = r
   THEN (IF l.from = Zero THEN l.value ELSE 0) - (IF l.to = Zero THEN l.value ELSE 0) ELSE 0)
  - TotalFlow(l, r, "minted") - SwapFlow(l, r) + TotalFlow(l, r, "redeemed")

\* What the LP tables, and the IOU tables, fail to say of themselves.
LpGap(d, r)   == d.reserves[r].deposits - d.reserves[r].withdrawals - d.reserves[r].supply
DebtOf(d, r)  == SumFunction([a \in Listed(d, r) |-> d.assets[r][a].iouSupply])
DebtGap(d, r) == d.reserves[r].minted + d.swapIou[r] - d.reserves[r].redeemed - DebtOf(d, r)
\* The reserve whose indexing delivers the logs of t.
Owner(t)      == IF t \in Reserves THEN t ELSE t[1]

\* What each log is worth to a holding, a balance and the two gaps.
HoldingDue(r, a) == [l \in OperationLog |-> HoldingFlow(l, r, a)]
BalanceDue(t, h) == [l \in OperationLog |-> BalanceFlow(l, t, h)]
LpDue(r)         == [l \in OperationLog |-> LpFlow(l, r)]
DebtDue(r)       == [l \in OperationLog |-> DebtFlow(l, r)]

\* What the logs of s will add to the tables d makes them the contracts' c.
Due(d, c, s) ==
  /\ \A r \in Followed, a \in Tokens :
       Owes(HoldingDue(r, a), s, c.accounted[r][a] - d.holdings[r][a])
  /\ \A t \in Reserves \cup Ious : Owner(t) \in Followed =>
       \A h \in Holders : Owes(BalanceDue(t, h), s, c.owned[t][h] - d.balances[t][h])
  /\ \A r \in Followed : Owes(LpDue(r), s, LpGap(d, r)) /\ Owes(DebtDue(r), s, DebtGap(d, r))

\* The lists of the two reserves.
LEMMA Lists ==
  ASSUME setup \in Setups, NEW r \in Reserves
  PROVE  /\ ListOf(r) \in Seq(Tokens) /\ Len(ListOf(r)) \in Nat
         /\ AssetsOf(r) \subseteq Tokens
         /\ \A a \in Tokens : a \in AssetsOf(r) <=> \E i \in DOMAIN ListOf(r) : ListOf(r)[i] = a
         /\ \A i, j \in DOMAIN ListOf(r) : ListOf(r)[i] = ListOf(r)[j] => i = j
         /\ \A a \in AssetsOf(r) : Iou(r, a) \in Ious
<1>1. setup.legs \in {<<Native, Base>>, <<Base, Native>>} /\ Base # Native /\ Base # Meta
        /\ BaseAssets \in Seq(Tokens) /\ IsInjective(BaseAssets) /\ {Native, Base} \subseteq Tokens
  BY SetupAssumption, AddressAssumption DEF Tokens
<1>2. CASE r = Base
  <2>1. ListOf(r) = BaseAssets /\ AssetsOf(r) = ToSet(BaseAssets)
    BY <1>2 DEF ListOf, AssetsOf
  <2>2. \A i, j \in DOMAIN BaseAssets : BaseAssets[i] = BaseAssets[j] => i = j
    BY <1>1 DEF IsInjective
  <2>3. DOMAIN BaseAssets = 1..Len(BaseAssets) /\ Len(BaseAssets) \in Nat
    BY <1>1
  <2>4. \A a : a \in ToSet(BaseAssets) <=> \E i \in DOMAIN BaseAssets : BaseAssets[i] = a
    BY <2>3 DEF ToSet
  <2>5. ToSet(BaseAssets) \subseteq Tokens
    BY DEF Tokens
  <2>6. \A a \in ToSet(BaseAssets) : Iou(r, a) \in Ious
    BY <1>2 DEF Ious
  <2> QED
    BY <1>1, <2>1, <2>2, <2>3, <2>4, <2>5, <2>6
<1>3. CASE r = Meta
  <2>1. ListOf(r) = setup.legs /\ AssetsOf(r) = ToSet(setup.legs)
    BY <1>1, <1>3 DEF ListOf, AssetsOf
  <2>2. PICK s : s = setup.legs
    OBVIOUS
  <2>3. /\ s \in Seq(Tokens) /\ Len(s) = 2 /\ DOMAIN s = 1..2
        /\ (s[1] = Native /\ s[2] = Base) \/ (s[1] = Base /\ s[2] = Native)
    <3>1. s = <<Native, Base>> \/ s = <<Base, Native>>
      BY <1>1, <2>2
    <3>2. Native \in Tokens /\ Base \in Tokens
      BY <1>1
    <3>3. CASE s = <<Native, Base>>
      BY <3>2, <3>3
    <3>4. CASE s = <<Base, Native>>
      BY <3>2, <3>4
    <3> QED
      BY <3>1, <3>3, <3>4
  <2>4. \A a : a \in ToSet(s) <=> \E i \in DOMAIN s : s[i] = a
    BY <2>3 DEF ToSet
  <2>5. ToSet(s) = {Native, Base}
    BY <2>3 DEF ToSet
  <2>6. \A i, j \in DOMAIN s : s[i] = s[j] => i = j
    BY <1>1, <2>3
  <2>7. \A a \in ToSet(s) : Iou(r, a) \in Ious
    BY <1>3, <2>5 DEF Ious
  <2> QED
    BY <1>1, <2>1, <2>2, <2>3, <2>4, <2>5, <2>6, <2>7
<1> QED
  BY <1>2, <1>3 DEF Reserves

\* What a concatenation has at each place.
LEMMA Concatenated ==
  ASSUME NEW S, NEW s \in Seq(S), NEW t \in Seq(S)
  PROVE  /\ s \o t \in Seq(S) /\ Len(s \o t) = Len(s) + Len(t)
         /\ \A i \in 1..Len(s) : (s \o t)[i] = s[i]
         /\ \A i \in 1..Len(t) : (s \o t)[Len(s) + i] = t[i]
OBVIOUS

\* The elements of the launch logs, part by part.
LEMMA ThreeParts ==
  ASSUME NEW s, NEW t, NEW u, NEW w, NEW v, NEW n \in Nat,
         w[1] = s[1], \A i \in 1..n : w[1 + i] = t[i],
         \A i \in 1..1 + n : v[i] = w[i], \A i \in 1..3 : v[1 + n + i] = u[i]
  PROVE  /\ v[1] = s[1] /\ \A i \in 1..n : v[i + 1] = t[i]
         /\ v[n + 2] = u[1] /\ v[n + 3] = u[2] /\ v[n + 4] = u[3]
<1>1. ASSUME NEW i \in 1..n PROVE v[i + 1] = t[i]
  <2>1. v[1 + i] = w[1 + i] /\ i + 1 = 1 + i
    OBVIOUS
  <2> QED
    BY <2>1
<1>2. v[n + 2] = u[1] /\ v[n + 3] = u[2] /\ v[n + 4] = u[3]
  <2>1. n + 2 = 1 + n + 1 /\ n + 3 = 1 + n + 2 /\ n + 4 = 1 + n + 3
    OBVIOUS
  <2>2. v[1 + n + 1] = u[1] /\ v[1 + n + 2] = u[2] /\ v[1 + n + 3] = u[3]
    OBVIOUS
  <2> QED
    BY <2>1, <2>2
<1> QED
  BY <1>1, <1>2

\* The deployments, log by log.
LEMMA LaunchAt ==
  ASSUME setup \in Setups
  PROVE  /\ Width \in Nat /\ Width >= 2
         /\ LaunchLogs \in Seq(LaunchLog) /\ Len(LaunchLogs) = Steps
         /\ LaunchLogs[1] = Announced(Base)
         /\ \A i \in 1..Width : LaunchLogs[i + 1] = Added(Base, BaseAssets[i])
         /\ LaunchLogs[Width + 2] = Added(Meta, setup.legs[1])
         /\ LaunchLogs[Width + 3] = Added(Meta, setup.legs[2])
         /\ LaunchLogs[Width + 4] = Announced(Meta)
<1>1. BaseAssets \in Seq(Tokens) /\ Len(BaseAssets) >= 2 /\ Len(BaseAssets) \in Nat
  BY AddressAssumption
<1> DEFINE A == <<Announced(Base)>>
           B == [i \in 1..Len(BaseAssets) |-> Added(Base, BaseAssets[i])]
           C == <<Added(Meta, setup.legs[1]), Added(Meta, setup.legs[2]), Announced(Meta)>>
<1>2. Base \in Reserves /\ Meta \in Reserves
  BY DEF Reserves
<1>3. \A r \in Reserves : Announced(r) \in LaunchLog
  BY DEF Announced, LaunchLog, AnnouncedLog
<1>4. \A r \in Reserves, a \in Tokens : a \in AssetsOf(r) => Added(r, a) \in LaunchLog
  <2>1. ASSUME NEW r \in Reserves, NEW a \in Tokens, a \in AssetsOf(r) PROVE Added(r, a) \in LaunchLog
    <3>1. Iou(r, a) \in Ious
      BY <2>1, Lists
    <3> QED
      BY <3>1 DEF Added, LaunchLog, AddedLog
  <2> QED
    BY <2>1
<1>5. \A i \in 1..Len(BaseAssets) : Added(Base, BaseAssets[i]) \in LaunchLog
  <2>1. ListOf(Base) = BaseAssets
    BY DEF ListOf
  <2>2. \A a \in Tokens : a \in AssetsOf(Base) <=> \E i \in DOMAIN BaseAssets : BaseAssets[i] = a
    BY <1>2, <2>1, Lists
  <2> QED
    BY <1>1, <1>2, <1>4, <2>2
<1>6. /\ Added(Meta, setup.legs[1]) \in LaunchLog /\ Added(Meta, setup.legs[2]) \in LaunchLog
  <2>1. ListOf(Meta) = setup.legs /\ Len(setup.legs) = 2
    BY AddressAssumption, SetupAssumption DEF ListOf
  <2>2. /\ \A a \in Tokens : a \in AssetsOf(Meta) <=> \E i \in DOMAIN setup.legs : setup.legs[i] = a
        /\ setup.legs \in Seq(Tokens)
    BY <1>2, <2>1, Lists
  <2>3. /\ DOMAIN setup.legs = 1..2
    BY <2>1, <2>2
  <2> QED
    BY <1>2, <1>4, <2>2, <2>3
<1>7. A \in Seq(LaunchLog) /\ Len(A) = 1 /\ A[1] = Announced(Base)
  BY <1>2, <1>3
<1>8. B \in Seq(LaunchLog) /\ Len(B) = Width /\ \A i \in 1..Width : B[i] = Added(Base, BaseAssets[i])
  BY <1>1, <1>5 DEF Width
<1>9. C \in Seq(LaunchLog) /\ Len(C) = 3 /\ C[1] = Added(Meta, setup.legs[1])
        /\ C[2] = Added(Meta, setup.legs[2]) /\ C[3] = Announced(Meta)
  BY <1>2, <1>3, <1>6
<1>10. LaunchLogs = A \o B \o C
  BY DEF LaunchLogs
<1>11. Width \in Nat /\ Width >= 2 /\ Steps = Width + 4
  BY <1>1 DEF Width, Steps
<1> HIDE DEF A, B, C
<1>12. PICK W : W = A \o B
  OBVIOUS
<1>13. /\ W \in Seq(LaunchLog) /\ Len(W) = 1 + Width
       /\ \A i \in 1..1 : W[i] = A[i]
       /\ \A i \in 1..Width : W[1 + i] = B[i]
  <2>1. A \in Seq(LaunchLog) /\ B \in Seq(LaunchLog)
    BY <1>7, <1>8
  <2>2. /\ A \o B \in Seq(LaunchLog) /\ Len(A \o B) = Len(A) + Len(B)
        /\ \A i \in 1..Len(A) : (A \o B)[i] = A[i]
        /\ \A i \in 1..Len(B) : (A \o B)[Len(A) + i] = B[i]
    BY <2>1, Concatenated
  <2>3. Len(A) = 1 /\ Len(B) = Width
    BY <1>7, <1>8
  <2> QED
    BY <1>12, <2>2, <2>3
<1>14. LaunchLogs = W \o C /\ W \in Seq(LaunchLog) /\ C \in Seq(LaunchLog)
  BY <1>9, <1>10, <1>12, <1>13
<1>15. /\ LaunchLogs \in Seq(LaunchLog) /\ Len(LaunchLogs) = Len(W) + Len(C)
       /\ \A i \in 1..Len(W) : LaunchLogs[i] = W[i]
       /\ \A i \in 1..Len(C) : LaunchLogs[Len(W) + i] = C[i]
  BY <1>14, Concatenated
<1>16. Len(LaunchLogs) = Width + 4
  BY <1>9, <1>11, <1>13, <1>15
<1>17. /\ \A i \in 1..1 + Width : LaunchLogs[i] = W[i]
       /\ \A i \in 1..3 : LaunchLogs[1 + Width + i] = C[i]
       /\ W[1] = A[1] /\ \A i \in 1..Width : W[1 + i] = B[i] /\ Width \in Nat
  BY <1>9, <1>11, <1>13, <1>15
<1>18. /\ LaunchLogs[1] = A[1]
       /\ \A i \in 1..Width : LaunchLogs[i + 1] = B[i]
       /\ LaunchLogs[Width + 2] = C[1] /\ LaunchLogs[Width + 3] = C[2] /\ LaunchLogs[Width + 4] = C[3]
  <2>1. PICK n \in Nat : n = Width
    BY <1>11
  <2>2. W[1] = A[1] /\ \A i \in 1..n : W[1 + i] = B[i]
    BY <1>17, <2>1
  <2>3. \A i \in 1..1 + n : LaunchLogs[i] = W[i]
    BY <1>17, <2>1
  <2>4. \A i \in 1..3 : LaunchLogs[1 + n + i] = C[i]
    BY <1>17, <2>1
  <2>5. /\ LaunchLogs[1] = A[1]
        /\ \A i \in 1..n : LaunchLogs[i + 1] = B[i]
        /\ LaunchLogs[n + 2] = C[1] /\ LaunchLogs[n + 3] = C[2] /\ LaunchLogs[n + 4] = C[3]
    BY <2>2, <2>3, <2>4, ThreeParts
  <2> QED
    BY <2>1, <2>5
<1>19. LaunchLogs \in Seq(LaunchLog)
  BY <1>15
<1>20. \A i \in 1..Width : LaunchLogs[i + 1] = Added(Base, BaseAssets[i])
  BY <1>8, <1>18
<1>21. A[1] = Announced(Base) /\ C[1] = Added(Meta, setup.legs[1])
         /\ C[2] = Added(Meta, setup.legs[2]) /\ C[3] = Announced(Meta)
  BY <1>7, <1>9
<1> QED
  BY <1>11, <1>16, <1>18, <1>19, <1>20, <1>21

\* The directory does not change while every row keeps its IOU and its place.
LEMMA ListKept ==
  ASSUME NEW d, NEW e, NEW r \in Reserves, NEW m, setup \in Setups, ListedUpTo(d, r, m),
         \A a \in Tokens : /\ e.assets[r][a].iou = d.assets[r][a].iou
                           /\ e.assets[r][a].position = d.assets[r][a].position
  PROVE  ListedUpTo(e, r, m) /\ Listed(e, r) = Listed(d, r)
<1>1. Listed(e, r) = Listed(d, r)
  BY DEF Listed
<1>2. \A i \in DOMAIN ListOf(r) : ListOf(r)[i] \in Tokens
  BY Lists
<1> QED
  BY <1>1, <1>2 DEF ListedUpTo

\* An announced asset is listed behind those before it.
LEMMA ListGrows ==
  ASSUME NEW d, IsDb(d), setup \in Setups, NEW r \in Reserves, NEW m \in Nat,
         m + 1 \in DOMAIN ListOf(r), ListedUpTo(d, r, m),
         NEW e, e = AssetAdded(d, Added(r, ListOf(r)[m + 1]))
  PROVE  /\ Untouched(d, e) /\ ListedUpTo(e, r, m + 1) /\ e.reserves[r].kind # None
         /\ \A s \in Reserves : \A n : s # r /\ ListedUpTo(d, s, n) => ListedUpTo(e, s, n)
         /\ \A s \in Reserves, b \in Tokens : e.assets[s][b].iouSupply = d.assets[s][b].iouSupply
<1>1. PICK a \in Tokens : a = ListOf(r)[m + 1] /\ a \in AssetsOf(r) /\ Iou(r, a) \in Ious
  BY Lists
<1>2. PICK l \in AddedLog : l.addr = r /\ l.asset = a /\ l = Added(r, a)
  BY <1>1 DEF AddedLog, Added
<1>3. e = AssetAdded(d, l)
  BY <1>1, <1>2
<1>4. /\ Untouched(d, e) /\ e.reserves[l.addr].kind = KindOf(l.addr)
      /\ \A s \in Reserves, b \in Tokens :
           /\ e.assets[s][b].iouSupply = d.assets[s][b].iouSupply
           /\ s # l.addr \/ b # l.asset => e.assets[s][b] = d.assets[s][b]
      /\ e.assets[l.addr][l.asset].iou = Iou(l.addr, l.asset)
      /\ l.asset \notin Listed(d, l.addr) =>
           e.assets[l.addr][l.asset].position = Cardinality(Listed(d, l.addr))
  BY <1>3, AddedFrame
<1>5. KindOf(r) # None
  BY AddressAssumption DEF KindOf
<1>6. \A s \in Reserves : \A n : s # r /\ ListedUpTo(d, s, n) => ListedUpTo(e, s, n)
  BY <1>2, <1>4, ListKept
<1>7. /\ d.assets[r][a].iou = None /\ a \notin Listed(d, r) /\ Cardinality(Listed(d, r)) = m
      /\ \A i \in DOMAIN ListOf(r) :
           LET row == d.assets[r][ListOf(r)[i]]
           IN IF i <= m THEN row.iou # None /\ row.position = i - 1 ELSE row.iou = None
      /\ \A b \in Tokens : /\ b \notin AssetsOf(r) => d.assets[r][b].iou = None
                           /\ d.assets[r][b].iou = None => d.assets[r][b].position = -1
  BY <1>1 DEF ListedUpTo, Listed
<1>8. e.assets[r][a].iou = Iou(r, a) /\ e.assets[r][a].position = m /\ Iou(r, a) # None
  BY <1>1, <1>2, <1>4, <1>7, AddressAssumption
<1>9. \A b \in Tokens : b # a => e.assets[r][b] = d.assets[r][b]
  BY <1>2, <1>4
<1>10. Cardinality(Listed(e, r)) = m + 1
  <2>1. Listed(e, r) = Listed(d, r) \cup {a}
    BY <1>8, <1>9 DEF Listed
  <2> QED
    BY <1>7, <2>1, ListedFinite, FS_AddElement
<1>11. ASSUME NEW i \in DOMAIN ListOf(r)
       PROVE  LET row == e.assets[r][ListOf(r)[i]]
              IN IF i <= m + 1 THEN row.iou # None /\ row.position = i - 1 ELSE row.iou = None
  <2>1. ListOf(r)[i] \in Tokens /\ (ListOf(r)[i] = a => i = m + 1) /\ i \in Nat
    BY <1>1, Lists
  <2>2. CASE i = m + 1
    BY <1>1, <1>8, <2>2
  <2>3. CASE i # m + 1
    <3>1. ListOf(r)[i] # a /\ (i <= m + 1 <=> i <= m)
      BY <2>1, <2>3
    <3> QED
      BY <1>7, <1>9, <2>1, <3>1
  <2> QED
    BY <2>2, <2>3
<1>12. \A b \in Tokens : /\ b \notin AssetsOf(r) => e.assets[r][b].iou = None
                         /\ e.assets[r][b].iou = None => e.assets[r][b].position = -1
  BY <1>1, <1>7, <1>8, <1>9
<1>13. ListedUpTo(e, r, m + 1)
  BY <1>10, <1>11, <1>12 DEF ListedUpTo
<1> QED
  BY <1>2, <1>4, <1>5, <1>6, <1>13

\* A log of the deployments moves nothing.
LEMMA BlankKept ==
  ASSUME NEW d, NEW e, Untouched(d, e), Blank(d),
         \A r \in Reserves, a \in Tokens : e.assets[r][a].iouSupply = d.assets[r][a].iouSupply
  PROVE  Blank(e)
<1>1. /\ e.holdings = d.holdings /\ e.balances = d.balances /\ e.iouSupply = d.iouSupply
      /\ e.swapIou = d.swapIou /\ e.values = d.values /\ e.details = d.details
      /\ \A r \in Reserves, c \in Totals \cup {"supply"} : e.reserves[r][c] = d.reserves[r][c]
  BY DEF Untouched, Keeps, Tables
<1> QED
  BY <1>1 DEF Blank

\* What a launch log does when its contract is indexed, and when it is not.
Launch(d, l) ==
  IF Source(l) \notin setup.indexed THEN d
  ELSE IF l.event = "AssetAdded" THEN AssetAdded(d, l) ELSE EnsureReserve(d, l.reserve)

\* NewClearReserve after j logs.
LEMMA AnnouncedNext ==
  ASSUME NEW d, IsDb(d), setup \in Setups, NEW r \in Reserves, NEW e, e = Launch(d, Announced(r))
  PROVE  /\ Untouched(d, e) /\ e.assets = d.assets
         /\ Factory \in setup.indexed => e.reserves[r].kind # None
         /\ \A s \in Reserves : \A m : ListedUpTo(d, s, m) => ListedUpTo(e, s, m)
<1>1. Announced(r).event = "NewClearReserve" /\ Announced(r).reserve = r /\ Source(Announced(r)) = Factory
  BY DEF Announced, Source
<1>2. CASE Factory \notin setup.indexed
  <2>1. e = d
    BY <1>1, <1>2 DEF Launch
  <2> QED
    BY <1>2, <2>1 DEF Untouched, Keeps, IsDb
<1>3. CASE Factory \in setup.indexed
  <2>1. e = EnsureReserve(d, r)
    BY <1>1, <1>3 DEF Launch
  <2>2. /\ IsDb(e) /\ Keeps(d, e, {"reserves"})
        /\ \A s \in Reserves :
             /\ e.reserves[s].kind = IF s = r THEN KindOf(r) ELSE d.reserves[s].kind
             /\ \A c \in Totals \cup {"supply"} : e.reserves[s][c] = d.reserves[s][c]
    BY <2>1, EnsureReserveFrame
  <2>3. KindOf(r) # None
    BY AddressAssumption DEF KindOf
  <2>4. e.assets = d.assets
    BY <2>2 DEF Keeps, Tables
  <2>5. Untouched(d, e)
    BY <2>2, <2>3 DEF Untouched, Keeps
  <2>6. \A s \in Reserves : \A m : ListedUpTo(d, s, m) => ListedUpTo(e, s, m)
    BY <2>4, ListKept
  <2> QED
    BY <2>2, <2>3, <2>4, <2>5, <2>6
<1> QED
  BY <1>2, <1>3

\* From database d to database e the list of reserve r is stored up to its first k assets, when
\* its logs are indexed, and nothing else of what the launch stores is lost.
AddedTo(d, e, r, k) ==
  /\ Untouched(d, e) /\ ListedUpTo(e, r, IF r \in setup.indexed THEN k ELSE 0)
  /\ r \in setup.indexed => e.reserves[r].kind # None
  /\ \A s \in Reserves : \A n : s # r /\ ListedUpTo(d, s, n) => ListedUpTo(e, s, n)
  /\ \A s \in Reserves, b \in Tokens : e.assets[s][b].iouSupply = d.assets[s][b].iouSupply

\* AssetAdded after j logs.
LEMMA AddedNext ==
  ASSUME NEW d, IsDb(d), setup \in Setups, NEW r \in Reserves, NEW m \in Nat,
         m + 1 \in DOMAIN ListOf(r), ListedUpTo(d, r, IF r \in setup.indexed THEN m ELSE 0),
         NEW e, e = Launch(d, Added(r, ListOf(r)[m + 1]))
  PROVE  AddedTo(d, e, r, m + 1)
<1>1. PICK l : l = Added(r, ListOf(r)[m + 1])
  OBVIOUS
<1>2. l.event = "AssetAdded" /\ Source(l) = r
  BY <1>1, AddressAssumption DEF Added, Source
<1>3. CASE r \notin setup.indexed
  <2>1. e = d
    BY <1>1, <1>2, <1>3 DEF Launch
  <2> QED
    BY <1>3, <2>1 DEF Untouched, Keeps, IsDb, AddedTo
<1>4. CASE r \in setup.indexed
  <2>1. e = AssetAdded(d, Added(r, ListOf(r)[m + 1]))
    BY <1>1, <1>2, <1>4 DEF Launch
  <2>2. ListedUpTo(d, r, m)
    BY <1>4
  <2>3. /\ Untouched(d, e) /\ ListedUpTo(e, r, m + 1) /\ e.reserves[r].kind # None
        /\ \A s \in Reserves : \A n : s # r /\ ListedUpTo(d, s, n) => ListedUpTo(e, s, n)
        /\ \A s \in Reserves, b \in Tokens : e.assets[s][b].iouSupply = d.assets[s][b].iouSupply
    BY <2>1, <2>2, ListGrows
  <2> QED
    BY <1>4, <2>3 DEF AddedTo
<1> QED
  BY <1>3, <1>4

\* One more launch log.
LEMMA LaunchNext ==
  ASSUME NEW d, IsDb(d), Blank(d), setup \in Setups, NEW j \in Nat, j < Steps, LaunchedTo(d, j),
         NEW e, e = Launch(d, LaunchLogs[j + 1])
  PROVE  IsDb(e) /\ Blank(e) /\ LaunchedTo(e, j + 1)
<1> DEFINE Goal == IsDb(e) /\ Blank(e) /\ LaunchedTo(e, j + 1)
<1>1. /\ Width \in Nat /\ Width >= 2 /\ Steps = Width + 4
      /\ LaunchLogs[1] = Announced(Base)
      /\ \A i \in 1..Width : LaunchLogs[i + 1] = Added(Base, BaseAssets[i])
      /\ LaunchLogs[Width + 2] = Added(Meta, setup.legs[1])
      /\ LaunchLogs[Width + 3] = Added(Meta, setup.legs[2])
      /\ LaunchLogs[Width + 4] = Announced(Meta)
  BY LaunchAt DEF Steps
<1>2. Base \in Reserves /\ Meta \in Reserves /\ Base # Meta /\ Reserves = {Base, Meta}
  BY AddressAssumption DEF Reserves
<1>3. /\ \A r \in Reserves : ListedUpTo(d, r, Seen(r, j))
      /\ Base \in setup.indexed /\ j >= 2 => d.reserves[Base].kind # None
      /\ Factory \in setup.indexed /\ j >= 1 => d.reserves[Base].kind # None
      /\ Meta \in setup.indexed /\ j >= Width + 2 => d.reserves[Meta].kind # None
  BY DEF LaunchedTo
<1>4. ASSUME Untouched(d, e), \A s \in Reserves, b \in Tokens : e.assets[s][b].iouSupply = d.assets[s][b].iouSupply
      PROVE  /\ IsDb(e) /\ Blank(e)
             /\ \A r \in Reserves : d.reserves[r].kind # None => e.reserves[r].kind # None
  BY <1>4, BlankKept DEF Untouched
<1>5. CASE j = 0
  <2>1. e = Launch(d, Announced(Base))
    BY <1>1, <1>5
  <2>2. /\ Untouched(d, e) /\ e.assets = d.assets
        /\ Factory \in setup.indexed => e.reserves[Base].kind # None
        /\ \A s \in Reserves : \A m : ListedUpTo(d, s, m) => ListedUpTo(e, s, m)
    BY <1>2, <2>1, AnnouncedNext
  <2>3. \A r \in Reserves : Seen(r, j + 1) = Seen(r, j)
    BY <1>1, <1>2, <1>5 DEF Seen
  <2> QED
    BY <1>1, <1>3, <1>4, <1>5, <2>2, <2>3 DEF LaunchedTo
<1>6. CASE j \in 1..Width
  <2>1. LaunchLogs[j + 1] = Added(Base, BaseAssets[j])
    BY <1>1, <1>6
  <2>2. PICK m \in Nat : m + 1 = j
    BY <1>6
  <2>3. ListOf(Base) = BaseAssets /\ m + 1 \in DOMAIN ListOf(Base)
    BY <1>6, <2>2, AddressAssumption DEF ListOf, Width
  <2>4. e = Launch(d, Added(Base, ListOf(Base)[m + 1]))
    BY <2>1, <2>2, <2>3
  <2>5. /\ Seen(Base, j) = IF Base \in setup.indexed THEN m ELSE 0
        /\ Seen(Base, j + 1) = IF Base \in setup.indexed THEN m + 1 ELSE 0
        /\ Seen(Meta, j + 1) = Seen(Meta, j)
    BY <1>1, <1>2, <1>6, <2>2 DEF Seen
  <2>6. ListedUpTo(d, Base, IF Base \in setup.indexed THEN m ELSE 0)
    BY <1>2, <1>3, <2>5
  <2>7. AddedTo(d, e, Base, m + 1)
    BY <1>2, <2>3, <2>4, <2>6, AddedNext
  <2>8. \A r \in Reserves : ListedUpTo(e, r, Seen(r, j + 1))
    BY <1>2, <1>3, <2>5, <2>7 DEF AddedTo
  <2> QED
    BY <1>1, <1>3, <1>4, <1>6, <2>7, <2>8, <1>2 DEF LaunchedTo, AddedTo
<1>7. CASE j \in {Width + 1, Width + 2}
  <2>1. PICK m \in {0, 1} : j = Width + 1 + m
    BY <1>1, <1>7
  <2>2. ListOf(Meta) = setup.legs /\ m + 1 \in DOMAIN ListOf(Meta)
    <3>1. setup.legs \in {<<Native, Base>>, <<Base, Native>>}
      BY SetupAssumption
    <3> QED
      BY <1>2, <2>1, <3>1 DEF ListOf
  <2>3. LaunchLogs[j + 1] = Added(Meta, ListOf(Meta)[m + 1])
    BY <1>1, <2>1, <2>2
  <2>4. e = Launch(d, Added(Meta, ListOf(Meta)[m + 1])) /\ m \in Nat
    BY <2>1, <2>3
  <2>5. /\ Seen(Meta, j) = IF Meta \in setup.indexed THEN m ELSE 0
        /\ Seen(Meta, j + 1) = IF Meta \in setup.indexed THEN m + 1 ELSE 0
        /\ Seen(Base, j + 1) = Seen(Base, j)
    BY <1>1, <1>2, <2>1 DEF Seen
  <2>6. ListedUpTo(d, Meta, IF Meta \in setup.indexed THEN m ELSE 0)
    BY <1>2, <1>3, <2>5
  <2>7. AddedTo(d, e, Meta, m + 1)
    BY <1>2, <2>2, <2>4, <2>6, AddedNext
  <2>8. \A r \in Reserves : ListedUpTo(e, r, Seen(r, j + 1))
    BY <1>2, <1>3, <2>5, <2>7 DEF AddedTo
  <2> QED
    BY <1>1, <1>2, <1>3, <1>4, <1>7, <2>7, <2>8 DEF LaunchedTo, AddedTo
<1>8. CASE j = Width + 3
  <2>1. e = Launch(d, Announced(Meta))
    BY <1>1, <1>8
  <2>2. /\ Untouched(d, e) /\ e.assets = d.assets
        /\ \A s \in Reserves : \A m : ListedUpTo(d, s, m) => ListedUpTo(e, s, m)
    BY <1>2, <2>1, AnnouncedNext
  <2>3. \A r \in Reserves : Seen(r, j + 1) = Seen(r, j)
    BY <1>1, <1>2, <1>8 DEF Seen
  <2> QED
    BY <1>1, <1>2, <1>3, <1>4, <1>8, <2>2, <2>3 DEF LaunchedTo
<1> QED
  BY <1>1, <1>5, <1>6, <1>7, <1>8

\* After the last of them the directory is complete.
LEMMA LaunchDone ==
  ASSUME NEW d, setup \in Setups, LaunchedTo(d, Steps)
  PROVE  Directory(d)
<1>1. /\ Width \in Nat /\ Width >= 2 /\ Steps = Width + 4
  BY LaunchAt DEF Steps
<1>2. Reserves = {Base, Meta} /\ Base # Meta
  BY AddressAssumption DEF Reserves
<1>3. setup.legs \in {<<Native, Base>>, <<Base, Native>>}
        /\ ({Base, Factory} \cap setup.indexed = {} => setup.legs[1] = Native)
  BY SetupAssumption
<1>4. Len(ListOf(Base)) = Width /\ Len(ListOf(Meta)) = 2
  BY <1>2, <1>3 DEF ListOf, Width
<1>5. \A r \in Reserves : Seen(r, Steps) = IF r \in setup.indexed THEN Len(ListOf(r)) ELSE 0
  <2>1. Seen(Base, Steps) = IF Base \in setup.indexed THEN Width ELSE 0
    BY <1>1 DEF Seen
  <2>2. Seen(Meta, Steps) = IF Meta \in setup.indexed THEN 2 ELSE 0
    BY <1>1, <1>2 DEF Seen
  <2> QED
    BY <1>2, <1>4, <2>1, <2>2
<1>6. \A r \in Reserves : ListedUpTo(d, r, IF r \in setup.indexed THEN Len(ListOf(r)) ELSE 0)
  BY <1>5 DEF LaunchedTo
<1>7. \A r \in Followed : d.reserves[r].kind # None
  BY <1>1, <1>2 DEF LaunchedTo, Followed
<1>8. d.reserves[Base].kind # None \/ setup.legs[1] = Native
  BY <1>1, <1>3 DEF LaunchedTo
<1> QED
  BY <1>6, <1>7, <1>8 DEF Directory

\* A followed reserve lists all its assets.
LEMMA FullList ==
  ASSUME NEW d, setup \in Setups, NEW r \in Followed, Directory(d)
  PROVE  /\ Listed(d, r) = AssetsOf(r) /\ Complete(d, r) /\ Cardinality(Listed(d, r)) = Len(ListOf(r))
         /\ d.reserves[r].kind # None
<1>1. r \in Reserves /\ r \in setup.indexed
  BY DEF Followed
<1>2. ListedUpTo(d, r, Len(ListOf(r)))
  BY <1>1 DEF Directory
<1>3. /\ ListOf(r) \in Seq(Tokens) /\ Len(ListOf(r)) \in Nat
      /\ AssetsOf(r) \subseteq Tokens
      /\ \A a \in Tokens : a \in AssetsOf(r) <=> \E i \in DOMAIN ListOf(r) : ListOf(r)[i] = a
  BY <1>1, Lists
<1>4. \A i \in DOMAIN ListOf(r) :
        /\ d.assets[r][ListOf(r)[i]].iou # None /\ d.assets[r][ListOf(r)[i]].position = i - 1
  <2>1. \A i \in DOMAIN ListOf(r) : i <= Len(ListOf(r))
    BY <1>3
  <2> QED
    BY <1>2, <2>1 DEF ListedUpTo
<1>5. \A a \in Tokens : a \notin AssetsOf(r) => d.assets[r][a].iou = None
  BY <1>2 DEF ListedUpTo
<1>6. Complete(d, r)
  BY <1>3, <1>4, <1>5, SMTT(30) DEF Complete
<1>7. Listed(d, r) = AssetsOf(r)
  BY <1>3, <1>6 DEF Complete, Listed
<1> QED
  BY <1>2, <1>6, <1>7 DEF ListedUpTo, Directory

\* The first asset of one.
LEMMA FirstOfOne ==
  ASSUME NEW d, NEW r, NEW a, d.assets[r][a].position \in Int
  PROVE  FirstOf(d, r, {a}) = a
BY DEF FirstOf

\* The last asset of one.
LEMMA LastOfOne ==
  ASSUME NEW d, NEW r, NEW a, d.assets[r][a].position \in Int
  PROVE  LastOf(d, r, {a}) = a
BY DEF LastOf

\* Of two assets, the one at position 0 is first.
LEMMA FirstOfTwo ==
  ASSUME NEW d, NEW r, NEW a, NEW b, a # b,
         d.assets[r][a].position = 0, d.assets[r][b].position = 1
  PROVE  FirstOf(d, r, {a, b}) = a
<1>1. \E x \in {a, b} : \A y \in {a, b} : d.assets[r][x].position <= d.assets[r][y].position
  OBVIOUS
<1>2. FirstOf(d, r, {a, b}) \in {a, b}
        /\ \A y \in {a, b} : d.assets[r][FirstOf(d, r, {a, b})].position <= d.assets[r][y].position
  BY <1>1 DEF FirstOf
<1> QED
  BY <1>2

\* metaLegs finds the two legs, by kind or, without it, by position.
LEMMA LegsFound ==
  ASSUME NEW d, IsDb(d), setup \in Setups, Meta \in Followed, Directory(d)
  PROVE  LegsKnown(d)
<1>1. setup.legs \in {<<Native, Base>>, <<Base, Native>>} /\ Base # Native /\ Base # Meta
        /\ Native # Meta /\ Base \in Reserves /\ Native \in Tokens /\ Base \in Tokens
  BY SetupAssumption, AddressAssumption DEF Tokens, Reserves
<1>2. /\ Listed(d, Meta) = AssetsOf(Meta) /\ Complete(d, Meta)
      /\ Cardinality(Listed(d, Meta)) = Len(ListOf(Meta))
  BY FullList
<1>3. ListOf(Meta) = setup.legs /\ AssetsOf(Meta) = ToSet(setup.legs)
  BY <1>1 DEF ListOf, AssetsOf
<1>4. ToSet(setup.legs) = {Native, Base} /\ Len(setup.legs) = 2
  <2>1. CASE setup.legs = <<Native, Base>>
    BY <2>1 DEF ToSet
  <2>2. CASE setup.legs = <<Base, Native>>
    BY <2>2 DEF ToSet
  <2> QED
    BY <1>1, <2>1, <2>2
<1>5. Listed(d, Meta) = {Native, Base} /\ Cardinality(Listed(d, Meta)) = 2
  BY <1>2, <1>3, <1>4
<1>6. Native \notin Reserves
  BY <1>1 DEF Reserves
<1>7. d.reserves[Base].kind \in {None, "base"} /\ None # "base"
  BY <1>1, DbType, AddressAssumption DEF KindOf
<1>8. \A a \in {Native, Base} :
         \E i \in DOMAIN setup.legs : setup.legs[i] = a /\ d.assets[Meta][a].position = i - 1
  BY <1>1, <1>2, <1>3, <1>4 DEF Complete
<1>9. d.assets[Meta][Native].position \in Int /\ d.assets[Meta][Base].position \in Int
  BY <1>1, <1>8
<1>10. CASE d.reserves[Base].kind = "base"
  <2>1. {a \in Listed(d, Meta) \cap Reserves : d.reserves[a].kind = "base"} = {Base}
    BY <1>1, <1>5, <1>6, <1>10
  <2>2. Listed(d, Meta) \ {Base} = {Native}
    BY <1>1, <1>5
  <2>3. LastOf(d, Meta, {Base}) = Base /\ FirstOf(d, Meta, {Native}) = Native
    BY <1>9, FirstOfOne, LastOfOne
  <2> QED
    BY <2>1, <2>2, <2>3 DEF LegsKnown, MetaLegs
<1>11. CASE d.reserves[Base].kind # "base"
  <2>1. setup.legs[1] = Native /\ setup.legs = <<Native, Base>>
    BY <1>1, <1>7, <1>11 DEF Directory
  <2>2. {a \in Listed(d, Meta) \cap Reserves : d.reserves[a].kind = "base"} = {}
    BY <1>1, <1>5, <1>6, <1>11
  <2>3. /\ DOMAIN setup.legs = {1, 2} /\ setup.legs[1] = Native /\ setup.legs[2] = Base
    BY <2>1
  <2>4. d.assets[Meta][Native].position = 0 /\ d.assets[Meta][Base].position = 1
    BY <1>1, <1>8, <2>3
  <2>5. FirstOf(d, Meta, {Native, Base}) = Native
    BY <1>1, <2>4, FirstOfTwo
  <2>6. {Native, Base} \ {Native} = {Base} /\ FirstOf(d, Meta, {Base}) = Base
    BY <1>1, <1>9, FirstOfOne
  <2> QED
    BY <1>5, <2>2, <2>5, <2>6 DEF LegsKnown, MetaLegs
<1> QED
  BY <1>10, <1>11

\* The directory is what the handlers need it to be.
LEMMA DirectoryReady ==
  ASSUME NEW d, IsDb(d), setup \in Setups, NEW r \in Followed, Directory(d)
  PROVE  Ready(d, r)
<1>1. Complete(d, r) /\ d.reserves[r].kind # None
  BY FullList
<1>2. r = Meta => LegsKnown(d)
  BY LegsFound
<1> QED
  BY <1>1, <1>2 DEF Ready

\* An operation leaves the directory alone.
LEMMA DirectoryKept ==
  ASSUME NEW d, NEW e, NEW l, Effect(d, e, l), setup \in Setups, Directory(d)
  PROVE  Directory(e) /\ \A r \in Reserves : Listed(e, r) = Listed(d, r)
<1>1. \A r \in Reserves :
        /\ d.reserves[r].kind # None => e.reserves[r].kind # None
        /\ \A a \in Tokens : /\ e.assets[r][a].iou = d.assets[r][a].iou
                             /\ e.assets[r][a].position = d.assets[r][a].position
  BY DEF Effect
<1>2. \A r \in Reserves : \A m : ListedUpTo(d, r, m) => ListedUpTo(e, r, m)
  BY <1>1, ListKept
<1>3. \A r \in Reserves : Listed(e, r) = Listed(d, r)
  BY <1>1 DEF Listed
<1>4. Base \in Reserves /\ Followed \subseteq Reserves
  BY DEF Reserves, Followed
<1> QED
  BY <1>1, <1>2, <1>3, <1>4 DEF Directory

-----------------------------------------------------------------------------
(* The steps.                                                              *)

\* The rows of the days after a log: taken anew for the reserve whose event or
\* whose IOU it is, otherwise as they were.
History(d, e, l) ==
  IF l.event \in Activity THEN l.addr \in Reserves /\ Snapped(d, e, l.addr)
  ELSE IF l.event = "Transfer" THEN Resnapped(d, e, l.addr)
  ELSE e.values = d.values /\ e.details = d.details /\ e.assets = d.assets /\ e.holdings = d.holdings

\* What Handle does with a log of the deployments.
LEMMA LaunchHandled ==
  ASSUME Handle \/ PassBy, log \in LaunchLog
  PROVE  db' = Launch(db, log) /\ UNCHANGED <<chain, setup, block, day>> /\ pending' = Tail(pending)
<1>1. log.event \in {"AssetAdded", "NewClearReserve"}
  BY DEF LaunchLog, AddedLog, AnnouncedLog
<1>2. CASE PassBy
  BY <1>2 DEF PassBy, Launch
<1>3. CASE HandleAssetAdded
  BY <1>3 DEF HandleAssetAdded, Apply, Launch
<1>4. CASE HandleNewClearReserve
  BY <1>4 DEF HandleNewClearReserve, Apply, Launch
<1>5. Handle => HandleAssetAdded \/ HandleNewClearReserve
  BY <1>1 DEF Handle, HandleTransfer, HandleReserveDeposit, HandleSingleAssetDeposit,
     HandleReserveWithdraw, HandleSingleAssetWithdraw, HandleRebalanced, HandleReserveSwap,
     HandleFlashLoan, HandleIOUMinted, HandleIOURedeemed, HandleIouTreasuryFee,
     HandleDonationRecognized, HandleOracleRedemption, Apply
<1> QED
  BY <1>2, <1>3, <1>4, <1>5

\* What Handle does with a log of an operation.
LEMMA LogHandled ==
  ASSUME Handle, log \in OperationLog, IsDb(db), setup \in Setups, day \in Days, Directory(db)
  PROVE  /\ Effect(db, db', log) /\ History(db, db', log) /\ Source(log) \in setup.indexed
         /\ UNCHANGED <<chain, setup, block, day>> /\ pending' = Tail(pending)
<1> DEFINE Goal == Effect(db, db', log) /\ History(db, db', log) /\ Source(log) \in setup.indexed
                     /\ UNCHANGED <<chain, setup, block, day>> /\ pending' = Tail(pending)
<1>1. log \in Log /\ log.event \notin {"AssetAdded", "NewClearReserve"}
  BY DEF Log, OperationLog, TransferLog, BasketLog, PaidInLog, PaidOutLog, ExchangeLog,
         ReceivedLog, RedeemedLog, FeeLog, PriceLog
<1>2. ASSUME NEW event, NEW d, Apply(event, d)
      PROVE  /\ log.event = event /\ db' = d /\ Source(log) \in setup.indexed
             /\ UNCHANGED <<chain, setup, block, day>> /\ pending' = Tail(pending)
  BY <1>2 DEF Apply
<1>3. ASSUME log.event \in Activity, log.addr \in Reserves, Snapped(db, db', log.addr)
      PROVE  History(db, db', log)
  BY <1>3 DEF History
<1>4. CASE HandleTransfer
  <2>1. Apply("Transfer", Transferred(db, log))
    BY <1>4 DEF HandleTransfer
  <2>2. log.event = "Transfer" /\ db' = Transferred(db, log)
    BY <2>1 DEF Apply
  <2>3. Effect(db, db', log) /\ Resnapped(db, db', log.addr)
    BY <1>1, <2>2, TransferEffect
  <2> QED
    BY <2>1, <2>2, <2>3 DEF Apply, History, Activity
<1>5. CASE HandleReserveDeposit \/ HandleReserveWithdraw
  <2>1. /\ log.event \in {"Deposit", "Withdraw"} /\ Source(log) \in setup.indexed
        /\ db' = IF log.event = "Deposit" THEN Deposited(db, log) ELSE Withdrawn(db, log)
        /\ UNCHANGED <<chain, setup, block, day>> /\ pending' = Tail(pending)
    BY <1>5 DEF HandleReserveDeposit, HandleReserveWithdraw, Apply
  <2>2. log.addr \in Reserves
    BY <1>1, <2>1, LogKinds DEF BasketLog
  <2>3. Source(log) = log.addr
    BY <2>1, <2>2, AddressAssumption DEF Source
  <2>4. log.addr \in Followed
    BY <2>1, <2>2, <2>3 DEF Followed
  <2>5. Ready(db, log.addr)
    BY <2>4, DirectoryReady
  <2>6. log.addr \in Reserves /\ Effect(db, db', log) /\ Snapped(db, db', log.addr)
    BY <1>1, <2>1, <2>5, BalancedEffect
  <2>7. log.event \in Activity
    BY <2>1 DEF Activity
  <2> QED
    BY <1>3, <2>1, <2>6, <2>7
<1>6. CASE HandleSingleAssetDeposit \/ HandleSingleAssetWithdraw
  <2>1. /\ log.event \in {"SingleAssetDeposit", "SingleAssetWithdraw"} /\ Source(log) \in setup.indexed
        /\ db' = IF log.event = "SingleAssetDeposit" THEN SingleDeposited(db, log) ELSE SingleWithdrawn(db, log)
        /\ UNCHANGED <<chain, setup, block, day>> /\ pending' = Tail(pending)
    BY <1>6 DEF HandleSingleAssetDeposit, HandleSingleAssetWithdraw, Apply
  <2>2. log.addr \in Reserves /\ Effect(db, db', log) /\ Snapped(db, db', log.addr)
    BY <1>1, <2>1, SingleEffect
  <2>3. log.event \in Activity
    BY <2>1 DEF Activity
  <2> QED
    BY <1>3, <2>1, <2>2, <2>3
<1>7. CASE HandleRebalanced
  <2>1. /\ log.event = "Rebalanced" /\ Source(log) \in setup.indexed
        /\ db' = Rebalanced(db, log)
        /\ UNCHANGED <<chain, setup, block, day>> /\ pending' = Tail(pending)
    BY <1>7 DEF HandleRebalanced, Apply
  <2>2. log.addr \in Reserves /\ Effect(db, db', log) /\ Snapped(db, db', log.addr)
    BY <1>1, <2>1, RebalancedEffect
  <2>3. log.event \in Activity
    BY <2>1 DEF Activity
  <2> QED
    BY <1>3, <2>1, <2>2, <2>3
<1>8. CASE HandleReserveSwap
  <2>1. /\ log.event = "Swap" /\ Source(log) \in setup.indexed
        /\ db' = Swapped(db, log)
        /\ UNCHANGED <<chain, setup, block, day>> /\ pending' = Tail(pending)
    BY <1>8 DEF HandleReserveSwap, Apply
  <2>2. log.addr \in Reserves /\ Effect(db, db', log) /\ Snapped(db, db', log.addr)
    BY <1>1, <2>1, SwappedEffect
  <2>3. log.event \in Activity
    BY <2>1 DEF Activity
  <2> QED
    BY <1>3, <2>1, <2>2, <2>3
<1>9. CASE HandleFlashLoan \/ HandleDonationRecognized
  <2>1. /\ log.event \in {"FlashLoan", "DonationRecognized"} /\ Source(log) \in setup.indexed
        /\ db' = Received(db, log)
        /\ UNCHANGED <<chain, setup, block, day>> /\ pending' = Tail(pending)
    BY <1>9 DEF HandleFlashLoan, HandleDonationRecognized, Apply
  <2>2. log.addr \in Reserves /\ Effect(db, db', log) /\ Snapped(db, db', log.addr)
    BY <1>1, <2>1, ReceivedEffect
  <2>3. log.event \in Activity
    BY <2>1 DEF Activity
  <2> QED
    BY <1>3, <2>1, <2>2, <2>3
<1>10. CASE HandleIOUMinted \/ HandleIOURedeemed
  <2>1. /\ log.event \in {"IOUMinted", "IOURedeemed"} /\ Source(log) \in setup.indexed
        /\ db' = IF log.event = "IOUMinted" THEN IouMinted(db, log) ELSE IouRedeemed(db, log)
        /\ UNCHANGED <<chain, setup, block, day>> /\ pending' = Tail(pending)
    BY <1>10 DEF HandleIOUMinted, HandleIOURedeemed, Apply
  <2>2. log.addr \in Reserves /\ Effect(db, db', log) /\ Snapped(db, db', log.addr)
    BY <1>1, <2>1, IouEffect
  <2>3. log.event \in Activity
    BY <2>1 DEF Activity
  <2> QED
    BY <1>3, <2>1, <2>2, <2>3
<1>11. CASE HandleIouTreasuryFee
  <2>1. /\ log.event = "ClearIOUMinted" /\ Source(log) \in setup.indexed
        /\ db' = FeeBooked(db, log)
        /\ UNCHANGED <<chain, setup, block, day>> /\ pending' = Tail(pending)
    BY <1>11 DEF HandleIouTreasuryFee, Apply
  <2>2. Effect(db, db', log) /\ db'.values = db.values /\ db'.details = db.details
          /\ db'.assets = db.assets /\ db'.holdings = db.holdings
    BY <1>1, <2>1, FeeEffect
  <2> QED
    BY <2>1, <2>2 DEF History, Activity
<1>12. CASE HandleOracleRedemption
  <2>1. /\ log.event = "ClearOracleRedemptionPriceChanged" /\ Source(log) \in setup.indexed
        /\ db' = [db EXCEPT !.redemption[log.asset] = log.price]
        /\ UNCHANGED <<chain, setup, block, day>> /\ pending' = Tail(pending)
    BY <1>12 DEF HandleOracleRedemption, Apply
  <2>2. Effect(db, db', log) /\ db'.values = db.values /\ db'.details = db.details
          /\ db'.assets = db.assets /\ db'.holdings = db.holdings
    BY <1>1, <2>1, PriceEffect
  <2> QED
    BY <2>1, <2>2 DEF History, Activity
<1>13. ~ HandleAssetAdded /\ ~ HandleNewClearReserve
  BY <1>1 DEF HandleAssetAdded, HandleNewClearReserve, Apply
<1> QED
  BY <1>4, <1>5, <1>6, <1>7, <1>8, <1>9, <1>10, <1>11, <1>12, <1>13 DEF Handle

-----------------------------------------------------------------------------
(* The contracts and what their logs carry.                                *)

\* What a log adds is an integer.
LEMMA FlowTypes ==
  ASSUME NEW l \in OperationLog
  PROVE  /\ \A r \in Reserves : SwapFlow(l, r) \in Int /\ \A c \in Totals : TotalFlow(l, r, c) \in Int
         /\ \A t : SupplyFlow(l, t) \in Int /\ \A h : BalanceFlow(l, t, h) \in Int
         /\ \A r \in Reserves, a \in Tokens : HoldingFlow(l, r, a) \in Int
<1>1. l \in Log
  BY DEF Log
<1>2. l.event = "Transfer" => l.value \in Nat
  BY <1>1, LogKinds DEF TransferLog
<1>3. l.event \in {"Deposit", "Withdraw"} =>
        l.lp \in Nat /\ l.native \in Nat /\ l.base \in Nat /\ l.amounts \in Baskets
  BY <1>1, LogKinds DEF BasketLog
<1>4. l.event = "SingleAssetDeposit" => l.lp \in Nat /\ l.in \in Nat /\ l.fee \in Nat
  BY <1>1, LogKinds DEF PaidInLog
<1>5. l.event = "SingleAssetWithdraw" => l.lp \in Nat /\ l.out \in Nat /\ l.fee \in Nat
  BY <1>1, LogKinds DEF PaidOutLog
<1>6. l.event \in {"Rebalanced", "Swap"} => l.in \in Nat /\ l.out \in Nat /\ l.iouTotal \in Nat
  BY <1>1, LogKinds DEF ExchangeLog
<1>7. l.event \in {"FlashLoan", "DonationRecognized", "IOUMinted"} => l.in \in Nat
  BY <1>1, LogKinds DEF ReceivedLog
<1>8. l.event = "IOURedeemed" => l.out \in Nat
  BY <1>1, LogKinds DEF RedeemedLog
<1>9. \A r \in Reserves : SwapFlow(l, r) \in Int /\ \A c \in Totals : TotalFlow(l, r, c) \in Int
  BY <1>3, <1>4, <1>5, <1>6, <1>7, <1>8 DEF SwapFlow, TotalFlow
<1>10. \A t : SupplyFlow(l, t) \in Int /\ \A h : BalanceFlow(l, t, h) \in Int
  BY <1>2 DEF SupplyFlow, BalanceFlow
<1>11. ASSUME NEW r \in Reserves, NEW a \in Tokens PROVE HoldingFlow(l, r, a) \in Int
  <2>1. l.event \in {"Deposit", "Withdraw"} => BasketFlow(l, r, a) \in Nat
    <3>1. l.event \in {"Deposit", "Withdraw"} => Amount(l.amounts, a) \in Nat
      BY <1>3, AmountAt
    <3> QED
      BY <1>3, <3>1 DEF BasketFlow
  <2> QED
    BY <1>4, <1>5, <1>6, <1>7, <1>8, <2>1 DEF HoldingFlow, Activity
<1> QED
  BY <1>9, <1>10, <1>11

\* So a queue may owe it.
LEMMA DueTypes ==
  /\ \A r \in Reserves, a \in Tokens : HoldingDue(r, a) \in [OperationLog -> Int]
  /\ \A t, h : BalanceDue(t, h) \in [OperationLog -> Int]
  /\ \A r \in Reserves : LpDue(r) \in [OperationLog -> Int] /\ DebtDue(r) \in [OperationLog -> Int]
<1>1. \A r \in Reserves, a \in Tokens : HoldingDue(r, a) \in [OperationLog -> Int]
  BY FlowTypes DEF HoldingDue
<1>2. \A t, h : BalanceDue(t, h) \in [OperationLog -> Int]
  BY FlowTypes DEF BalanceDue
<1>3. ASSUME NEW r \in Reserves, NEW l \in OperationLog PROVE LpFlow(l, r) \in Int /\ DebtFlow(l, r) \in Int
  <2>1. /\ SupplyFlow(l, r) \in Int /\ SwapFlow(l, r) \in Int
        /\ \A c \in Totals : TotalFlow(l, r, c) \in Int
    BY FlowTypes
  <2>2. {"deposits", "withdrawals", "minted", "redeemed"} \subseteq Totals
    BY DEF Totals
  <2>3. l.event = "Transfer" => l.value \in Nat
    BY LogKinds DEF TransferLog, Log
  <2> QED
    BY <2>1, <2>2, <2>3 DEF LpFlow, DebtFlow
<1> QED
  BY <1>1, <1>2, <1>3 DEF LpDue, DebtDue

\* From c to e the contracts emit the logs s, which carry what changes; they
\* leave p of r's LP supply and q of its debt to other logs to account for.
Carries(c, e, s, r, p, q) ==
  /\ IsChain(e) /\ s \in Seq(OperationLog) /\ p \in Int /\ q \in Int
  /\ \A k \in Reserves, a \in Tokens :
       Owes(HoldingDue(k, a), s, e.accounted[k][a] - c.accounted[k][a])
  /\ \A t \in Reserves \cup Ious, h \in Holders :
       Owes(BalanceDue(t, h), s, e.owned[t][h] - c.owned[t][h])
  /\ \A k \in Reserves : /\ Owes(LpDue(k), s, IF k = r THEN p ELSE 0)
                         /\ Owes(DebtDue(k), s, IF k = r THEN q ELSE 0)

\* Two queues owe the same in either order.
LEMMA OwesEither ==
  ASSUME NEW D \in [OperationLog -> Int], NEW s \in Seq(OperationLog), NEW t \in Seq(OperationLog),
         NEW v \in Int, NEW z \in Int, Owes(D, s, v), Owes(D, t, z), NEW w, w = v + z
  PROVE  Owes(D, s \o t, w) /\ Owes(D, t \o s, w)
<1>1. Owes(D, s \o t, v + z)
  BY OwesBoth
<1>2. Owes(D, t \o s, z + v)
  BY OwesBoth
<1>3. z + v = w /\ v + z = w
  OBVIOUS
<1> QED
  BY <1>1, <1>2, <1>3

\* Two changes in a row, their logs in either order.
LEMMA CarriesBoth ==
  ASSUME NEW c, IsChain(c), NEW e, NEW f, NEW s, NEW t, NEW r, NEW p, NEW q, NEW x, NEW y,
         Carries(c, e, s, r, p, q), Carries(e, f, t, r, x, y)
  PROVE  Carries(c, f, s \o t, r, p + x, q + y) /\ Carries(c, f, t \o s, r, p + x, q + y)
<1>1. /\ IsChain(e) /\ s \in Seq(OperationLog) /\ p \in Int /\ q \in Int
      /\ IsChain(f) /\ t \in Seq(OperationLog) /\ x \in Int /\ y \in Int
  BY DEF Carries
<1>2. /\ s \o t \in Seq(OperationLog) /\ t \o s \in Seq(OperationLog)
      /\ p + x \in Int /\ q + y \in Int
  BY <1>1
<1>3. ASSUME NEW k \in Reserves, NEW a \in Tokens
      PROVE  /\ Owes(HoldingDue(k, a), s \o t, f.accounted[k][a] - c.accounted[k][a])
             /\ Owes(HoldingDue(k, a), t \o s, f.accounted[k][a] - c.accounted[k][a])
  <2>1. PICK v \in Int, z \in Int : /\ v = e.accounted[k][a] - c.accounted[k][a]
                                    /\ z = f.accounted[k][a] - e.accounted[k][a]
                                    /\ f.accounted[k][a] - c.accounted[k][a] = v + z
    BY <1>1 DEF IsChain
  <2>2. Owes(HoldingDue(k, a), s, v) /\ Owes(HoldingDue(k, a), t, z)
    BY <2>1 DEF Carries
  <2>3. PICK D \in [OperationLog -> Int] : D = HoldingDue(k, a)
    BY DueTypes
  <2>4. Owes(D, s, v) /\ Owes(D, t, z)
    BY <2>2, <2>3
  <2>5. PICK w : w = v + z
    OBVIOUS
  <2>6. Owes(D, s \o t, w) /\ Owes(D, t \o s, w)
    BY <1>1, <2>4, <2>5, OwesEither
  <2> QED
    BY <2>1, <2>3, <2>5, <2>6
<1>4. ASSUME NEW k \in Reserves \cup Ious, NEW h \in Holders
      PROVE  /\ Owes(BalanceDue(k, h), s \o t, f.owned[k][h] - c.owned[k][h])
             /\ Owes(BalanceDue(k, h), t \o s, f.owned[k][h] - c.owned[k][h])
  <2>1. PICK v \in Int, z \in Int : /\ v = e.owned[k][h] - c.owned[k][h]
                                    /\ z = f.owned[k][h] - e.owned[k][h]
                                    /\ f.owned[k][h] - c.owned[k][h] = v + z
    <3>1. c.owned[k][h] \in Int
      BY DEF IsChain
    <3>2. e.owned[k][h] \in Int
      BY <1>1 DEF IsChain
    <3>3. f.owned[k][h] \in Int
      BY <1>1 DEF IsChain
    <3> QED
      BY <3>1, <3>2, <3>3
  <2>2. Owes(BalanceDue(k, h), s, v) /\ Owes(BalanceDue(k, h), t, z)
    BY <2>1 DEF Carries
  <2>3. PICK D \in [OperationLog -> Int] : D = BalanceDue(k, h)
    BY DueTypes
  <2>4. Owes(D, s, v) /\ Owes(D, t, z)
    BY <2>2, <2>3
  <2>5. PICK w : w = v + z
    OBVIOUS
  <2>6. Owes(D, s \o t, w) /\ Owes(D, t \o s, w)
    BY <1>1, <2>4, <2>5, OwesEither
  <2> QED
    BY <2>1, <2>3, <2>5, <2>6
<1>5. ASSUME NEW k \in Reserves, NEW D \in {LpDue(k), DebtDue(k)}, NEW v \in Int, NEW z \in Int,
             Owes(D, s, IF k = r THEN v ELSE 0), Owes(D, t, IF k = r THEN z ELSE 0)
      PROVE  /\ Owes(D, s \o t, IF k = r THEN v + z ELSE 0)
             /\ Owes(D, t \o s, IF k = r THEN v + z ELSE 0)
  <2>1. PICK m \in Int, n \in Int : m = (IF k = r THEN v ELSE 0) /\ n = IF k = r THEN z ELSE 0
    OBVIOUS
  <2>2. Owes(D, s, m) /\ Owes(D, t, n)
    BY <1>5, <2>1
  <2>3. PICK w : w = m + n
    OBVIOUS
  <2>4. D \in [OperationLog -> Int]
    BY DueTypes
  <2>5. Owes(D, s \o t, w) /\ Owes(D, t \o s, w)
    BY <1>1, <2>2, <2>3, <2>4, OwesEither
  <2>6. w = IF k = r THEN v + z ELSE 0
    BY <2>1, <2>3
  <2> QED
    BY <2>5, <2>6
<1>6. ASSUME NEW k \in Reserves
      PROVE  /\ Owes(LpDue(k), s \o t, IF k = r THEN p + x ELSE 0)
             /\ Owes(LpDue(k), t \o s, IF k = r THEN p + x ELSE 0)
             /\ Owes(DebtDue(k), s \o t, IF k = r THEN q + y ELSE 0)
             /\ Owes(DebtDue(k), t \o s, IF k = r THEN q + y ELSE 0)
  <2>1. /\ Owes(LpDue(k), s, IF k = r THEN p ELSE 0) /\ Owes(LpDue(k), t, IF k = r THEN x ELSE 0)
        /\ Owes(DebtDue(k), s, IF k = r THEN q ELSE 0) /\ Owes(DebtDue(k), t, IF k = r THEN y ELSE 0)
    BY DEF Carries
  <2> QED
    BY <1>1, <1>5, <2>1
<1> QED
  BY <1>1, <1>2, <1>3, <1>4, <1>6 DEF Carries

\* A single log carries the change it describes.
LEMMA CarriesOne ==
  ASSUME NEW c, NEW e, IsChain(e), NEW l \in OperationLog, NEW r, NEW p \in Int, NEW q \in Int,
         \A k \in Reserves, a \in Tokens : HoldingFlow(l, k, a) = e.accounted[k][a] - c.accounted[k][a],
         \A t \in Reserves \cup Ious, h \in Holders :
           BalanceFlow(l, t, h) = e.owned[t][h] - c.owned[t][h],
         \A k \in Reserves : /\ LpFlow(l, k) = IF k = r THEN p ELSE 0
                             /\ DebtFlow(l, k) = IF k = r THEN q ELSE 0
  PROVE  Carries(c, e, <<l>>, r, p, q)
<1>1. ASSUME NEW D \in [OperationLog -> Int], NEW v, v = D[l] PROVE Owes(D, <<l>>, v)
  BY <1>1, OwesOne
<1>2. \A k \in Reserves, a \in Tokens : HoldingDue(k, a)[l] = HoldingFlow(l, k, a)
  BY DEF HoldingDue
<1>3. \A t, h : BalanceDue(t, h)[l] = BalanceFlow(l, t, h)
  BY DEF BalanceDue
<1>4. \A k : LpDue(k)[l] = LpFlow(l, k) /\ DebtDue(k)[l] = DebtFlow(l, k)
  BY DEF LpDue, DebtDue
<1>5. \A k \in Reserves, a \in Tokens :
        Owes(HoldingDue(k, a), <<l>>, e.accounted[k][a] - c.accounted[k][a])
  BY <1>1, <1>2, DueTypes
<1>6. \A t \in Reserves \cup Ious, h \in Holders :
        Owes(BalanceDue(t, h), <<l>>, e.owned[t][h] - c.owned[t][h])
  BY <1>1, <1>3, DueTypes
<1>7. \A k \in Reserves : /\ Owes(LpDue(k), <<l>>, IF k = r THEN p ELSE 0)
                          /\ Owes(DebtDue(k), <<l>>, IF k = r THEN q ELSE 0)
  BY <1>1, <1>4, DueTypes
<1>8. <<l>> \in Seq(OperationLog)
  OBVIOUS
<1> QED
  BY <1>5, <1>6, <1>7, <1>8 DEF Carries

\* v of the token t changes hands.
Paid(c, e, t, from, to, v) ==
  /\ IsChain(e) /\ e.accounted = c.accounted /\ e.fees = c.fees /\ e.donated = c.donated
  /\ \A s \in Reserves \cup Ious, h \in Holders :
       e.owned[s][h] = c.owned[s][h] +
         IF s = t THEN (IF h = to THEN v ELSE 0) - (IF h = from THEN v ELSE 0) ELSE 0

\* v of a token changes hands, and nothing else does.
LEMMA PayFrame ==
  ASSUME NEW c, IsChain(c), NEW t \in Reserves \cup Ious, NEW from, NEW to, NEW v \in Int,
         NEW e, e = Pay(c, t, from, to, v)
  PROVE  Paid(c, e, t, from, to, v)
<1>1. /\ DOMAIN c = {"accounted", "owned", "fees", "donated"}
      /\ c.owned \in [Reserves \cup Ious -> [Holders -> Int]]
  BY DEF IsChain
<1>2. PICK row \in [Holders -> Int] :
        \A h \in Holders : row[h] = c.owned[t][h] + (IF h = to THEN v ELSE 0) - (IF h = from THEN v ELSE 0)
  <2>1. \A h \in Holders : c.owned[t][h] \in Int
    BY <1>1
  <2> DEFINE g == [h \in Holders |-> c.owned[t][h] + (IF h = to THEN v ELSE 0) - (IF h = from THEN v ELSE 0)]
  <2>2. g \in [Holders -> Int]
    BY <2>1
  <2> QED
    BY <2>2
<1>3. e.owned = [c.owned EXCEPT ![t] = row]
  <2>1. e.owned = [c.owned EXCEPT ![t] = [h \in Holders |->
                     c.owned[t][h] + (IF h = to THEN v ELSE 0) - (IF h = from THEN v ELSE 0)]]
    BY <1>1 DEF Pay
  <2>2. row = [h \in Holders |->
                 c.owned[t][h] + (IF h = to THEN v ELSE 0) - (IF h = from THEN v ELSE 0)]
    BY <1>2
  <2> QED
    BY <2>1, <2>2
<1>4. /\ DOMAIN e = DOMAIN c /\ e.accounted = c.accounted /\ e.fees = c.fees /\ e.donated = c.donated
  BY <1>1 DEF Pay
<1>5. e.owned \in [Reserves \cup Ious -> [Holders -> Int]]
  BY <1>1, <1>2, <1>3
<1>6. IsChain(e)
  BY <1>1, <1>4, <1>5 DEF IsChain
<1>7. ASSUME NEW s \in Reserves \cup Ious, NEW h \in Holders
      PROVE  e.owned[s][h] = c.owned[s][h] +
                IF s = t THEN (IF h = to THEN v ELSE 0) - (IF h = from THEN v ELSE 0) ELSE 0
  <2>1. c.owned[s][h] \in Int
    BY <1>1
  <2>2. CASE s = t
    BY <1>1, <1>2, <1>3, <2>1, <2>2
  <2>3. CASE s # t
    BY <1>1, <1>3, <2>1, <2>3
  <2> QED
    BY <2>2, <2>3
<1> QED
  BY <1>4, <1>6, <1>7 DEF Paid

\* r accounts for n more of its asset a.
Accounts(c, e, r, a, n) ==
  /\ IsChain(e) /\ e.owned = c.owned /\ e.fees = c.fees /\ e.donated = c.donated
  /\ \A k \in Reserves, b \in Tokens :
       e.accounted[k][b] = c.accounted[k][b] + IF k = r /\ b = a THEN n ELSE 0

\* A contract accounts for delta more of an asset.
LEMMA AccountFrame ==
  ASSUME NEW c, IsChain(c), NEW r \in Reserves, NEW a \in Tokens, NEW n \in Int,
         NEW e, e = Account(c, r, a, n)
  PROVE  Accounts(c, e, r, a, n)
<1>1. /\ DOMAIN c = {"accounted", "owned", "fees", "donated"}
      /\ c.accounted \in [Reserves -> [Tokens -> Int]]
  BY DEF IsChain
<1>2. /\ DOMAIN e = DOMAIN c /\ e.owned = c.owned /\ e.fees = c.fees /\ e.donated = c.donated
      /\ e.accounted = [c.accounted EXCEPT ![r][a] = c.accounted[r][a] + n]
  BY <1>1 DEF Account
<1>3. c.accounted[r][a] + n \in Int
  BY <1>1
<1>4. e.accounted \in [Reserves -> [Tokens -> Int]]
  BY <1>1, <1>2, <1>3
<1>5. IsChain(e)
  BY <1>1, <1>2, <1>4 DEF IsChain
<1>6. ASSUME NEW k \in Reserves, NEW b \in Tokens
      PROVE  e.accounted[k][b] = c.accounted[k][b] + IF k = r /\ b = a THEN n ELSE 0
  <2>1. c.accounted[k][b] \in Int
    BY <1>1
  <2> QED
    BY <1>1, <1>2, <2>1
<1> QED
  BY <1>2, <1>5, <1>6 DEF Accounts

\* e accounts for m more of a and n more of b than c.
AccountsTwo(c, e, r, a, m, b, n) ==
  /\ IsChain(e) /\ e.owned = c.owned /\ e.fees = c.fees /\ e.donated = c.donated
  /\ \A k \in Reserves, x \in Tokens :
       e.accounted[k][x] = c.accounted[k][x] + (IF k = r /\ x = a THEN m ELSE 0)
                                             + (IF k = r /\ x = b THEN n ELSE 0)

\* Accounting twice.
LEMMA AccountTwo ==
  ASSUME NEW c, IsChain(c), NEW r \in Reserves, NEW a \in Tokens, NEW b \in Tokens,
         NEW m \in Int, NEW n \in Int, NEW e, e = Account(Account(c, r, a, m), r, b, n)
  PROVE  AccountsTwo(c, e, r, a, m, b, n)
<1>1. PICK f : f = Account(c, r, a, m)
  OBVIOUS
<1>2. Accounts(c, f, r, a, m)
  BY <1>1, AccountFrame
<1>3. e = Account(f, r, b, n) /\ IsChain(f)
  BY <1>1, <1>2 DEF Accounts
<1>4. Accounts(f, e, r, b, n)
  BY <1>3, AccountFrame
<1>5. /\ IsChain(e) /\ e.owned = c.owned /\ e.fees = c.fees /\ e.donated = c.donated
  BY <1>2, <1>4 DEF Accounts
<1>6. \A k \in Reserves, x \in Tokens :
        e.accounted[k][x] = c.accounted[k][x] + (IF k = r /\ x = a THEN m ELSE 0)
                                              + (IF k = r /\ x = b THEN n ELSE 0)
  BY <1>2, <1>4 DEF Accounts
<1> QED
  BY <1>5, <1>6 DEF AccountsTwo

\* A basket, as the handlers see it.
Basketed(c, e, r, l, sign) ==
  /\ IsChain(e) /\ e.owned = c.owned /\ e.fees = c.fees /\ e.donated = c.donated
  /\ \A k \in Reserves, a \in Tokens :
       /\ BasketFlow(l, k, a) \in Nat
       /\ e.accounted[k][a] = c.accounted[k][a] +
            IF k # r THEN 0 ELSE IF sign = 1 THEN BasketFlow(l, k, a) ELSE -BasketFlow(l, k, a)

\* A contract accounts for a basket.
LEMMA BasketFrame ==
  ASSUME NEW c, IsChain(c), NEW r \in Reserves, NEW basket \in Baskets, NEW sign \in {1, -1},
         NEW e, e = AccountBasket(c, r, basket, sign),
         NEW l, l.amounts = basket, l.native = basket[1], l.base = basket[2]
  PROVE  basket[1] \in Nat /\ basket[2] \in Nat /\ Basketed(c, e, r, l, sign)
<1>1. /\ DOMAIN c = {"accounted", "owned", "fees", "donated"}
      /\ c.accounted \in [Reserves -> [Tokens -> Int]]
  BY DEF IsChain
<1>2. /\ basket[1] \in Nat /\ basket[2] \in Nat /\ \A a : Amount(basket, a) \in Nat
  <2>1. DOMAIN BaseAssets = 1..Len(BaseAssets) /\ Len(BaseAssets) >= 2 /\ Len(BaseAssets) \in Nat
    BY AddressAssumption
  <2>2. \A i \in DOMAIN BaseAssets : basket[i] \in Nat
    BY AmountAt
  <2>3. \A a : Amount(basket, a) \in Nat
    BY AmountAt
  <2> QED
    BY <2>1, <2>2, <2>3
<1>3. \A k \in Reserves, a \in Tokens : BasketFlow(l, k, a) \in Nat
  BY <1>2 DEF BasketFlow
<1>4. PICK m \in Int, n \in Int : /\ m = (IF sign = 1 THEN basket[1] ELSE -basket[1]) /\ m = sign * basket[1]
                                  /\ n = (IF sign = 1 THEN basket[2] ELSE -basket[2]) /\ n = sign * basket[2]
  BY <1>2
<1>5. Native \in Tokens /\ Base \in Tokens /\ Native # Base /\ Base # Meta /\ Meta \in Reserves /\ Base \in Reserves
  BY AddressAssumption DEF Tokens, Reserves
<1>6. CASE r = Meta
  <2>1. e = Account(Account(c, Meta, Native, m), Meta, Base, n)
    BY <1>4, <1>6 DEF AccountBasket
  <2>2. Meta \in Reserves /\ Native \in Tokens /\ Base \in Tokens
    BY <1>5
  <2>3. /\ IsChain(e) /\ e.owned = c.owned /\ e.fees = c.fees /\ e.donated = c.donated
        /\ \A k \in Reserves, x \in Tokens :
              e.accounted[k][x] = c.accounted[k][x] + (IF k = Meta /\ x = Native THEN m ELSE 0)
                                                    + (IF k = Meta /\ x = Base THEN n ELSE 0)
    <3>1. AccountsTwo(c, e, Meta, Native, m, Base, n)
      BY <2>1, <2>2, AccountTwo
    <3> QED
      BY <3>1 DEF AccountsTwo
  <2>5. ASSUME NEW k \in Reserves, NEW a \in Tokens
        PROVE  e.accounted[k][a] = c.accounted[k][a] +
                   IF k # r THEN 0 ELSE IF sign = 1 THEN BasketFlow(l, k, a) ELSE -BasketFlow(l, k, a)
    <3>1. c.accounted[k][a] \in Int
      BY <1>1
    <3>2. e.accounted[k][a] = c.accounted[k][a] + (IF k = Meta /\ a = Native THEN m ELSE 0)
                                                + (IF k = Meta /\ a = Base THEN n ELSE 0)
      BY <2>3
    <3>3. k = Meta => BasketFlow(l, k, a) = (IF a = Native THEN basket[1] ELSE 0) + (IF a = Base THEN basket[2] ELSE 0)
      BY DEF BasketFlow
    <3> QED
      BY <1>2, <1>4, <1>5, <1>6, <3>1, <3>2, <3>3
  <2> QED
    BY <1>2, <1>3, <2>3, <2>5 DEF Basketed
<1>7. CASE r = Base
  <2> DEFINE Row == [a \in Tokens |-> c.accounted[Base][a] +
                       IF \E i \in DOMAIN basket : BaseAssets[i] = a
                       THEN sign * basket[CHOOSE i \in DOMAIN basket : BaseAssets[i] = a] ELSE 0]
  <2>1. /\ DOMAIN e = DOMAIN c /\ e.owned = c.owned /\ e.fees = c.fees /\ e.donated = c.donated
        /\ e.accounted = [c.accounted EXCEPT ![Base] = Row]
    BY <1>1, <1>5, <1>7 DEF AccountBasket
  <2>2. ASSUME NEW a \in Tokens
        PROVE  Row[a] = c.accounted[Base][a] + IF sign = 1 THEN Amount(basket, a) ELSE -Amount(basket, a)
    <3>1. Amount(basket, a) \in Nat /\ c.accounted[Base][a] \in Int
      BY <1>1, <1>2, <1>5
    <3>2. CASE \E i \in DOMAIN basket : BaseAssets[i] = a
      <4>1. PICK x : x = basket[CHOOSE i \in DOMAIN basket : BaseAssets[i] = a]
        OBVIOUS
      <4>2. Amount(basket, a) = x
        BY <3>2, <4>1 DEF Amount
      <4>3. Row[a] = c.accounted[Base][a] + sign * x
        BY <3>2, <4>1
      <4>4. sign * x = IF sign = 1 THEN x ELSE -x
        BY <3>1, <4>2
      <4> QED
        BY <4>2, <4>3, <4>4
    <3>3. CASE ~ \E i \in DOMAIN basket : BaseAssets[i] = a
      <4>1. Amount(basket, a) = 0
        BY <3>3 DEF Amount
      <4>2. Row[a] = c.accounted[Base][a] + 0
        BY <3>3
      <4> QED
        BY <3>1, <4>1, <4>2
    <3> QED
      BY <3>2, <3>3
  <2>3. DOMAIN Row = Tokens
    OBVIOUS
  <2> HIDE DEF Row
  <2>4. ASSUME NEW a \in Tokens PROVE Row[a] \in Int
    <3>1. Amount(basket, a) \in Nat /\ c.accounted[Base][a] \in Int
      BY <1>1, <1>2, <1>5
    <3> QED
      BY <2>2, <3>1
  <2>5. Row \in [Tokens -> Int]
    <3>1. Row = [a \in Tokens |-> Row[a]]
      BY <2>3 DEF Row
    <3> QED
      BY <2>4, <3>1
  <2>6. e.accounted \in [Reserves -> [Tokens -> Int]]
    BY <1>1, <1>5, <2>1, <2>5
  <2>7. IsChain(e)
    BY <1>1, <2>1, <2>6 DEF IsChain
  <2>8. ASSUME NEW k \in Reserves, NEW a \in Tokens
        PROVE  e.accounted[k][a] = c.accounted[k][a] +
                   IF k # r THEN 0 ELSE IF sign = 1 THEN BasketFlow(l, k, a) ELSE -BasketFlow(l, k, a)
    <3>1. c.accounted[k][a] \in Int
      BY <1>1
    <3>2. k = Base => BasketFlow(l, k, a) = Amount(basket, a)
      BY <1>5 DEF BasketFlow
    <3>3. CASE k = Base
      BY <1>1, <1>7, <2>1, <2>2, <3>2, <3>3
    <3>4. CASE k # Base
      BY <1>1, <1>7, <2>1, <3>1, <3>4
    <3> QED
      BY <3>3, <3>4
  <2> QED
    BY <1>2, <1>3, <2>1, <2>7, <2>8 DEF Basketed
<1> QED
  BY <1>6, <1>7 DEF Reserves

\* The flows of a transfer, n of it minted or burned.
Transfers(l, t, from, to, v, n) ==
  /\ l \in OperationLog /\ l.event = "Transfer"
  /\ \A k \in Reserves, a \in Tokens : HoldingFlow(l, k, a) = 0
  /\ \A s, h : BalanceFlow(l, s, h) =
       IF s = t THEN (IF h = to THEN v ELSE 0) - (IF h = from THEN v ELSE 0) ELSE 0
  /\ \A k \in Reserves : /\ LpFlow(l, k) = IF t = k THEN n ELSE 0
                         /\ DebtFlow(l, k) = IF t \in Ious /\ t[1] = k THEN n ELSE 0

\* What a Transfer adds.
LEMMA TransferFlows ==
  ASSUME NEW t \in Reserves \cup Ious, NEW from \in Holders \cup {Zero}, NEW to \in Holders \cup {Zero},
         from # Zero \/ to # Zero, NEW v \in Nat, NEW l, l = Transfer(t, from, to, v),
         NEW n \in Int, n = (IF from = Zero THEN v ELSE 0) - (IF to = Zero THEN v ELSE 0)
  PROVE  Transfers(l, t, from, to, v, n)
<1>1. /\ l.event = "Transfer" /\ l.addr = t /\ l.from = from /\ l.to = to /\ l.value = v
      /\ l \in TransferLog
  BY DEF Transfer, TransferLog
<1>2. l \in OperationLog
  BY <1>1 DEF OperationLog
<1>3. l.event \notin Activity
  BY <1>1 DEF Activity
<1>4. /\ \A k, a : HoldingFlow(l, k, a) = 0
      /\ \A k, col : TotalFlow(l, k, col) = 0
      /\ \A k : SwapFlow(l, k) = 0
  BY <1>1, <1>3 DEF HoldingFlow, TotalFlow, SwapFlow
<1>5. \A s, h : BalanceFlow(l, s, h) =
        IF s = t THEN (IF h = to THEN v ELSE 0) - (IF h = from THEN v ELSE 0) ELSE 0
  BY <1>1 DEF BalanceFlow
<1>6. \A k : SupplyFlow(l, k) =
        IF t = k THEN n ELSE 0
  BY <1>1 DEF SupplyFlow
<1>8. \A k : LpFlow(l, k) = IF t = k THEN n ELSE 0
  BY <1>4, <1>6 DEF LpFlow
<1>9. \A k : DebtFlow(l, k) = IF t \in Ious /\ t[1] = k THEN n ELSE 0
  BY <1>1, <1>4 DEF DebtFlow
<1> QED
  BY <1>1, <1>2, <1>4, <1>5, <1>8, <1>9 DEF Transfers

\* A mint or burn of r's LP or of one of its IOUs.
LEMMA PayCarries ==
  ASSUME NEW c, IsChain(c), NEW t \in Reserves \cup Ious, NEW from \in Holders \cup {Zero},
         NEW to \in Holders \cup {Zero}, from # Zero \/ to # Zero, NEW v \in Nat,
         NEW e, e = Pay(c, t, from, to, v), NEW r \in Reserves, Owner(t) = r,
         NEW n \in Int, n = (IF from = Zero THEN v ELSE 0) - (IF to = Zero THEN v ELSE 0),
         NEW p, p = (IF t = r THEN n ELSE 0), NEW q, q = IF t = r THEN 0 ELSE n
  PROVE  Paid(c, e, t, from, to, v) /\ Carries(c, e, <<Transfer(t, from, to, v)>>, r, p, q)
<1>1. PICK l : l = Transfer(t, from, to, v)
  OBVIOUS
<1>2. /\ l \in OperationLog
      /\ \A k \in Reserves, a \in Tokens : HoldingFlow(l, k, a) = 0
      /\ \A s, h : BalanceFlow(l, s, h) =
              IF s = t THEN (IF h = to THEN v ELSE 0) - (IF h = from THEN v ELSE 0) ELSE 0
      /\ \A k \in Reserves : /\ LpFlow(l, k) = IF t = k THEN n ELSE 0
                             /\ DebtFlow(l, k) = IF t \in Ious /\ t[1] = k THEN n ELSE 0
  <2>1. Transfers(l, t, from, to, v, n)
    BY <1>1, TransferFlows
  <2> QED
    BY <2>1 DEF Transfers
<1>3. Paid(c, e, t, from, to, v)
  BY PayFrame
<1>4. IsChain(e) /\ e.accounted = c.accounted
  BY <1>3 DEF Paid
<1>5. \A k \in Reserves, a \in Tokens : HoldingFlow(l, k, a) = e.accounted[k][a] - c.accounted[k][a]
  <2>1. \A k \in Reserves, a \in Tokens : c.accounted[k][a] \in Int
    BY DEF IsChain
  <2> QED
    BY <1>2, <1>4, <2>1
<1>6. \A s \in Reserves \cup Ious, h \in Holders : BalanceFlow(l, s, h) = e.owned[s][h] - c.owned[s][h]
  <2>1. \A s \in Reserves \cup Ious, h \in Holders : c.owned[s][h] \in Int
    BY DEF IsChain
  <2> QED
    BY <1>2, <1>3, <2>1 DEF Paid
<1>7. t \in Ious <=> t \notin Reserves
  BY AddressAssumption
<1>8. \A k \in Reserves : /\ LpFlow(l, k) = IF k = r THEN p ELSE 0
                          /\ DebtFlow(l, k) = IF k = r THEN q ELSE 0
  BY <1>2, <1>7 DEF Owner
<1>9. p \in Int /\ q \in Int
  OBVIOUS
<1>10. Carries(c, e, <<l>>, r, p, q)
  <2>1. l \in OperationLog /\ IsChain(e)
    BY <1>2, <1>4
  <2> QED
    BY <1>5, <1>6, <1>8, <1>9, <2>1, CarriesOne, ZenonT(30)
<1> QED
  BY <1>1, <1>3, <1>10

\* A transfer between holders.
LEMMA SendCarries ==
  ASSUME NEW c, IsChain(c), NEW t \in Reserves \cup Ious, NEW from \in Holders,
         NEW to \in Holders, NEW v \in Nat, NEW e, e = Pay(c, t, from, to, v), NEW r
  PROVE  Paid(c, e, t, from, to, v) /\ Carries(c, e, <<Transfer(t, from, to, v)>>, r, 0, 0)
<1>1. PICK l : l = Transfer(t, from, to, v)
  OBVIOUS
<1>2. from # Zero /\ to # Zero /\ from \in Holders \cup {Zero} /\ to \in Holders \cup {Zero}
  BY AddressAssumption
<1>3. /\ l \in OperationLog
      /\ \A k \in Reserves, a \in Tokens : HoldingFlow(l, k, a) = 0
      /\ \A s, h : BalanceFlow(l, s, h) =
              IF s = t THEN (IF h = to THEN v ELSE 0) - (IF h = from THEN v ELSE 0) ELSE 0
      /\ \A k \in Reserves : LpFlow(l, k) = 0 /\ DebtFlow(l, k) = 0
  <2>1. PICK n \in Int : n = (IF from = Zero THEN v ELSE 0) - (IF to = Zero THEN v ELSE 0) /\ n = 0
    BY <1>2
  <2>2. Transfers(l, t, from, to, v, n)
    BY <1>1, <1>2, <2>1, TransferFlows
  <2> QED
    BY <2>1, <2>2 DEF Transfers
<1>4. Paid(c, e, t, from, to, v)
  BY PayFrame
<1>5. IsChain(e) /\ e.accounted = c.accounted
  BY <1>4 DEF Paid
<1>6. \A k \in Reserves, a \in Tokens : HoldingFlow(l, k, a) = e.accounted[k][a] - c.accounted[k][a]
  <2>1. \A k \in Reserves, a \in Tokens : c.accounted[k][a] \in Int
    BY DEF IsChain
  <2> QED
    BY <1>3, <1>5, <2>1
<1>7. \A s \in Reserves \cup Ious, h \in Holders : BalanceFlow(l, s, h) = e.owned[s][h] - c.owned[s][h]
  <2>1. \A s \in Reserves \cup Ious, h \in Holders : c.owned[s][h] \in Int
    BY DEF IsChain
  <2> QED
    BY <1>3, <1>4, <2>1 DEF Paid
<1>8. \A k \in Reserves : /\ LpFlow(l, k) = IF k = r THEN 0 ELSE 0
                          /\ DebtFlow(l, k) = IF k = r THEN 0 ELSE 0
  BY <1>3
<1>9. Carries(c, e, <<l>>, r, 0, 0)
  BY <1>3, <1>5, <1>6, <1>7, <1>8, CarriesOne
<1> QED
  BY <1>1, <1>4, <1>9

\* Nothing happens.
LEMMA CarriesNone ==
  ASSUME NEW c, IsChain(c), NEW e, IsChain(e), e.owned = c.owned, e.accounted = c.accounted, NEW r
  PROVE  Carries(c, e, <<>>, r, 0, 0)
<1>1. \A k \in Reserves, a \in Tokens : e.accounted[k][a] - c.accounted[k][a] = 0
  BY DEF IsChain
<1>2. \A t \in Reserves \cup Ious, h \in Holders : e.owned[t][h] - c.owned[t][h] = 0
  BY DEF IsChain
<1>3. \A D : Owes(D, <<>>, 0)
  BY OwesNothing
<1>4. <<>> \in Seq(OperationLog)
  OBVIOUS
<1> QED
  BY <1>1, <1>2, <1>3, <1>4 DEF Carries

\* v of asset a changes hands, on the record if it is the base LP.
Moved(c, e, a, from, to, v) ==
  IF a = Base THEN Paid(c, e, Base, from, to, v) ELSE e = c

\* What the log of a move of the base LP carries.
LEMMA MoveCarries ==
  ASSUME NEW c, IsChain(c), NEW a, NEW from \in Holders, NEW to \in Holders, NEW v \in Nat,
         NEW e, e = Move(c, a, from, to, v), NEW r
  PROVE  /\ IsChain(e) /\ Moved(c, e, a, from, to, v)
         /\ Carries(c, e, MoveLogs(a, from, to, v), r, 0, 0)
<1>1. CASE a = Base
  <2>1. e = Pay(c, Base, from, to, v) /\ MoveLogs(a, from, to, v) = <<Transfer(Base, from, to, v)>>
    BY <1>1 DEF Move, MoveLogs
  <2>2. Base \in Reserves \cup Ious
    BY DEF Reserves
  <2>3. Paid(c, e, Base, from, to, v) /\ Carries(c, e, <<Transfer(Base, from, to, v)>>, r, 0, 0)
    BY <2>1, <2>2, SendCarries
  <2> QED
    BY <1>1, <2>1, <2>3 DEF Moved, Paid
<1>2. CASE a # Base
  <2>1. e = c /\ MoveLogs(a, from, to, v) = <<>>
    BY <1>2 DEF Move, MoveLogs
  <2>2. Carries(c, e, <<>>, r, 0, 0)
    BY <2>1, CarriesNone
  <2> QED
    BY <1>2, <2>1, <2>2 DEF Moved
<1> QED
  BY <1>1, <1>2

\* An event and its Transfers, in either order, close the gaps they open.
LEMMA CarriesPair ==
  ASSUME NEW c, IsChain(c), NEW e, NEW f, NEW s, NEW t, NEW r, NEW p, NEW q, NEW x, NEW y,
         Carries(c, e, s, r, p, q), Carries(e, f, t, r, x, y), p + x = 0, q + y = 0,
         NEW u, u \in EitherOrder(s, t)
  PROVE  Carries(c, f, u, r, 0, 0)
<1>1. Carries(c, f, s \o t, r, p + x, q + y) /\ Carries(c, f, t \o s, r, p + x, q + y)
  BY CarriesBoth
<1>2. u = s \o t \/ u = t \o s
  BY DEF EitherOrder
<1> QED
  BY <1>1, <1>2

\* One queue after another.
LEMMA CarriesAfter ==
  ASSUME NEW c, IsChain(c), NEW e, NEW f, NEW s, NEW t, NEW r,
         Carries(c, e, s, r, 0, 0), Carries(e, f, t, r, 0, 0)
  PROVE  Carries(c, f, s \o t, r, 0, 0)
<1>1. Carries(c, f, s \o t, r, 0 + 0, 0 + 0)
  BY CarriesBoth
<1>2. 0 + 0 = 0
  OBVIOUS
<1> QED
  BY <1>1, <1>2

\* A log of r's own, which changes what r accounts for.
LEMMA EventCarries ==
  ASSUME NEW c, IsChain(c), NEW e, IsChain(e), e.owned = c.owned, NEW l \in OperationLog,
         l.event # "Transfer", NEW r, NEW p \in Int, NEW q \in Int,
         \A k \in Reserves, a \in Tokens :
            e.accounted[k][a] = c.accounted[k][a] + HoldingFlow(l, k, a),
         \A k \in Reserves : /\ LpFlow(l, k) = IF k = r THEN p ELSE 0
                             /\ DebtFlow(l, k) = IF k = r THEN q ELSE 0
  PROVE  Carries(c, e, <<l>>, r, p, q)
<1>1. \A k \in Reserves, a \in Tokens : HoldingFlow(l, k, a) = e.accounted[k][a] - c.accounted[k][a]
  <2>1. \A k \in Reserves, a \in Tokens : c.accounted[k][a] \in Int /\ HoldingFlow(l, k, a) \in Int
    BY FlowTypes DEF IsChain
  <2> QED
    BY <2>1
<1>2. \A t \in Reserves \cup Ious, h \in Holders : BalanceFlow(l, t, h) = e.owned[t][h] - c.owned[t][h]
  <2>1. \A t \in Reserves \cup Ious, h \in Holders : c.owned[t][h] \in Int
    BY DEF IsChain
  <2> QED
    BY <2>1 DEF BalanceFlow
<1> QED
  BY <1>1, <1>2, CarriesOne

\* An event of a reserve adds to the balances and supplies nothing.
LEMMA EventFlows ==
  ASSUME NEW l, l.event # "Transfer"
  PROVE  \A k \in Reserves :
           /\ LpFlow(l, k) = 0 - TotalFlow(l, k, "deposits") + TotalFlow(l, k, "withdrawals")
           /\ DebtFlow(l, k) = 0 - TotalFlow(l, k, "minted") - SwapFlow(l, k) + TotalFlow(l, k, "redeemed")
BY DEF LpFlow, DebtFlow, SupplyFlow

-----------------------------------------------------------------------------
(* The operations.                                                         *)

\* No contract accounts for less than nothing.
Unsigned(c) == \A r \in Reserves, a \in Tokens : c.accounted[r][a] \in Nat

\* Halfway through an operation the meta reserve has g of the base LP that it
\* does not account for.
Holds(c, g) ==
  /\ IsChain(c) /\ c.donated \in Nat
  /\ \A t \in Reserves \cup Ious, h \in Holders : c.owned[t][h] \in Nat
  /\ c.owned[Base][Meta] = c.accounted[Meta][Base] + c.donated + g

\* Holds is what Solvent says of the LP tokens of the meta reserve.
LEMMA SolventHolds ==
  ASSUME NEW c, IsChain(c)
  PROVE  Solvent(c) <=> Unsigned(c) /\ Holds(c, 0)
<1>1. c.accounted[Meta][Base] + c.donated + 0 = c.accounted[Meta][Base] + c.donated
  <2>1. c.accounted[Meta][Base] \in Int /\ c.donated \in Int
    BY AddressAssumption DEF IsChain, Reserves, Tokens
  <2> QED
    BY <2>1
<1> QED
  BY <1>1 DEF Solvent, Unsigned, Holds

\* A payment that is covered keeps balances natural.
LEMMA PaidHolds ==
  ASSUME NEW c, NEW g \in Int, Holds(c, g), NEW t \in Reserves \cup Ious, NEW from, NEW to, NEW v \in Nat,
         from \in Holders => c.owned[t][from] >= v, NEW e, Paid(c, e, t, from, to, v),
         NEW h \in Int,
         h = g + IF t = Base THEN (IF to = Meta THEN v ELSE 0) - (IF from = Meta THEN v ELSE 0) ELSE 0
  PROVE  Holds(e, h)
<1>1. /\ IsChain(e) /\ e.accounted = c.accounted /\ e.donated = c.donated
      /\ \A s \in Reserves \cup Ious, k \in Holders :
           e.owned[s][k] = c.owned[s][k] +
             IF s = t THEN (IF k = to THEN v ELSE 0) - (IF k = from THEN v ELSE 0) ELSE 0
  BY DEF Paid
<1>2. ASSUME NEW s \in Reserves \cup Ious, NEW k \in Holders PROVE e.owned[s][k] \in Nat
  <2>1. c.owned[s][k] \in Nat /\ (s = t /\ k = from => c.owned[s][k] >= v)
    BY DEF Holds
  <2> QED
    BY <1>1, <2>1
<1>3. Base \in Reserves \cup Ious /\ Meta \in Holders
  BY DEF Reserves, Holders
<1>4. e.owned[Base][Meta] = c.owned[Base][Meta] +
             IF Base = t THEN (IF Meta = to THEN v ELSE 0) - (IF Meta = from THEN v ELSE 0) ELSE 0
  BY <1>1, <1>3
<1>5. c.owned[Base][Meta] = c.accounted[Meta][Base] + c.donated + g /\ c.donated \in Nat
  BY DEF Holds
<1>6. c.accounted[Meta][Base] \in Int
  BY AddressAssumption DEF Holds, IsChain, Reserves, Tokens
<1>7. e.owned[Base][Meta] = e.accounted[Meta][Base] + e.donated + h
  BY <1>1, <1>4, <1>5, <1>6
<1> QED
  BY <1>1, <1>2, <1>5, <1>7 DEF Holds

\* A token that changes hands on the way.
Passed(c, e, s, r, p, q, h) ==
  /\ Holds(e, h) /\ Carries(c, e, s, r, p, q) /\ e.accounted = c.accounted /\ e.donated = c.donated
  /\ e.fees = c.fees

\* So does a move, which its log carries.
LEMMA MovePasses ==
  ASSUME NEW c, NEW g \in Int, Holds(c, g), NEW a, NEW from \in Holders, NEW to \in Holders,
         NEW v \in Nat, a = Base => c.owned[Base][from] >= v, NEW e, e = Move(c, a, from, to, v),
         NEW h \in Int,
         h = g + IF a = Base THEN (IF to = Meta THEN v ELSE 0) - (IF from = Meta THEN v ELSE 0) ELSE 0,
         NEW r
  PROVE  Passed(c, e, MoveLogs(a, from, to, v), r, 0, 0, h) /\ Moved(c, e, a, from, to, v)
<1>1. IsChain(c)
  BY DEF Holds
<1>2. /\ IsChain(e) /\ Moved(c, e, a, from, to, v)
      /\ Carries(c, e, MoveLogs(a, from, to, v), r, 0, 0)
  BY <1>1, MoveCarries
<1>3. CASE a = Base
  <2>1. Paid(c, e, Base, from, to, v)
    BY <1>2, <1>3 DEF Moved
  <2>2. Base \in Reserves \cup Ious
    BY DEF Reserves
  <2>3. h = g + IF Base = Base THEN (IF to = Meta THEN v ELSE 0) - (IF from = Meta THEN v ELSE 0) ELSE 0
    BY <1>3
  <2>4. from \in Holders => c.owned[Base][from] >= v
    BY <1>3
  <2>5. Holds(e, h)
    BY <2>1, <2>2, <2>3, <2>4, PaidHolds
  <2> QED
    BY <1>2, <2>1, <2>5 DEF Passed, Paid
<1>4. CASE a # Base
  <2>1. e = c /\ h = g
    BY <1>2, <1>4 DEF Moved
  <2> QED
    BY <1>2, <2>1 DEF Passed
<1> QED
  BY <1>3, <1>4

\* A mint to a user or a burn of a user's.
LEMMA PayPasses ==
  ASSUME NEW c, NEW g \in Int, Holds(c, g), NEW t \in Reserves \cup Ious,
         NEW from \in Holders \cup {Zero}, NEW to \in Holders \cup {Zero},
         from # Zero \/ to # Zero, from # Meta, to # Meta, NEW v \in Nat,
         from # Zero => c.owned[t][from] >= v,
         NEW e, e = Pay(c, t, from, to, v), NEW r \in Reserves, Owner(t) = r,
         NEW n \in Int, n = (IF from = Zero THEN v ELSE 0) - (IF to = Zero THEN v ELSE 0),
         NEW p, p = (IF t = r THEN n ELSE 0), NEW q, q = IF t = r THEN 0 ELSE n
  PROVE  Passed(c, e, <<Transfer(t, from, to, v)>>, r, p, q, g)
<1>1. IsChain(c)
  BY DEF Holds
<1>2. Paid(c, e, t, from, to, v) /\ Carries(c, e, <<Transfer(t, from, to, v)>>, r, p, q)
  BY <1>1, PayCarries
<1>3. from \in Holders => c.owned[t][from] >= v
  BY AddressAssumption
<1>4. g = g + IF t = Base THEN (IF to = Meta THEN v ELSE 0) - (IF from = Meta THEN v ELSE 0) ELSE 0
  OBVIOUS
<1>5. Holds(e, g)
  BY <1>2, <1>3, <1>4, PaidHolds
<1> QED
  BY <1>2, <1>5 DEF Passed, Paid

\* The reserve's own event and what it accounts for.
Does(c, e, l, r, p, q) ==
  /\ IsChain(e) /\ e.owned = c.owned /\ e.donated = c.donated
  /\ l \in OperationLog /\ l.event # "Transfer" /\ p \in Int /\ q \in Int
  /\ \A k \in Reserves, a \in Tokens : e.accounted[k][a] = c.accounted[k][a] + HoldingFlow(l, k, a)
  /\ \A k \in Reserves : /\ LpFlow(l, k) = IF k = r THEN p ELSE 0
                         /\ DebtFlow(l, k) = IF k = r THEN q ELSE 0

\* The event carries the accounting.
LEMMA DoesCarries ==
  ASSUME NEW c, IsChain(c), NEW e, NEW l, NEW r, NEW p, NEW q, Does(c, e, l, r, p, q)
  PROVE  Carries(c, e, <<l>>, r, p, q)
<1>1. /\ IsChain(e) /\ e.owned = c.owned /\ l \in OperationLog /\ l.event # "Transfer"
      /\ p \in Int /\ q \in Int
  BY DEF Does
<1>2. \A k \in Reserves, a \in Tokens : e.accounted[k][a] = c.accounted[k][a] + HoldingFlow(l, k, a)
  BY DEF Does
<1>3. \A k \in Reserves : /\ LpFlow(l, k) = IF k = r THEN p ELSE 0
                          /\ DebtFlow(l, k) = IF k = r THEN q ELSE 0
  BY DEF Does
<1> QED
  BY <1>1, <1>2, <1>3, EventCarries

\* The event accounts for the base LP that moved before it.
LEMMA DoesHolds ==
  ASSUME NEW c, NEW g \in Int, Holds(c, g), NEW e, NEW l, NEW r, NEW p, NEW q, Does(c, e, l, r, p, q),
         HoldingFlow(l, Meta, Base) = g
  PROVE  Holds(e, 0)
<1>1. /\ IsChain(e) /\ e.owned = c.owned /\ e.donated = c.donated
      /\ \A k \in Reserves, a \in Tokens : e.accounted[k][a] = c.accounted[k][a] + HoldingFlow(l, k, a)
  BY DEF Does
<1>2. Meta \in Reserves /\ Base \in Tokens
  BY DEF Reserves, Tokens
<1>3. e.accounted[Meta][Base] = c.accounted[Meta][Base] + g
  BY <1>1, <1>2
<1>4. c.accounted[Meta][Base] \in Int
  BY <1>2 DEF Holds, IsChain
<1>5. /\ c.owned[Base][Meta] = c.accounted[Meta][Base] + c.donated + g /\ c.donated \in Nat
      /\ \A t \in Reserves \cup Ious, h \in Holders : c.owned[t][h] \in Nat
  BY DEF Holds
<1>6. e.owned[Base][Meta] = e.accounted[Meta][Base] + e.donated + 0
  BY <1>1, <1>3, <1>4, <1>5
<1> QED
  BY <1>1, <1>5, <1>6 DEF Holds

\* What an operation leaves.
Settled(c, s) == IsChain(c) /\ Solvent(c) /\ \E r : Carries(chain, c, s, r, 0, 0)

\* Moves s, then a mint or burn t beside the event l.
LEMMA Settles ==
  ASSUME IsChain(chain), NEW m, NEW n, NEW e, NEW s, NEW t, NEW r, NEW p, NEW q, NEW x, NEW y,
         p + x = 0, q + y = 0, Carries(chain, m, s, r, 0, 0), Carries(m, n, t, r, p, q), NEW g \in Int, Holds(n, g),
         NEW l, Does(n, e, l, r, x, y), HoldingFlow(l, Meta, Base) = g, Unsigned(e),
         NEW u, u \in EitherOrder(t, <<l>>)
  PROVE  Settled(e, s \o u)
<1>1. IsChain(m) /\ IsChain(n)
  BY DEF Carries
<1>2. Carries(n, e, <<l>>, r, x, y)
  BY <1>1, DoesCarries
<1>6. Carries(m, e, u, r, 0, 0)
  <2>1. PICK w : w = <<l>>
    OBVIOUS
  <2>2. Carries(n, e, w, r, x, y) /\ u \in EitherOrder(t, w)
    BY <1>2, <2>1
  <2> QED
    BY <1>1, <2>2, CarriesPair
<1>7. Carries(chain, e, s \o u, r, 0, 0)
  BY <1>6, CarriesAfter
<1>8. Holds(e, 0)
  BY DoesHolds
<1>9. IsChain(e)
  BY <1>8 DEF Holds
<1>10. Solvent(e)
  BY <1>8, <1>9, SolventHolds
<1> QED
  BY <1>7, <1>9, <1>10 DEF Settled

LEMMA SolventStart ==
  ASSUME Solvent(chain), IsChain(chain)
  PROVE  Holds(chain, 0) /\ Unsigned(chain)
BY SolventHolds

\* A user is a holder and no reserve.
LEMMA UserFacts ==
  ASSUME NEW u \in Users
  PROVE  u \in Holders /\ u # Meta /\ u # Zero /\ Meta \in Holders /\ Treasury \in Holders /\ Meta # Zero
         /\ Treasury # Zero /\ Treasury # Meta
BY AddressAssumption DEF Holders

\* Par of a natural amount is natural.
LEMMA ParType ==
  ASSUME NEW a \in Tokens, NEW units \in Nat
  PROVE  Par(a, units) \in Nat
<1>1. Scale[a] \in Nat
  BY AmountAssumption
<1> QED
  BY <1>1 DEF Par

\* So are the shares of a basket.
LEMMA SharesType ==
  ASSUME NEW r \in Reserves, NEW basket \in Baskets
  PROVE  Shares(r, basket) \in Nat
<1>1. /\ DOMAIN basket = DOMAIN BaseAssets /\ \A i \in DOMAIN BaseAssets : basket[i] \in Nat
  BY AmountAt
<1>2. /\ DOMAIN BaseAssets = 1..Len(BaseAssets) /\ Len(BaseAssets) \in Nat /\ Len(BaseAssets) >= 2
      /\ \A i \in DOMAIN BaseAssets : BaseAssets[i] \in Tokens
  BY AddressAssumption
<1>3. CASE r = Meta
  <2>1. basket[1] \in Nat /\ basket[2] \in Nat /\ Native \in Tokens /\ Base \in Tokens
    BY <1>1, <1>2 DEF Tokens
  <2>2. Par(Native, basket[1]) \in Nat /\ Par(Base, basket[2]) \in Nat
    BY <2>1, ParType
  <2> QED
    BY <1>3, <2>2 DEF Shares
<1>4. CASE r # Meta
  <2> DEFINE f == [i \in DOMAIN basket |-> Par(BaseAssets[i], basket[i])]
             S == 1..Len(BaseAssets)
  <2>1. \A i \in S : Par(BaseAssets[i], basket[i]) \in Nat
    BY <1>1, <1>2, ParType
  <2>2. f \in [S -> Nat]
    BY <1>1, <1>2, <2>1
  <2>3. IsFiniteSet(S)
    BY <1>2, FS_Interval
  <2>4. Shares(r, basket) = SumFunction(f)
    BY <1>4 DEF Shares
  <2> HIDE DEF f, S
  <2>5. SumFunction(f) \in Nat
    BY <2>2, <2>3, SumAtLeast
  <2> QED
    BY <2>4, <2>5
<1> QED
  BY <1>3, <1>4

\* The event of a balanced operation carries its basket.
LEMMA BasketDoes ==
  ASSUME NEW c, IsChain(c), NEW r \in Reserves, NEW basket \in Baskets, NEW lp \in Nat,
         NEW sign \in {1, -1}, NEW l,
         l = [event |-> IF sign = 1 THEN "Deposit" ELSE "Withdraw", addr |-> r, lp |-> lp, amounts |-> basket,
              native |-> basket[1], base |-> basket[2]],
         NEW e, e = AccountBasket(c, r, basket, sign), NEW p, p = IF sign = 1 THEN -lp ELSE lp
  PROVE  /\ Does(c, e, l, r, p, 0) /\ Basketed(c, e, r, l, sign)
         /\ HoldingFlow(l, Meta, Base) = IF r # Meta THEN 0 ELSE IF sign = 1 THEN basket[2] ELSE -basket[2]
<1>1. /\ l.amounts = basket /\ l.native = basket[1] /\ l.base = basket[2] /\ l.lp = lp /\ l.addr = r
      /\ l.event = IF sign = 1 THEN "Deposit" ELSE "Withdraw"
  OBVIOUS
<1>2. basket[1] \in Nat /\ basket[2] \in Nat /\ Basketed(c, e, r, l, sign)
  BY <1>1, BasketFrame
<1>3. /\ IsChain(e) /\ e.owned = c.owned /\ e.fees = c.fees /\ e.donated = c.donated
      /\ \A k \in Reserves, a \in Tokens :
           /\ BasketFlow(l, k, a) \in Nat
           /\ e.accounted[k][a] = c.accounted[k][a] +
                IF k # r THEN 0 ELSE IF sign = 1 THEN BasketFlow(l, k, a) ELSE -BasketFlow(l, k, a)
  BY <1>2 DEF Basketed
<1>4. l \in OperationLog /\ l.event # "Transfer"
  BY <1>1, <1>2 DEF OperationLog, BasketLog
<1>5. \A k \in Reserves, a \in Tokens :
        HoldingFlow(l, k, a) = IF k # r THEN 0 ELSE IF sign = 1 THEN BasketFlow(l, k, a) ELSE -BasketFlow(l, k, a)
  BY <1>1 DEF HoldingFlow, Activity
<1>6. \A k \in Reserves : /\ LpFlow(l, k) = IF k = r THEN p ELSE 0
                          /\ DebtFlow(l, k) = IF k = r THEN 0 ELSE 0
  <2>1. \A k \in Reserves :
          /\ TotalFlow(l, k, "deposits") = IF k = r /\ sign = 1 THEN lp ELSE 0
          /\ TotalFlow(l, k, "withdrawals") = IF k = r /\ sign = -1 THEN lp ELSE 0
          /\ TotalFlow(l, k, "minted") = 0 /\ TotalFlow(l, k, "redeemed") = 0 /\ SwapFlow(l, k) = 0
    BY <1>1 DEF TotalFlow, SwapFlow, Activity
  <2> QED
    BY <1>4, <2>1, EventFlows
<1>7. BasketFlow(l, Meta, Base) = basket[2]
  <2>1. Base # Native
    BY AddressAssumption
  <2> QED
    BY <1>1, <1>2, <2>1 DEF BasketFlow
<1>8. Meta \in Reserves /\ Base \in Tokens
  BY DEF Reserves, Tokens
<1>9. p \in Int
  OBVIOUS
<1> QED
  BY <1>2, <1>3, <1>4, <1>5, <1>6, <1>7, <1>8, <1>9 DEF Does

\* What a user pays to the reserves, or is paid by the meta reserve.
LEMMA UserPays ==
  ASSUME NEW c, NEW g \in Int, Holds(c, g), NEW a, NEW u \in Users, NEW v \in Nat,
         a = Base => c.owned[Base][u] >= v, NEW e, e = Move(c, a, u, Meta, v), NEW r,
         NEW h, h = IF a = Base THEN g + v ELSE g
  PROVE  Passed(c, e, MoveLogs(a, u, Meta, v), r, 0, 0, h) /\ Moved(c, e, a, u, Meta, v)
<1>1. u \in Holders /\ u # Meta /\ Meta \in Holders
  BY UserFacts
<1>2. h \in Int /\ h = g + IF a = Base THEN (IF Meta = Meta THEN v ELSE 0) - (IF u = Meta THEN v ELSE 0) ELSE 0
  BY <1>1
<1> QED
  BY <1>1, <1>2, MovePasses

\* The meta reserve pays out of what it has.
LEMMA MetaPays ==
  ASSUME NEW c, NEW g \in Int, Holds(c, g), NEW a, NEW u \in Holders, u # Meta, NEW v \in Nat,
         a = Base => c.owned[Base][Meta] >= v, NEW e, e = Move(c, a, Meta, u, v), NEW r,
         NEW h, h = IF a = Base THEN g - v ELSE g
  PROVE  Passed(c, e, MoveLogs(a, Meta, u, v), r, 0, 0, h) /\ Moved(c, e, a, Meta, u, v)
<1>1. Meta \in Holders
  BY DEF Holders
<1>2. h \in Int /\ h = g + IF a = Base THEN (IF u = Meta THEN v ELSE 0) - (IF Meta = Meta THEN v ELSE 0) ELSE 0
  OBVIOUS
<1> QED
  BY <1>1, <1>2, MovePasses

\* Shares of a reserve or an IOU of it are minted to a holder, or burned.
LEMMA Mints ==
  ASSUME NEW c, NEW g \in Int, Holds(c, g), NEW r \in Reserves, NEW t \in Reserves \cup Ious,
         Owner(t) = r, NEW u \in Holders, u # Meta, NEW v \in Nat, NEW e, e = Pay(c, t, Zero, u, v),
         NEW p, p = (IF t = r THEN v ELSE 0), NEW q, q = IF t = r THEN 0 ELSE v
  PROVE  Passed(c, e, <<Transfer(t, Zero, u, v)>>, r, p, q, g)
<1>1. u # Zero /\ Zero # Meta /\ u \in Holders \cup {Zero} /\ Zero \in Holders \cup {Zero}
  BY AddressAssumption DEF Holders
<1>2. v \in Int /\ v = (IF Zero = Zero THEN v ELSE 0) - (IF u = Zero THEN v ELSE 0)
  BY <1>1
<1> QED
  BY <1>1, <1>2, PayPasses

\* A user burns what it has.
LEMMA Burns ==
  ASSUME NEW c, NEW g \in Int, Holds(c, g), NEW r \in Reserves, NEW t \in Reserves \cup Ious,
         Owner(t) = r, NEW u \in Holders, u # Meta, NEW v \in Nat, c.owned[t][u] >= v,
         NEW e, e = Pay(c, t, u, Zero, v),
         NEW p, p = (IF t = r THEN -v ELSE 0), NEW q, q = IF t = r THEN 0 ELSE -v
  PROVE  Passed(c, e, <<Transfer(t, u, Zero, v)>>, r, p, q, g)
<1>1. u # Zero /\ Zero # Meta /\ u \in Holders \cup {Zero} /\ Zero \in Holders \cup {Zero}
  BY AddressAssumption DEF Holders
<1>2. PICK n \in Int : n = -v /\ n = (IF u = Zero THEN v ELSE 0) - (IF Zero = Zero THEN v ELSE 0)
  BY <1>1
<1>3. p = (IF t = r THEN n ELSE 0) /\ q = IF t = r THEN 0 ELSE n
  BY <1>2
<1> QED
  BY <1>1, <1>2, <1>3, PayPasses

\* The LP flows of a reserve's shares.
LEMMA OwnShares ==
  ASSUME NEW r \in Reserves
  PROVE  r \in Reserves \cup Ious /\ Owner(r) = r
BY DEF Owner

\* Deposit, then each of the other operations, settles.
LEMMA DepositSettles ==
  ASSUME IsChain(chain), Solvent(chain), NEW r \in Reserves, NEW u \in Users, NEW basket \in Baskets,
         Deposit(r, u, basket)
  PROVE  \E c, s : Settled(c, s) /\ Operation(c, s)
<1> DEFINE B == IF r = Meta THEN Base ELSE None
<1>1. PICK lp : lp = Shares(r, basket)
  OBVIOUS
<1>2. PICK l : l = [event |-> "Deposit", addr |-> r, lp |-> lp, amounts |-> basket,
                    native |-> basket[1], base |-> basket[2]]
  OBVIOUS
<1>3. PICK m : m = Move(chain, B, u, Meta, basket[2])
  OBVIOUS
<1>4. PICK n : n = Pay(m, r, Zero, u, lp)
  OBVIOUS
<1>5. PICK e : e = AccountBasket(n, r, basket, 1)
  OBVIOUS
<1>6. PICK logs \in EitherOrder(<<Transfer(r, Zero, u, lp)>>, <<l>>) :
         Operation(e, MoveLogs(B, u, Meta, basket[2]) \o logs) /\ Has(B, u, basket[2])
  BY <1>1, <1>2, <1>3, <1>4, <1>5 DEF Deposit
<1>7. lp \in Nat
  BY <1>1, SharesType
<1>8. /\ u \in Holders /\ u # Meta /\ Base # None
  BY UserFacts, AddressAssumption DEF Tokens
<1>9. basket[2] \in Nat
  BY AmountAt, AddressAssumption
<1>10. Holds(chain, 0) /\ Unsigned(chain)
  BY SolventStart
<1>11. PICK g \in Int : g = IF r = Meta THEN basket[2] ELSE 0
  BY <1>9
<1>12. Passed(chain, m, MoveLogs(B, u, Meta, basket[2]), r, 0, 0, g)
  <2>1. PICK v, b : v \in Nat /\ v = basket[2] /\ b = B
    BY <1>9
  <2>2. b = Base => chain.owned[Base][u] >= v
    BY <1>6, <2>1 DEF Has
  <2>3. PICK o \in Int : o = 0
    OBVIOUS
  <2>4. m = Move(chain, b, u, Meta, v) /\ g = IF b = Base THEN o + v ELSE o
    BY <1>3, <1>8, <1>11, <2>1, <2>3
  <2>5. v \in Nat /\ Holds(chain, o)
    BY <1>10, <2>1, <2>3
  <2>6. Passed(chain, m, MoveLogs(b, u, Meta, v), r, 0, 0, g)
    BY <2>2, <2>4, <2>5, UserPays
  <2> QED
    BY <2>1, <2>6
<1>13. Passed(m, n, <<Transfer(r, Zero, u, lp)>>, r, lp, 0, g)
  <2>1. Holds(m, g)
    BY <1>12 DEF Passed
  <2>2. lp = (IF r = r THEN lp ELSE 0) /\ 0 = IF r = r THEN 0 ELSE lp
    OBVIOUS
  <2> QED
    BY <1>4, <1>7, <1>8, <2>1, <2>2, OwnShares, Mints
<1>14. /\ Carries(chain, m, MoveLogs(B, u, Meta, basket[2]), r, 0, 0)
       /\ Carries(m, n, <<Transfer(r, Zero, u, lp)>>, r, lp, 0)
       /\ Holds(n, g) /\ IsChain(n) /\ n.accounted = chain.accounted
  BY <1>12, <1>13 DEF Passed, Holds
<1>15. /\ Does(n, e, l, r, -lp, 0) /\ Basketed(n, e, r, l, 1)
       /\ HoldingFlow(l, Meta, Base) = IF r # Meta THEN 0 ELSE basket[2]
  <2>1. PICK sign \in {1, -1} : sign = 1
    OBVIOUS
  <2>2. PICK p : p = IF sign = 1 THEN -lp ELSE lp
    OBVIOUS
  <2>3. l = [event |-> IF sign = 1 THEN "Deposit" ELSE "Withdraw", addr |-> r, lp |-> lp, amounts |-> basket,
             native |-> basket[1], base |-> basket[2]]
    BY <1>2, <2>1
  <2>4. e = AccountBasket(n, r, basket, sign)
    BY <1>5, <2>1
  <2>5. /\ Does(n, e, l, r, p, 0) /\ Basketed(n, e, r, l, sign)
        /\ HoldingFlow(l, Meta, Base) = IF r # Meta THEN 0 ELSE IF sign = 1 THEN basket[2] ELSE -basket[2]
    BY <1>7, <1>14, <2>2, <2>3, <2>4, BasketDoes
  <2> QED
    BY <2>1, <2>2, <2>5
<1>16. Unsigned(e)
  <2>1. \A k \in Reserves, a \in Tokens :
           /\ BasketFlow(l, k, a) \in Nat
           /\ e.accounted[k][a] = n.accounted[k][a] + IF k # r THEN 0 ELSE BasketFlow(l, k, a)
    BY <1>15 DEF Basketed
  <2> QED
    BY <1>10, <1>14, <2>1 DEF Unsigned
<1>17. Settled(e, MoveLogs(B, u, Meta, basket[2]) \o logs)
  <2>1. PICK x : x = -lp
    OBVIOUS
  <2>2. Does(n, e, l, r, x, 0) /\ HoldingFlow(l, Meta, Base) = g /\ lp + x = 0 /\ 0 + 0 = 0
    BY <1>7, <1>11, <1>15, <2>1
  <2> HIDE DEF B
  <2> QED
    BY <1>6, <1>14, <1>16, <2>2, Settles
<1> QED
  BY <1>6, <1>17

\* A balanced withdrawal settles: its logs are worth what it changed.
LEMMA WithdrawSettles ==
  ASSUME IsChain(chain), Solvent(chain), NEW r \in Reserves, NEW u \in Users, NEW basket \in Baskets,
         Withdraw(r, u, basket)
  PROVE  \E c, s : Settled(c, s) /\ Operation(c, s)
<1> DEFINE B == IF r = Meta THEN Base ELSE None
<1>1. PICK lp : lp = Shares(r, basket)
  OBVIOUS
<1>2. PICK l : l = [event |-> "Withdraw", addr |-> r, lp |-> lp, amounts |-> basket,
                    native |-> basket[1], base |-> basket[2]]
  OBVIOUS
<1>3. PICK m : m = Move(chain, B, Meta, u, basket[2])
  OBVIOUS
<1>4. PICK n : n = Pay(m, r, u, Zero, lp)
  OBVIOUS
<1>5. PICK e : e = AccountBasket(n, r, basket, -1)
  OBVIOUS
<1>6. PICK logs \in EitherOrder(<<Transfer(r, u, Zero, lp)>>, <<l>>) :
         /\ Operation(e, MoveLogs(B, Meta, u, basket[2]) \o logs)
         /\ chain.owned[r][u] >= lp /\ Covered(r, basket)
  BY <1>1, <1>2, <1>3, <1>4, <1>5 DEF Withdraw
<1>7. lp \in Nat
  BY <1>1, SharesType
<1>8. u \in Holders /\ u # Meta /\ Base # None
  BY UserFacts, AddressAssumption DEF Tokens
<1>9. basket[2] \in Nat
  BY AmountAt, AddressAssumption
<1>10. Holds(chain, 0) /\ Unsigned(chain)
  BY SolventStart
<1>11. PICK g \in Int : g = IF r = Meta THEN -basket[2] ELSE 0
  BY <1>9
<1>12. PICK sign \in {1, -1} : sign = -1
  OBVIOUS
<1>13. l = [event |-> IF sign = 1 THEN "Deposit" ELSE "Withdraw", addr |-> r, lp |-> lp,
            amounts |-> basket, native |-> basket[1], base |-> basket[2]]
  BY <1>2, <1>12
<1>14. PICK p : p = (IF sign = 1 THEN -lp ELSE lp) /\ p = lp
  BY <1>12
<1>15. \A k \in Reserves, a \in Tokens :
          /\ BasketFlow(l, k, a) \in Nat
          /\ k = r => chain.accounted[k][a] >= BasketFlow(l, k, a)
  <2>1. PICK left : left = AccountBasket(chain, r, basket, sign)
    OBVIOUS
  <2>2. \A a \in Tokens : left.accounted[r][a] >= 0
    BY <1>6, <1>12, <2>1 DEF Covered
  <2>3. Basketed(chain, left, r, l, sign)
    BY <1>7, <1>13, <1>14, <2>1, BasketDoes
  <2>4. \A k \in Reserves, a \in Tokens :
           /\ BasketFlow(l, k, a) \in Nat
           /\ left.accounted[k][a] = chain.accounted[k][a] + IF k # r THEN 0 ELSE -BasketFlow(l, k, a)
    BY <1>12, <2>3 DEF Basketed
  <2>5. \A k \in Reserves, a \in Tokens : chain.accounted[k][a] \in Int
    BY DEF IsChain
  <2> QED
    BY <2>2, <2>4, <2>5
<1>16. r = Meta => chain.owned[Base][Meta] >= basket[2]
  <2>1. Meta \in Reserves /\ Base \in Tokens /\ Base # Native
    BY AddressAssumption DEF Reserves, Tokens
  <2>2. BasketFlow(l, Meta, Base) = basket[2]
    BY <1>2, <1>9, <2>1 DEF BasketFlow
  <2>3. r = Meta => chain.accounted[Meta][Base] >= basket[2]
    BY <1>15, <2>1, <2>2
  <2>4. chain.owned[Base][Meta] = chain.accounted[Meta][Base] + chain.donated /\ chain.donated \in Nat
        /\ chain.accounted[Meta][Base] \in Nat
    BY <2>1 DEF Solvent
  <2> QED
    BY <1>9, <2>3, <2>4
<1>17. Passed(chain, m, MoveLogs(B, Meta, u, basket[2]), r, 0, 0, g) /\ Moved(chain, m, B, Meta, u, basket[2])
  <2>1. PICK v, b : v \in Nat /\ v = basket[2] /\ b = B
    BY <1>9
  <2>2. b = Base => chain.owned[Base][Meta] >= v
    BY <1>8, <1>16, <2>1
  <2>3. PICK o \in Int : o = 0
    OBVIOUS
  <2>4. m = Move(chain, b, Meta, u, v) /\ g = IF b = Base THEN o - v ELSE o
    BY <1>3, <1>8, <1>11, <2>1, <2>3
  <2>5. v \in Nat /\ Holds(chain, o)
    BY <1>10, <2>1, <2>3
  <2>6. Passed(chain, m, MoveLogs(b, Meta, u, v), r, 0, 0, g) /\ Moved(chain, m, b, Meta, u, v)
    BY <1>8, <2>2, <2>4, <2>5, MetaPays
  <2> QED
    BY <2>1, <2>6
<1>18. m.owned[r][u] >= lp
  <2>1. u \in Holders /\ u # Meta /\ r \in Reserves \cup Ious /\ chain.owned[r][u] \in Int
    BY <1>8, UserFacts DEF IsChain
  <2>2. CASE r = Meta
    <3>1. Paid(chain, m, Base, Meta, u, basket[2])
      BY <1>17, <2>2 DEF Moved
    <3>2. m.owned[r][u] = chain.owned[r][u] + 0
      BY <2>1, <2>2, <3>1, AddressAssumption DEF Paid
    <3> QED
      BY <1>6, <2>1, <3>2
  <2>3. CASE r # Meta
    BY <1>6, <1>8, <1>17, <2>3 DEF Moved
  <2> QED
    BY <2>2, <2>3
<1>19. PICK x \in Int : x = -lp
  BY <1>7
<1>20. Passed(m, n, <<Transfer(r, u, Zero, lp)>>, r, x, 0, g)
  <2>1. Holds(m, g)
    BY <1>17 DEF Passed
  <2>2. x = (IF r = r THEN -lp ELSE 0) /\ 0 = IF r = r THEN 0 ELSE -lp
    BY <1>19
  <2> QED
    BY <1>4, <1>7, <1>8, <1>18, <2>1, <2>2, OwnShares, Burns
<1>21. /\ Carries(chain, m, MoveLogs(B, Meta, u, basket[2]), r, 0, 0)
       /\ Carries(m, n, <<Transfer(r, u, Zero, lp)>>, r, x, 0)
       /\ Holds(n, g) /\ IsChain(n) /\ n.accounted = chain.accounted
  BY <1>17, <1>20 DEF Passed, Holds
<1>22. /\ Does(n, e, l, r, lp, 0) /\ Basketed(n, e, r, l, -1)
       /\ HoldingFlow(l, Meta, Base) = g
  <2>1. e = AccountBasket(n, r, basket, sign)
    BY <1>5, <1>12
  <2>2. /\ Does(n, e, l, r, p, 0) /\ Basketed(n, e, r, l, sign)
        /\ HoldingFlow(l, Meta, Base) = IF r # Meta THEN 0 ELSE IF sign = 1 THEN basket[2] ELSE -basket[2]
    BY <1>7, <1>13, <1>14, <1>21, <2>1, BasketDoes
  <2> QED
    BY <1>11, <1>12, <1>14, <2>2
<1>23. Unsigned(e)
  <2>1. \A k \in Reserves, a \in Tokens :
           e.accounted[k][a] = n.accounted[k][a] + IF k # r THEN 0 ELSE -BasketFlow(l, k, a)
    BY <1>22 DEF Basketed
  <2> QED
    BY <1>10, <1>15, <1>21, <2>1 DEF Unsigned
<1>24. Settled(e, MoveLogs(B, Meta, u, basket[2]) \o logs)
  <2>1. x + lp = 0 /\ 0 + 0 = 0
    BY <1>7, <1>19
  <2> HIDE DEF B
  <2> QED
    BY <1>6, <1>21, <1>22, <1>23, <2>1, Settles
<1> QED
  BY <1>6, <1>24

\* An asset of a reserve is a token, its IOU an IOU of the reserve.
LEMMA AssetFacts ==
  ASSUME setup \in Setups, NEW r \in Reserves, NEW a \in AssetsOf(r)
  PROVE  /\ a \in Tokens /\ Iou(r, a) \in Ious /\ (a = Base => r = Meta) /\ Base # Meta
         /\ Iou(r, a) \in Reserves \cup Ious /\ Owner(Iou(r, a)) = r /\ Iou(r, a) # r
<1>1. a \in Tokens /\ Iou(r, a) \in Ious
  BY Lists
<1>2. Iou(r, a) \notin Reserves
  BY <1>1, AddressAssumption
<1>3. Owner(Iou(r, a)) = r
  BY <1>2 DEF Owner, Iou
<1>4. a = Base => r = Meta
  <2>1. r = Base => AssetsOf(r) = ToSet(BaseAssets)
    BY DEF AssetsOf, ListOf
  <2> QED
    BY <2>1, AddressAssumption DEF Reserves
<1> QED
  BY <1>1, <1>2, <1>3, <1>4, AddressAssumption

\* A log of r that moves n of its asset a.
Books(l, r, a, n, p, q) ==
  /\ l \in OperationLog /\ l.event # "Transfer" /\ n \in Int /\ p \in Int /\ q \in Int
  /\ \A k \in Reserves, b \in Tokens : HoldingFlow(l, k, b) = IF k = r /\ b = a THEN n ELSE 0
  /\ \A k \in Reserves : /\ LpFlow(l, k) = IF k = r THEN p ELSE 0
                         /\ DebtFlow(l, k) = IF k = r THEN q ELSE 0

\* The event carries the accounting of one asset.
LEMMA AccountDoes ==
  ASSUME NEW c, IsChain(c), NEW r \in Reserves, NEW a \in Tokens, NEW l, NEW n, NEW p, NEW q,
         Books(l, r, a, n, p, q), NEW e, e = Account(c, r, a, n)
  PROVE  /\ Does(c, e, l, r, p, q)
         /\ Unsigned(c) /\ c.accounted[r][a] + n >= 0 => Unsigned(e)
         /\ HoldingFlow(l, Meta, Base) = IF r = Meta /\ a = Base THEN n ELSE 0
<1>1. /\ l \in OperationLog /\ l.event # "Transfer" /\ n \in Int /\ p \in Int /\ q \in Int
      /\ \A k \in Reserves, b \in Tokens : HoldingFlow(l, k, b) = IF k = r /\ b = a THEN n ELSE 0
      /\ \A k \in Reserves : /\ LpFlow(l, k) = IF k = r THEN p ELSE 0
                             /\ DebtFlow(l, k) = IF k = r THEN q ELSE 0
  BY DEF Books
<1>2. Accounts(c, e, r, a, n)
  BY <1>1, AccountFrame
<1>3. /\ IsChain(e) /\ e.owned = c.owned /\ e.donated = c.donated
      /\ \A k \in Reserves, b \in Tokens :
           e.accounted[k][b] = c.accounted[k][b] + IF k = r /\ b = a THEN n ELSE 0
  BY <1>2 DEF Accounts
<1>4. Does(c, e, l, r, p, q)
  BY <1>1, <1>3 DEF Does
<1>5. Unsigned(c) /\ c.accounted[r][a] + n >= 0 => Unsigned(e)
  BY <1>1, <1>3 DEF Unsigned
<1>6. Meta \in Reserves /\ Base \in Tokens
  BY DEF Reserves, Tokens
<1> QED
  BY <1>1, <1>4, <1>5, <1>6

\* The books of the events on one asset.
LEMMA PaidInBooks ==
  ASSUME NEW r \in Reserves, NEW a \in Tokens, NEW in \in Nat, NEW fee \in Nat, NEW lp \in Nat,
         NEW l, l = [event |-> "SingleAssetDeposit", addr |-> r, asset |-> a, in |-> in, fee |-> fee, lp |-> lp],
         NEW n, n = in - fee, NEW p, p = -lp
  PROVE  Books(l, r, a, n, p, 0)
<1>1. l \in OperationLog /\ l.event # "Transfer"
  BY DEF OperationLog, PaidInLog
<1>2. \A k \in Reserves, b \in Tokens : HoldingFlow(l, k, b) = IF k = r /\ b = a THEN n ELSE 0
  BY DEF HoldingFlow, Activity
<1>3. \A k \in Reserves :
        /\ TotalFlow(l, k, "deposits") = (IF k = r THEN lp ELSE 0) /\ TotalFlow(l, k, "withdrawals") = 0
        /\ TotalFlow(l, k, "minted") = 0 /\ TotalFlow(l, k, "redeemed") = 0 /\ SwapFlow(l, k) = 0
  BY DEF TotalFlow, SwapFlow, Activity
<1>4. \A k \in Reserves : /\ LpFlow(l, k) = IF k = r THEN p ELSE 0
                          /\ DebtFlow(l, k) = IF k = r THEN 0 ELSE 0
  BY <1>1, <1>3, EventFlows
<1> QED
  BY <1>1, <1>2, <1>4 DEF Books

\* What the events of one asset are worth.
LEMMA PaidOutBooks ==
  ASSUME NEW r \in Reserves, NEW a \in Tokens, NEW out \in Nat, NEW fee \in Nat, NEW lp \in Nat,
         NEW l, l = [event |-> "SingleAssetWithdraw", addr |-> r, asset |-> a, out |-> out, fee |-> fee, lp |-> lp],
         NEW n, n = -(out + fee)
  PROVE  Books(l, r, a, n, lp, 0)
<1>1. l \in OperationLog /\ l.event # "Transfer"
  BY DEF OperationLog, PaidOutLog
<1>2. \A k \in Reserves, b \in Tokens : HoldingFlow(l, k, b) = IF k = r /\ b = a THEN n ELSE 0
  BY DEF HoldingFlow, Activity
<1>3. \A k \in Reserves :
        /\ TotalFlow(l, k, "withdrawals") = (IF k = r THEN lp ELSE 0) /\ TotalFlow(l, k, "deposits") = 0
        /\ TotalFlow(l, k, "minted") = 0 /\ TotalFlow(l, k, "redeemed") = 0 /\ SwapFlow(l, k) = 0
  BY DEF TotalFlow, SwapFlow, Activity
<1>4. \A k \in Reserves : /\ LpFlow(l, k) = IF k = r THEN lp ELSE 0
                          /\ DebtFlow(l, k) = IF k = r THEN 0 ELSE 0
  BY <1>1, <1>3, EventFlows
<1> QED
  BY <1>1, <1>2, <1>4 DEF Books

LEMMA ReceivedBooks ==
  ASSUME NEW r \in Reserves, NEW a \in Tokens, NEW in \in Nat,
         NEW event \in {"FlashLoan", "DonationRecognized", "IOUMinted"},
         NEW l, l = [event |-> event, addr |-> r, asset |-> a, in |-> in],
         NEW q, q = IF event = "IOUMinted" THEN -in ELSE 0
  PROVE  Books(l, r, a, in, 0, q)
<1>1. l \in OperationLog /\ l.event # "Transfer"
  BY DEF OperationLog, ReceivedLog
<1>2. \A k \in Reserves, b \in Tokens : HoldingFlow(l, k, b) = IF k = r /\ b = a THEN in ELSE 0
  BY DEF HoldingFlow, Activity
<1>3. \A k \in Reserves :
        /\ TotalFlow(l, k, "withdrawals") = 0 /\ TotalFlow(l, k, "deposits") = 0
        /\ TotalFlow(l, k, "minted") = (IF k = r /\ event = "IOUMinted" THEN in ELSE 0)
        /\ TotalFlow(l, k, "redeemed") = 0 /\ SwapFlow(l, k) = 0
  BY DEF TotalFlow, SwapFlow, Activity
<1>4. \A k \in Reserves : /\ LpFlow(l, k) = IF k = r THEN 0 ELSE 0
                          /\ DebtFlow(l, k) = IF k = r THEN q ELSE 0
  BY <1>1, <1>3, EventFlows
<1> QED
  BY <1>1, <1>2, <1>4 DEF Books

LEMMA RedeemedBooks ==
  ASSUME NEW r \in Reserves, NEW a \in Tokens, NEW out \in Nat,
         NEW l, l = [event |-> "IOURedeemed", addr |-> r, asset |-> a, out |-> out],
         NEW n, n = -out
  PROVE  Books(l, r, a, n, 0, out)
<1>1. l \in OperationLog /\ l.event # "Transfer"
  BY DEF OperationLog, RedeemedLog
<1>2. \A k \in Reserves, b \in Tokens : HoldingFlow(l, k, b) = IF k = r /\ b = a THEN n ELSE 0
  BY DEF HoldingFlow, Activity
<1>3. \A k \in Reserves :
        /\ TotalFlow(l, k, "withdrawals") = 0 /\ TotalFlow(l, k, "deposits") = 0
        /\ TotalFlow(l, k, "redeemed") = (IF k = r THEN out ELSE 0)
        /\ TotalFlow(l, k, "minted") = 0 /\ SwapFlow(l, k) = 0
  BY DEF TotalFlow, SwapFlow, Activity
<1>4. \A k \in Reserves : /\ LpFlow(l, k) = IF k = r THEN 0 ELSE 0
                          /\ DebtFlow(l, k) = IF k = r THEN out ELSE 0
  BY <1>1, <1>3, EventFlows
<1> QED
  BY <1>1, <1>2, <1>4 DEF Books

\* The operations on one asset settle.
LEMMA SingleDepositSettles ==
  ASSUME IsChain(chain), Solvent(chain), setup \in Setups, NEW r \in Reserves, NEW u \in Users,
         NEW a \in AssetsOf(r), NEW in \in Nat, NEW fee \in Nat, SingleAssetDeposit(r, a, u, in, fee)
  PROVE  \E c, s : Settled(c, s) /\ Operation(c, s)
<1>1. PICK lp : lp = Par(a, in - fee)
  OBVIOUS
<1>2. PICK l : l = [event |-> "SingleAssetDeposit", addr |-> r, asset |-> a, in |-> in, fee |-> fee, lp |-> lp]
  OBVIOUS
<1>3. PICK k : k = Move(chain, a, u, Meta, in)
  OBVIOUS
<1>4. PICK m : m = Move(k, a, Meta, Treasury, fee)
  OBVIOUS
<1>5. PICK n : n = Pay(m, r, Zero, u, lp)
  OBVIOUS
<1>6. PICK x : x = in - fee
  OBVIOUS
<1>7. PICK e : e = Account(n, r, a, x)
  OBVIOUS
<1>8. PICK s, t : s = MoveLogs(a, u, Meta, in) /\ t = MoveLogs(a, Meta, Treasury, fee)
  OBVIOUS
<1>9. PICK logs \in EitherOrder(<<Transfer(r, Zero, u, lp)>>, <<l>>) :
         Operation(e, (s \o t) \o logs) /\ Has(a, u, in) /\ fee < in
  BY <1>1, <1>2, <1>3, <1>4, <1>5, <1>6, <1>7, <1>8 DEF SingleAssetDeposit
<1>10. a \in Tokens /\ (a = Base => r = Meta) /\ Base # Meta
  BY AssetFacts
<1>11. x \in Nat /\ lp \in Nat
  <2>1. x \in Nat /\ lp = Par(a, x)
    BY <1>1, <1>6, <1>9
  <2> QED
    BY <1>10, <2>1, ParType
<1>12. u \in Holders /\ u # Meta /\ Treasury \in Holders /\ Treasury # Meta
  BY UserFacts
<1>13. Holds(chain, 0) /\ Unsigned(chain) /\ 0 \in Int
  BY SolventStart
<1>14. PICK g, h : g = (IF a = Base THEN 0 + in ELSE 0) /\ h = IF a = Base THEN g - fee ELSE g
  OBVIOUS
<1>15. Passed(chain, k, s, r, 0, 0, g)
  <2>1. a = Base => chain.owned[Base][u] >= in
    BY <1>9 DEF Has
  <2>2. g = IF a = Base THEN 0 + in ELSE 0
    BY <1>14
  <2> QED
    BY <1>3, <1>8, <1>13, <2>1, <2>2, UserPays
<1>30. g \in Int /\ h \in Int
  BY <1>14
<1>16. Holds(k, g) /\ IsChain(k) /\ Carries(chain, k, s, r, 0, 0) /\ k.accounted = chain.accounted
  BY <1>15 DEF Passed, Holds
<1>17. Passed(k, m, t, r, 0, 0, h)
  <2>1. a = Base => k.owned[Base][Meta] >= fee
    <3>1. Meta \in Reserves /\ Base \in Tokens
      BY DEF Reserves, Tokens
    <3>2. k.accounted[Meta][Base] \in Nat
      BY <1>13, <1>16, <3>1 DEF Unsigned
    <3>3. k.owned[Base][Meta] = k.accounted[Meta][Base] + k.donated + g /\ k.donated \in Nat
      BY <1>16 DEF Holds
    <3> QED
      BY <1>9, <1>14, <1>30, <3>2, <3>3
  <2>2. h = IF a = Base THEN g - fee ELSE g
    BY <1>14
  <2>3. Holds(k, g)
    BY <1>16
  <2> QED
    BY <1>4, <1>8, <1>12, <1>30, <2>1, <2>2, <2>3, MetaPays
<1>18. Passed(m, n, <<Transfer(r, Zero, u, lp)>>, r, lp, 0, h)
  <2>1. Holds(m, h)
    BY <1>17 DEF Passed
  <2>2. lp = (IF r = r THEN lp ELSE 0) /\ 0 = IF r = r THEN 0 ELSE lp
    OBVIOUS
  <2> QED
    BY <1>5, <1>11, <1>12, <1>30, <2>1, <2>2, OwnShares, Mints
<1>19. /\ Carries(k, m, t, r, 0, 0) /\ Carries(m, n, <<Transfer(r, Zero, u, lp)>>, r, lp, 0)
       /\ Holds(n, h) /\ IsChain(n) /\ n.accounted = chain.accounted
  BY <1>16, <1>17, <1>18 DEF Passed, Holds
<1>20. Carries(chain, m, s \o t, r, 0, 0)
  BY <1>16, <1>19, CarriesAfter
<1>21. PICK p : p = -lp
  OBVIOUS
<1>22. Books(l, r, a, x, p, 0)
  BY <1>2, <1>6, <1>10, <1>11, <1>21, PaidInBooks
<1>23. /\ Does(n, e, l, r, p, 0) /\ (Unsigned(n) /\ n.accounted[r][a] + x >= 0 => Unsigned(e))
       /\ HoldingFlow(l, Meta, Base) = IF r = Meta /\ a = Base THEN x ELSE 0
  BY <1>7, <1>10, <1>19, <1>22, AccountDoes
<1>24. Unsigned(e)
  <2>1. Unsigned(n) /\ n.accounted[r][a] \in Nat
    BY <1>10, <1>13, <1>19 DEF Unsigned
  <2> QED
    BY <1>11, <1>23, <2>1
<1>25. Settled(e, (s \o t) \o logs)
  <2>1. HoldingFlow(l, Meta, Base) = h
    BY <1>6, <1>10, <1>14, <1>23
  <2>2. lp + p = 0 /\ 0 + 0 = 0
    BY <1>11, <1>21
  <2>3. Does(n, e, l, r, p, 0)
    BY <1>23
  <2>4. PICK z : z = s \o t
    OBVIOUS
  <2>5. Carries(chain, m, z, r, 0, 0)
    BY <1>20, <2>4
  <2>6. Settled(e, z \o logs)
    BY <1>9, <1>19, <1>24, <1>30, <2>1, <2>2, <2>3, <2>5, Settles
  <2> QED
    BY <2>4, <2>6
<1> QED
  BY <1>9, <1>25

\* The meta reserve has at least the base LP it accounts for.
LEMMA MetaHas ==
  ASSUME NEW c, NEW g \in Int, Holds(c, g), NEW v \in Nat, NEW w \in Nat,
         c.accounted[Meta][Base] \in Nat, c.accounted[Meta][Base] >= w, w + g >= v
  PROVE  c.owned[Base][Meta] >= v
<1>1. c.owned[Base][Meta] = c.accounted[Meta][Base] + c.donated + g /\ c.donated \in Nat
  BY DEF Holds
<1> QED
  BY <1>1

\* A move of the base LP leaves the other tokens' holders alone.
LEMMA MetaKeepsShares ==
  ASSUME NEW c, IsChain(c), NEW e, NEW a, NEW from, NEW to, NEW v \in Nat, Moved(c, e, a, from, to, v),
         NEW t \in Reserves \cup Ious, t # Base \/ a # Base, NEW u \in Holders
  PROVE  e.owned[t][u] = c.owned[t][u]
<1>1. CASE a = Base
  <2>1. Paid(c, e, Base, from, to, v)
    BY <1>1 DEF Moved
  <2>2. e.owned[t][u] = c.owned[t][u] + 0 /\ c.owned[t][u] \in Int
    BY <1>1, <2>1 DEF Paid, IsChain
  <2> QED
    BY <2>2
<1>2. CASE a # Base
  BY <1>2 DEF Moved
<1> QED
  BY <1>1, <1>2

LEMMA SingleWithdrawSettles ==
  ASSUME IsChain(chain), Solvent(chain), setup \in Setups, NEW r \in Reserves, NEW u \in Users,
         NEW a \in AssetsOf(r), NEW out \in Nat, NEW fee \in Nat, SingleAssetWithdraw(r, a, u, out, fee)
  PROVE  \E c, s : Settled(c, s) /\ Operation(c, s)
<1>1. PICK lp : lp = Par(a, out + fee)
  OBVIOUS
<1>2. PICK l : l = [event |-> "SingleAssetWithdraw", addr |-> r, asset |-> a, out |-> out, fee |-> fee, lp |-> lp]
  OBVIOUS
<1>3. PICK k : k = Move(chain, a, Meta, u, out)
  OBVIOUS
<1>4. PICK m : m = Move(k, a, Meta, Treasury, fee)
  OBVIOUS
<1>5. PICK n : n = Pay(m, r, u, Zero, lp)
  OBVIOUS
<1>6. PICK x : x = -(out + fee)
  OBVIOUS
<1>7. PICK e : e = Account(n, r, a, x)
  OBVIOUS
<1>8. PICK s, t : s = MoveLogs(a, Meta, u, out) /\ t = MoveLogs(a, Meta, Treasury, fee)
  OBVIOUS
<1>9. PICK logs \in EitherOrder(<<Transfer(r, u, Zero, lp)>>, <<l>>) :
         /\ Operation(e, (s \o t) \o logs)
         /\ chain.owned[r][u] >= lp /\ chain.accounted[r][a] >= out + fee
  BY <1>1, <1>2, <1>3, <1>4, <1>5, <1>6, <1>7, <1>8 DEF SingleAssetWithdraw
<1>10. a \in Tokens /\ (a = Base => r = Meta) /\ Base # Meta
  BY AssetFacts
<1>11. out + fee \in Nat /\ lp \in Nat /\ x \in Int
  <2>1. out + fee \in Nat
    OBVIOUS
  <2> QED
    BY <1>1, <1>6, <1>10, <2>1, ParType
<1>12. u \in Holders /\ u # Meta /\ Treasury \in Holders /\ Treasury # Meta
  BY UserFacts
<1>13. Holds(chain, 0) /\ Unsigned(chain) /\ 0 \in Int /\ chain.accounted[r][a] \in Nat
  BY <1>10, SolventStart DEF Unsigned
<1>14. PICK g, h : g = (IF a = Base THEN 0 - out ELSE 0) /\ h = IF a = Base THEN g - fee ELSE g
  OBVIOUS
<1>15. g \in Int /\ h \in Int
  BY <1>14
<1>16. Passed(chain, k, s, r, 0, 0, g) /\ Moved(chain, k, a, Meta, u, out)
  <2>1. a = Base => chain.owned[Base][Meta] >= out
    BY <1>9, <1>10, <1>11, <1>13, MetaHas
  <2>2. g = IF a = Base THEN 0 - out ELSE 0
    BY <1>14
  <2> QED
    BY <1>3, <1>8, <1>12, <1>13, <2>1, <2>2, MetaPays
<1>17. Holds(k, g) /\ IsChain(k) /\ Carries(chain, k, s, r, 0, 0) /\ k.accounted = chain.accounted
  BY <1>16 DEF Passed, Holds
<1>18. Passed(k, m, t, r, 0, 0, h) /\ Moved(k, m, a, Meta, Treasury, fee)
  <2>1. a = Base => k.owned[Base][Meta] >= fee
    <3>1. SUFFICES ASSUME a = Base PROVE k.owned[Base][Meta] >= fee
      OBVIOUS
    <3>2. k.accounted[Meta][Base] \in Nat /\ k.accounted[Meta][Base] >= out + fee
      BY <1>9, <1>10, <1>13, <1>17, <3>1
    <3>3. out + fee + g >= fee
      BY <1>14, <3>1
    <3> QED
      BY <1>11, <1>15, <1>17, <3>2, <3>3, MetaHas
  <2>2. h = IF a = Base THEN g - fee ELSE g
    BY <1>14
  <2>3. Holds(k, g)
    BY <1>17
  <2> QED
    BY <1>4, <1>8, <1>12, <1>15, <2>1, <2>2, <2>3, MetaPays
<1>19. m.owned[r][u] >= lp
  <2>1. r \in Reserves \cup Ious /\ (r # Base \/ a # Base)
    BY <1>10
  <2>2. k.owned[r][u] = chain.owned[r][u]
    BY <1>12, <1>16, <2>1, MetaKeepsShares
  <2>3. m.owned[r][u] = k.owned[r][u]
    BY <1>12, <1>17, <1>18, <2>1, MetaKeepsShares
  <2> QED
    BY <1>9, <2>2, <2>3
<1>20. PICK p : p = -lp
  OBVIOUS
<1>21. Passed(m, n, <<Transfer(r, u, Zero, lp)>>, r, p, 0, h)
  <2>1. Holds(m, h)
    BY <1>18 DEF Passed
  <2>2. p = (IF r = r THEN -lp ELSE 0) /\ 0 = IF r = r THEN 0 ELSE -lp
    BY <1>20
  <2> QED
    BY <1>5, <1>11, <1>12, <1>15, <1>19, <2>1, <2>2, OwnShares, Burns
<1>22. /\ Carries(k, m, t, r, 0, 0) /\ Carries(m, n, <<Transfer(r, u, Zero, lp)>>, r, p, 0)
       /\ Holds(n, h) /\ IsChain(n) /\ n.accounted = chain.accounted
  BY <1>17, <1>18, <1>21 DEF Passed, Holds
<1>23. Carries(chain, m, s \o t, r, 0, 0)
  BY <1>17, <1>22, CarriesAfter
<1>24. Books(l, r, a, x, lp, 0)
  BY <1>2, <1>6, <1>10, <1>11, PaidOutBooks
<1>25. /\ Does(n, e, l, r, lp, 0) /\ (Unsigned(n) /\ n.accounted[r][a] + x >= 0 => Unsigned(e))
       /\ HoldingFlow(l, Meta, Base) = IF r = Meta /\ a = Base THEN x ELSE 0
  BY <1>7, <1>10, <1>22, <1>24, AccountDoes
<1>26. Unsigned(e)
  <2>1. Unsigned(n) /\ n.accounted[r][a] \in Nat /\ n.accounted[r][a] >= out + fee
    BY <1>9, <1>13, <1>22 DEF Unsigned
  <2> QED
    BY <1>6, <1>11, <1>25, <2>1
<1>27. Settled(e, (s \o t) \o logs)
  <2>1. HoldingFlow(l, Meta, Base) = h
    BY <1>6, <1>10, <1>14, <1>25
  <2>2. p + lp = 0 /\ 0 + 0 = 0
    BY <1>11, <1>20
  <2>3. Does(n, e, l, r, lp, 0)
    BY <1>25
  <2>4. PICK z : z = s \o t
    OBVIOUS
  <2>5. Carries(chain, m, z, r, 0, 0)
    BY <1>23, <2>4
  <2>6. Settled(e, z \o logs)
    BY <1>9, <1>15, <1>22, <1>26, <2>1, <2>2, <2>3, <2>5, Settles
  <2> QED
    BY <2>4, <2>6
<1> QED
  BY <1>9, <1>27

LEMMA MintIouSettles ==
  ASSUME IsChain(chain), Solvent(chain), setup \in Setups, NEW r \in Reserves, NEW u \in Users,
         NEW a \in AssetsOf(r), NEW v \in Nat, MintIou(r, a, u, v)
  PROVE  \E c, s : Settled(c, s) /\ Operation(c, s)
<1>1. PICK tok : tok = Iou(r, a)
  OBVIOUS
<1>2. PICK l : l = [event |-> "IOUMinted", addr |-> r, asset |-> a, in |-> v]
  OBVIOUS
<1>3. PICK m : m = Move(chain, a, u, Meta, v)
  OBVIOUS
<1>4. PICK n : n = Pay(m, tok, Zero, u, v)
  OBVIOUS
<1>5. PICK e : e = Account(n, r, a, v)
  OBVIOUS
<1>6. PICK s : s = MoveLogs(a, u, Meta, v)
  OBVIOUS
<1>7. PICK logs \in EitherOrder(<<Transfer(tok, Zero, u, v)>>, <<l>>) :
         Operation(e, s \o logs) /\ Has(a, u, v)
  BY <1>1, <1>2, <1>3, <1>4, <1>5, <1>6 DEF MintIou
<1>8. /\ a \in Tokens /\ (a = Base => r = Meta) /\ Base # Meta
      /\ tok \in Reserves \cup Ious /\ Owner(tok) = r /\ tok # r
  BY <1>1, AssetFacts
<1>9. u \in Holders /\ u # Meta
  BY UserFacts
<1>10. Holds(chain, 0) /\ Unsigned(chain) /\ 0 \in Int
  BY SolventStart
<1>11. PICK g : g = IF a = Base THEN 0 + v ELSE 0
  OBVIOUS
<1>12. g \in Int
  BY <1>11
<1>13. Passed(chain, m, s, r, 0, 0, g)
  <2>1. a = Base => chain.owned[Base][u] >= v
    BY <1>7 DEF Has
  <2> QED
    BY <1>3, <1>6, <1>10, <1>11, <2>1, UserPays
<1>14. Passed(m, n, <<Transfer(tok, Zero, u, v)>>, r, 0, v, g)
  <2>1. Holds(m, g)
    BY <1>13 DEF Passed
  <2>2. 0 = (IF tok = r THEN v ELSE 0) /\ v = IF tok = r THEN 0 ELSE v
    BY <1>8
  <2> QED
    BY <1>4, <1>8, <1>9, <1>12, <2>1, <2>2, Mints
<1>15. /\ Carries(chain, m, s, r, 0, 0) /\ Carries(m, n, <<Transfer(tok, Zero, u, v)>>, r, 0, v)
       /\ Holds(n, g) /\ IsChain(n) /\ n.accounted = chain.accounted
  BY <1>13, <1>14 DEF Passed, Holds
<1>16. PICK q : q = -v
  OBVIOUS
<1>17. Books(l, r, a, v, 0, q)
  <2>1. PICK event \in {"FlashLoan", "DonationRecognized", "IOUMinted"} : event = "IOUMinted"
    OBVIOUS
  <2>2. l = [event |-> event, addr |-> r, asset |-> a, in |-> v] /\ q = IF event = "IOUMinted" THEN -v ELSE 0
    BY <1>2, <1>16, <2>1
  <2> QED
    BY <1>8, <2>2, ReceivedBooks
<1>18. /\ Does(n, e, l, r, 0, q) /\ (Unsigned(n) /\ n.accounted[r][a] + v >= 0 => Unsigned(e))
       /\ HoldingFlow(l, Meta, Base) = IF r = Meta /\ a = Base THEN v ELSE 0
  BY <1>5, <1>8, <1>15, <1>17, AccountDoes
<1>19. Unsigned(e)
  <2>1. Unsigned(n) /\ n.accounted[r][a] \in Nat
    BY <1>8, <1>10, <1>15 DEF Unsigned
  <2> QED
    BY <1>18, <2>1
<1>20. Settled(e, s \o logs)
  <2>1. HoldingFlow(l, Meta, Base) = g /\ 0 + 0 = 0 /\ v + q = 0
    BY <1>8, <1>11, <1>16, <1>18
  <2>2. Does(n, e, l, r, 0, q)
    BY <1>18
  <2> QED
    BY <1>7, <1>12, <1>15, <1>19, <2>1, <2>2, Settles
<1> QED
  BY <1>7, <1>20

LEMMA RedeemIouSettles ==
  ASSUME IsChain(chain), Solvent(chain), setup \in Setups, NEW r \in Reserves, NEW u \in Users,
         NEW a \in AssetsOf(r), NEW v \in Nat, RedeemIou(r, a, u, v)
  PROVE  \E c, s : Settled(c, s) /\ Operation(c, s)
<1>1. PICK tok : tok = Iou(r, a)
  OBVIOUS
<1>2. PICK l : l = [event |-> "IOURedeemed", addr |-> r, asset |-> a, out |-> v]
  OBVIOUS
<1>3. PICK m : m = Move(chain, a, Meta, u, v)
  OBVIOUS
<1>4. PICK n : n = Pay(m, tok, u, Zero, v)
  OBVIOUS
<1>5. PICK x : x = -v
  OBVIOUS
<1>6. PICK e : e = Account(n, r, a, x)
  OBVIOUS
<1>7. PICK s : s = MoveLogs(a, Meta, u, v)
  OBVIOUS
<1>8. PICK logs \in EitherOrder(<<Transfer(tok, u, Zero, v)>>, <<l>>) :
         Operation(e, s \o logs) /\ chain.owned[tok][u] >= v /\ chain.accounted[r][a] >= v
  BY <1>1, <1>2, <1>3, <1>4, <1>5, <1>6, <1>7 DEF RedeemIou
<1>9. /\ a \in Tokens /\ (a = Base => r = Meta) /\ Base # Meta
      /\ tok \in Reserves \cup Ious /\ Owner(tok) = r /\ tok # r
  BY <1>1, AssetFacts
<1>10. u \in Holders /\ u # Meta
  BY UserFacts
<1>11. Holds(chain, 0) /\ Unsigned(chain) /\ 0 \in Int /\ chain.accounted[r][a] \in Nat
  BY <1>9, SolventStart DEF Unsigned
<1>12. PICK g : g = IF a = Base THEN 0 - v ELSE 0
  OBVIOUS
<1>13. g \in Int /\ x \in Int
  BY <1>5, <1>12
<1>14. Passed(chain, m, s, r, 0, 0, g) /\ Moved(chain, m, a, Meta, u, v)
  <2>1. a = Base => chain.owned[Base][Meta] >= v
    <3>1. v + 0 >= v
      OBVIOUS
    <3> QED
      BY <1>8, <1>9, <1>11, <3>1, MetaHas
  <2> QED
    BY <1>3, <1>7, <1>10, <1>11, <1>12, <2>1, MetaPays
<1>15. m.owned[tok][u] >= v
  <2>1. tok # Base \/ a # Base
    <3>1. tok # Base
      BY <1>1, AssetFacts, AddressAssumption DEF Reserves
    <3> QED
      BY <3>1
  <2>2. m.owned[tok][u] = chain.owned[tok][u]
    BY <1>9, <1>10, <1>14, <2>1, MetaKeepsShares
  <2> QED
    BY <1>8, <2>2
<1>16. Passed(m, n, <<Transfer(tok, u, Zero, v)>>, r, 0, x, g)
  <2>1. Holds(m, g)
    BY <1>14 DEF Passed
  <2>2. 0 = (IF tok = r THEN -v ELSE 0) /\ x = IF tok = r THEN 0 ELSE -v
    BY <1>5, <1>9
  <2> QED
    BY <1>4, <1>9, <1>10, <1>13, <1>15, <2>1, <2>2, Burns
<1>17. /\ Carries(chain, m, s, r, 0, 0) /\ Carries(m, n, <<Transfer(tok, u, Zero, v)>>, r, 0, x)
       /\ Holds(n, g) /\ IsChain(n) /\ n.accounted = chain.accounted
  BY <1>14, <1>16 DEF Passed, Holds
<1>18. Books(l, r, a, x, 0, v)
  BY <1>2, <1>5, <1>9, RedeemedBooks
<1>19. /\ Does(n, e, l, r, 0, v) /\ (Unsigned(n) /\ n.accounted[r][a] + x >= 0 => Unsigned(e))
       /\ HoldingFlow(l, Meta, Base) = IF r = Meta /\ a = Base THEN x ELSE 0
  BY <1>6, <1>9, <1>17, <1>18, AccountDoes
<1>20. Unsigned(e)
  <2>1. Unsigned(n) /\ n.accounted[r][a] \in Nat /\ n.accounted[r][a] >= v
    BY <1>8, <1>11, <1>17 DEF Unsigned
  <2> QED
    BY <1>5, <1>19, <2>1
<1>21. Settled(e, s \o logs)
  <2>1. HoldingFlow(l, Meta, Base) = g /\ 0 + 0 = 0 /\ x + v = 0
    BY <1>5, <1>9, <1>12, <1>19
  <2>2. Does(n, e, l, r, 0, v)
    BY <1>19
  <2> QED
    BY <1>8, <1>13, <1>17, <1>20, <2>1, <2>2, Settles
<1> QED
  BY <1>8, <1>21

LEMMA FlashLoanSettles ==
  ASSUME IsChain(chain), Solvent(chain), setup \in Setups, NEW r \in Reserves, NEW u \in Users,
         NEW a \in AssetsOf(r), NEW fee \in Nat, FlashLoan(r, a, u, fee)
  PROVE  \E c, s : Settled(c, s) /\ Operation(c, s)
<1>1. PICK l : l = [event |-> "FlashLoan", addr |-> r, asset |-> a, in |-> fee]
  OBVIOUS
<1>2. PICK m : m = Move(chain, a, u, Meta, fee)
  OBVIOUS
<1>3. PICK e : e = Account(m, r, a, fee)
  OBVIOUS
<1>4. PICK s : s = MoveLogs(a, u, Meta, fee)
  OBVIOUS
<1>5. PICK w : w = <<l>>
  OBVIOUS
<1>6. Operation(e, s \o w) /\ Has(a, u, fee)
  BY <1>1, <1>2, <1>3, <1>4, <1>5 DEF FlashLoan
<1>7. a \in Tokens /\ (a = Base => r = Meta) /\ Base # Meta
  BY AssetFacts
<1>8. Holds(chain, 0) /\ Unsigned(chain) /\ 0 \in Int
  BY SolventStart
<1>9. PICK g : g = IF a = Base THEN 0 + fee ELSE 0
  OBVIOUS
<1>10. g \in Int
  BY <1>9
<1>11. Passed(chain, m, s, r, 0, 0, g)
  <2>1. a = Base => chain.owned[Base][u] >= fee
    BY <1>6 DEF Has
  <2> QED
    BY <1>2, <1>4, <1>8, <1>9, <2>1, UserPays
<1>12. Carries(chain, m, s, r, 0, 0) /\ Holds(m, g) /\ IsChain(m) /\ m.accounted = chain.accounted
  BY <1>11 DEF Passed, Holds
<1>13. Carries(m, m, <<>>, r, 0, 0)
  BY <1>12, CarriesNone
<1>14. Books(l, r, a, fee, 0, 0)
  <2>1. PICK event \in {"FlashLoan", "DonationRecognized", "IOUMinted"} : event = "FlashLoan"
    OBVIOUS
  <2>2. l = [event |-> event, addr |-> r, asset |-> a, in |-> fee] /\ 0 = IF event = "IOUMinted" THEN -fee ELSE 0
    BY <1>1, <2>1
  <2> QED
    BY <1>7, <2>2, ReceivedBooks
<1>15. /\ Does(m, e, l, r, 0, 0) /\ (Unsigned(m) /\ m.accounted[r][a] + fee >= 0 => Unsigned(e))
       /\ HoldingFlow(l, Meta, Base) = IF r = Meta /\ a = Base THEN fee ELSE 0
  BY <1>3, <1>7, <1>12, <1>14, AccountDoes
<1>16. Unsigned(e)
  <2>1. Unsigned(m) /\ m.accounted[r][a] \in Nat
    BY <1>7, <1>8, <1>12 DEF Unsigned
  <2> QED
    BY <1>15, <2>1
<1>17. w \in EitherOrder(<<>>, <<l>>)
  <2>1. <<>> \o <<l>> = <<l>>
    OBVIOUS
  <2> QED
    BY <1>5, <2>1 DEF EitherOrder
<1>18. Settled(e, s \o w)
  <2>1. HoldingFlow(l, Meta, Base) = g /\ 0 + 0 = 0
    BY <1>7, <1>9, <1>15
  <2>2. Does(m, e, l, r, 0, 0)
    BY <1>15
  <2> QED
    BY <1>10, <1>12, <1>13, <1>16, <1>17, <2>1, <2>2, Settles
<1> QED
  BY <1>6, <1>18

\* The same balances, with other donations or fees.
LEMMA CarriesSame ==
  ASSUME NEW c, NEW f, NEW e, NEW s, NEW r, Carries(c, f, s, r, 0, 0), IsChain(e),
         e.accounted = f.accounted, e.owned = f.owned
  PROVE  Carries(c, e, s, r, 0, 0)
BY DEF Carries

\* Another amount of unrecognised donations.
Donated(c, n) == [c EXCEPT !.donated = n]

\* Another sum of donations changes nothing else.
LEMMA DonatedFrame ==
  ASSUME NEW c, IsChain(c), NEW n \in Int, NEW e, e = Donated(c, n)
  PROVE  IsChain(e) /\ e.accounted = c.accounted /\ e.owned = c.owned /\ e.donated = n
BY DEF Donated, IsChain

\* A donation recognised enters the accounts; the balance had it before.
LEMMA RecognizeSettles ==
  ASSUME IsChain(chain), Solvent(chain), setup \in Setups, NEW r \in Reserves,
         NEW a \in AssetsOf(r), NEW v \in Nat, RecognizeDonation(r, a, v)
  PROVE  \E c, s : Settled(c, s) /\ Operation(c, s)
<1>1. PICK l : l = [event |-> "DonationRecognized", addr |-> r, asset |-> a, in |-> v]
  OBVIOUS
<1>2. PICK m : m = Account(chain, r, a, v)
  OBVIOUS
<1>3. PICK n : n = IF a = Base THEN chain.donated - v ELSE chain.donated
  OBVIOUS
<1>4. PICK e : e = Donated(m, n)
  OBVIOUS
<1>5. a \in Tokens /\ (a = Base => r = Meta) /\ Base # Meta
  BY AssetFacts
<1>6. /\ chain.donated \in Nat /\ (a = Base => chain.donated >= v)
      /\ Holds(chain, 0) /\ Unsigned(chain) /\ 0 \in Int
  BY SolventStart DEF RecognizeDonation, Holds
<1>7. n \in Nat
  BY <1>3, <1>6
<1>8. Books(l, r, a, v, 0, 0)
  <2>1. PICK event \in {"FlashLoan", "DonationRecognized", "IOUMinted"} : event = "DonationRecognized"
    OBVIOUS
  <2>2. l = [event |-> event, addr |-> r, asset |-> a, in |-> v] /\ 0 = IF event = "IOUMinted" THEN -v ELSE 0
    BY <1>1, <2>1
  <2> QED
    BY <1>5, <2>2, ReceivedBooks
<1>9. Does(chain, m, l, r, 0, 0) /\ (Unsigned(chain) /\ chain.accounted[r][a] + v >= 0 => Unsigned(m))
  BY <1>2, <1>5, <1>8, AccountDoes
<1>10. Accounts(chain, m, r, a, v)
  BY <1>2, <1>5, AccountFrame
<1>11. /\ IsChain(m) /\ m.owned = chain.owned /\ m.donated = chain.donated
       /\ \A k \in Reserves, b \in Tokens :
            m.accounted[k][b] = chain.accounted[k][b] + IF k = r /\ b = a THEN v ELSE 0
  BY <1>10 DEF Accounts
<1>12. IsChain(e) /\ e.accounted = m.accounted /\ e.owned = m.owned /\ e.donated = n
  BY <1>4, <1>7, <1>11, DonatedFrame
<1>13. Operation(e, <<l>>)
  <2>1. [Account(chain, r, a, v) EXCEPT !.donated = IF a = Base THEN @ - v ELSE @] = e
    BY <1>2, <1>3, <1>4, <1>11 DEF Donated
  <2> QED
    BY <1>1, <2>1 DEF RecognizeDonation
<1>14. Carries(chain, e, <<l>>, r, 0, 0)
  <2>1. Carries(chain, m, <<l>>, r, 0, 0)
    BY <1>9, DoesCarries
  <2> QED
    BY <1>12, <2>1, CarriesSame
<1>15. Unsigned(e) /\ Unsigned(m)
  <2>1. chain.accounted[r][a] \in Nat
    BY <1>5, <1>6 DEF Unsigned
  <2>2. Unsigned(m)
    BY <1>6, <1>9, <2>1
  <2> QED
    BY <1>12, <2>2 DEF Unsigned
<1>16. Holds(e, 0)
  <2>1. Meta \in Reserves /\ Base \in Tokens
    BY DEF Reserves, Tokens
  <2>2. m.accounted[Meta][Base] = chain.accounted[Meta][Base] + IF Meta = r /\ Base = a THEN v ELSE 0
    BY <1>11, <2>1
  <2>3. /\ chain.owned[Base][Meta] = chain.accounted[Meta][Base] + chain.donated + 0
        /\ \A t \in Reserves \cup Ious, h \in Holders : chain.owned[t][h] \in Nat
    BY <1>6 DEF Holds
  <2>4. chain.accounted[Meta][Base] \in Nat
    BY <1>6, <2>1 DEF Unsigned
  <2>5. e.owned[Base][Meta] = e.accounted[Meta][Base] + e.donated + 0
    BY <1>3, <1>5, <1>6, <1>11, <1>12, <2>2, <2>3, <2>4
  <2> QED
    BY <1>7, <1>11, <1>12, <2>3, <2>5 DEF Holds
<1>17. Settled(e, <<l>>)
  <2>1. Solvent(e)
    BY <1>12, <1>15, <1>16, SolventHolds
  <2> QED
    BY <1>12, <1>14, <2>1 DEF Settled
<1> QED
  BY <1>13, <1>17

\* A holder's transfer settles; base LP sent to the meta reserve is a donation.
LEMMA SendSettles ==
  ASSUME IsChain(chain), Solvent(chain), NEW t \in Reserves \cup Ious, NEW u \in Users,
         NEW to \in Holders, to = Meta => t = Base, NEW v \in Nat, Send(t, u, to, v)
  PROVE  \E c, s : Settled(c, s) /\ Operation(c, s)
<1>1. PICK l : l = Transfer(t, u, to, v)
  OBVIOUS
<1>2. PICK m : m = Pay(chain, t, u, to, v)
  OBVIOUS
<1>3. u \in Holders /\ u # Meta
  BY UserFacts
<1>4. Holds(chain, 0) /\ Unsigned(chain) /\ 0 \in Int /\ chain.donated \in Nat
  BY SolventStart DEF Holds
<1>5. Paid(chain, m, t, u, to, v) /\ Carries(chain, m, <<l>>, Base, 0, 0)
  BY <1>1, <1>2, <1>3, SendCarries
<1>6. PICK g : g = IF to = Meta THEN v ELSE 0
  OBVIOUS
<1>7. g \in Nat /\ g \in Int
  BY <1>6
<1>8. Holds(m, g)
  <2>1. g = 0 + IF t = Base THEN (IF to = Meta THEN v ELSE 0) - (IF u = Meta THEN v ELSE 0) ELSE 0
    BY <1>3, <1>6
  <2>2. u \in Holders => chain.owned[t][u] >= v
    BY DEF Send
  <2> QED
    BY <1>4, <1>5, <1>7, <2>1, <2>2, PaidHolds
<1>9. /\ IsChain(m) /\ m.accounted = chain.accounted /\ m.donated = chain.donated
  BY <1>5 DEF Paid
<1>10. PICK n : n = chain.donated + g
  OBVIOUS
<1>11. PICK e : e = Donated(m, n)
  OBVIOUS
<1>12. n \in Nat /\ n \in Int
  BY <1>4, <1>7, <1>10
<1>13. IsChain(e) /\ e.accounted = m.accounted /\ e.owned = m.owned /\ e.donated = n
  BY <1>9, <1>11, <1>12, DonatedFrame
<1>14. Operation(e, <<l>>)
  <2>1. CASE to = Meta
    <3>1. [m EXCEPT !.donated = @ + v] = e
      BY <1>6, <1>9, <1>10, <1>11, <2>1 DEF Donated
    <3> QED
      BY <1>1, <1>2, <2>1, <3>1 DEF Send
  <2>2. CASE to # Meta
    <3>1. e = m
      <4>1. n = m.donated
        BY <1>4, <1>6, <1>9, <1>10, <2>2
      <4>2. DOMAIN m = {"accounted", "owned", "fees", "donated"}
        BY <1>9 DEF IsChain
      <4>3. m = [x \in {"accounted", "owned", "fees", "donated"} |-> m[x]]
        BY <1>2, <4>2 DEF Pay
      <4>4. e = [x \in {"accounted", "owned", "fees", "donated"} |-> IF x = "donated" THEN n ELSE m[x]]
        BY <1>11, <4>2 DEF Donated
      <4>5. m["donated"] = n
        BY <4>1
      <4> QED
        BY <4>3, <4>4, <4>5
    <3> QED
      BY <1>1, <1>2, <2>2, <3>1 DEF Send
  <2> QED
    BY <2>1, <2>2
<1>15. Carries(chain, e, <<l>>, Base, 0, 0)
  BY <1>5, <1>13, CarriesSame
<1>16. Unsigned(e)
  BY <1>4, <1>9, <1>13 DEF Unsigned
<1>17. Holds(e, 0)
  <2>1. m.owned[Base][Meta] = m.accounted[Meta][Base] + m.donated + g
        /\ \A k \in Reserves \cup Ious, h \in Holders : m.owned[k][h] \in Nat
    BY <1>8 DEF Holds
  <2>2. m.accounted[Meta][Base] \in Int
    BY <1>9 DEF IsChain, Reserves, Tokens
  <2>3. e.owned[Base][Meta] = e.accounted[Meta][Base] + e.donated + 0
    BY <1>4, <1>7, <1>9, <1>10, <1>13, <2>1, <2>2
  <2> QED
    BY <1>12, <1>13, <2>1, <2>3 DEF Holds
<1>18. Settled(e, <<l>>)
  <2>1. Solvent(e)
    BY <1>13, <1>16, <1>17, SolventHolds
  <2> QED
    BY <1>13, <1>15, <2>1 DEF Settled
<1> QED
  BY <1>14, <1>18

\* A redemption price moves no token.
LEMMA PriceSettles ==
  ASSUME IsChain(chain), Solvent(chain), NEW a \in Tokens, NEW price \in Prices, SetRedemption(a, price)
  PROVE  \E c, s : Settled(c, s) /\ Operation(c, s)
<1>1. PICK l : l = [event |-> "ClearOracleRedemptionPriceChanged", addr |-> Oracle, asset |-> a, price |-> price]
  OBVIOUS
<1>2. Operation(chain, <<l>>)
  BY <1>1 DEF SetRedemption
<1>3. l \in OperationLog /\ l.event # "Transfer"
  BY <1>1 DEF OperationLog, PriceLog
<1>4. \A k, x : HoldingFlow(l, k, x) = 0 /\ TotalFlow(l, k, x) = 0 /\ SwapFlow(l, k) = 0
  BY <1>1 DEF HoldingFlow, TotalFlow, SwapFlow, Activity
<1>5. \A k \in Reserves : LpFlow(l, k) = (IF k = Base THEN 0 ELSE 0) /\ DebtFlow(l, k) = IF k = Base THEN 0 ELSE 0
  BY <1>3, <1>4, EventFlows
<1>6. \A k \in Reserves, x \in Tokens : chain.accounted[k][x] = chain.accounted[k][x] + HoldingFlow(l, k, x)
  <2>1. \A k \in Reserves, x \in Tokens : chain.accounted[k][x] \in Int
    BY DEF IsChain
  <2> QED
    BY <1>4, <2>1
<1>7. Carries(chain, chain, <<l>>, Base, 0, 0)
  <2>1. Does(chain, chain, l, Base, 0, 0)
    BY <1>3, <1>5, <1>6 DEF Does
  <2> QED
    BY <2>1, DoesCarries
<1> QED
  BY <1>2, <1>7 DEF Settled

\* n more of fees in the IOU t.
Fined(c, t, n) == [c EXCEPT !.fees[t] = @ + n]

\* Treasury fees change nothing else.
LEMMA FinedFrame ==
  ASSUME NEW c, IsChain(c), NEW t \in Ious, NEW n \in Int, NEW e, e = Fined(c, t, n)
  PROVE  IsChain(e) /\ e.accounted = c.accounted /\ e.owned = c.owned /\ e.donated = c.donated
<1>1. /\ DOMAIN c = {"accounted", "owned", "fees", "donated"} /\ c.fees \in [Ious -> Int]
  BY DEF IsChain
<1>2. /\ DOMAIN e = DOMAIN c /\ e.fees = [c.fees EXCEPT ![t] = c.fees[t] + n]
      /\ e.accounted = c.accounted /\ e.owned = c.owned /\ e.donated = c.donated
  BY <1>1 DEF Fined
<1>3. c.fees[t] + n \in Int
  BY <1>1
<1>4. e.fees \in [Ious -> Int]
  BY <1>1, <1>2, <1>3
<1> QED
  BY <1>1, <1>2, <1>4 DEF IsChain

\* Paying nothing changes nothing.
LEMMA PayNothing ==
  ASSUME NEW c, IsChain(c), NEW t \in Reserves \cup Ious, NEW from, NEW to, NEW e, e = Pay(c, t, from, to, 0)
  PROVE  IsChain(e) /\ e.accounted = c.accounted /\ e.owned = c.owned /\ e.donated = c.donated
<1>1. Paid(c, e, t, from, to, 0)
  BY PayFrame
<1>2. IsChain(e) /\ e.accounted = c.accounted /\ e.donated = c.donated
  BY <1>1 DEF Paid
<1>3. ASSUME NEW s \in Reserves \cup Ious, NEW h \in Holders PROVE e.owned[s][h] = c.owned[s][h]
  <2>1. c.owned[s][h] \in Int
    BY DEF IsChain
  <2> QED
    BY <1>1, <2>1 DEF Paid
<1>4. c.owned \in [Reserves \cup Ious -> [Holders -> Int]] /\ e.owned \in [Reserves \cup Ious -> [Holders -> Int]]
  BY <1>2 DEF IsChain
<1>5. \A s \in Reserves \cup Ious : e.owned[s] = c.owned[s]
  <2>1. ASSUME NEW s \in Reserves \cup Ious PROVE e.owned[s] = c.owned[s]
    <3>1. e.owned[s] \in [Holders -> Int] /\ c.owned[s] \in [Holders -> Int]
      BY <1>4
    <3> QED
      BY <1>3, <3>1
  <2> QED
    BY <2>1
<1> QED
  BY <1>2, <1>4, <1>5

\* Three logs in a row.
LEMMA ThreeInRow ==
  ASSUME NEW x, NEW y, NEW z
  PROVE  (<<x>> \o <<y>>) \o <<z>> = <<x, y, z>>
<1>1. PICK s : s = <<x>> \o <<y>>
  OBVIOUS
<1>2. Len(s) = 2 /\ s[1] = x /\ s[2] = y /\ s \in Seq({x, y, z})
  BY <1>1
<1>3. PICK t : t = s \o <<z>>
  OBVIOUS
<1>4. Len(t) = 3 /\ t[1] = x /\ t[2] = y /\ t[3] = z /\ t \in Seq({x, y, z})
  <2>1. PICK S, u : S = {x, y, z} /\ u = <<z>>
    OBVIOUS
  <2>2. s \in Seq(S) /\ u \in Seq(S) /\ Len(u) = 1 /\ u[1] = z
    BY <1>2, <2>1
  <2>3. /\ s \o u \in Seq(S) /\ Len(s \o u) = Len(s) + Len(u)
        /\ \A i \in 1..Len(s) : (s \o u)[i] = s[i]
        /\ \A i \in 1..Len(u) : (s \o u)[Len(s) + i] = u[i]
    <3>1. s \in Seq(S) /\ u \in Seq(S)
      BY <2>2
    <3> QED
      BY <3>1, Concatenated
  <2>4. t = s \o u
    BY <1>3, <2>1
  <2>5. 1 \in 1..Len(s) /\ 2 \in 1..Len(s) /\ 1 \in 1..Len(u) /\ Len(s) + 1 = 3 /\ Len(s) + Len(u) = 3
    BY <1>2, <2>2
  <2>6. t[1] = s[1] /\ t[2] = s[2] /\ t[Len(s) + 1] = u[1] /\ Len(t) = 3 /\ t \in Seq(S)
    BY <2>3, <2>4, <2>5
  <2> QED
    BY <1>2, <2>1, <2>2, <2>5, <2>6
<1>5. t = <<x, y, z>>
  BY <1>4
<1> QED
  BY <1>1, <1>3, <1>5

\* The logs of what is left owing.
MintLogs(t, u, iou, fee) ==
  IF iou = 0 THEN <<>>
  ELSE <<Transfer(t, Zero, u, iou - fee), Transfer(t, Zero, Treasury, fee),
         [event |-> "ClearIOUMinted", addr |-> t, fee |-> fee]>>

\* The shortfall of a swap, minted to the user and the treasury.
Owed(c, t, u, iou, fee) == Fined(Pay(Pay(c, t, Zero, u, iou - fee), t, Zero, Treasury, fee), t, fee)

\* What is left owing is minted to the user and the treasury.
LEMMA OwingMints ==
  ASSUME NEW c, NEW g \in Int, Holds(c, g), NEW r \in Reserves, NEW t \in Ious, Owner(t) = r, t # r,
         NEW u \in Users, NEW iou \in Nat, NEW fee \in Nat, fee <= iou, iou = 0 => fee = 0,
         NEW e, e = Owed(c, t, u, iou, fee), NEW mint, mint = MintLogs(t, u, iou, fee)
  PROVE  Carries(c, e, mint, r, 0, iou) /\ Holds(e, g) /\ e.accounted = c.accounted
<1>1. PICK f : f = Pay(c, t, Zero, u, iou - fee)
  OBVIOUS
<1>2. PICK h : h = Pay(f, t, Zero, Treasury, fee)
  OBVIOUS
<1>3. PICK l : l = [event |-> "ClearIOUMinted", addr |-> t, fee |-> fee]
  OBVIOUS
<1>4. PICK v \in Nat : v = iou - fee
  OBVIOUS
<1>5. u \in Holders /\ u # Meta /\ Treasury \in Holders /\ Treasury # Meta /\ t \in Reserves \cup Ious
  BY UserFacts
<1>6. Passed(c, f, <<Transfer(t, Zero, u, v)>>, r, 0, v, g)
  <2>1. f = Pay(c, t, Zero, u, v) /\ 0 = (IF t = r THEN v ELSE 0) /\ v = IF t = r THEN 0 ELSE v
    BY <1>1, <1>4
  <2> QED
    BY <1>5, <2>1, Mints
<1>7. IsChain(c) /\ IsChain(f) /\ Holds(f, g) /\ f.accounted = c.accounted
      /\ Carries(c, f, <<Transfer(t, Zero, u, v)>>, r, 0, v)
  BY <1>6 DEF Passed, Holds
<1>8. Passed(f, h, <<Transfer(t, Zero, Treasury, fee)>>, r, 0, fee, g)
  <2>1. 0 = (IF t = r THEN fee ELSE 0) /\ fee = IF t = r THEN 0 ELSE fee
    OBVIOUS
  <2>2. Holds(f, g)
    BY <1>7
  <2> QED
    BY <1>2, <1>5, <2>1, <2>2, Mints
<1>9. IsChain(h) /\ Holds(h, g) /\ h.accounted = c.accounted
      /\ Carries(f, h, <<Transfer(t, Zero, Treasury, fee)>>, r, 0, fee)
  BY <1>7, <1>8 DEF Passed, Holds
<1>10. e = Fined(h, t, fee) /\ IsChain(h) /\ fee \in Int
  BY <1>1, <1>2, <1>9 DEF Owed
<1>11. IsChain(e) /\ e.accounted = h.accounted /\ e.owned = h.owned /\ e.donated = h.donated
  BY <1>10, FinedFrame
<1>12. Holds(e, g)
  BY <1>9, <1>11 DEF Holds
<1>13. CASE iou = 0
  <2>1. f = Pay(c, t, Zero, u, 0) /\ h = Pay(f, t, Zero, Treasury, 0) /\ mint = <<>> /\ fee = 0
    <3>2. fee = 0
      BY <1>13
    <3>1. fee = 0 /\ iou - fee = 0
      BY <1>13, <3>2
    <3> QED
      BY <1>1, <1>2, <1>13, <3>1 DEF MintLogs
  <2>2. f.accounted = c.accounted /\ f.owned = c.owned
    BY <1>5, <1>7, <2>1, PayNothing
  <2>3. h.accounted = f.accounted /\ h.owned = f.owned
    BY <1>5, <1>7, <2>1, PayNothing
  <2>4. e.accounted = c.accounted /\ e.owned = c.owned
    BY <1>11, <2>2, <2>3
  <2>5. Carries(c, e, <<>>, r, 0, 0)
    BY <1>7, <1>11, <2>4, CarriesNone
  <2> QED
    BY <1>12, <1>13, <2>1, <2>4, <2>5
<1>14. CASE iou # 0
  <2>1. PICK a, b, z : /\ a = <<Transfer(t, Zero, u, v)>> /\ b = <<Transfer(t, Zero, Treasury, fee)>>
                       /\ z = <<l>>
    OBVIOUS
  <2>2. mint = (a \o b) \o z
    <3>1. PICK x, y : x = Transfer(t, Zero, u, v) /\ y = Transfer(t, Zero, Treasury, fee)
      OBVIOUS
    <3>2. mint = <<x, y, l>>
      <4>1. mint = <<Transfer(t, Zero, u, iou - fee), Transfer(t, Zero, Treasury, fee),
                     [event |-> "ClearIOUMinted", addr |-> t, fee |-> fee]>>
        BY <1>14 DEF MintLogs
      <4> QED
        BY <1>3, <1>4, <3>1, <4>1
    <3>3. (<<x>> \o <<y>>) \o <<l>> = <<x, y, l>>
      BY ThreeInRow
    <3>4. a = <<x>> /\ b = <<y>>
      BY <2>1, <3>1
    <3> QED
      BY <2>1, <3>2, <3>3, <3>4
  <2>3. Carries(h, e, z, r, 0, 0)
    <3>1. l \in OperationLog /\ l.event # "Transfer"
      BY <1>3 DEF OperationLog, FeeLog
    <3>2. \A k, x : HoldingFlow(l, k, x) = 0 /\ TotalFlow(l, k, x) = 0 /\ SwapFlow(l, k) = 0
      BY <1>3 DEF HoldingFlow, TotalFlow, SwapFlow, Activity
    <3>3. \A k \in Reserves : LpFlow(l, k) = (IF k = r THEN 0 ELSE 0) /\ DebtFlow(l, k) = IF k = r THEN 0 ELSE 0
      BY <3>1, <3>2, EventFlows
    <3>4. \A k \in Reserves, x \in Tokens : e.accounted[k][x] = h.accounted[k][x] + HoldingFlow(l, k, x)
      <4>1. \A k \in Reserves, x \in Tokens : h.accounted[k][x] \in Int
        BY <1>9 DEF IsChain
      <4> QED
        BY <1>11, <3>2, <4>1
    <3>5. Does(h, e, l, r, 0, 0)
      BY <1>11, <3>1, <3>3, <3>4 DEF Does
    <3> QED
      BY <1>9, <2>1, <3>5, DoesCarries
  <2>4. Carries(c, f, a, r, 0, v) /\ Carries(f, h, b, r, 0, fee)
    BY <1>7, <1>9, <2>1
  <2>5. Carries(c, h, a \o b, r, 0 + 0, v + fee)
    BY <1>7, <2>4, CarriesBoth
  <2>6. PICK w, x, y : w = a \o b /\ x = 0 + 0 /\ y = v + fee
    OBVIOUS
  <2>9. Carries(c, h, w, r, x, y)
    BY <2>5, <2>6
  <2>7. Carries(c, e, w \o z, r, x + 0, y + 0)
    BY <1>7, <2>3, <2>9, CarriesBoth
  <2>8. x + 0 = 0 /\ y + 0 = iou
    BY <1>4, <2>6
  <2> QED
    BY <1>9, <1>11, <1>12, <2>2, <2>6, <2>7, <2>8
<1> QED
  BY <1>13, <1>14

\* The event of an exchange carries its two legs.
LEMMA ExchangeDoes ==
  ASSUME NEW c, IsChain(c), NEW r \in Reserves, NEW in \in Tokens, NEW out \in Tokens, in # out,
         NEW v \in Nat, NEW iou \in Nat, iou <= v, NEW event \in {"Rebalanced", "Swap"},
         event = "Rebalanced" => iou = 0,
         NEW l, l = [event |-> event, addr |-> r, tokenIn |-> in, tokenOut |-> out,
                     in |-> v, out |-> v - iou, iouTotal |-> iou],
         NEW e, e = Account(Account(c, r, in, v), r, out, iou - v), NEW q, q = -iou
  PROVE  /\ Does(c, e, l, r, 0, q)
         /\ Unsigned(c) /\ c.accounted[r][out] >= v - iou => Unsigned(e)
         /\ HoldingFlow(l, Meta, Base) =
              IF r = Meta THEN IF in = Base THEN v ELSE IF out = Base THEN iou - v ELSE 0 ELSE 0
<1>1. PICK x \in Nat, y \in Int : x = v - iou /\ y = iou - v
  OBVIOUS
<1>2. AccountsTwo(c, e, r, in, v, out, y)
  <2>1. e = Account(Account(c, r, in, v), r, out, y)
    BY <1>1
  <2> QED
    BY <2>1, AccountTwo
<1>3. /\ IsChain(e) /\ e.owned = c.owned /\ e.donated = c.donated
      /\ \A k \in Reserves, b \in Tokens :
           e.accounted[k][b] = c.accounted[k][b] + (IF k = r /\ b = in THEN v ELSE 0)
                                                 + (IF k = r /\ b = out THEN y ELSE 0)
  BY <1>2 DEF AccountsTwo
<1>4. l \in OperationLog /\ l.event # "Transfer"
  BY <1>1 DEF OperationLog, ExchangeLog
<1>5. \A k \in Reserves, b \in Tokens :
        HoldingFlow(l, k, b) = IF k # r THEN 0 ELSE (IF b = in THEN v ELSE 0) - (IF b = out THEN x ELSE 0)
  BY <1>1 DEF HoldingFlow, Activity
<1>6. \A k \in Reserves : /\ LpFlow(l, k) = IF k = r THEN 0 ELSE 0
                          /\ DebtFlow(l, k) = IF k = r THEN q ELSE 0
  <2>1. \A k \in Reserves :
          /\ TotalFlow(l, k, "withdrawals") = 0 /\ TotalFlow(l, k, "deposits") = 0
          /\ TotalFlow(l, k, "redeemed") = 0 /\ TotalFlow(l, k, "minted") = 0
          /\ SwapFlow(l, k) = IF k = r THEN iou ELSE 0
    BY DEF TotalFlow, SwapFlow, Activity
  <2> QED
    BY <1>4, <2>1, EventFlows
<1>7. \A k \in Reserves, b \in Tokens : e.accounted[k][b] = c.accounted[k][b] + HoldingFlow(l, k, b)
  <2>1. \A k \in Reserves, b \in Tokens : c.accounted[k][b] \in Int
    BY DEF IsChain
  <2> QED
    BY <1>1, <1>3, <1>5, <2>1
<1>8. Does(c, e, l, r, 0, q)
  BY <1>3, <1>4, <1>6, <1>7 DEF Does
<1>9. Unsigned(c) /\ c.accounted[r][out] >= v - iou => Unsigned(e)
  BY <1>1, <1>3 DEF Unsigned
<1>10. Meta \in Reserves /\ Base \in Tokens
  BY DEF Reserves, Tokens
<1> QED
  BY <1>1, <1>5, <1>8, <1>9, <1>10

\* A swap settles, with its shortfall owed in IOUs, or a rebalance without one.
LEMMA ExchangeSettles ==
  ASSUME IsChain(chain), Solvent(chain), setup \in Setups, NEW r \in Reserves, NEW u \in Users,
         NEW in \in AssetsOf(r), NEW out \in AssetsOf(r), NEW v \in Nat, NEW iou \in Nat,
         NEW event \in {"Rebalanced", "Swap"}, event = "Rebalanced" => iou = 0,
         Exchange(r, in, out, u, v, iou, event)
  PROVE  \E c, s : Settled(c, s) /\ Operation(c, s)
<1>1. PICK tok : tok = Iou(r, out)
  OBVIOUS
<1>2. PICK fee : fee = iou \div 2
  OBVIOUS
<1>3. PICK l : l = [event |-> event, addr |-> r, tokenIn |-> in, tokenOut |-> out,
                    in |-> v, out |-> v - iou, iouTotal |-> iou]
  OBVIOUS
<1>4. PICK k : k = Move(chain, in, u, Meta, v)
  OBVIOUS
<1>5. PICK m : m = Move(k, out, Meta, u, v - iou)
  OBVIOUS
<1>6. PICK n : n = Owed(m, tok, u, iou, fee)
  OBVIOUS
<1>7. PICK e : e = Account(Account(n, r, in, v), r, out, iou - v)
  OBVIOUS
<1>8. PICK s, t : s = MoveLogs(in, u, Meta, v) /\ t = MoveLogs(out, Meta, u, v - iou)
  OBVIOUS
<1>9. PICK mint : mint = MintLogs(tok, u, iou, fee)
  OBVIOUS
<1>10. PICK logs \in EitherOrder(mint, <<l>>) :
         /\ Operation(e, (s \o t) \o logs)
         /\ in # out /\ iou <= v /\ Has(in, u, v) /\ chain.accounted[r][out] >= v - iou
  <2>1. e = Account(Account([Pay(Pay(Move(Move(chain, in, u, Meta, v), out, Meta, u, v - iou), tok, Zero, u, iou - fee),
                                 tok, Zero, Treasury, fee) EXCEPT !.fees[tok] = @ + fee], r, in, v), r, out, iou - v)
    BY <1>4, <1>5, <1>6, <1>7 DEF Fined, Owed
  <2> QED
    BY <1>1, <1>2, <1>3, <1>8, <1>9, <2>1 DEF Exchange, MintLogs
<1>11. /\ in \in Tokens /\ out \in Tokens /\ (in = Base \/ out = Base => r = Meta) /\ Base # Meta
       /\ tok \in Ious /\ Owner(tok) = r /\ tok # r
  BY <1>1, AssetFacts
<1>12. fee \in Nat /\ fee <= iou /\ (iou = 0 => fee = 0)
  BY <1>2
<1>13. u \in Holders /\ u # Meta
  BY UserFacts
<1>14. Holds(chain, 0) /\ Unsigned(chain) /\ 0 \in Int /\ chain.accounted[r][out] \in Nat
  BY <1>11, SolventStart DEF Unsigned
<1>15. PICK x \in Nat : x = v - iou
  BY <1>10
<1>16. PICK g, h : g = (IF in = Base THEN 0 + v ELSE 0) /\ h = IF out = Base THEN g - x ELSE g
  OBVIOUS
<1>17. g \in Int /\ h \in Int
  BY <1>16
<1>18. Passed(chain, k, s, r, 0, 0, g)
  <2>1. in = Base => chain.owned[Base][u] >= v
    BY <1>10 DEF Has
  <2>2. g = IF in = Base THEN 0 + v ELSE 0
    BY <1>16
  <2> QED
    BY <1>4, <1>8, <1>14, <2>1, <2>2, UserPays
<1>19. Holds(k, g) /\ IsChain(k) /\ Carries(chain, k, s, r, 0, 0) /\ k.accounted = chain.accounted
  BY <1>18 DEF Passed, Holds
<1>20. Passed(k, m, t, r, 0, 0, h)
  <2>1. out = Base => k.owned[Base][Meta] >= x
    <3>1. SUFFICES ASSUME out = Base PROVE k.owned[Base][Meta] >= x
      OBVIOUS
    <3>2. k.accounted[Meta][Base] \in Nat /\ k.accounted[Meta][Base] >= x
      BY <1>10, <1>11, <1>14, <1>15, <1>19, <3>1
    <3>3. x + g >= x
      BY <1>16
    <3> QED
      BY <1>17, <1>19, <3>2, <3>3, MetaHas
  <2>2. h = IF out = Base THEN g - x ELSE g
    BY <1>16
  <2>3. Holds(k, g) /\ m = Move(k, out, Meta, u, x) /\ t = MoveLogs(out, Meta, u, x)
    BY <1>5, <1>8, <1>15, <1>19
  <2> QED
    BY <1>13, <1>17, <2>1, <2>2, <2>3, MetaPays
<1>21. Holds(m, h) /\ IsChain(m) /\ Carries(k, m, t, r, 0, 0) /\ m.accounted = chain.accounted
  BY <1>19, <1>20 DEF Passed, Holds
<1>22. Carries(chain, m, s \o t, r, 0, 0)
  BY <1>19, <1>21, CarriesAfter
<1>23. Carries(m, n, mint, r, 0, iou) /\ Holds(n, h) /\ n.accounted = m.accounted
  <2>1. Holds(m, h)
    BY <1>21
  <2> QED
    BY <1>6, <1>9, <1>11, <1>12, <1>17, <2>1, OwingMints
<1>24. PICK q : q = -iou
  OBVIOUS
<1>25. IsChain(n)
  BY <1>23 DEF Holds
<1>26. /\ Does(n, e, l, r, 0, q)
       /\ (Unsigned(n) /\ n.accounted[r][out] >= v - iou => Unsigned(e))
       /\ HoldingFlow(l, Meta, Base) =
            IF r = Meta THEN IF in = Base THEN v ELSE IF out = Base THEN iou - v ELSE 0 ELSE 0
  <2>1. in # out /\ iou <= v
    BY <1>10
  <2> QED
    BY <1>3, <1>7, <1>11, <1>24, <1>25, <2>1, ExchangeDoes
<1>27. Unsigned(e)
  <2>1. Unsigned(n) /\ n.accounted[r][out] >= v - iou
    BY <1>10, <1>14, <1>21, <1>23 DEF Unsigned
  <2> QED
    BY <1>26, <2>1
<1>28. Settled(e, (s \o t) \o logs)
  <2>1. HoldingFlow(l, Meta, Base) = h
    BY <1>10, <1>11, <1>15, <1>16, <1>26
  <2>2. 0 + 0 = 0 /\ iou + q = 0
    BY <1>24
  <2>3. Does(n, e, l, r, 0, q) /\ Holds(n, h) /\ Carries(m, n, mint, r, 0, iou)
    BY <1>23, <1>26
  <2>4. PICK z : z = s \o t
    OBVIOUS
  <2>5. Carries(chain, m, z, r, 0, 0)
    BY <1>22, <2>4
  <2>6. Settled(e, z \o logs)
    BY <1>10, <1>17, <1>27, <2>1, <2>2, <2>3, <2>5, Settles
  <2> QED
    BY <2>4, <2>6
<1> QED
  BY <1>10, <1>28

\* Every operation leaves the contracts solvent, and its logs say what it did.
LEMMA OperateSettles ==
  ASSUME IsChain(chain), Solvent(chain), setup \in Setups, Operate
  PROVE  \E c, s : Settled(c, s) /\ Operation(c, s)
<1>1. \A v \in Amounts : v \in Nat
  BY AmountAssumption
<1>2. CASE \E a \in Tokens \ Reserves, price \in Prices : SetRedemption(a, price)
  BY <1>2, PriceSettles
<1>3. ASSUME NEW r \in Reserves, NEW u \in Users, NEW basket \in Baskets,
             Deposit(r, u, basket) \/ Withdraw(r, u, basket)
      PROVE  \E c, s : Settled(c, s) /\ Operation(c, s)
  BY <1>3, DepositSettles, WithdrawSettles
<1>4. ASSUME NEW r \in Reserves, NEW u \in Users, NEW a \in AssetsOf(r), NEW v \in Amounts, NEW fee \in {0, 1},
             SingleAssetDeposit(r, a, u, v, fee) \/ SingleAssetWithdraw(r, a, u, v, fee)
      PROVE  \E c, s : Settled(c, s) /\ Operation(c, s)
  <2>1. v \in Nat /\ fee \in Nat
    BY <1>1
  <2>2. CASE SingleAssetDeposit(r, a, u, v, fee)
    BY <2>1, <2>2, SingleDepositSettles
  <2>3. CASE SingleAssetWithdraw(r, a, u, v, fee)
    BY <2>1, <2>3, SingleWithdrawSettles
  <2> QED
    BY <1>4, <2>2, <2>3
<1>5. ASSUME NEW r \in Reserves, NEW u \in Users, NEW in \in AssetsOf(r), NEW out \in AssetsOf(r),
             NEW v \in Amounts,
             \/ Exchange(r, in, out, u, v, 0, "Rebalanced")
             \/ \E iou \in {0, v} : Exchange(r, in, out, u, v, iou, "Swap")
      PROVE  \E c, s : Settled(c, s) /\ Operation(c, s)
  <2>1. PICK iou \in Nat, event \in {"Rebalanced", "Swap"} :
           (event = "Rebalanced" => iou = 0) /\ Exchange(r, in, out, u, v, iou, event)
    BY <1>1, <1>5
  <2>2. v \in Nat
    BY <1>1
  <2> QED
    BY <2>1, <2>2, ExchangeSettles
<1>6. ASSUME NEW r \in Reserves, NEW u \in Users, NEW a \in AssetsOf(r), NEW v \in Amounts,
             \/ FlashLoan(r, a, u, 1) \/ RecognizeDonation(r, a, v)
             \/ MintIou(r, a, u, v)   \/ RedeemIou(r, a, u, v)
      PROVE  \E c, s : Settled(c, s) /\ Operation(c, s)
  <2>1. v \in Nat /\ 1 \in Nat
    BY <1>1
  <2>2. CASE FlashLoan(r, a, u, 1)
    BY <2>1, <2>2, FlashLoanSettles
  <2>3. CASE RecognizeDonation(r, a, v)
    BY <2>1, <2>3, RecognizeSettles
  <2>4. CASE MintIou(r, a, u, v)
    BY <2>1, <2>4, MintIouSettles
  <2>5. CASE RedeemIou(r, a, u, v)
    BY <2>1, <2>5, RedeemIouSettles
  <2> QED
    BY <1>6, <2>2, <2>3, <2>4, <2>5
<1>7. ASSUME NEW u \in Users, NEW t \in Reserves \cup Ious, NEW v \in Amounts,
             (\E to \in Users : Send(t, u, to, v)) \/ (t = Base /\ Send(Base, u, Meta, v))
      PROVE  \E c, s : Settled(c, s) /\ Operation(c, s)
  <2>1. PICK to \in Holders : (to = Meta => t = Base) /\ Send(t, u, to, v)
    BY <1>7, AddressAssumption DEF Holders
  <2>2. v \in Nat
    BY <1>1
  <2> QED
    BY <2>1, <2>2, SendSettles
<1> QED
  BY <1>2, <1>3, <1>4, <1>5, <1>6, <1>7 DEF Operate

-----------------------------------------------------------------------------
(* The invariant.                                                          *)

\* What the deployments say does not change.
LEMMA SetupFixed ==
  ASSUME setup' = setup
  PROVE  /\ LaunchLogs' = LaunchLogs /\ Followed' = Followed
         /\ \A r : ListOf(r)' = ListOf(r) /\ AssetsOf(r)' = AssetsOf(r)
         /\ \A r, j : Seen(r, j)' = Seen(r, j)
         /\ Directory(db') => Directory(db)'
         /\ \A j : LaunchedTo(db', j) => LaunchedTo(db, j)'
<1>1. \A r : ListOf(r)' = ListOf(r) /\ AssetsOf(r)' = AssetsOf(r)
  BY DEF ListOf, AssetsOf
<1>2. LaunchLogs' = LaunchLogs /\ Followed' = Followed
  BY DEF LaunchLogs, Followed
<1>3. \A r, j : Seen(r, j)' = Seen(r, j)
  BY DEF Seen
<1>4. ASSUME NEW r, NEW m, ListedUpTo(db', r, m) PROVE ListedUpTo(db, r, m)'
  BY <1>1, <1>4 DEF ListedUpTo, Listed
<1>5. Directory(db') => Directory(db)'
  BY <1>1, <1>2, <1>4 DEF Directory
<1>6. ASSUME NEW j, LaunchedTo(db', j) PROVE LaunchedTo(db, j)'
  BY <1>3, <1>4, <1>6 DEF LaunchedTo
<1> QED
  BY <1>1, <1>2, <1>3, <1>5, <1>6

\* The first state.
LEMMA InitCore ==
  ASSUME Init
  PROVE  CoreInv /\ Solvent(chain)
<1>1. /\ setup \in Setups /\ block = 0 /\ day = 1 /\ pending = LaunchLogs /\ db = EmptyDb
      /\ chain = [accounted |-> [r \in Reserves |-> ZeroOf(Tokens)],
                  owned     |-> [t \in Reserves \cup Ious |-> ZeroOf(Holders)],
                  fees      |-> ZeroOf(Ious), donated   |-> 0]
  BY DEF Init
<1>2. IsChain(chain) /\ BlankChain(chain)
  BY <1>1 DEF IsChain, BlankChain, ZeroOf
<1>3. Solvent(chain)
  <2>1. Base \in Reserves \cup Ious /\ Meta \in Holders /\ Meta \in Reserves /\ Base \in Tokens
    BY DEF Reserves, Holders, Tokens
  <2> QED
    BY <1>2, <2>1 DEF BlankChain, Solvent
<1>4. IsDb(db)
  <2>1. DOMAIN db = Tables
    BY <1>1 DEF EmptyDb, Tables
  <2>2. /\ db.reserves \in [Reserves -> ReserveRow] /\ \A r \in Reserves : db.reserves[r].kind = None
    BY <1>1 DEF EmptyDb, ReserveRow
  <2>3. /\ db.assets \in [Reserves -> [Tokens -> AssetRow]]
        /\ \A r \in Reserves, a \in Tokens : db.assets[r][a].iou = None
    BY <1>1 DEF EmptyDb, AssetRow
  <2>4. /\ db.holdings \in [Reserves -> [Tokens -> Int]]
        /\ db.balances \in [Reserves \cup Ious -> [Holders -> Int]]
        /\ db.iouSupply \in [Ious -> Int] /\ db.iouFees \in [Ious -> Int]
        /\ db.redemption \in [Tokens -> Prices \cup {None}] /\ db.swapIou \in [Reserves -> Int]
    BY <1>1 DEF EmptyDb, ZeroOf
  <2>5. /\ DOMAIN db.values = Reserves /\ \A r \in Reserves : DOMAIN db.values[r] = Days
        /\ DOMAIN db.details = Reserves
        /\ \A r \in Reserves : /\ DOMAIN db.details[r] = Tokens
                               /\ \A a \in Tokens : DOMAIN db.details[r][a] = Days
    BY <1>1 DEF EmptyDb
  <2> QED
    BY <2>1, <2>2, <2>3, <2>4, <2>5 DEF IsDb, IsTable, Tables
<1>5. Blank(db)
  BY <1>1 DEF Blank, EmptyDb, ZeroOf, Totals
<1>6. LaunchedTo(db, 0)
  <2>1. \A r \in Reserves, a \in Tokens : db.assets[r][a].iou = None /\ db.assets[r][a].position = -1
    BY <1>1 DEF EmptyDb
  <2>2. ASSUME NEW r \in Reserves PROVE ListedUpTo(db, r, 0)
    <3>1. ListOf(r) \in Seq(Tokens)
      BY <1>1, Lists
    <3>2. \A i \in DOMAIN ListOf(r) : ListOf(r)[i] \in Tokens /\ ~ (i <= 0)
      BY <3>1
    <3>3. Listed(db, r) = {}
      BY <2>1 DEF Listed
    <3>4. Cardinality(Listed(db, r)) = 0
      BY <3>3, FS_EmptySet
    <3> QED
      BY <2>1, <3>2, <3>4 DEF ListedUpTo
  <2>3. \A r \in Reserves : Seen(r, 0) = 0
    <3>1. Width \in Nat
      BY <1>1, LaunchAt
    <3> QED
      BY <3>1 DEF Seen
  <2>4. Width \in Nat
    BY <1>1, LaunchAt
  <2> QED
    BY <2>2, <2>3, <2>4 DEF LaunchedTo
<1>7. pending \in Seq(LaunchLog) /\ Len(pending) = Steps /\ Steps \in Nat
  BY <1>1, LaunchAt DEF Steps
<1>8. Launching
  <2>1. 0 \in 0..Steps /\ Len(pending) = Steps - 0 /\ \A i \in 1..Steps - 0 : pending[i] = LaunchLogs[0 + i]
    BY <1>1, <1>7
  <2> QED
    BY <1>1, <1>2, <1>5, <1>6, <2>1 DEF Launching
<1>9. block \in 0..MaxOps /\ day \in Days
  BY <1>1, BoundAssumption DEF Days
<1> QED
  BY <1>1, <1>2, <1>3, <1>4, <1>7, <1>8, <1>9 DEF CoreInv

\* A log of the deployments.
LEMMA LaunchStep ==
  ASSUME CoreInv, Solvent(chain), block = 0, Handle \/ PassBy
  PROVE  /\ db' = Launch(db, log) /\ UNCHANGED <<chain, setup, block, day>>
         /\ CoreInv' /\ Blank(db')
<1>1. /\ setup \in Setups /\ IsDb(db) /\ IsChain(chain) /\ day \in Days
      /\ pending \in Seq(LaunchLog) /\ Launching /\ block \in 0..MaxOps
  BY DEF CoreInv
<1>2. pending # <<>>
  BY DEF Handle, PassBy, Apply, HandleTransfer, HandleAssetAdded, HandleNewClearReserve, HandleReserveDeposit,
         HandleSingleAssetDeposit, HandleReserveWithdraw, HandleSingleAssetWithdraw, HandleRebalanced,
         HandleReserveSwap, HandleFlashLoan, HandleIOUMinted, HandleIOURedeemed, HandleIouTreasuryFee,
         HandleDonationRecognized, HandleOracleRedemption
<1>3. /\ log \in LaunchLog /\ log = pending[1] /\ Tail(pending) \in Seq(LaunchLog)
      /\ Len(Tail(pending)) = Len(pending) - 1 /\ Len(pending) \in Nat /\ Len(pending) >= 1
      /\ \A i \in 1..Len(pending) - 1 : Tail(pending)[i] = pending[i + 1]
  <2>1. /\ Head(pending) \in LaunchLog /\ Head(pending) = pending[1] /\ Tail(pending) \in Seq(LaunchLog)
        /\ Len(Tail(pending)) = Len(pending) - 1 /\ Len(pending) \in Nat /\ Len(pending) >= 1
    BY <1>1, <1>2
  <2>2. \A i \in 1..Len(pending) - 1 : Tail(pending)[i] = pending[i + 1]
    BY <1>1, <1>2
  <2> QED
    BY <2>1, <2>2 DEF log
<1>4. db' = Launch(db, log) /\ UNCHANGED <<chain, setup, block, day>> /\ pending' = Tail(pending)
  BY <1>3, LaunchHandled
<1>5. PICK j \in 0..Steps : /\ Len(pending) = Steps - j
                            /\ \A i \in 1..Steps - j : pending[i] = LaunchLogs[j + i]
                            /\ LaunchedTo(db, j)
  BY <1>1 DEF Launching
<1>6. Steps \in Nat
  BY <1>1, LaunchAt DEF Steps
<1>7. j \in Nat /\ j < Steps /\ log = LaunchLogs[j + 1]
  BY <1>3, <1>5, <1>6
<1>8. Blank(db) /\ BlankChain(chain) /\ day = 1
  BY <1>1 DEF Launching
<1>9. IsDb(db') /\ Blank(db') /\ LaunchedTo(db', j + 1)
  <2>1. db' = Launch(db, LaunchLogs[j + 1])
    BY <1>4, <1>7
  <2> QED
    BY <1>1, <1>5, <1>7, <1>8, <2>1, LaunchNext
<1>10. LaunchedTo(db, j + 1)' /\ LaunchLogs' = LaunchLogs
  BY <1>4, <1>9, SetupFixed
<1>11. Launching'
  <2>1. Blank(db)' /\ BlankChain(chain)'
    BY <1>4, <1>8, <1>9 DEF Blank, BlankChain
  <2>2. j + 1 \in 0..Steps /\ Len(pending') = Steps - (j + 1)
    BY <1>3, <1>4, <1>5, <1>6, <1>7
  <2>3. \A i \in 1..Steps - (j + 1) : pending'[i] = LaunchLogs'[(j + 1) + i]
    <3>1. ASSUME NEW i \in 1..Steps - (j + 1) PROVE pending'[i] = LaunchLogs[(j + 1) + i]
      <4>1. i \in 1..Len(pending) - 1 /\ i + 1 \in 1..Steps - j /\ j + (i + 1) = (j + 1) + i
        <5>1. PICK n \in Nat, w \in Nat : n = Steps /\ w = Len(pending) /\ w = n - j
          BY <1>3, <1>5, <1>6
        <5>2. i \in 1..n - (j + 1)
          BY <5>1
        <5>3. i \in 1..w - 1 /\ i + 1 \in 1..n - j /\ j + (i + 1) = (j + 1) + i
          BY <1>7, <5>1, <5>2
        <5> QED
          BY <5>1, <5>3
      <4> QED
        BY <1>3, <1>4, <1>5, <4>1
    <3> QED
      BY <1>10, <3>1
  <2> QED
    BY <1>4, <1>8, <1>10, <2>1, <2>2, <2>3 DEF Launching
<1>12. CoreInv'
  <2>1. IsDb(db)' /\ IsChain(chain)'
    BY <1>1, <1>4, <1>9 DEF IsDb, IsChain
  <2> QED
    BY <1>1, <1>3, <1>4, <1>11, <2>1 DEF CoreInv
<1> QED
  BY <1>4, <1>9, <1>12

\* The tables have the directory when nothing of the deployments is left.
LEMMA CoreDirectory ==
  ASSUME CoreInv, block > 0 \/ pending = <<>>
  PROVE  Directory(db) /\ pending \in Seq(OperationLog)
<1>1. CASE block = 0
  <2>1. Launching /\ setup \in Setups /\ pending = <<>>
    BY <1>1 DEF CoreInv
  <2>2. PICK j \in 0..Steps : Len(pending) = Steps - j /\ LaunchedTo(db, j)
    BY <2>1 DEF Launching
  <2>3. j = Steps
    BY <2>1, <2>2, LaunchAt DEF Steps
  <2> QED
    BY <2>1, <2>2, <2>3, LaunchDone
<1>2. CASE block # 0
  BY <1>2 DEF CoreInv, Running
<1> QED
  BY <1>1, <1>2

\* An operation starts at rest and settles.
LEMMA OperateStep ==
  ASSUME CoreInv, Solvent(chain), Operate
  PROVE  /\ CoreInv' /\ Solvent(chain') /\ block' = block + 1 /\ day' \in {day, day + 1} \cap Days
         /\ UNCHANGED <<setup, db>> /\ pending = <<>>
         /\ \E r : Carries(chain, chain', pending', r, 0, 0)
<1>1. /\ setup \in Setups /\ IsDb(db) /\ IsChain(chain) /\ block \in 0..MaxOps
  BY DEF CoreInv
<1>2. PICK c, s : Settled(c, s) /\ Operation(c, s)
  BY <1>1, OperateSettles
<1>3. /\ pending = <<>> /\ block < MaxOps /\ block' = block + 1 /\ day' \in {day, day + 1} \cap Days
      /\ chain' = c /\ pending' = s /\ UNCHANGED <<setup, db>>
  BY <1>2 DEF Operation
<1>4. IsChain(c) /\ Solvent(c) /\ \E r : Carries(chain, c, s, r, 0, 0)
  BY <1>2 DEF Settled
<1>5. s \in Seq(OperationLog)
  BY <1>4 DEF Carries
<1>6. Directory(db)
  BY <1>3, CoreDirectory
<1>7. Directory(db)'
  BY <1>3, <1>6, SetupFixed
<1>8. block' \in 0..MaxOps /\ block' # 0
  BY <1>1, <1>3, BoundAssumption
<1>9. IsDb(db)' /\ IsChain(chain)'
  BY <1>1, <1>3, <1>4 DEF IsDb, IsChain
<1>10. CoreInv'
  BY <1>1, <1>3, <1>5, <1>7, <1>8, <1>9 DEF CoreInv, Running
<1> QED
  BY <1>3, <1>4, <1>10

\* A log of an operation is handled.
LEMMA HandleStep ==
  ASSUME CoreInv, Solvent(chain), block > 0, Handle
  PROVE  /\ Effect(db, db', log) /\ History(db, db', log) /\ Source(log) \in setup.indexed
         /\ UNCHANGED <<chain, setup, block, day>> /\ pending' = Tail(pending)
         /\ pending \in Seq(OperationLog) /\ pending # <<>> /\ log \in OperationLog
         /\ CoreInv'
<1>1. /\ setup \in Setups /\ IsDb(db) /\ IsChain(chain) /\ day \in Days
      /\ pending \in Seq(OperationLog) /\ Directory(db) /\ block \in 0..MaxOps
  BY DEF CoreInv, Running
<1>2. pending # <<>>
  BY DEF Handle, Apply, HandleTransfer, HandleAssetAdded, HandleNewClearReserve, HandleReserveDeposit,
         HandleSingleAssetDeposit, HandleReserveWithdraw, HandleSingleAssetWithdraw, HandleRebalanced,
         HandleReserveSwap, HandleFlashLoan, HandleIOUMinted, HandleIOURedeemed, HandleIouTreasuryFee,
         HandleDonationRecognized, HandleOracleRedemption
<1>3. log \in OperationLog /\ Tail(pending) \in Seq(OperationLog)
  BY <1>1, <1>2 DEF log
<1>4. /\ Effect(db, db', log) /\ History(db, db', log) /\ Source(log) \in setup.indexed
      /\ UNCHANGED <<chain, setup, block, day>> /\ pending' = Tail(pending)
  BY <1>1, <1>3, LogHandled
<1>5. Directory(db')
  BY <1>1, <1>4, DirectoryKept
<1>6. Directory(db)'
  BY <1>4, <1>5, SetupFixed
<1>7. IsDb(db')
  BY <1>4 DEF Effect
<1>8. IsDb(db)' /\ IsChain(chain)'
  BY <1>1, <1>4, <1>7 DEF IsDb, IsChain
<1>9. CoreInv'
  BY <1>1, <1>3, <1>4, <1>6, <1>8 DEF CoreInv, Running
<1> QED
  BY <1>1, <1>2, <1>3, <1>4, <1>9

\* A log of an operation passes by.
LEMMA PassByStep ==
  ASSUME CoreInv, Solvent(chain), block > 0, PassBy
  PROVE  /\ Source(log) \notin setup.indexed
         /\ UNCHANGED <<chain, setup, block, day, db>> /\ pending' = Tail(pending)
         /\ pending \in Seq(OperationLog) /\ pending # <<>> /\ log \in OperationLog
         /\ CoreInv'
<1>1. /\ setup \in Setups /\ IsDb(db) /\ IsChain(chain) /\ day \in Days
      /\ pending \in Seq(OperationLog) /\ Directory(db) /\ block \in 0..MaxOps
  BY DEF CoreInv, Running
<1>2. /\ pending # <<>> /\ Source(log) \notin setup.indexed
      /\ UNCHANGED <<chain, setup, block, day, db>> /\ pending' = Tail(pending)
  BY DEF PassBy
<1>3. log \in OperationLog /\ Tail(pending) \in Seq(OperationLog)
  BY <1>1, <1>2 DEF log
<1>4. Directory(db)'
  BY <1>1, <1>2, SetupFixed
<1>5. IsDb(db)' /\ IsChain(chain)'
  BY <1>1, <1>2 DEF IsDb, IsChain
<1>6. CoreInv'
  BY <1>1, <1>2, <1>3, <1>4, <1>5 DEF CoreInv, Running
<1> QED
  BY <1>1, <1>2, <1>3, <1>6

-----------------------------------------------------------------------------
(* The tables and the contracts.                                           *)

\* With nothing left in the queue s, the tables say what the contracts hold.
Even(d, c) ==
  /\ \A r \in Followed, a \in Tokens : d.holdings[r][a] = c.accounted[r][a]
  /\ \A t \in Reserves \cup Ious : Owner(t) \in Followed =>
       \A h \in Holders : d.balances[t][h] = c.owned[t][h]
  /\ \A r \in Followed : LpGap(d, r) = 0 /\ DebtGap(d, r) = 0

\* The gaps are integers.
LEMMA GapTypes ==
  ASSUME NEW d, IsDb(d), NEW r \in Reserves
  PROVE  LpGap(d, r) \in Int /\ DebtGap(d, r) \in Int /\ DebtOf(d, r) \in Int
<1>1. /\ d.reserves \in [Reserves -> ReserveRow] /\ d.assets \in [Reserves -> [Tokens -> AssetRow]]
      /\ d.swapIou \in [Reserves -> Int]
  BY DbType
<1>2. /\ d.reserves[r].deposits \in Nat /\ d.reserves[r].withdrawals \in Nat /\ d.reserves[r].supply \in Int
      /\ d.reserves[r].minted \in Nat /\ d.reserves[r].redeemed \in Nat /\ d.swapIou[r] \in Int
  BY <1>1 DEF ReserveRow
<1>3. \A a \in Tokens : d.assets[r][a].iouSupply \in Int
  BY <1>1 DEF AssetRow
<1>4. DebtOf(d, r) \in Int
  <2> DEFINE f == [a \in Listed(d, r) |-> d.assets[r][a].iouSupply]
  <2>1. f \in [Listed(d, r) -> Int]
    BY <1>3 DEF Listed
  <2>2. IsFiniteSet(Listed(d, r))
    BY ListedFinite
  <2> HIDE DEF f
  <2>3. SumFunction(f) \in Int
    BY <2>1, <2>2, SumType
  <2> QED
    BY <2>3 DEF DebtOf, f
<1> QED
  BY <1>2, <1>4 DEF LpGap, DebtGap

\* The reserve and the asset of an IOU.
LEMMA IouParts ==
  ASSUME setup \in Setups, NEW t \in Ious
  PROVE  t[1] \in Reserves /\ t[2] \in AssetsOf(t[1]) /\ t[2] \in Tokens /\ t = Iou(t[1], t[2])
<1>1. \/ \E a \in ToSet(BaseAssets) : t = <<Base, a>>
      \/ t = <<Meta, Native>> \/ t = <<Meta, Base>>
  BY DEF Ious, Iou
<1>2. AssetsOf(Base) = ToSet(BaseAssets) /\ AssetsOf(Meta) = ToSet(setup.legs)
  BY AddressAssumption DEF AssetsOf, ListOf
<1>3. Native \in ToSet(setup.legs) /\ Base \in ToSet(setup.legs)
  <2>1. setup.legs = <<Native, Base>> \/ setup.legs = <<Base, Native>>
    BY SetupAssumption
  <2> QED
    BY <2>1 DEF ToSet
<1> QED
  BY <1>1, <1>2, <1>3 DEF Iou, Reserves, Tokens

\* The debt of a reserve changes by what is minted and burnt of its IOUs.
LEMMA DebtMoves ==
  ASSUME NEW d, IsDb(d), NEW e, NEW l \in OperationLog, setup \in Setups, NEW r \in Followed,
         Directory(d), Effect(d, e, l)
  PROVE  DebtGap(e, r) = DebtGap(d, r) - DebtFlow(l, r) /\ DebtFlow(l, r) \in Int
<1>1. r \in Reserves /\ IsDb(e)
  BY DEF Followed, Effect
<1>2. Listed(e, r) = Listed(d, r)
  BY <1>1, DirectoryKept
<1>3. Listed(d, r) = AssetsOf(r)
  BY FullList
<1>4. PICK S : S = Listed(d, r) /\ IsFiniteSet(S)
  BY ListedFinite
<1>5. /\ d.assets \in [Reserves -> [Tokens -> AssetRow]]
      /\ \A s \in Reserves, a \in Tokens : d.assets[s][a].iou \in {None, Iou(s, a)}
  BY DbType
<1>6. e.assets \in [Reserves -> [Tokens -> AssetRow]]
  BY <1>1, DbType
<1>7. PICK f, g : /\ f = [a \in S |-> d.assets[r][a].iouSupply]
                  /\ g = [a \in S |-> e.assets[r][a].iouSupply]
  OBVIOUS
<1>8. S \subseteq Tokens /\ \A a \in S : d.assets[r][a].iou = Iou(r, a)
  BY <1>1, <1>4, <1>5 DEF Listed
<1>9. f \in [S -> Int] /\ g \in [S -> Int]
  BY <1>1, <1>5, <1>6, <1>7, <1>8 DEF AssetRow
<1>10. DebtOf(d, r) = SumFunction(f) /\ DebtOf(e, r) = SumFunction(g)
  BY <1>2, <1>4, <1>7 DEF DebtOf
<1>11. \A a \in S : g[a] = f[a] + SupplyFlow(l, Iou(r, a)) /\ SupplyFlow(l, Iou(r, a)) \in Int
  <2>1. \A a \in S : Iou(r, a) # None
    BY <1>1, <1>5, <1>8, <1>4 DEF Listed
  <2>2. \A a \in S : e.assets[r][a].iouSupply = d.assets[r][a].iouSupply + SupplyFlow(l, Iou(r, a))
    BY <1>1, <1>8, <2>1 DEF Effect
  <2>3. \A t : SupplyFlow(l, t) \in Int
    BY FlowTypes
  <2> QED
    BY <1>7, <2>2, <2>3
<1>12. PICK n \in Int : n = IF l.event = "Transfer" /\ l.addr \in Ious /\ l.addr[1] = r
                            THEN SupplyFlow(l, l.addr) ELSE 0
  <2>1. SupplyFlow(l, l.addr) \in Int
    BY FlowTypes
  <2> QED
    BY <2>1
<1>13. SumFunction(g) = SumFunction(f) + n
  <2>1. CASE l.event = "Transfer" /\ l.addr \in Ious /\ l.addr[1] = r
    <3>1. PICK a : a = l.addr[2]
      OBVIOUS
    <3>2. a \in S /\ l.addr = Iou(r, a)
      BY <1>3, <1>4, <2>1, <3>1, IouParts
    <3>3. \A b \in S : b # a => g[b] = f[b]
      <4>1. \A b \in S : b # a => SupplyFlow(l, Iou(r, b)) = 0
        BY <3>2 DEF SupplyFlow, Iou
      <4> QED
        BY <1>9, <1>11, <4>1
    <3>4. SumFunction(g) = SumFunction(f) + g[a] - f[a]
      BY <1>4, <1>9, <3>2, <3>3, SumChange
    <3>5. g[a] = f[a] + n
      BY <1>11, <1>12, <2>1, <3>2
    <3>6. SumFunction(f) \in Int
      BY <1>4, <1>9, SumType
    <3>7. f[a] \in Int
      BY <1>9, <3>2
    <3> QED
      BY <3>4, <3>5, <3>6, <3>7
  <2>2. CASE ~ (l.event = "Transfer" /\ l.addr \in Ious /\ l.addr[1] = r)
    <3>1. \A a \in S : Iou(r, a) \in Ious /\ Iou(r, a)[1] = r
      <4>1. \A a \in S : d.assets[r][a] \in AssetRow /\ Iou(r, a) # None
        BY <1>1, <1>4, <1>5, <1>8 DEF Listed
      <4> QED
        BY <1>8, <4>1 DEF AssetRow, Iou
    <3>2. \A a \in S : SupplyFlow(l, Iou(r, a)) = 0
      BY <2>2, <3>1 DEF SupplyFlow
    <3>3. \A a \in S : g[a] = f[a]
      BY <1>9, <1>11, <3>2
    <3>4. g = f
      BY <1>9, <3>3
    <3>5. SumFunction(f) \in Int
      BY <1>4, <1>9, SumType
    <3> QED
      BY <1>12, <2>2, <3>4, <3>5
  <2> QED
    BY <2>1, <2>2
<1>14. /\ TotalFlow(l, r, "minted") \in Int /\ TotalFlow(l, r, "redeemed") \in Int /\ SwapFlow(l, r) \in Int
  <2>1. "minted" \in Totals /\ "redeemed" \in Totals
    BY DEF Totals
  <2> QED
    BY <1>1, <2>1, FlowTypes
<1>15. /\ e.reserves[r].minted = d.reserves[r].minted + TotalFlow(l, r, "minted")
       /\ e.reserves[r].redeemed = d.reserves[r].redeemed + TotalFlow(l, r, "redeemed")
       /\ e.swapIou[r] = d.swapIou[r] + SwapFlow(l, r)
  BY <1>1 DEF Effect, Totals
<1>16. DebtFlow(l, r) = n - TotalFlow(l, r, "minted") - SwapFlow(l, r) + TotalFlow(l, r, "redeemed")
  BY <1>12 DEF DebtFlow, SupplyFlow
<1>17. /\ d.reserves[r].minted \in Int /\ d.reserves[r].redeemed \in Int /\ d.swapIou[r] \in Int
  <2>1. d.reserves \in [Reserves -> ReserveRow] /\ d.swapIou \in [Reserves -> Int]
    BY DbType
  <2> QED
    BY <1>1, <2>1 DEF ReserveRow
<1>18. SumFunction(f) \in Int
  BY <1>4, <1>9, SumType
<1> QED
  BY <1>10, <1>12, <1>13, <1>14, <1>15, <1>16, <1>17, <1>18 DEF DebtGap

\* A log leaves the other quantities as they are.
LEMMA FlowsElsewhere ==
  ASSUME NEW l \in OperationLog, Source(l) \notin setup.indexed
  PROVE  /\ \A r \in Followed, a \in Tokens : HoldingFlow(l, r, a) = 0
         /\ \A r \in Followed : LpFlow(l, r) = 0 /\ DebtFlow(l, r) = 0
         /\ \A t \in Reserves \cup Ious : Owner(t) \in Followed =>
              \A h \in Holders : BalanceFlow(l, t, h) = 0
<1>1. l \in Log /\ l.event # "NewClearReserve"
  BY DEF Log, OperationLog, TransferLog, BasketLog, PaidInLog, PaidOutLog, ExchangeLog, ReceivedLog,
         RedeemedLog, FeeLog, PriceLog
<1>2. Followed \subseteq Reserves /\ Followed \subseteq setup.indexed
  BY DEF Followed
<1>3. CASE l.event \in Activity
  <2>1. l.addr \in Reserves
    BY <1>3 DEF Activity, OperationLog, TransferLog, BasketLog, PaidInLog, PaidOutLog, ExchangeLog, ReceivedLog,
         RedeemedLog, FeeLog, PriceLog
  <2>2. l.addr \notin setup.indexed
    BY <1>1, <2>1, AddressAssumption DEF Source
  <2>3. \A r \in Followed : l.addr # r
    BY <1>2, <2>2
  <2>4. l.event # "Transfer"
    BY <1>3 DEF Activity
  <2>5. \A r \in Followed : \A c : TotalFlow(l, r, c) = 0
    BY <2>3 DEF TotalFlow
  <2>6. \A r \in Followed : \A a \in Tokens : HoldingFlow(l, r, a) = 0
    BY <2>3 DEF HoldingFlow
  <2>7. \A r \in Followed : SwapFlow(l, r) = 0 /\ SupplyFlow(l, r) = 0
    BY <2>3, <2>4 DEF SwapFlow, SupplyFlow
  <2>8. \A r \in Followed : LpFlow(l, r) = 0 /\ DebtFlow(l, r) = 0
    BY <2>4, <2>5, <2>7 DEF LpFlow, DebtFlow
  <2>9. \A t, h : BalanceFlow(l, t, h) = 0
    BY <2>4 DEF BalanceFlow
  <2> QED
    BY <2>6, <2>8, <2>9
<1>4. CASE l.event \notin Activity
  <2>1. /\ \A r, a : HoldingFlow(l, r, a) = 0
        /\ \A r, c : TotalFlow(l, r, c) = 0
        /\ \A r : SwapFlow(l, r) = 0
    <3>1. l.event # "Swap"
      BY <1>4 DEF Activity
    <3> QED
      BY <1>4, <3>1 DEF HoldingFlow, TotalFlow, SwapFlow
  <2>2. CASE l.event = "Transfer"
    <3>1. l.addr \in Reserves \cup Ious
      BY <1>1, <2>2, LogKinds DEF TransferLog
    <3>2. Owner(l.addr) \notin Followed
      BY <1>1, <1>2, <3>1, AddressAssumption DEF Source, Owner
    <3>3. \A r \in Followed : l.addr # r /\ ~ (l.addr \in Ious /\ l.addr[1] = r)
      BY <1>2, <3>2, AddressAssumption DEF Owner
    <3>4. \A r \in Followed : SupplyFlow(l, r) = 0
      BY <3>3 DEF SupplyFlow
    <3>5. \A r \in Followed : LpFlow(l, r) = 0 /\ DebtFlow(l, r) = 0
      BY <2>1, <3>3, <3>4 DEF LpFlow, DebtFlow
    <3>6. \A t \in Reserves \cup Ious : Owner(t) \in Followed => \A h \in Holders : BalanceFlow(l, t, h) = 0
      BY <3>2 DEF BalanceFlow
    <3> QED
      BY <2>1, <3>5, <3>6
  <2>3. CASE l.event # "Transfer"
    <3>1. \A r : SupplyFlow(l, r) = 0
      BY <2>3 DEF SupplyFlow
    <3>2. \A r : LpFlow(l, r) = 0 /\ DebtFlow(l, r) = 0
      BY <2>1, <2>3, <3>1 DEF LpFlow, DebtFlow
    <3>3. \A t, h : BalanceFlow(l, t, h) = 0
      BY <2>3 DEF BalanceFlow
    <3> QED
      BY <2>1, <3>2, <3>3
  <2> QED
    BY <2>2, <2>3
<1> QED
  BY <1>3, <1>4

\* The first log of the queue closes its part of the gaps.
LEMMA DueRest ==
  ASSUME NEW d, NEW e, IsDb(d), IsDb(e), NEW c, IsChain(c), NEW s \in Seq(OperationLog), s # <<>>, Due(d, c, s),
         NEW l, l = Head(s),
         \A r \in Followed : /\ \A a \in Tokens : e.holdings[r][a] = d.holdings[r][a] + HoldingFlow(l, r, a)
                             /\ LpGap(e, r) = LpGap(d, r) - LpFlow(l, r)
                             /\ DebtGap(e, r) = DebtGap(d, r) - DebtFlow(l, r),
         \A t \in Reserves \cup Ious : Owner(t) \in Followed =>
           \A h \in Holders : e.balances[t][h] = d.balances[t][h] + BalanceFlow(l, t, h)
  PROVE  Due(e, c, Tail(s))
<1>1. l \in OperationLog
  OBVIOUS
<1>2. Followed \subseteq Reserves
  BY DEF Followed
<1>3. /\ d.holdings \in [Reserves -> [Tokens -> Int]]
      /\ d.balances \in [Reserves \cup Ious -> [Holders -> Int]]
  BY DbType
<1>4. /\ c.accounted \in [Reserves -> [Tokens -> Int]]
      /\ c.owned \in [Reserves \cup Ious -> [Holders -> Int]]
  BY DEF IsChain
<1>5. ASSUME NEW r \in Followed, NEW a \in Tokens
      PROVE  Owes(HoldingDue(r, a), Tail(s), c.accounted[r][a] - e.holdings[r][a])
  <2>1. PICK D \in [OperationLog -> Int], v \in Int, g \in Int :
           D = HoldingDue(r, a) /\ v = c.accounted[r][a] - d.holdings[r][a] /\ g = HoldingFlow(l, r, a)
    <3>1. HoldingDue(r, a) \in [OperationLog -> Int]
      BY <1>2, DueTypes
    <3>2. HoldingFlow(l, r, a) \in Int
      BY <1>1, <1>2, FlowTypes
    <3>3. c.accounted[r][a] - d.holdings[r][a] \in Int
      BY <1>2, <1>3, <1>4
    <3> QED
      BY <3>1, <3>2, <3>3
  <2>2. Owes(D, s, v)
    BY <2>1 DEF Due
  <2>3. Owes(D, Tail(s), v - D[Head(s)])
    BY <2>2, OwesRest
  <2>4. D[Head(s)] = g
    BY <1>1, <2>1 DEF HoldingDue
  <2>5. c.accounted[r][a] - e.holdings[r][a] = v - g
    BY <1>2, <1>3, <1>4, <2>1
  <2> QED
    BY <2>1, <2>3, <2>4, <2>5
<1>6. ASSUME NEW t \in Reserves \cup Ious, Owner(t) \in Followed, NEW h \in Holders
      PROVE  Owes(BalanceDue(t, h), Tail(s), c.owned[t][h] - e.balances[t][h])
  <2>1. PICK D \in [OperationLog -> Int], v \in Int, g \in Int :
           D = BalanceDue(t, h) /\ v = c.owned[t][h] - d.balances[t][h] /\ g = BalanceFlow(l, t, h)
    <3>1. BalanceDue(t, h) \in [OperationLog -> Int]
      BY DueTypes
    <3>2. BalanceFlow(l, t, h) \in Int
      BY <1>1, FlowTypes
    <3>3. c.owned[t][h] - d.balances[t][h] \in Int
      BY <1>3, <1>4
    <3> QED
      BY <3>1, <3>2, <3>3
  <2>2. Owes(D, s, v)
    BY <1>6, <2>1 DEF Due
  <2>3. Owes(D, Tail(s), v - D[Head(s)])
    BY <2>2, OwesRest
  <2>4. D[Head(s)] = g
    BY <1>1, <2>1 DEF BalanceDue
  <2>5. e.balances[t][h] = d.balances[t][h] + g /\ d.balances[t][h] \in Int /\ c.owned[t][h] \in Int
    BY <1>3, <1>4, <1>6, <2>1
  <2>6. c.owned[t][h] - e.balances[t][h] = v - g
    BY <2>1, <2>5
  <2> QED
    BY <2>1, <2>3, <2>4, <2>6
<1>7. ASSUME NEW r \in Followed
      PROVE  Owes(LpDue(r), Tail(s), LpGap(e, r)) /\ Owes(DebtDue(r), Tail(s), DebtGap(e, r))
  <2>1. PICK D \in [OperationLog -> Int], v \in Int : D = LpDue(r) /\ v = LpGap(d, r)
    BY <1>2, DueTypes, GapTypes
  <2>2. Owes(D, s, v)
    BY <2>1 DEF Due
  <2>3. Owes(D, Tail(s), v - D[Head(s)])
    BY <2>2, OwesRest
  <2>4. D[Head(s)] = LpFlow(l, r)
    BY <1>1, <2>1 DEF LpDue
  <2>5. PICK D2 \in [OperationLog -> Int], v2 \in Int : D2 = DebtDue(r) /\ v2 = DebtGap(d, r)
    BY <1>2, DueTypes, GapTypes
  <2>6. Owes(D2, s, v2)
    BY <2>5 DEF Due
  <2>7. Owes(D2, Tail(s), v2 - D2[Head(s)])
    BY <2>6, OwesRest
  <2>8. D2[Head(s)] = DebtFlow(l, r)
    BY <1>1, <2>5 DEF DebtDue
  <2> QED
    BY <2>1, <2>3, <2>4, <2>5, <2>7, <2>8
<1> QED
  BY <1>5, <1>6, <1>7 DEF Due

\* How the parts of a gap shift.
LEMMA GapLess ==
  ASSUME NEW x \in Int, NEW y \in Int, NEW z \in Int, NEW p \in Int, NEW q \in Int, NEW n \in Int
  PROVE  (x + p) - (y + q) - (z + n) = (x - y - z) - (n - p + q)
OBVIOUS

\* A handler applies the first log.
LEMMA HandleDue ==
  ASSUME setup \in Setups, NEW d, IsDb(d), NEW e, NEW c, IsChain(c), Directory(d),
         NEW s \in Seq(OperationLog), s # <<>>, Due(d, c, s), NEW l, l = Head(s), Effect(d, e, l)
  PROVE  Due(e, c, Tail(s))
<1>1. l \in OperationLog /\ IsDb(e) /\ Followed \subseteq Reserves
  BY DEF Effect, Followed
<1>2. \A r \in Followed : \A a \in Tokens : e.holdings[r][a] = d.holdings[r][a] + HoldingFlow(l, r, a)
  BY <1>1 DEF Effect
<1>3. \A t \in Reserves \cup Ious : \A h \in Holders :
         e.balances[t][h] = d.balances[t][h] + BalanceFlow(l, t, h)
  BY DEF Effect
<1>4. ASSUME NEW r \in Followed PROVE LpGap(e, r) = LpGap(d, r) - LpFlow(l, r)
  <2>1. /\ e.reserves[r].supply = d.reserves[r].supply + SupplyFlow(l, r)
        /\ e.reserves[r].deposits = d.reserves[r].deposits + TotalFlow(l, r, "deposits")
        /\ e.reserves[r].withdrawals = d.reserves[r].withdrawals + TotalFlow(l, r, "withdrawals")
    BY <1>1 DEF Effect, Totals
  <2>2. /\ d.reserves[r].deposits \in Int /\ d.reserves[r].withdrawals \in Int
        /\ d.reserves[r].supply \in Int
    <3>1. d.reserves \in [Reserves -> ReserveRow]
      BY DbType
    <3> QED
      BY <1>1, <3>1 DEF ReserveRow
  <2>3. "deposits" \in Totals /\ "withdrawals" \in Totals
    BY DEF Totals
  <2>4. /\ TotalFlow(l, r, "deposits") \in Int /\ TotalFlow(l, r, "withdrawals") \in Int
        /\ SupplyFlow(l, r) \in Int
    BY <1>1, <2>3, FlowTypes
  <2>5. PICK p \in Int, q \in Int, n \in Int : /\ p = TotalFlow(l, r, "deposits")
                                                /\ q = TotalFlow(l, r, "withdrawals") /\ n = SupplyFlow(l, r)
    BY <2>4
  <2>6. LpFlow(l, r) = n - p + q
    BY <2>5 DEF LpFlow
  <2>7. PICK x \in Int, y \in Int, z \in Int : /\ x = d.reserves[r].deposits
                                                /\ y = d.reserves[r].withdrawals /\ z = d.reserves[r].supply
    BY <2>2
  <2>8. /\ e.reserves[r].deposits = x + p /\ e.reserves[r].withdrawals = y + q
        /\ e.reserves[r].supply = z + n
    BY <2>1, <2>5, <2>7
  <2>9. LpGap(e, r) = (x + p) - (y + q) - (z + n)
    BY <2>8 DEF LpGap
  <2>10. LpGap(d, r) = x - y - z
    BY <2>7 DEF LpGap
  <2>11. (x + p) - (y + q) - (z + n) = (x - y - z) - (n - p + q)
    BY GapLess
  <2> QED
    BY <2>6, <2>9, <2>10, <2>11
<1>5. \A r \in Followed : DebtGap(e, r) = DebtGap(d, r) - DebtFlow(l, r)
  BY <1>1, DebtMoves
<1> QED
  BY <1>1, <1>2, <1>3, <1>4, <1>5, DueRest

\* A log that is not delivered is of another reserve.
LEMMA PassByDue ==
  ASSUME NEW d, IsDb(d), NEW c, IsChain(c), NEW s \in Seq(OperationLog), s # <<>>, Due(d, c, s),
         NEW l, l = Head(s), Source(l) \notin setup.indexed
  PROVE  Due(d, c, Tail(s))
<1>1. l \in OperationLog /\ Followed \subseteq Reserves
  BY DEF Followed
<1>2. /\ \A r \in Followed, a \in Tokens : HoldingFlow(l, r, a) = 0
      /\ \A r \in Followed : LpFlow(l, r) = 0 /\ DebtFlow(l, r) = 0
      /\ \A t \in Reserves \cup Ious : Owner(t) \in Followed =>
              \A h \in Holders : BalanceFlow(l, t, h) = 0
  BY <1>1, FlowsElsewhere
<1>3. /\ d.holdings \in [Reserves -> [Tokens -> Int]]
      /\ d.balances \in [Reserves \cup Ious -> [Holders -> Int]]
  BY DbType
<1>4. \A r \in Followed : LpGap(d, r) \in Int /\ DebtGap(d, r) \in Int
  BY <1>1, GapTypes
<1>5. PICK e : e = d /\ IsDb(e)
  OBVIOUS
<1>6. \A r \in Followed : \A a \in Tokens : e.holdings[r][a] = d.holdings[r][a] + HoldingFlow(l, r, a)
  BY <1>1, <1>2, <1>3, <1>5
<1>7. ASSUME NEW r \in Followed
      PROVE  LpGap(e, r) = LpGap(d, r) - LpFlow(l, r) /\ DebtGap(e, r) = DebtGap(d, r) - DebtFlow(l, r)
  <2>1. PICK p \in Int, q \in Int : p = LpGap(d, r) /\ q = DebtGap(d, r)
    BY <1>4
  <2>2. LpFlow(l, r) = 0 /\ DebtFlow(l, r) = 0
    BY <1>2
  <2>4. LpGap(e, r) = p /\ DebtGap(e, r) = q
    BY <1>5, <2>1
  <2>3. p = p - 0 /\ q = q - 0
    BY <2>1
  <2> QED
    BY <2>1, <2>2, <2>3, <2>4
<1>8. \A t \in Reserves \cup Ious : Owner(t) \in Followed =>
           \A h \in Holders : e.balances[t][h] = d.balances[t][h] + BalanceFlow(l, t, h)
  BY <1>2, <1>3, <1>5
<1>9. Due(e, c, Tail(s))
  BY <1>5, <1>6, <1>7, <1>8, DueRest
<1> QED
  BY <1>5, <1>9

\* An operation owes what it changes of the contracts.
LEMMA OperateDue ==
  ASSUME NEW d, IsDb(d), NEW c, IsChain(c), Even(d, c), NEW e, NEW s, NEW r, Carries(c, e, s, r, 0, 0)
  PROVE  Due(d, e, s)
<1>1. Followed \subseteq Reserves
  BY DEF Followed
<1>2. \A k \in Followed, a \in Tokens : Owes(HoldingDue(k, a), s, e.accounted[k][a] - d.holdings[k][a])
  BY <1>1 DEF Even, Carries
<1>3. \A t \in Reserves \cup Ious : Owner(t) \in Followed =>
       \A h \in Holders : Owes(BalanceDue(t, h), s, e.owned[t][h] - d.balances[t][h])
  BY DEF Even, Carries
<1>4. \A k \in Followed : Owes(LpDue(k), s, LpGap(d, k)) /\ Owes(DebtDue(k), s, DebtGap(d, k))
  <2>1. \A k \in Reserves : Owes(LpDue(k), s, 0) /\ Owes(DebtDue(k), s, 0)
    BY DEF Carries
  <2> QED
    BY <1>1, <2>1 DEF Even
<1> QED
  BY <1>2, <1>3, <1>4 DEF Due

\* Nothing queued, nothing owed.
LEMMA DueEven ==
  ASSUME NEW d, IsDb(d), NEW c, IsChain(c), Due(d, c, <<>>)
  PROVE  Even(d, c)
<1>1. Followed \subseteq Reserves
  BY DEF Followed
<1>2. \A D, v : Owes(D, <<>>, v) => v = 0
  BY OwesNothing
<1>3. /\ d.holdings \in [Reserves -> [Tokens -> Int]]
      /\ d.balances \in [Reserves \cup Ious -> [Holders -> Int]]
  BY DbType
<1>4. /\ c.accounted \in [Reserves -> [Tokens -> Int]]
      /\ c.owned \in [Reserves \cup Ious -> [Holders -> Int]]
  BY DEF IsChain
<1>5. \A r \in Followed, a \in Tokens : c.accounted[r][a] - d.holdings[r][a] = 0
  BY <1>2 DEF Due
<1>6. \A t \in Reserves \cup Ious : Owner(t) \in Followed =>
        \A h \in Holders : c.owned[t][h] - d.balances[t][h] = 0
  BY <1>2 DEF Due
<1>7. \A r \in Followed : LpGap(d, r) = 0 /\ DebtGap(d, r) = 0
  BY <1>2 DEF Due
<1>8. \A r \in Followed, a \in Tokens : d.holdings[r][a] = c.accounted[r][a]
  BY <1>1, <1>3, <1>4, <1>5
<1>9. \A t \in Reserves \cup Ious : Owner(t) \in Followed =>
        \A h \in Holders : d.balances[t][h] = c.owned[t][h]
  BY <1>3, <1>4, <1>6
<1> QED
  BY <1>7, <1>8, <1>9 DEF Even

\* Nothing agrees with nothing.
LEMMA BlankEven ==
  ASSUME NEW d, IsDb(d), NEW c, Blank(d), BlankChain(c)
  PROVE  Even(d, c)
<1>1. Followed \subseteq Reserves
  BY DEF Followed
<1>2. ASSUME NEW r \in Followed PROVE LpGap(d, r) = 0 /\ DebtGap(d, r) = 0
  <2>1. /\ d.reserves[r].supply = 0 /\ d.reserves[r].deposits = 0 /\ d.reserves[r].withdrawals = 0
        /\ d.reserves[r].minted = 0 /\ d.reserves[r].redeemed = 0 /\ d.swapIou[r] = 0
    BY <1>1 DEF Blank, Totals
  <2>2. PICK S : S = Listed(d, r) /\ IsFiniteSet(S)
    BY ListedFinite
  <2>3. PICK f : f = [a \in S |-> d.assets[r][a].iouSupply]
    OBVIOUS
  <2>4. f \in [S -> Int] /\ \A a \in S : f[a] = 0
    BY <1>1, <2>2, <2>3 DEF Blank, Listed
  <2>5. SumFunction(f) = 0
    BY <2>2, <2>4, SumZero
  <2>6. DebtOf(d, r) = 0
    BY <2>2, <2>3, <2>5 DEF DebtOf
  <2> QED
    BY <2>1, <2>6 DEF LpGap, DebtGap
<1>3. \A r \in Followed, a \in Tokens : d.holdings[r][a] = c.accounted[r][a]
  BY <1>1 DEF Blank, BlankChain
<1>4. \A t \in Reserves \cup Ious, h \in Holders : d.balances[t][h] = c.owned[t][h]
  BY DEF Blank, BlankChain
<1> QED
  BY <1>2, <1>3, <1>4 DEF Even

-----------------------------------------------------------------------------
(* The invariant of the tables.                                            *)

\* The inductive invariant: what the tables and the contracts are apart is owed by the
\* queue.
BookInv ==
  /\ CoreInv /\ Solvent(chain)
  /\ block > 0 => Due(db, chain, pending)

\* With no queue they agree.
LEMMA EvenAtRest ==
  ASSUME BookInv, pending = <<>>
  PROVE  Even(db, chain)
<1>1. IsDb(db) /\ IsChain(chain) /\ block \in 0..MaxOps
  BY DEF BookInv, CoreInv
<1>2. CASE block = 0
  <2>1. Blank(db) /\ BlankChain(chain)
    BY <1>2 DEF BookInv, CoreInv, Launching
  <2> QED
    BY <1>1, <2>1, BlankEven
<1>3. CASE block > 0
  <2>1. Due(db, chain, <<>>)
    BY <1>3 DEF BookInv
  <2> QED
    BY <1>1, <2>1, DueEven
<1> QED
  BY <1>1, <1>2, <1>3, BoundAssumption

\* Due' for a primed queue.
LEMMA DueNext ==
  ASSUME setup' = setup, Due(db', chain', pending')
  PROVE  Due(db, chain, pending)'
<1>1. Followed' = Followed
  BY SetupFixed
<1> QED
  BY <1>1 DEF Due, HoldingDue, BalanceDue, LpDue, DebtDue, LpGap, DebtGap, DebtOf, Listed, Owner,
              HoldingFlow, BalanceFlow, LpFlow, DebtFlow

\* It holds at first,
LEMMA BookInit ==
  ASSUME Init
  PROVE  BookInv
<1>1. CoreInv /\ Solvent(chain)
  BY InitCore
<1>2. block = 0
  BY DEF Init
<1> QED
  BY <1>1, <1>2 DEF BookInv

\* and every step preserves it.
LEMMA BookStep ==
  ASSUME BookInv, [Next]_vars
  PROVE  BookInv'
<1>1. CoreInv /\ Solvent(chain) /\ block \in 0..MaxOps /\ block \in Int
  BY BoundAssumption DEF BookInv, CoreInv
<1>2. IsDb(db) /\ IsChain(chain) /\ setup \in Setups
  BY <1>1 DEF CoreInv
<1>3. CASE (Handle \/ PassBy) /\ block = 0
  <2>1. CoreInv' /\ block' = 0 /\ chain' = chain
    BY <1>1, <1>3, LaunchStep
  <2>2. Solvent(chain)'
    BY <1>1, <2>1 DEF Solvent
  <2> QED
    BY <2>1, <2>2 DEF BookInv
<1>4. CASE Handle /\ block > 0
  <2>1. /\ Effect(db, db', log) /\ UNCHANGED <<chain, setup, block>> /\ pending' = Tail(pending)
        /\ pending \in Seq(OperationLog) /\ pending # <<>> /\ CoreInv'
    BY <1>1, <1>4, HandleStep
  <2>2. Directory(db)
    BY <1>1, <1>4, CoreDirectory
  <2>3. Due(db, chain, pending)
    BY <1>4 DEF BookInv
  <2>4. log = Head(pending)
    BY DEF log
  <2>5. Due(db', chain, Tail(pending))
    BY <1>2, <2>1, <2>2, <2>3, <2>4, HandleDue
  <2>6. Due(db, chain, pending)'
    BY <2>1, <2>5, DueNext
  <2>7. Solvent(chain)'
    BY <1>1, <2>1 DEF Solvent
  <2> QED
    BY <2>1, <2>6, <2>7 DEF BookInv
<1>5. CASE PassBy /\ block > 0
  <2>1. /\ Source(log) \notin setup.indexed /\ UNCHANGED <<chain, setup, block, db>>
        /\ pending' = Tail(pending) /\ pending \in Seq(OperationLog) /\ pending # <<>> /\ CoreInv'
    BY <1>1, <1>5, PassByStep
  <2>2. Due(db, chain, pending)
    BY <1>5 DEF BookInv
  <2>3. log = Head(pending)
    BY DEF log
  <2>4. Due(db, chain, Tail(pending))
    BY <1>2, <2>1, <2>2, <2>3, PassByDue
  <2>5. Due(db, chain, pending)'
    BY <2>1, <2>4, DueNext
  <2>6. Solvent(chain)'
    BY <1>1, <2>1 DEF Solvent
  <2> QED
    BY <2>1, <2>5, <2>6 DEF BookInv
<1>6. CASE Operate
  <2>1. /\ CoreInv' /\ Solvent(chain') /\ UNCHANGED <<setup, db>> /\ pending = <<>>
        /\ \E r : Carries(chain, chain', pending', r, 0, 0)
    BY <1>1, <1>6, OperateStep
  <2>2. Even(db, chain)
    BY <2>1, EvenAtRest
  <2>3. Due(db, chain', pending')
    BY <1>2, <2>1, <2>2, OperateDue
  <2>4. Due(db, chain, pending)'
    BY <2>1, <2>3, DueNext
  <2>5. Solvent(chain)'
    BY <2>1 DEF Solvent
  <2> QED
    BY <2>1, <2>4, <2>5 DEF BookInv
<1>7. CASE UNCHANGED vars
  <2>1. UNCHANGED <<chain, setup, block, day, pending, db>>
    BY <1>7 DEF vars
  <2>2. Due(db, chain, pending) => Due(db, chain, pending)'
    BY <2>1, DueNext
  <2>3. Solvent(chain)'
    BY <1>1, <2>1 DEF Solvent
  <2>4. CoreInv'
    <3>1. IsDb(db)' /\ IsChain(chain)'
      BY <1>2, <2>1 DEF IsDb, IsChain
    <3>2. /\ LaunchLogs' = LaunchLogs
          /\ Directory(db) => Directory(db)'
          /\ \A j : LaunchedTo(db, j) => LaunchedTo(db, j)'
      BY <2>1, SetupFixed
    <3>3. (Blank(db) /\ BlankChain(chain)) => (Blank(db)' /\ BlankChain(chain)')
      BY <2>1 DEF Blank, BlankChain
    <3>4. Launching => Launching'
      BY <2>1, <3>2, <3>3 DEF Launching
    <3>5. Running => Running'
      BY <2>1, <3>2 DEF Running
    <3> QED
      BY <1>1, <2>1, <3>1, <3>4, <3>5 DEF CoreInv
  <2> QED
    BY <2>1, <2>2, <2>3, <2>4 DEF BookInv
<1> QED
  BY <1>1, <1>3, <1>4, <1>5, <1>6, <1>7 DEF Next

\* What the tables say and what the contracts hold differ by what the rest of the
\* queue is worth, whatever the order of the logs within an operation, the order of
\* the meta reserve's legs and the contracts indexed (dispatch.go, handlers.go).
THEOREM Invariance == Spec => []BookInv
<1>1. Init => BookInv
  BY BookInit
<1>2. BookInv /\ [Next]_vars => BookInv'
  BY BookStep
<1> QED
  BY <1>1, <1>2, PTL DEF Spec

\* With nothing owed, the holdings are exact,
LEMMA ExactHoldings ==
  ASSUME BookInv
  PROVE  HoldingsExact
<1> SUFFICES ASSUME pending = <<>>, NEW r \in Followed PROVE db.holdings[r] = chain.accounted[r]
  BY DEF HoldingsExact, AllApplied
<1>1. Even(db, chain)
  BY EvenAtRest
<1>2. IsDb(db) /\ IsChain(chain) /\ r \in Reserves
  BY DEF BookInv, CoreInv, Followed
<1>3. db.holdings \in [Reserves -> [Tokens -> Int]]
  BY <1>2, DbType
<1>4. chain.accounted \in [Reserves -> [Tokens -> Int]]
  BY <1>2 DEF IsChain
<1>5. \A a \in Tokens : db.holdings[r][a] = chain.accounted[r][a]
  BY <1>1 DEF Even
<1> QED
  BY <1>2, <1>3, <1>4, <1>5

\* the LP tables reconcile,
LEMMA ReconciledLp ==
  ASSUME BookInv
  PROVE  LpReconciles
<1> SUFFICES ASSUME pending = <<>>, NEW r \in Followed
             PROVE db.reserves[r].supply = db.reserves[r].deposits - db.reserves[r].withdrawals
  BY DEF LpReconciles, AllApplied
<1>1. LpGap(db, r) = 0
  BY EvenAtRest DEF Even
<1>2. IsDb(db) /\ r \in Reserves
  BY DEF BookInv, CoreInv, Followed
<1>3. db.reserves \in [Reserves -> ReserveRow]
  BY <1>2, DbType
<1>4. PICK x \in Int, y \in Int, z \in Int : /\ x = db.reserves[r].deposits /\ y = db.reserves[r].withdrawals
                                             /\ z = db.reserves[r].supply
  BY <1>2, <1>3 DEF ReserveRow
<1>5. x - y - z = 0
  BY <1>1, <1>4 DEF LpGap
<1>6. z = x - y
  BY <1>5
<1> QED
  BY <1>4, <1>6

\* the IOU tables reconcile
LEMMA ReconciledIou ==
  ASSUME BookInv
  PROVE  IouReconciles
<1> SUFFICES ASSUME pending = <<>>, NEW r \in Followed
             PROVE  DebtOf(db, r) = db.reserves[r].minted + db.swapIou[r] - db.reserves[r].redeemed
  BY DEF IouReconciles, AllApplied, DebtOf
<1>1. DebtGap(db, r) = 0
  BY EvenAtRest DEF Even
<1>2. IsDb(db) /\ r \in Reserves
  BY DEF BookInv, CoreInv, Followed
<1>3. db.reserves \in [Reserves -> ReserveRow] /\ db.swapIou \in [Reserves -> Int]
  BY <1>2, DbType
<1>4. DebtOf(db, r) \in Int
  BY <1>2, GapTypes
<1>5. PICK x \in Int, y \in Int, z \in Int, w \in Int :
        /\ x = db.reserves[r].minted /\ y = db.swapIou[r] /\ z = db.reserves[r].redeemed
        /\ w = DebtOf(db, r)
  BY <1>2, <1>3, <1>4 DEF ReserveRow
<1>6. x + y - z - w = 0
  BY <1>1, <1>5 DEF DebtGap
<1>7. w = x + y - z
  BY <1>6
<1> QED
  BY <1>5, <1>7

\* and the leg is the balance.
LEMMA LegBalanced ==
  ASSUME BookInv
  PROVE  LegIsLpBalance
<1> SUFFICES ASSUME pending = <<>>, Followed = Reserves
             PROVE  db.balances[Base][Meta] = db.holdings[Meta][Base] + chain.donated
  BY DEF LegIsLpBalance, AllApplied
<1>1. Even(db, chain) /\ Solvent(chain)
  BY EvenAtRest DEF BookInv
<1>2. Base \in Reserves /\ Meta \in Reserves /\ Meta \in Holders /\ Base \in Tokens
  BY DEF Reserves, Holders, Tokens
<1>3. db.balances[Base][Meta] = chain.owned[Base][Meta]
  BY <1>1, <1>2 DEF Even, Owner
<1>4. db.holdings[Meta][Base] = chain.accounted[Meta][Base]
  BY <1>1, <1>2 DEF Even
<1> QED
  BY <1>1, <1>3, <1>4 DEF Solvent

\* HoldingsExact: clear_reserve_token_balances, which every handler of a reserve
\* event adjusts from that event alone, is the contract's accountedBalance once the
\* delivered logs are applied, for any number of assets and operations.
THEOREM HoldingsAreExact == Spec => []HoldingsExact
BY Invariance, ExactHoldings, PTL

\* LpReconciles: total_supply, which handleTransfer folds from mints and burns, is
\* deposits less withdrawals, which bumpReserve totals from the reserve's events.
THEOREM LpIsReconciled == Spec => []LpReconciles
BY Invariance, ReconciledLp, PTL

\* IouReconciles: the iou_supply column, folded from the IOUs' Transfers, sums to
\* iou_minted plus the swaps' iou_total less iou_redeemed.
THEOREM IouIsReconciled == Spec => []IouReconciles
BY Invariance, ReconciledIou, PTL

\* LegIsLpBalance: the meta reserve's base leg, folded from its own events, is its
\* LP balance, folded from the base reserve's Transfers, less the donations that
\* governance has not recognised.
THEOREM LegIsBalance == Spec => []LegIsLpBalance
BY Invariance, LegBalanced, PTL

-----------------------------------------------------------------------------
(* Supplies, balances and debts, after every single log.                   *)

\* A token's supply, and the tables' balances summing to it.
SupplyOf(d, t) == IF t \in Reserves THEN d.reserves[t].supply ELSE d.iouSupply[t]

Summed(d) == \A t \in Reserves \cup Ious : SumFunction(d.balances[t]) = SupplyOf(d, t)

\* Empty tables sum to nothing and mirror nothing.
LEMMA BlankSummed ==
  ASSUME NEW d, IsDb(d), Blank(d)
  PROVE  Summed(d)
<1> SUFFICES ASSUME NEW t \in Reserves \cup Ious PROVE SumFunction(d.balances[t]) = SupplyOf(d, t)
  BY DEF Summed
<1>1. d.balances \in [Reserves \cup Ious -> [Holders -> Int]]
  BY DbType
<1>2. PICK f \in [Holders -> Int] : f = d.balances[t]
  BY <1>1
<1>3. \A h \in Holders : f[h] = 0
  BY <1>2 DEF Blank
<1>4. IsFiniteSet(Holders)
  BY TokensFinite
<1>5. SumFunction(f) = 0
  BY <1>3, <1>4, SumZero
<1>6. SupplyOf(d, t) = 0
  BY DEF Blank, SupplyOf
<1> QED
  BY <1>2, <1>5, <1>6

\* A mint or a burn changes one balance; a transfer two, by opposite amounts.
LEMMA SummedNext ==
  ASSUME NEW d, IsDb(d), NEW l \in OperationLog, NEW e, Effect(d, e, l), Summed(d)
  PROVE  Summed(e)
<1> SUFFICES ASSUME NEW t \in Reserves \cup Ious PROVE SumFunction(e.balances[t]) = SupplyOf(e, t)
  BY DEF Summed
<1>1. IsDb(e)
  BY DEF Effect
<1>2. d.balances \in [Reserves \cup Ious -> [Holders -> Int]]
  BY DbType
<1>3. e.balances \in [Reserves \cup Ious -> [Holders -> Int]]
  BY <1>1, DbType
<1>4. PICK f \in [Holders -> Int], g \in [Holders -> Int] : f = d.balances[t] /\ g = e.balances[t]
  BY <1>2, <1>3
<1>5. \A h \in Holders : g[h] = f[h] + BalanceFlow(l, t, h)
  BY <1>4 DEF Effect
<1>6. SumFunction(f) = SupplyOf(d, t)
  BY <1>4 DEF Summed
<1>7. SupplyOf(e, t) = SupplyOf(d, t) + SupplyFlow(l, t)
  BY DEF Effect, SupplyOf
<1>8. IsFiniteSet(Holders)
  BY TokensFinite
<1>9. SumFunction(f) \in Int
  BY <1>8, SumType
<1>10. CASE l.event = "Transfer" /\ l.addr = t
  <2>1. l \in TransferLog
    BY <1>10, LogKinds DEF Log
  <2>2. PICK from \in Holders \cup {Zero}, to \in Holders \cup {Zero}, v \in Nat :
           from = l.from /\ to = l.to /\ v = l.value /\ (from # Zero \/ to # Zero)
    BY <2>1 DEF TransferLog
  <2>3. \A h \in Holders : g[h] = f[h] + (IF h = to THEN v ELSE 0) - (IF h = from THEN v ELSE 0)
    <3>1. \A h \in Holders : BalanceFlow(l, t, h) = (IF h = to THEN v ELSE 0) - (IF h = from THEN v ELSE 0)
      BY <1>10, <2>2 DEF BalanceFlow
    <3> QED
      BY <1>5, <2>2, <3>1
  <2>4. SupplyFlow(l, t) = (IF from = Zero THEN v ELSE 0) - (IF to = Zero THEN v ELSE 0)
    BY <1>10, <2>2 DEF SupplyFlow
  <2>5. PICK m \in [Holders -> Int] : \A h \in Holders : m[h] = f[h] - IF h = from THEN v ELSE 0
    <3>1. [h \in Holders |-> f[h] - IF h = from THEN v ELSE 0] \in [Holders -> Int]
      BY <2>2
    <3> QED
      BY <3>1
  <2>6. SumFunction(m) = SumFunction(f) - IF from = Zero THEN 0 ELSE v
    <3>1. CASE from = Zero
      <4>1. \A h \in Holders : h # from
        BY <3>1, AddressAssumption
      <4>2. m = f
        BY <2>5, <4>1
      <4> QED
        BY <1>9, <3>1, <4>2
    <3>2. CASE from # Zero
      <4>1. from \in Holders /\ m[from] = f[from] - v /\ \A h \in Holders : h # from => m[h] = f[h]
        BY <2>2, <2>5, <3>2
      <4>2. SumFunction(m) = SumFunction(f) + m[from] - f[from]
        BY <1>8, <4>1, SumChange
      <4>3. f[from] \in Int
        BY <4>1
      <4> QED
        BY <1>9, <2>2, <3>2, <4>1, <4>2, <4>3
    <3> QED
      BY <3>1, <3>2
  <2>7. SumFunction(m) \in Int
    BY <1>8, SumType
  <2>8. \A h \in Holders : g[h] = m[h] + IF h = to THEN v ELSE 0
    BY <2>2, <2>3, <2>5
  <2>9. SumFunction(g) = SumFunction(m) + IF to = Zero THEN 0 ELSE v
    <3>1. CASE to = Zero
      <4>1. \A h \in Holders : h # to
        BY <3>1, AddressAssumption
      <4>2. g = m
        BY <2>8, <4>1
      <4> QED
        BY <2>7, <3>1, <4>2
    <3>2. CASE to # Zero
      <4>1. to \in Holders /\ g[to] = m[to] + v /\ \A h \in Holders : h # to => g[h] = m[h]
        BY <2>2, <2>8, <3>2
      <4>2. SumFunction(g) = SumFunction(m) + g[to] - m[to]
        BY <1>8, <4>1, SumChange
      <4>3. m[to] \in Int
        BY <4>1
      <4> QED
        BY <2>2, <2>7, <3>2, <4>1, <4>2, <4>3
    <3> QED
      BY <3>1, <3>2
  <2>10. SumFunction(g) = SumFunction(f) + SupplyFlow(l, t)
    BY <1>9, <2>2, <2>4, <2>6, <2>9
  <2> QED
    BY <1>4, <1>6, <1>7, <2>10
<1>11. CASE ~ (l.event = "Transfer" /\ l.addr = t)
  <2>1. SupplyFlow(l, t) = 0 /\ \A h \in Holders : BalanceFlow(l, t, h) = 0
    BY <1>11 DEF SupplyFlow, BalanceFlow
  <2>2. g = f
    BY <1>5, <2>1
  <2> QED
    BY <1>4, <1>6, <1>7, <1>9, <2>1, <2>2
<1> QED
  BY <1>10, <1>11

\* The debt column is the supply.
Mirrors(d) == \A r \in Reserves : \A a \in Listed(d, r) :
                d.assets[r][a].iouSupply = d.iouSupply[Iou(r, a)]

\* A listed asset has its IOU.
LEMMA ListedIou ==
  ASSUME NEW d, IsDb(d), NEW r \in Reserves, NEW a \in Listed(d, r)
  PROVE  a \in Tokens /\ d.assets[r][a].iou = Iou(r, a) /\ Iou(r, a) \in Ious
<1>1. a \in Tokens /\ d.assets[r][a].iou # None
  BY DEF Listed
<1>2. /\ d.assets \in [Reserves -> [Tokens -> AssetRow]]
      /\ d.assets[r][a].iou \in {None, Iou(r, a)}
  BY <1>1, DbType
<1> QED
  BY <1>1, <1>2 DEF AssetRow

\* An event adds the same to both.
LEMMA MirrorsNext ==
  ASSUME NEW d, IsDb(d), NEW l \in OperationLog, NEW e, Effect(d, e, l), Mirrors(d)
  PROVE  Mirrors(e)
<1> SUFFICES ASSUME NEW r \in Reserves, NEW a \in Listed(e, r)
             PROVE  e.assets[r][a].iouSupply = e.iouSupply[Iou(r, a)]
  BY DEF Mirrors
<1>1. a \in Tokens /\ e.assets[r][a].iou # None
  BY DEF Listed
<1>2. d.assets[r][a].iou # None
  BY <1>1 DEF Effect
<1>3. a \in Listed(d, r)
  BY <1>1, <1>2 DEF Listed
<1>4. Iou(r, a) \in Ious
  BY <1>3, ListedIou
<1>5. e.assets[r][a].iouSupply = d.assets[r][a].iouSupply + SupplyFlow(l, Iou(r, a))
  BY <1>1, <1>2 DEF Effect
<1>6. e.iouSupply[Iou(r, a)] = d.iouSupply[Iou(r, a)] + SupplyFlow(l, Iou(r, a))
  BY <1>4 DEF Effect
<1>7. d.assets[r][a].iouSupply = d.iouSupply[Iou(r, a)]
  BY <1>3 DEF Mirrors
<1> QED
  BY <1>5, <1>6, <1>7

LEMMA BlankMirrors ==
  ASSUME NEW d, IsDb(d), Blank(d)
  PROVE  Mirrors(d)
<1> SUFFICES ASSUME NEW r \in Reserves, NEW a \in Listed(d, r)
             PROVE  d.assets[r][a].iouSupply = d.iouSupply[Iou(r, a)]
  BY DEF Mirrors
<1>1. a \in Tokens /\ Iou(r, a) \in Ious
  BY ListedIou
<1> QED
  BY <1>1 DEF Blank

\* What a step does to the tables.
LEMMA BookMoves ==
  ASSUME BookInv, [Next]_vars
  PROVE  /\ BookInv' /\ IsDb(db) /\ IsDb(db')
         /\ db' = db \/ Blank(db') \/ \E l \in OperationLog : Effect(db, db', l)
<1>1. BookInv'
  BY BookStep
<1>2. CoreInv /\ Solvent(chain) /\ block \in 0..MaxOps /\ IsDb(db)
  BY DEF BookInv, CoreInv
<1>3. IsDb(db')
  <2>1. IsDb(db)'
    BY <1>1 DEF BookInv, CoreInv
  <2> QED
    BY <2>1 DEF IsDb
<1>4. CASE (Handle \/ PassBy) /\ block = 0
  <2>1. Blank(db')
    BY <1>2, <1>4, LaunchStep
  <2> QED
    BY <1>1, <1>2, <1>3, <2>1
<1>5. CASE Handle /\ block > 0
  <2>1. Effect(db, db', log) /\ log \in OperationLog
    BY <1>2, <1>5, HandleStep
  <2> QED
    BY <1>1, <1>2, <1>3, <2>1
<1>6. CASE db' = db
  BY <1>1, <1>2, <1>3, <1>6
<1>7. PassBy \/ Operate \/ UNCHANGED vars => db' = db
  <2>1. PassBy => db' = db
    BY DEF PassBy
  <2>2. Operate => db' = db
    BY <1>2, OperateStep
  <2>3. UNCHANGED vars => db' = db
    BY DEF vars
  <2> QED
    BY <2>1, <2>2, <2>3
<1>8. block = 0 \/ block > 0
  BY <1>2, BoundAssumption
<1> QED
  BY <1>4, <1>5, <1>6, <1>7, <1>8 DEF Next

\* The two sums hold of the tables after every single log.
SumsInv == BookInv /\ Summed(db) /\ Mirrors(db)

\* Every step keeps supplies, balances and debts in line.
LEMMA SumsStep ==
  ASSUME SumsInv, [Next]_vars
  PROVE  SumsInv'
<1>1. BookInv /\ Summed(db) /\ Mirrors(db)
  BY DEF SumsInv
<1>2. /\ BookInv' /\ IsDb(db) /\ IsDb(db')
      /\ db' = db \/ Blank(db') \/ \E l \in OperationLog : Effect(db, db', l)
  BY <1>1, BookMoves
<1>3. Summed(db') /\ Mirrors(db')
  <2>1. CASE db' = db
    BY <1>1, <2>1
  <2>2. CASE Blank(db')
    BY <1>2, <2>2, BlankSummed, BlankMirrors
  <2>3. CASE \E l \in OperationLog : Effect(db, db', l)
    BY <1>1, <1>2, <2>3, SummedNext, MirrorsNext
  <2> QED
    BY <1>2, <2>1, <2>2, <2>3
<1>4. Summed(db)' /\ Mirrors(db)'
  BY <1>3 DEF Summed, Mirrors, SupplyOf, Listed
<1> QED
  BY <1>2, <1>4 DEF SumsInv

\* Supplies are sums of balances and debts are supplies after every single log
\* (handleTransfer, addSupply).
THEOREM SumsInvariance == Spec => []SumsInv
<1>1. Init => SumsInv
  <2> SUFFICES ASSUME Init PROVE SumsInv
    OBVIOUS
  <2>1. BookInv /\ IsDb(db)
    BY BookInit DEF BookInv, CoreInv
  <2>2. Blank(db)
    BY DEF Init, Blank, EmptyDb, ZeroOf, Totals
  <2> QED
    BY <2>1, <2>2, BlankSummed, BlankMirrors DEF SumsInv
<1>2. SumsInv /\ [Next]_vars => SumsInv'
  BY SumsStep
<1> QED
  BY <1>1, <1>2, PTL DEF Spec

\* IouMirrored: the debt column is the IOU's supply after every single log, as
\* addSupply mirrors the one onto the other.
THEOREM IouIsMirrored == Spec => []IouMirrored
<1>1. SumsInv => IouMirrored
  BY DEF SumsInv, Mirrors, IouMirrored
<1> QED
  BY <1>1, SumsInvariance, PTL

\* The sum, and at rest the balances themselves.
LEMMA ConservedSupply ==
  ASSUME SumsInv
  PROVE  SupplyConserved
<1> SUFFICES ASSUME NEW t \in Reserves \cup Ious
             PROVE  /\ SumFunction(db.balances[t]) = SupplyOf(db, t)
                    /\ pending = <<>> /\ Owner(t) \in Followed => db.balances[t] = chain.owned[t]
  BY DEF SupplyConserved, SupplyOf, Owner, AllApplied
<1>1. SumFunction(db.balances[t]) = SupplyOf(db, t)
  BY DEF SumsInv, Summed
<1>2. ASSUME pending = <<>>, Owner(t) \in Followed PROVE db.balances[t] = chain.owned[t]
  <2>1. BookInv
    BY DEF SumsInv
  <2>2. Even(db, chain)
    BY <1>2, <2>1, EvenAtRest
  <2>3. IsDb(db) /\ IsChain(chain)
    BY <2>1 DEF BookInv, CoreInv
  <2>4. db.balances \in [Reserves \cup Ious -> [Holders -> Int]]
    BY <2>3, DbType
  <2>5. chain.owned \in [Reserves \cup Ious -> [Holders -> Int]]
    BY <2>3 DEF IsChain
  <2>6. \A h \in Holders : db.balances[t][h] = chain.owned[t][h]
    BY <1>2, <2>2 DEF Even
  <2>7. PICK f \in [Holders -> Int], g \in [Holders -> Int] : f = db.balances[t] /\ g = chain.owned[t]
    BY <2>4, <2>5
  <2>8. f = g
    BY <2>6, <2>7
  <2> QED
    BY <2>7, <2>8
<1> QED
  BY <1>1, <1>2

\* SupplyConserved: a token's supply is the sum of its balances after every single
\* log of handleTransfer, and the balances are the contract's at rest.
THEOREM SupplyIsConserved == Spec => []SupplyConserved
BY SumsInvariance, ConservedSupply, PTL

-----------------------------------------------------------------------------
(* The daily rows.                                                         *)

\* Rows of no later day or block than the present ones.
Dated(d, b, today) ==
  \A r \in Reserves, n \in Days :
    /\ d.values[r][n].block \in -1..b
    /\ n > today => d.values[r][n] = NoValue

\* The value row of r's day n and the rows of its assets.
LegAssets(d, r, n) == [a \in Listed(d, r) |->
  IF r = Meta THEN d.details[r][a][n].value ELSE Par(a, d.details[r][a][n].balance)]
LegDebts(d, r, n)  == [a \in Listed(d, r) |->
  IF r = Meta THEN d.details[r][a][n].iouValue ELSE Par(a, d.details[r][a][n].iouSupply)]

\* A day's two kinds of rows agree.
Agrees(d, r, n) ==
  /\ \A a \in Listed(d, r) : d.details[r][a][n].block = d.values[r][n].block
  /\ d.values[r][n] # NoValue =>
       /\ d.values[r][n].gross = SumFunction(LegAssets(d, r, n))
       /\ d.values[r][n].debt  = SumFunction(LegDebts(d, r, n))

\* The latest row of the base reserve says what its tables say.
BaseCurrent(d) ==
  IF \A n \in Days : d.values[Base][n] = NoValue THEN ParGross(d, Base) = 0 /\ ParDebt(d, Base) = 0
  ELSE \E n \in Days : /\ d.values[Base][n] # NoValue
                       /\ \A k \in Days : k > n => d.values[Base][k] = NoValue
                       /\ d.values[Base][n].gross = ParGross(d, Base)
                       /\ d.values[Base][n].debt = ParDebt(d, Base)

\* What a snapshot of r leaves in the two histories.
Retaken(d, e, m, r) ==
  /\ \A s \in Reserves, x \in Days :
       e.values[s][x] = IF s = r /\ x = day THEN ValueRow(m, r) ELSE d.values[s][x]
  /\ \A s \in Reserves, a \in Tokens, x \in Days :
       e.details[s][a][x] = IF s = r /\ x = day /\ a \in Listed(d, r) THEN DetailRow(m, r, a)
                            ELSE d.details[s][a][x]

\* A snapshot of r at m rewrites the rows of the day.
LEMMA SnapshotTakes ==
  ASSUME NEW d, Dated(d, block, day), NEW r \in Reserves, Agrees(d, r, day), day \in Days, block \in Nat,
         NEW m, IsDb(m), m.values = d.values, m.details = d.details, Listed(m, r) = Listed(d, r),
         m.reserves[r].kind # None,
         NEW e, e.values = Snapshot(m, r).values, e.details = Snapshot(m, r).details
  PROVE  Retaken(d, e, m, r)
<1>1. PICK f : f = Snapshot(m, r)
  OBVIOUS
<1>2. /\ \A s \in Reserves, x \in Days : f.values[s][x] = ValueAfter(m, r, s, x)
      /\ \A s \in Reserves, a \in Tokens, x \in Days : f.details[s][a][x] = DetailAfter(m, r, s, a, x)
  BY <1>1, SnapshotFrame
<1>3. d.values[r][day].block \in -1..block
  BY DEF Dated
<1>4. Replaces(m.values[r][day])
  BY <1>3 DEF Replaces
<1>5. \A a \in Listed(d, r) : Replaces(m.details[r][a][day])
  BY <1>3 DEF Replaces, Agrees
<1>6. \A s \in Reserves, x \in Days :
       e.values[s][x] = IF s = r /\ x = day THEN ValueRow(m, r) ELSE d.values[s][x]
  BY <1>1, <1>2, <1>4 DEF ValueAfter
<1>7. \A s \in Reserves, a \in Tokens, x \in Days :
       e.details[s][a][x] = IF s = r /\ x = day /\ a \in Listed(d, r) THEN DetailRow(m, r, a)
                            ELSE d.details[s][a][x]
  BY <1>1, <1>2, <1>5 DEF DetailAfter
<1> QED
  BY <1>6, <1>7 DEF Retaken

\* The row taken is the sum of the rows taken with it.
LEMMA RowTaken ==
  ASSUME NEW m, IsDb(m), NEW r \in Reserves, m.reserves[r].kind # None
  PROVE  /\ ValueRow(m, r).block = block
         /\ ValueRow(m, r).gross = SumFunction([a \in Listed(m, r) |->
              IF r = Meta THEN LegValue(m, a, m.holdings[r][a]) ELSE Par(a, m.holdings[r][a])])
         /\ ValueRow(m, r).debt = SumFunction([a \in Listed(m, r) |->
              IF r = Meta THEN LegValue(m, a, m.assets[r][a].iouSupply) ELSE Par(a, m.assets[r][a].iouSupply)])
<1>1. m.reserves[r].kind = KindOf(r)
  BY DbType
<1>2. /\ ValueRow(m, r).block = block /\ ValueRow(m, r).gross = Gross(m, r)
      /\ ValueRow(m, r).debt = Debt(m, r)
  BY DEF ValueRow
<1>3. CASE r = Meta
  <2>1. m.reserves[r].kind = "meta"
    BY <1>1, <1>3, AddressAssumption DEF KindOf
  <2>2. Gross(m, r) = SumFunction([a \in Listed(m, r) |-> LegValue(m, a, m.holdings[r][a])])
    BY <2>1 DEF Gross, ReserveValue
  <2>3. PICK units : units = [b \in Tokens |-> m.assets[r][b].iouSupply]
    OBVIOUS
  <2>4. Debt(m, r) = SumFunction([a \in Listed(m, r) |-> LegValue(m, a, units[a])])
    BY <2>1, <2>3 DEF Debt, ReserveValue
  <2>5. Debt(m, r) = SumFunction([a \in Listed(m, r) |-> LegValue(m, a, m.assets[r][a].iouSupply)])
    <3>1. \A a \in Listed(m, r) : units[a] = m.assets[r][a].iouSupply
      BY <2>3 DEF Listed
    <3>2. PICK f, g : /\ f = [a \in Listed(m, r) |-> LegValue(m, a, units[a])]
                      /\ g = [a \in Listed(m, r) |-> LegValue(m, a, m.assets[r][a].iouSupply)]
      OBVIOUS
    <3>3. \A a \in Listed(m, r) : f[a] = g[a]
      BY <3>1, <3>2
    <3>4. f = g
      BY <3>2, <3>3
    <3> QED
      BY <2>4, <3>2, <3>4
  <2> QED
    BY <1>2, <1>3, <2>2, <2>5
<1>4. CASE r # Meta
  <2>1. m.reserves[r].kind # "meta"
    BY <1>1, <1>4 DEF KindOf, Reserves
  <2>2. Gross(m, r) = SumFunction([a \in Listed(m, r) |-> Par(a, m.holdings[r][a])])
    BY <2>1 DEF Gross, ReserveValue, ParGross
  <2>3. Debt(m, r) = SumFunction([a \in Listed(m, r) |-> Par(a, m.assets[r][a].iouSupply)])
    BY <2>1 DEF Debt, ReserveValue, ParDebt
  <2> QED
    BY <1>2, <1>4, <2>2, <2>3
<1> QED
  BY <1>3, <1>4

\* A retaken row is of the present block.
LEMMA RetakenDated ==
  ASSUME NEW d, NEW e, NEW m, NEW r \in Reserves, Retaken(d, e, m, r), Dated(d, block, day),
         block \in Nat, day \in Days
  PROVE  Dated(e, block, day)
<1>1. ValueRow(m, r).block = block
  BY DEF ValueRow
<1>2. \A x \in Days : x > day => x # day
  BY DEF Days
<1>3. block \in -1..block
  OBVIOUS
<1> QED
  BY <1>1, <1>2, <1>3 DEF Dated, Retaken

\* Rows that are not rewritten agree as before.
LEMMA AgreesSame ==
  ASSUME NEW d, NEW e, NEW r, NEW n, Listed(e, r) = Listed(d, r), e.values[r][n] = d.values[r][n],
         \A a \in Listed(d, r) : e.details[r][a][n] = d.details[r][a][n], Agrees(d, r, n)
  PROVE  Agrees(e, r, n)
<1>1. LegAssets(e, r, n) = LegAssets(d, r, n)
  BY DEF LegAssets
<1>2. LegDebts(e, r, n) = LegDebts(d, r, n)
  BY DEF LegDebts
<1> QED
  BY <1>1, <1>2 DEF Agrees

\* Rows that are rewritten together agree.
LEMMA RetakenAgrees ==
  ASSUME NEW d, NEW e, NEW m, IsDb(m), NEW r \in Reserves, Retaken(d, e, m, r), Listed(m, r) = Listed(d, r),
         m.reserves[r].kind # None, day \in Days, NEW s \in Reserves, NEW n \in Days,
         Listed(e, s) = Listed(d, s), Agrees(d, s, n)
  PROVE  Agrees(e, s, n)
<1>1. \A a \in Listed(d, s) : a \in Tokens
  BY DEF Listed
<1>2. CASE s = r /\ n = day
  <2>1. /\ ValueRow(m, r).block = block
        /\ ValueRow(m, r).gross = SumFunction([a \in Listed(m, r) |->
              IF r = Meta THEN LegValue(m, a, m.holdings[r][a]) ELSE Par(a, m.holdings[r][a])])
        /\ ValueRow(m, r).debt = SumFunction([a \in Listed(m, r) |->
              IF r = Meta THEN LegValue(m, a, m.assets[r][a].iouSupply) ELSE Par(a, m.assets[r][a].iouSupply)])
    BY RowTaken
  <2>2. e.values[s][n] = ValueRow(m, r)
    BY <1>2 DEF Retaken
  <2>3. \A a \in Listed(e, s) : e.details[s][a][n] = DetailRow(m, r, a)
    BY <1>1, <1>2 DEF Retaken
  <2>4. \A a : /\ DetailRow(m, r, a).block = block /\ DetailRow(m, r, a).balance = m.holdings[r][a]
               /\ DetailRow(m, r, a).iouSupply = m.assets[r][a].iouSupply
               /\ DetailRow(m, r, a).value = LegValue(m, a, m.holdings[r][a])
               /\ DetailRow(m, r, a).iouValue = LegValue(m, a, m.assets[r][a].iouSupply)
    BY DEF DetailRow
  <2>5. PICK S : S = Listed(m, r) /\ S = Listed(e, s)
    BY <1>2
  <2>6. PICK f, g : /\ f = [a \in S |-> IF r = Meta THEN LegValue(m, a, m.holdings[r][a])
                                         ELSE Par(a, m.holdings[r][a])]
                    /\ g = [a \in S |-> IF r = Meta THEN LegValue(m, a, m.assets[r][a].iouSupply)
                                         ELSE Par(a, m.assets[r][a].iouSupply)]
    OBVIOUS
  <2>7. LegAssets(e, s, n) = f
    <3>1. PICK h : h = LegAssets(e, s, n)
      OBVIOUS
    <3>2. h = [a \in S |-> IF s = Meta THEN e.details[s][a][n].value ELSE Par(a, e.details[s][a][n].balance)]
      BY <2>5, <3>1 DEF LegAssets
    <3>3. \A a \in S : h[a] = f[a]
      BY <1>2, <2>3, <2>4, <2>5, <2>6, <3>2
    <3> QED
      BY <2>6, <3>1, <3>2, <3>3
  <2>8. LegDebts(e, s, n) = g
    <3>1. PICK h : h = LegDebts(e, s, n)
      OBVIOUS
    <3>2. h = [a \in S |-> IF s = Meta THEN e.details[s][a][n].iouValue ELSE Par(a, e.details[s][a][n].iouSupply)]
      BY <2>5, <3>1 DEF LegDebts
    <3>3. \A a \in S : h[a] = g[a]
      BY <1>2, <2>3, <2>4, <2>5, <2>6, <3>2
    <3> QED
      BY <2>6, <3>1, <3>2, <3>3
  <2>9. e.values[s][n].gross = SumFunction(f) /\ e.values[s][n].debt = SumFunction(g)
    BY <2>1, <2>2, <2>5, <2>6
  <2>10. \A a \in Listed(e, s) : e.details[s][a][n].block = e.values[s][n].block
    BY <2>1, <2>2, <2>3, <2>4
  <2> QED
    BY <2>7, <2>8, <2>9, <2>10 DEF Agrees
<1>3. CASE ~ (s = r /\ n = day)
  <2>1. e.values[s][n] = d.values[s][n] /\ \A a \in Listed(d, s) : e.details[s][a][n] = d.details[s][a][n]
    BY <1>1, <1>3 DEF Retaken
  <2> QED
    BY <2>1, AgreesSame
<1> QED
  BY <1>2, <1>3

\* The par totals go by the listed assets' holdings and debts.
LEMMA ParSame ==
  ASSUME NEW d, NEW e, NEW r, Listed(e, r) = Listed(d, r),
         \A a \in Listed(d, r) : /\ e.holdings[r][a] = d.holdings[r][a]
                                 /\ e.assets[r][a].iouSupply = d.assets[r][a].iouSupply
  PROVE  ParGross(e, r) = ParGross(d, r) /\ ParDebt(e, r) = ParDebt(d, r)
<1>1. PICK S : S = Listed(d, r) /\ S = Listed(e, r)
  OBVIOUS
<1>2. [a \in S |-> Par(a, e.holdings[r][a])] = [a \in S |-> Par(a, d.holdings[r][a])]
  BY <1>1
<1>3. [a \in S |-> Par(a, e.assets[r][a].iouSupply)] = [a \in S |-> Par(a, d.assets[r][a].iouSupply)]
  BY <1>1
<1>4. ParGross(e, r) = ParGross(d, r)
  BY <1>1, <1>2 DEF ParGross
<1>5. ParDebt(e, r) = ParDebt(d, r)
  BY <1>1, <1>3 DEF ParDebt
<1> QED
  BY <1>4, <1>5

\* A snapshot makes the base reserve current.
LEMMA BaseTaken ==
  ASSUME NEW d, NEW e, NEW m, IsDb(m), Retaken(d, e, m, Base), Dated(d, block, day),
         block \in Nat, day \in Days, m.reserves[Base].kind # None, Listed(e, Base) = Listed(m, Base),
         \A a \in Listed(m, Base) : /\ e.holdings[Base][a] = m.holdings[Base][a]
                                    /\ e.assets[Base][a].iouSupply = m.assets[Base][a].iouSupply
  PROVE  BaseCurrent(e)
<1>1. Base \in Reserves /\ Base # Meta
  BY AddressAssumption DEF Reserves
<1>2. ParGross(e, Base) = ParGross(m, Base) /\ ParDebt(e, Base) = ParDebt(m, Base)
  BY ParSame
<1>3. e.values[Base][day] = ValueRow(m, Base)
  BY <1>1 DEF Retaken
<1>4. ValueRow(m, Base).gross = ParGross(m, Base) /\ ValueRow(m, Base).debt = ParDebt(m, Base)
  BY <1>1, RowTaken DEF ParGross, ParDebt
<1>5. e.values[Base][day] # NoValue
  <2>1. ValueRow(m, Base).block = block
    BY DEF ValueRow
  <2> QED
    BY <1>3, <2>1 DEF NoValue
<1>6. \A k \in Days : k > day => e.values[Base][k] = NoValue
  <2>1. \A k \in Days : k > day => k # day
    BY DEF Days
  <2> QED
    BY <1>1, <2>1 DEF Retaken, Dated
<1> QED
  BY <1>2, <1>3, <1>4, <1>5, <1>6 DEF BaseCurrent

\* A step that leaves it alone keeps it current.
LEMMA BaseKept ==
  ASSUME NEW d, NEW e, BaseCurrent(d), \A n \in Days : e.values[Base][n] = d.values[Base][n],
         Listed(e, Base) = Listed(d, Base),
         \A a \in Listed(d, Base) : /\ e.holdings[Base][a] = d.holdings[Base][a]
                                    /\ e.assets[Base][a].iouSupply = d.assets[Base][a].iouSupply
  PROVE  BaseCurrent(e)
<1>1. ParGross(e, Base) = ParGross(d, Base) /\ ParDebt(e, Base) = ParDebt(d, Base)
  BY ParSame
<1> QED
  BY <1>1 DEF BaseCurrent

\* The quantities of the base reserve's par totals.
BaseSame(d, e) ==
  \A a \in Listed(d, Base) : /\ e.holdings[Base][a] = d.holdings[Base][a]
                             /\ e.assets[Base][a].iouSupply = d.assets[Base][a].iouSupply

\* A log leaves the histories and the base reserve's totals alone, or retakes
\* the rows of one followed reserve from what the log leaves.
Rewritten(d, e, m, r) ==
  /\ IsDb(m) /\ Listed(m, r) = Listed(d, r) /\ m.reserves[r].kind # None
  /\ m.values = d.values /\ m.details = d.details
  /\ e.values = Snapshot(m, r).values /\ e.details = Snapshot(m, r).details
  /\ IF r = Base THEN BaseSame(m, e) ELSE BaseSame(d, e)

\* Neither the histories nor the base reserve change.
Unwritten(d, e) == e.values = d.values /\ e.details = d.details /\ BaseSame(d, e)

\* A log that adds nothing to the base reserve leaves it the same.
LEMMA BaseFlows ==
  ASSUME NEW d, IsDb(d), NEW l, NEW e, Effect(d, e, l), NEW a \in Listed(d, Base)
  PROVE  /\ a \in Tokens /\ Iou(Base, a) \in Ious /\ d.assets[Base][a].iou = Iou(Base, a)
         /\ HoldingFlow(l, Base, a) = 0 => e.holdings[Base][a] = d.holdings[Base][a]
         /\ SupplyFlow(l, Iou(Base, a)) = 0 => e.assets[Base][a].iouSupply = d.assets[Base][a].iouSupply
<1>1. Base \in Reserves
  BY DEF Reserves
<1>2. a \in Tokens /\ Iou(Base, a) \in Ious /\ d.assets[Base][a].iou = Iou(Base, a)
  BY <1>1, ListedIou
<1>3. d.holdings \in [Reserves -> [Tokens -> Int]] /\ d.assets \in [Reserves -> [Tokens -> AssetRow]]
  BY DbType
<1>4. d.holdings[Base][a] \in Int /\ d.assets[Base][a].iouSupply \in Int
  BY <1>1, <1>2, <1>3 DEF AssetRow
<1>5. e.holdings[Base][a] = d.holdings[Base][a] + HoldingFlow(l, Base, a)
  BY <1>1, <1>2 DEF Effect
<1>6. d.assets[Base][a].iou # None
  BY DEF Listed
<1>7. e.assets[Base][a].iouSupply = d.assets[Base][a].iouSupply + SupplyFlow(l, Iou(Base, a))
  BY <1>1, <1>2, <1>6 DEF Effect
<1> QED
  BY <1>2, <1>4, <1>5, <1>7

\* A reserve's event retakes its snapshot.
LEMMA ActivityRewrites ==
  ASSUME setup \in Setups, NEW d, IsDb(d), Directory(d), NEW l \in OperationLog, l.event \in Activity,
         Source(l) \in setup.indexed, NEW e, Effect(d, e, l), History(d, e, l)
  PROVE  \E r \in Followed : \E m : Rewritten(d, e, m, r)
<1>1. l.addr \in Reserves /\ Snapped(d, e, l.addr)
  BY DEF History
<1>2. l.event # "NewClearReserve" /\ l.event # "Transfer"
  BY DEF Activity
<1>3. l.addr \in Followed
  BY <1>1, <1>2, AddressAssumption DEF Source, Followed
<1>4. PICK r : r = l.addr
  OBVIOUS
<1>5. PICK m : /\ IsDb(m) /\ Keeps(d, m, {"holdings", "reserves", "swapIou"}) /\ m.holdings = e.holdings
               /\ d.reserves[r].kind # None => m.reserves[r].kind # None
               /\ e.values = Snapshot(m, r).values /\ e.details = Snapshot(m, r).details
  BY <1>1, <1>4 DEF Snapped
<1>6. m.assets = d.assets /\ m.values = d.values /\ m.details = d.details
  BY <1>5 DEF Keeps, Tables
<1>7. Listed(m, r) = Listed(d, r) /\ Listed(m, Base) = Listed(d, Base)
  BY <1>6 DEF Listed
<1>8. d.reserves[r].kind # None
  BY <1>3, <1>4, FullList
<1>9. \A t : SupplyFlow(l, t) = 0
  BY <1>2 DEF SupplyFlow
<1>10. \A a \in Listed(d, Base) : e.assets[Base][a].iouSupply = d.assets[Base][a].iouSupply
  BY <1>9, BaseFlows
<1>11. CASE r = Base
  <2>1. BaseSame(m, e)
    BY <1>5, <1>6, <1>7, <1>10 DEF BaseSame
  <2> QED
    BY <1>3, <1>4, <1>5, <1>6, <1>7, <1>8, <1>11, <2>1 DEF Rewritten
<1>12. CASE r # Base
  <2>1. \A a : HoldingFlow(l, Base, a) = 0
    BY <1>4, <1>12 DEF HoldingFlow
  <2>2. BaseSame(d, e)
    BY <1>10, <2>1, BaseFlows DEF BaseSame
  <2> QED
    BY <1>3, <1>4, <1>5, <1>6, <1>7, <1>8, <1>12, <2>2 DEF Rewritten
<1> QED
  BY <1>11, <1>12

\* Only a followed reserve has assets.
LEMMA ListedFollowed ==
  ASSUME NEW d, Directory(d), NEW r \in Reserves, Listed(d, r) # {}
  PROVE  r \in Followed
<1> SUFFICES ASSUME r \notin setup.indexed PROVE FALSE
  BY DEF Followed
<1>1. ListedUpTo(d, r, 0)
  BY DEF Directory
<1>2. Cardinality(Listed(d, r)) = 0
  BY <1>1 DEF ListedUpTo
<1>3. Listed(d, r) = {}
  BY <1>2, ListedFinite, FS_EmptySet
<1> QED
  BY <1>3

\* A Transfer of an IOU retakes it, one of LP need not.
LEMMA TransferRewrites ==
  ASSUME setup \in Setups, NEW d, IsDb(d), Directory(d), NEW l \in OperationLog, l.event = "Transfer",
         NEW e, Effect(d, e, l), Resnapped(d, e, l.addr)
  PROVE  Unwritten(d, e) \/ \E r \in Followed : \E m : Rewritten(d, e, m, r)
<1>1. PICK t : t = l.addr
  OBVIOUS
<1>2. \A r, a : HoldingFlow(l, r, a) = 0
  BY DEF HoldingFlow, Activity
<1>3. \A a \in Listed(d, Base) : e.holdings[Base][a] = d.holdings[Base][a]
  BY <1>2, BaseFlows
<1>4. \A s : s # t => SupplyFlow(l, s) = 0
  BY <1>1 DEF SupplyFlow
<1>5. CASE e.values = d.values /\ e.details = d.details /\ e.assets = d.assets
  BY <1>3, <1>5 DEF Unwritten, BaseSame
<1>6. ASSUME NEW m, IsDb(m), Keeps(d, m, {"reserves", "balances", "iouSupply", "assets"}),
             m.assets = e.assets,
             \A s \in Reserves : d.reserves[s].kind # None => m.reserves[s].kind # None,
             e.values = Resnapshot(m, t).values, e.details = Resnapshot(m, t).details
      PROVE  Unwritten(d, e) \/ \E r \in Followed : \E x : Rewritten(d, e, x, r)
  <2>1. m.holdings = d.holdings /\ m.values = d.values /\ m.details = d.details
    BY <1>6 DEF Keeps, Tables
  <2>2. \A r \in Reserves : Listed(e, r) = Listed(d, r)
    BY DirectoryKept
  <2>3. \A r \in Reserves : Listed(m, r) = Listed(d, r)
    BY <1>6, <2>2 DEF Listed
  <2>4. PICK owners : owners = {r \in Reserves : \E a \in Listed(m, r) : m.assets[r][a].iou = t}
    OBVIOUS
  <2>5. \A r \in owners : \E a : t = <<r, a>>
    BY <1>6, <2>4, ListedIou DEF Iou
  <2>6. Base \notin owners => BaseSame(d, e)
    <3> SUFFICES ASSUME Base \notin owners, NEW a \in Listed(d, Base)
                 PROVE  /\ e.holdings[Base][a] = d.holdings[Base][a]
                        /\ e.assets[Base][a].iouSupply = d.assets[Base][a].iouSupply
      BY DEF BaseSame
    <3>1. Base \in Reserves
      BY DEF Reserves
    <3>2. a \in Listed(m, Base) /\ m.assets[Base][a].iou = Iou(Base, a)
      BY <1>6, <2>3, <3>1, ListedIou
    <3>3. t # Iou(Base, a)
      BY <2>4, <3>1, <3>2
    <3> QED
      BY <1>3, <1>4, <3>3, BaseFlows
  <2>7. CASE t \in Ious /\ owners # {}
    <3>1. PICK r \in owners : Resnapshot(m, t) = Snapshot(m, r)
      BY <2>4, <2>7 DEF Resnapshot
    <3>2. r \in Reserves /\ Listed(d, r) # {}
      BY <2>3, <2>4, <3>1
    <3>3. r \in Followed
      BY <3>2, ListedFollowed
    <3>4. m.reserves[r].kind # None
      BY <1>6, <3>2, <3>3, FullList
    <3>5. IF r = Base THEN BaseSame(m, e) ELSE BaseSame(d, e)
      <4>1. CASE r = Base
        <5>1. BaseSame(m, e)
          BY <1>3, <1>6, <2>1, <2>3, <3>2, <4>1 DEF BaseSame
        <5> QED
          BY <4>1, <5>1
      <4>2. CASE r # Base
        <5>1. Base \notin owners
          BY <2>5, <3>1, <4>2
        <5> QED
          BY <2>6, <4>2, <5>1
      <4> QED
        BY <4>1, <4>2
    <3>6. Rewritten(d, e, m, r)
      BY <1>6, <2>1, <2>3, <3>1, <3>2, <3>4, <3>5 DEF Rewritten
    <3> QED
      BY <3>3, <3>6
  <2>8. CASE ~ (t \in Ious /\ owners # {})
    <3>1. Resnapshot(m, t) = m
      BY <2>4, <2>8 DEF Resnapshot
    <3>2. Base \notin owners
      <4>1. Base \in owners => t \in Ious
        BY <1>6, <2>4, ListedIou
      <4> QED
        BY <2>8, <4>1
    <3> QED
      BY <1>6, <2>1, <2>6, <3>1, <3>2 DEF Unwritten
  <2> QED
    BY <2>7, <2>8
<1> QED
  BY <1>1, <1>5, <1>6 DEF Resnapped

\* Every log does one or the other.
LEMMA LogRewrites ==
  ASSUME setup \in Setups, NEW d, IsDb(d), Directory(d), NEW l \in OperationLog,
         Source(l) \in setup.indexed, NEW e, Effect(d, e, l), History(d, e, l)
  PROVE  Unwritten(d, e) \/ \E r \in Followed : \E m : Rewritten(d, e, m, r)
<1>1. CASE l.event \in Activity
  BY <1>1, ActivityRewrites
<1>2. CASE l.event = "Transfer"
  <2>1. Resnapped(d, e, l.addr)
    BY <1>2 DEF History, Activity
  <2> QED
    BY <1>2, <2>1, TransferRewrites
<1>3. CASE l.event \notin Activity /\ l.event # "Transfer"
  BY <1>3 DEF History, Unwritten, BaseSame
<1> QED
  BY <1>1, <1>2, <1>3

\* The histories of the tables d at block b of day n0.
HistoryOk(d, b, today) ==
  /\ Dated(d, b, today)
  /\ \A r \in Followed, n \in Days : Agrees(d, r, n)
  /\ Base \in Followed => BaseCurrent(d)

\* So the histories stay right.
LEMMA HistoryNext ==
  ASSUME setup \in Setups, day \in Days, block \in Nat, NEW d, IsDb(d), Directory(d), NEW l \in OperationLog,
         Source(l) \in setup.indexed, NEW e, Effect(d, e, l), History(d, e, l), HistoryOk(d, block, day)
  PROVE  HistoryOk(e, block, day)
<1>1. \A r \in Reserves : Listed(e, r) = Listed(d, r)
  BY DirectoryKept
<1>2. Followed \subseteq Reserves /\ Base \in Reserves
  BY DEF Followed, Reserves
<1>3. /\ Dated(d, block, day)
      /\ \A r \in Followed, n \in Days : Agrees(d, r, n)
      /\ Base \in Followed => BaseCurrent(d)
  BY DEF HistoryOk
<1>4. CASE Unwritten(d, e)
  <2>1. Dated(e, block, day)
    BY <1>3, <1>4 DEF Unwritten, Dated
  <2>2. ASSUME NEW r \in Followed, NEW n \in Days PROVE Agrees(e, r, n)
    <3>1. /\ Listed(e, r) = Listed(d, r) /\ e.values[r][n] = d.values[r][n]
          /\ \A a \in Listed(d, r) : e.details[r][a][n] = d.details[r][a][n]
      BY <1>1, <1>2, <1>4 DEF Unwritten
    <3>2. Agrees(d, r, n)
      BY <1>3
    <3> QED
      BY <3>1, <3>2, AgreesSame
  <2>3. Base \in Followed => BaseCurrent(e)
    <3>1. /\ \A n \in Days : e.values[Base][n] = d.values[Base][n]
          /\ Listed(e, Base) = Listed(d, Base)
      BY <1>1, <1>2, <1>4 DEF Unwritten
    <3>2. \A a \in Listed(d, Base) : /\ e.holdings[Base][a] = d.holdings[Base][a]
                                    /\ e.assets[Base][a].iouSupply = d.assets[Base][a].iouSupply
      BY <1>4 DEF Unwritten, BaseSame
    <3> QED
      BY <1>3, <3>1, <3>2, BaseKept
  <2> QED
    BY <2>1, <2>2, <2>3 DEF HistoryOk
<1>5. ASSUME NEW r \in Followed, NEW m, Rewritten(d, e, m, r) PROVE HistoryOk(e, block, day)
  <2>1. /\ IsDb(m) /\ Listed(m, r) = Listed(d, r) /\ m.reserves[r].kind # None
        /\ m.values = d.values /\ m.details = d.details
        /\ e.values = Snapshot(m, r).values /\ e.details = Snapshot(m, r).details
    BY <1>5 DEF Rewritten
  <2>2. r \in Reserves /\ Agrees(d, r, day)
    BY <1>2, <1>3
  <2>3. Retaken(d, e, m, r)
    BY <1>3, <2>1, <2>2, SnapshotTakes
  <2>4. Dated(e, block, day)
    BY <1>3, <2>2, <2>3, RetakenDated
  <2>5. ASSUME NEW s \in Followed, NEW n \in Days PROVE Agrees(e, s, n)
    <3>1. s \in Reserves /\ Listed(e, s) = Listed(d, s) /\ Agrees(d, s, n)
      BY <1>1, <1>2, <1>3
    <3> QED
      BY <2>1, <2>2, <2>3, <3>1, RetakenAgrees
  <2>6. Base \in Followed => BaseCurrent(e)
    <3>1. CASE r = Base
      <4>1. Listed(e, Base) = Listed(m, Base)
        BY <1>1, <1>2, <2>1, <3>1
      <4>2. \A a \in Listed(m, Base) : /\ e.holdings[Base][a] = m.holdings[Base][a]
                                       /\ e.assets[Base][a].iouSupply = m.assets[Base][a].iouSupply
        BY <1>5, <3>1 DEF Rewritten, BaseSame
      <4>3. Retaken(d, e, m, Base) /\ m.reserves[Base].kind # None /\ IsDb(m)
        BY <2>1, <2>3, <3>1
      <4> QED
        BY <1>3, <4>1, <4>2, <4>3, BaseTaken
    <3>2. CASE r # Base
      <4>1. \A n \in Days : e.values[Base][n] = d.values[Base][n]
        BY <1>2, <2>3, <3>2 DEF Retaken
      <4>2. \A a \in Listed(d, Base) : /\ e.holdings[Base][a] = d.holdings[Base][a]
                                       /\ e.assets[Base][a].iouSupply = d.assets[Base][a].iouSupply
        BY <1>5, <3>2 DEF Rewritten, BaseSame
      <4>3. Listed(e, Base) = Listed(d, Base)
        BY <1>1, <1>2
      <4> QED
        BY <1>3, <4>1, <4>2, <4>3, BaseKept
    <3> QED
      BY <3>1, <3>2
  <2> QED
    BY <2>4, <2>5, <2>6 DEF HistoryOk
<1> QED
  BY <1>4, <1>5, LogRewrites

\* Empty histories agree.
LEMMA BlankHistory ==
  ASSUME NEW d, IsDb(d), Blank(d), NEW b \in Nat, NEW today
  PROVE  HistoryOk(d, b, today)
<1>1. Followed \subseteq Reserves /\ Base \in Reserves
  BY DEF Followed, Reserves
<1>2. \A r \in Reserves, n \in Days : d.values[r][n] = NoValue
  BY DEF Blank
<1>3. \A r \in Reserves, a \in Tokens, n \in Days : d.details[r][a][n] = NoDetail
  BY DEF Blank
<1>4. NoValue.block = -1 /\ NoDetail.block = -1 /\ -1 \in -1..b
  BY DEF NoValue, NoDetail
<1>5. Dated(d, b, today)
  BY <1>2, <1>4 DEF Dated
<1>6. \A r \in Followed, n \in Days : Agrees(d, r, n)
  BY <1>1, <1>2, <1>3, <1>4 DEF Agrees, Listed
<1>7. BaseCurrent(d)
  <2>1. PICK S : S = Listed(d, Base) /\ IsFiniteSet(S) /\ S \subseteq Tokens
    <3>1. Listed(d, Base) \subseteq Tokens
      BY DEF Listed
    <3> QED
      BY <3>1, ListedFinite
  <2>2. \A a \in S : Par(a, d.holdings[Base][a]) = 0 /\ Par(a, d.assets[Base][a].iouSupply) = 0
    <3>1. \A a \in S : d.holdings[Base][a] = 0 /\ d.assets[Base][a].iouSupply = 0
      BY <1>1, <2>1 DEF Blank
    <3>2. \A a \in S : Scale[a] \in Nat
      BY <2>1, AmountAssumption
    <3> QED
      BY <3>1, <3>2 DEF Par
  <2>3. PICK f, g : /\ f = [a \in S |-> Par(a, d.holdings[Base][a])]
                    /\ g = [a \in S |-> Par(a, d.assets[Base][a].iouSupply)]
    OBVIOUS
  <2>4. f \in [S -> Int] /\ g \in [S -> Int] /\ \A a \in S : f[a] = 0 /\ g[a] = 0
    BY <2>2, <2>3
  <2>5. SumFunction(f) = 0 /\ SumFunction(g) = 0
    BY <2>1, <2>4, SumZero
  <2>6. ParGross(d, Base) = 0 /\ ParDebt(d, Base) = 0
    BY <2>1, <2>3, <2>5 DEF ParGross, ParDebt
  <2> QED
    BY <1>1, <1>2, <2>6 DEF BaseCurrent
<1> QED
  BY <1>5, <1>6, <1>7 DEF HistoryOk

\* The invariant of the histories.
HistoryInv == BookInv /\ HistoryOk(db, block, day)

\* Every step keeps the histories in line.
LEMMA HistoryStep ==
  ASSUME HistoryInv, [Next]_vars
  PROVE  HistoryInv'
<1>1. BookInv /\ HistoryOk(db, block, day)
  BY DEF HistoryInv
<1>2. /\ BookInv' /\ IsDb(db) /\ IsDb(db')
  BY <1>1, BookMoves
<1>3. CoreInv /\ Solvent(chain) /\ block \in 0..MaxOps /\ block \in Nat /\ day \in Days /\ setup \in Setups
  BY <1>1, BoundAssumption DEF BookInv, CoreInv
<1>4. HistoryOk(db', block', day') /\ setup' = setup
  <2>1. CASE (Handle \/ PassBy) /\ block = 0
    <3>1. Blank(db') /\ block' = block /\ setup' = setup
      BY <1>3, <2>1, LaunchStep
    <3> QED
      BY <1>2, <1>3, <3>1, BlankHistory
  <2>2. CASE Handle /\ block > 0
    <3>1. /\ Effect(db, db', log) /\ History(db, db', log) /\ Source(log) \in setup.indexed
          /\ UNCHANGED <<setup, block, day>> /\ log \in OperationLog
      BY <1>3, <2>2, HandleStep
    <3>2. Directory(db)
      BY <1>3, <2>2, CoreDirectory
    <3>3. PICK l \in OperationLog : l = log
      BY <3>1
    <3>4. HistoryOk(db', block, day)
      BY <1>1, <1>2, <1>3, <3>1, <3>2, <3>3, HistoryNext
    <3> QED
      BY <3>1, <3>4
  <2>3. CASE PassBy /\ block > 0
    BY <1>1, <2>3 DEF PassBy
  <2>4. CASE Operate
    <3>1. /\ block' = block + 1 /\ day' \in {day, day + 1} \cap Days /\ UNCHANGED <<setup, db>>
      BY <1>3, <2>4, OperateStep
    <3>2. \A n \in Days : n > day' => n > day
      BY <1>3, <3>1 DEF Days
    <3>3. \A x : x \in -1..block => x \in -1..block'
      BY <1>3, <3>1
    <3>4. Dated(db, block', day')
      BY <1>1, <3>2, <3>3 DEF HistoryOk, Dated
    <3> QED
      BY <1>1, <3>1, <3>4 DEF HistoryOk
  <2>5. CASE UNCHANGED vars
    BY <1>1, <2>5 DEF vars
  <2>6. block = 0 \/ block > 0
    BY <1>3
  <2> QED
    BY <2>1, <2>2, <2>3, <2>4, <2>5, <2>6 DEF Next
<1>5. Followed' = Followed
  BY <1>4, SetupFixed
<1>6. HistoryOk(db, block, day)'
  BY <1>4, <1>5 DEF HistoryOk, Dated, Agrees, LegAssets, LegDebts, BaseCurrent, ParGross, ParDebt, Listed
<1> QED
  BY <1>2, <1>6 DEF HistoryInv

\* The rows of every day agree and the base reserve's latest row is current, after
\* every single log (snapshotReserveValue, handleTransfer's resnapshot).
THEOREM HistoryInvariance == Spec => []HistoryInv
<1>1. Init => HistoryInv
  <2> SUFFICES ASSUME Init PROVE HistoryInv
    OBVIOUS
  <2>1. BookInv /\ IsDb(db)
    BY BookInit DEF BookInv, CoreInv
  <2>2. Blank(db) /\ block = 0
    BY DEF Init, Blank, EmptyDb, ZeroOf, Totals
  <2> QED
    BY <2>1, <2>2, BlankHistory DEF HistoryInv
<1>2. HistoryInv /\ [Next]_vars => HistoryInv'
  BY HistoryStep
<1> QED
  BY <1>1, <1>2, PTL DEF Spec

\* What the invariant of the histories says of the properties.
LEMMA AgreedHistories ==
  ASSUME HistoryInv
  PROVE  HistoriesAgree
<1> SUFFICES ASSUME NEW r \in Followed, NEW n \in Days
             PROVE  /\ \A a \in Listed(db, r) : db.details[r][a][n].block = db.values[r][n].block
                    /\ db.values[r][n] # NoValue =>
                         /\ db.values[r][n].gross = SumFunction(LegAssets(db, r, n))
                         /\ db.values[r][n].debt  = SumFunction(LegDebts(db, r, n))
  BY DEF HistoriesAgree, LegAssets, LegDebts
<1>1. Agrees(db, r, n)
  BY DEF HistoryInv, HistoryOk
<1> QED
  BY <1>1 DEF Agrees

LEMMA CurrentSnapshot ==
  ASSUME HistoryInv
  PROVE  BaseSnapshotCurrent
<1> SUFFICES ASSUME Base \in Followed
             PROVE  IF RowDays(Base) = {} THEN ParGross(db, Base) = 0 /\ ParDebt(db, Base) = 0
                    ELSE /\ LatestRow(Base).gross = ParGross(db, Base)
                         /\ LatestRow(Base).debt = ParDebt(db, Base)
  BY DEF BaseSnapshotCurrent
<1>1. BaseCurrent(db)
  BY DEF HistoryInv, HistoryOk
<1>2. CASE RowDays(Base) = {}
  BY <1>1, <1>2 DEF RowDays, BaseCurrent
<1>3. CASE RowDays(Base) # {}
  <2>1. ~ \A n \in Days : db.values[Base][n] = NoValue
    BY <1>3 DEF RowDays
  <2>2. PICK n \in Days : /\ db.values[Base][n] # NoValue
                          /\ \A k \in Days : k > n => db.values[Base][k] = NoValue
                          /\ db.values[Base][n].gross = ParGross(db, Base)
                          /\ db.values[Base][n].debt = ParDebt(db, Base)
    BY <1>1, <2>1 DEF BaseCurrent
  <2>3. Days \subseteq Nat
    BY DEF Days
  <2>4. n \in RowDays(Base) /\ \A e \in RowDays(Base) : e \in Nat /\ e <= n
    BY <2>2, <2>3 DEF RowDays
  <2>5. PICK m : m = CHOOSE x \in RowDays(Base) : \A e \in RowDays(Base) : e <= x
    OBVIOUS
  <2>6. m \in RowDays(Base) /\ \A e \in RowDays(Base) : e <= m
    BY <2>4, <2>5
  <2>7. m = n
    BY <2>4, <2>6
  <2>8. LatestRow(Base) = db.values[Base][n]
    BY <2>5, <2>7 DEF LatestRow
  <2> QED
    BY <1>3, <2>2, <2>8
<1> QED
  BY <1>2, <1>3

\* HistoriesAgree: snapshotReserveValue and snapshotReserveAssets leave a day's
\* value row and its per-asset rows of one block, and the latter sum to the former.
THEOREM HistoriesDoAgree == Spec => []HistoriesAgree
BY HistoryInvariance, AgreedHistories, PTL

\* BaseSnapshotCurrent: after every log the base reserve's latest daily row has its
\* present assets and debt, also when an IOU Transfer follows the event (handleTransfer resnapshots).
THEOREM BaseSnapshotIsCurrent == Spec => []BaseSnapshotCurrent
BY HistoryInvariance, CurrentSnapshot, PTL

\* Positions are places in the list, while the deployments are read and after.
LEMMA Positions ==
  ASSUME NEW d, setup \in Setups, NEW r \in Reserves, NEW m, ListedUpTo(d, r, m), NEW a \in Tokens
  PROVE  IF a \in Listed(d, r) THEN d.assets[r][a].position \in 0..Len(ListOf(r)) - 1
                               ELSE d.assets[r][a].position = -1
<1>1. CASE a \in Listed(d, r)
  <2>1. d.assets[r][a].iou # None
    BY <1>1 DEF Listed
  <2>2. a \in AssetsOf(r)
    BY <2>1 DEF ListedUpTo
  <2>3. PICK i \in DOMAIN ListOf(r) : ListOf(r)[i] = a
    BY <2>2, Lists
  <2>4. d.assets[r][a].position = i - 1
    BY <2>1, <2>3 DEF ListedUpTo
  <2>5. ListOf(r) \in Seq(Tokens)
    BY Lists
  <2>6. PICK k \in Nat : k = Len(ListOf(r)) /\ i \in 1..k
    BY <2>3, <2>5
  <2>7. i - 1 \in 0..k - 1
    BY <2>6
  <2> QED
    BY <1>1, <2>4, <2>6, <2>7
<1>2. CASE a \notin Listed(d, r)
  <2>1. d.assets[r][a].iou = None
    BY <1>2 DEF Listed
  <2> QED
    BY <1>2, <2>1 DEF ListedUpTo
<1> QED
  BY <1>1, <1>2

LEMMA Typed ==
  ASSUME HistoryInv
  PROVE  TypeOK
<1>1. CoreInv /\ Dated(db, block, day)
  BY DEF HistoryInv, BookInv, HistoryOk
<1>2. IsDb(db) /\ setup \in Setups /\ block \in 0..MaxOps /\ day \in Days
  BY <1>1 DEF CoreInv
<1>3. /\ db.reserves \in [Reserves -> ReserveRow]
      /\ \A r \in Reserves : db.reserves[r].kind \in {None, KindOf(r)}
  BY <1>2, DbType
<1>4. \A r \in Reserves : \A col \in {"deposits", "withdrawals", "minted", "redeemed", "swaps"} :
            db.reserves[r][col] \in Nat
  BY <1>3 DEF ReserveRow
<1>5. ASSUME NEW r \in Reserves, NEW a \in Tokens
      PROVE  IF a \in Listed(db, r) THEN db.assets[r][a].position \in 0..Len(ListOf(r)) - 1
                                    ELSE db.assets[r][a].position = -1
  <2>1. PICK m : ListedUpTo(db, r, m)
    <3>1. CASE block = 0
      BY <1>1, <3>1 DEF CoreInv, Launching, LaunchedTo
    <3>2. CASE block # 0
      BY <1>1, <3>2 DEF CoreInv, Running, Directory
    <3> QED
      BY <3>1, <3>2
  <2> QED
    BY <1>2, <2>1, Positions
<1>6. \A r \in Reserves : \A d \in Days : db.values[r][d].block \in -1..block
  BY <1>1 DEF Dated
<1> QED
  BY <1>2, <1>3, <1>4, <1>5, <1>6 DEF TypeOK

\* TypeOK: amounts stay natural, positions within the list and rows within the past,
\* whatever the handlers apply.
THEOREM TypeCorrect == Spec => []TypeOK
BY HistoryInvariance, Typed, PTL

-----------------------------------------------------------------------------
(* What the valuation views make of the tables.                             *)

\* A product is as large as its factor.
LEMMA Product ==
  ASSUME NEW f \in Nat, NEW p \in Nat, NEW q \in Nat, p <= q
  PROVE  f * p <= f * q /\ f * p \in Nat /\ f * q = q * f
<1>1. f * (q - p) >= 0
  OBVIOUS
<1>2. f * (q - p) = f * q - f * p
  OBVIOUS
<1> QED
  BY <1>1, <1>2

\* Terms within multiples of others have a sum within the multiple.
LEMMA SumWithin ==
  ASSUME NEW S, IsFiniteSet(S), NEW f \in [S -> Int], NEW g \in [S -> Int], NEW c \in Int
  PROVE  /\ (\A y \in S : g[y] <= c * f[y]) => SumFunction(g) <= c * SumFunction(f)
         /\ (\A y \in S : c * f[y] <= g[y]) => c * SumFunction(f) <= SumFunction(g)
<1>1. PICK h : h = [y \in S |-> c * f[y]]
  OBVIOUS
<1>2. ASSUME NEW y \in S PROVE c * f[y] \in Int
  <2>1. PICK n \in Int : n = f[y]
    OBVIOUS
  <2> QED
    BY <2>1
<1>3. h \in [S -> Int] /\ \A y \in S : h[y] = c * f[y]
  BY <1>1, <1>2
<1>4. SumFunction(h) = c * SumFunction(f)
  BY <1>3, SumScale
<1>5. ASSUME \A y \in S : g[y] <= c * f[y] PROVE SumFunction(g) <= SumFunction(h)
  <2>1. \A y \in S : g[y] <= h[y]
    BY <1>3, <1>5
  <2> QED
    BY <1>3, <2>1, SumLeq
<1>6. ASSUME \A y \in S : c * f[y] <= g[y] PROVE SumFunction(h) <= SumFunction(g)
  <2>1. \A y \in S : h[y] <= g[y]
    BY <1>3, <1>6
  <2> QED
    BY <1>3, <2>1, SumLeq
<1> QED
  BY <1>4, <1>5, <1>6

\* g is p weighted by f.
Weighted(S, f, p, g) == \A y \in S : g[y] = f[y] * p[y]

\* The mean of p, weighted by f and rounded down, is among the values of p that
\* have a weight.
LEMMA MeanIsBetween ==
  ASSUME NEW S, IsFiniteSet(S), NEW f \in [S -> Nat], NEW p \in [S -> Nat], NEW g \in [S -> Int],
         Weighted(S, f, p, g), SumFunction(f) # 0,
         NEW m, m = SumFunction(g) \div SumFunction(f)
  PROVE  /\ \E y \in S : f[y] > 0 /\ p[y] <= m
         /\ \E y \in S : f[y] > 0 /\ m <= p[y]
<1>1. SumFunction(f) \in Nat
  BY SumAtLeast
<1>2. g \in [S -> Nat]
  <2>1. ASSUME NEW y \in S PROVE g[y] \in Nat
    <3>1. PICK u \in Nat, v \in Nat : u = f[y] /\ v = p[y]
      OBVIOUS
    <3>2. u * v \in Nat
      BY Product
    <3> QED
      BY <3>1, <3>2 DEF Weighted
  <2> QED
    BY <2>1
<1>3. SumFunction(g) \in Nat
  BY <1>2, SumAtLeast
<1>4. PICK n \in Nat \ {0}, w \in Nat : n = SumFunction(f) /\ w = SumFunction(g)
  BY <1>1, <1>3
<1>5. m \in Nat /\ n * m <= w /\ w < n * m + n
  BY <1>4, Quotient
<1>6. PICK e \in [S -> Int] : e = f
  OBVIOUS
<1>7. \E y \in S : f[y] > 0 /\ p[y] <= m
  <2> SUFFICES ASSUME \A y \in S : f[y] > 0 => m < p[y] PROVE FALSE
    BY <1>5
  <2>1. PICK c \in Int : c = m + 1
    BY <1>5
  <2>2. ASSUME NEW y \in S PROVE c * f[y] <= g[y]
    <3>1. PICK u \in Nat, v \in Nat : u = f[y] /\ v = p[y]
      OBVIOUS
    <3>2. g[y] = u * v
      BY <3>1 DEF Weighted
    <3>3. CASE u = 0
      <4>1. 0 * v = 0 /\ c * 0 = 0
        BY <2>1, <3>1
      <4> QED
        BY <3>1, <3>2, <3>3, <4>1
    <3>4. CASE u > 0
      <4>1. c <= v /\ c \in Nat
        BY <1>5, <2>1, <3>1, <3>4
      <4>2. u * c <= u * v /\ u * c = c * u
        BY <4>1, Product
      <4> QED
        BY <3>1, <3>2, <4>2
    <3> QED
      BY <3>3, <3>4
  <2>3. c * SumFunction(e) <= SumFunction(g)
    <3>1. \A y \in S : c * e[y] <= g[y]
      BY <1>6, <2>2
    <3> QED
      BY <3>1, SumWithin
  <2>4. (m + 1) * n = n * m + n
    BY <1>5
  <2>5. n * m + n <= w
    BY <1>4, <1>6, <2>1, <2>3, <2>4
  <2> QED
    BY <1>5, <2>5
<1>8. \E y \in S : f[y] > 0 /\ m <= p[y]
  <2> SUFFICES ASSUME \A y \in S : f[y] > 0 => p[y] < m PROVE FALSE
    BY <1>5
  <2>1. PICK c \in Int : c = m - 1
    BY <1>5
  <2>2. ASSUME NEW y \in S PROVE g[y] <= c * f[y]
    <3>1. PICK u \in Nat, v \in Nat : u = f[y] /\ v = p[y]
      OBVIOUS
    <3>2. g[y] = u * v
      BY <3>1 DEF Weighted
    <3>3. CASE u = 0
      <4>1. 0 * v = 0 /\ c * 0 = 0
        BY <2>1, <3>1
      <4> QED
        BY <3>1, <3>2, <3>3, <4>1
    <3>4. CASE u > 0
      <4>1. v <= c /\ c \in Nat
        BY <1>5, <2>1, <3>1, <3>4
      <4>2. u * v <= u * c /\ u * c = c * u
        BY <4>1, Product
      <4> QED
        BY <3>1, <3>2, <4>2
    <3> QED
      BY <3>3, <3>4
  <2>3. SumFunction(g) <= c * SumFunction(e)
    <3>1. \A y \in S : g[y] <= c * e[y]
      BY <1>6, <2>2
    <3> QED
      BY <3>1, SumWithin
  <2>4. (m - 1) * n = n * m - n
    BY <1>5
  <2>5. w <= n * m - n
    BY <1>4, <1>6, <2>1, <2>3, <2>4
  <2> QED
    BY <1>5, <2>5
<1> QED
  BY <1>7, <1>8

\* Weights and prices are natural.
LEMMA NetParType ==
  ASSUME NEW d, IsDb(d), NEW r \in Reserves, NEW a \in Tokens
  PROVE  NetPar(d, r, a) \in Nat /\ Price(d, a) \in Nat
<1>1. /\ d.holdings \in [Reserves -> [Tokens -> Int]] /\ d.assets \in [Reserves -> [Tokens -> AssetRow]]
      /\ d.redemption \in [Tokens -> Prices \cup {None}]
  BY DbType
<1>2. PICK n \in Int : n = d.holdings[r][a] - d.assets[r][a].iouSupply
  <2>1. d.holdings[r][a] \in Int /\ d.assets[r][a].iouSupply \in Int
    BY <1>1 DEF AssetRow
  <2> QED
    BY <2>1
<1>3. PICK k \in Nat : k = Scale[a]
  BY AmountAssumption
<1>4. Nonneg(n) \in Nat
  BY DEF Nonneg
<1>5. Nonneg(n) * k \in Nat
  BY <1>4
<1>6. NetPar(d, r, a) = Nonneg(n) * k
  BY <1>2, <1>3 DEF NetPar, Par
<1>7. Price(d, a) \in Nat
  BY <1>1, AmountAssumption, OneAssumption DEF Price
<1> QED
  BY <1>5, <1>6, <1>7

\* The average of the view is such a mean.
LEMMA AverageBetween ==
  ASSUME BookInv
  PROVE  AverageIsBetween
<1>1. PICK d : d = db /\ IsDb(d)
  BY DEF BookInv, CoreInv
<1>2. Base \in Reserves
  BY DEF Reserves
<1>3. PICK S : S = Listed(d, Base) /\ IsFiniteSet(S)
  BY ListedFinite
<1>4. \A a \in S : NetPar(d, Base, a) \in Nat /\ Price(d, a) \in Nat
  <2>1. S \subseteq Tokens
    BY <1>3 DEF Listed
  <2> QED
    BY <1>1, <1>2, <2>1, NetParType
<1>5. PICK f : f = [a \in S |-> NetPar(d, Base, a)]
  OBVIOUS
<1>6. PICK p : p = [a \in S |-> Price(d, a)]
  OBVIOUS
<1>7. PICK g : g = [a \in S |-> NetPar(d, Base, a) * Price(d, a)]
  OBVIOUS
<1>8. f \in [S -> Nat] /\ p \in [S -> Nat]
  BY <1>4, <1>5, <1>6
<1>9. g \in [S -> Int] /\ Weighted(S, f, p, g)
  <2>1. ASSUME NEW a \in S PROVE NetPar(d, Base, a) * Price(d, a) \in Int
    <3>1. PICK u \in Nat, v \in Nat : u = NetPar(d, Base, a) /\ v = Price(d, a)
      BY <1>4
    <3> QED
      BY <3>1
  <2> QED
    BY <1>5, <1>6, <1>7, <2>1 DEF Weighted
<1>10. PICK m : m = AvgRedemption(d, Base)
  OBVIOUS
<1>11. m = IF SumFunction(f) = 0 THEN 0 ELSE SumFunction(g) \div SumFunction(f)
  BY <1>3, <1>5, <1>7, <1>10 DEF AvgRedemption
<1>12. SumFunction(f) \in Nat /\ \A a \in S : f[a] <= SumFunction(f)
  BY <1>3, <1>8, SumAtLeast
<1>13. PICK Q : Q = {a \in S : f[a] > 0}
  OBVIOUS
<1>14. CASE Q = {}
  <2>1. f \in [S -> Int] /\ \A a \in S : f[a] = 0
    BY <1>8, <1>13, <1>14
  <2>2. SumFunction(f) = 0
    BY <1>3, <2>1, SumZero
  <2>3. m = 0
    BY <1>11, <2>2
  <2>4. {a \in Listed(db, Base) : NetPar(db, Base, a) > 0} = {} /\ AvgRedemption(db, Base) = 0
    BY <1>1, <1>3, <1>5, <1>10, <1>13, <1>14, <2>3
  <2> QED
    BY <2>4 DEF AverageIsBetween
<1>15. CASE Q # {}
  <2>1. SumFunction(f) # 0
    BY <1>8, <1>12, <1>13, <1>15
  <2>2. m = SumFunction(g) \div SumFunction(f)
    BY <1>11, <2>1
  <2>3. /\ \E y \in S : f[y] > 0 /\ p[y] <= m
        /\ \E y \in S : f[y] > 0 /\ m <= p[y]
    BY <1>3, <1>8, <1>9, <2>1, <2>2, MeanIsBetween
  <2>4. PICK y \in Q, z \in Q : p[y] <= m /\ m <= p[z]
    BY <1>13, <2>3
  <2>5. {a \in Listed(db, Base) : NetPar(db, Base, a) > 0} = Q
    BY <1>1, <1>3, <1>5, <1>13
  <2>6. Price(db, y) <= AvgRedemption(db, Base) /\ AvgRedemption(db, Base) <= Price(db, z)
    BY <1>1, <1>6, <1>10, <1>13, <2>4
  <2> QED
    BY <1>15, <2>4, <2>5, <2>6 DEF AverageIsBetween
<1> QED
  BY <1>14, <1>15

\* AverageIsBetween: the average redemption price of clear_reserve_par_values lies
\* between prices of assets the base reserve holds more of than it owes.
THEOREM AverageStaysBetween == Spec => []AverageIsBetween
BY Invariance, AverageBetween, PTL

\* The base reserve's assets and debts at par are integers, net assets natural.
LEMMA ParTypes ==
  ASSUME NEW d, IsDb(d), NEW r \in Reserves
  PROVE  ParNav(d, r) \in Nat
<1>1. d.holdings \in [Reserves -> [Tokens -> Int]] /\ d.assets \in [Reserves -> [Tokens -> AssetRow]]
  BY DbType
<1>2. PICK S : S = Listed(d, r) /\ IsFiniteSet(S) /\ S \subseteq Tokens
  <2>1. IsFiniteSet(Listed(d, r))
    BY ListedFinite
  <2>2. Listed(d, r) \subseteq Tokens
    BY DEF Listed
  <2> QED
    BY <2>1, <2>2
<1>3. PICK f : f = [a \in S |-> Par(a, d.holdings[r][a])]
  OBVIOUS
<1>4. PICK g : g = [a \in S |-> Par(a, d.assets[r][a].iouSupply)]
  OBVIOUS
<1>5. ASSUME NEW a \in Tokens, NEW n \in Int PROVE Par(a, n) \in Int
  <2>1. PICK k \in Nat : k = Scale[a]
    BY AmountAssumption
  <2> QED
    BY <2>1 DEF Par
<1>6. f \in [S -> Int] /\ g \in [S -> Int]
  <2>1. ASSUME NEW a \in S PROVE Par(a, d.holdings[r][a]) \in Int /\ Par(a, d.assets[r][a].iouSupply) \in Int
    <3>1. a \in Tokens /\ d.holdings[r][a] \in Int /\ d.assets[r][a].iouSupply \in Int
      BY <1>1, <1>2 DEF AssetRow
    <3> QED
      BY <1>5, <3>1
  <2> QED
    BY <1>3, <1>4, <2>1
<1>7. SumFunction(f) \in Int /\ SumFunction(g) \in Int
  BY <1>2, <1>6, SumType
<1>8. ParGross(d, r) = SumFunction(f) /\ ParDebt(d, r) = SumFunction(g)
  BY <1>2, <1>3, <1>4 DEF ParGross, ParDebt
<1> QED
  BY <1>7, <1>8 DEF ParNav, Nonneg

\* The leg is at most the supply, so its value at most the net assets.
LEMMA LegIsClaim ==
  ASSUME SumsInv
  PROVE  LegWithinBase
<1> SUFFICES ASSUME pending = <<>>, Followed = Reserves
             PROVE  ConvertToValue(db.holdings[Meta][Base], ParNav(db, Base), db.reserves[Base].supply)
                      <= ParNav(db, Base)
  BY DEF LegWithinBase, AllApplied
<1>1. BookInv /\ Summed(db)
  BY DEF SumsInv
<1>2. Even(db, chain) /\ Solvent(chain)
  BY <1>1, EvenAtRest DEF BookInv
<1>3. IsDb(db) /\ IsChain(chain)
  BY <1>1 DEF BookInv, CoreInv
<1>4. Base \in Reserves /\ Meta \in Reserves /\ Meta \in Holders /\ Base \in Tokens
  BY DEF Reserves, Holders, Tokens
<1>5. db.balances[Base][Meta] = db.holdings[Meta][Base] + chain.donated
  <2>1. LegIsLpBalance
    BY <1>1, LegBalanced
  <2> QED
    BY <2>1 DEF LegIsLpBalance, AllApplied
<1>6. db.holdings[Meta][Base] = chain.accounted[Meta][Base]
  BY <1>2, <1>4 DEF Even
<1>7. chain.accounted[Meta][Base] \in Nat /\ chain.donated \in Nat
  BY <1>2, <1>3, <1>4 DEF Solvent, IsChain
<1>8. db.balances \in [Reserves \cup Ious -> [Holders -> Int]]
  BY <1>3, DbType
<1>9. PICK f \in [Holders -> Int] : f = db.balances[Base]
  BY <1>4, <1>8
<1>10. f \in [Holders -> Nat]
  <2>1. ASSUME NEW h \in Holders PROVE f[h] \in Nat
    <3>1. db.balances[Base][h] = chain.owned[Base][h]
      BY <1>2, <1>4 DEF Even, Owner
    <3>2. chain.owned[Base][h] \in Nat
      BY <1>2, <1>3, <1>4 DEF Solvent, IsChain
    <3> QED
      BY <1>9, <3>1, <3>2
  <2> QED
    BY <2>1
<1>11. IsFiniteSet(Holders)
  BY TokensFinite
<1>12. SumFunction(f) \in Nat /\ f[Meta] <= SumFunction(f)
  BY <1>4, <1>10, <1>11, SumAtLeast
<1>13. SumFunction(f) = db.reserves[Base].supply
  BY <1>1, <1>4, <1>9 DEF Summed, SupplyOf
<1>14. PICK u \in Nat, s \in Nat : /\ u = db.holdings[Meta][Base] /\ s = db.reserves[Base].supply
                                   /\ u <= s
  BY <1>5, <1>6, <1>7, <1>9, <1>12, <1>13
<1>15. PICK n \in Nat : n = ParNav(db, Base)
  BY <1>3, <1>4, ParTypes
<1>16. ConvertToValue(u, n, s) \in 0..n
  BY <1>14, ClaimWithinNav
<1> QED
  BY <1>14, <1>15, <1>16

\* LegWithinBase: the base leg at par in clear_reserve_values never exceeds the net
\* assets of the base reserve, however the two divisions round.
THEOREM LegIsWithinBase == Spec => []LegWithinBase
BY SumsInvariance, LegIsClaim, PTL
=============================================================================
