----------------------------- MODULE ReserveBook -----------------------------
(***************************************************************************)
(* The reserve side of handlers.go: what the exporter's tables say of a    *)
(* base reserve and of a meta reserve built on it, as their logs are       *)
(* applied one by one.                                                     *)
(*                                                                         *)
(* The contracts are external.  `chain' is what they hold, changed by one  *)
(* operation at a time; an operation emits a sequence of logs, `pending',  *)
(* which the handlers fold into the database `db'.  ClearExporter is why   *)
(* each log is applied once, as a whole and in order.  The question here   *)
(* is whether the tables, built from flows alone, agree with the contracts *)
(* and with each other.                                                    *)
(*                                                                         *)
(* Of the oracle, which OracleFold models, only the redemption prices are  *)
(* kept: the valuation views read them.                                    *)
(***************************************************************************)
EXTENDS Valuation, Sequences, FiniteSets, Functions, SequencesExt

CONSTANTS
  Base, Meta,   \* the two reserves; each is also its own LP token
  BaseAssets,   \* assetList of the base reserve, in listing order
  Native,       \* the meta reserve's other leg
  Users,        \* LP and IOU holders other than the reserves
  Zero,         \* the zero address
  Treasury,     \* where fees of single-asset operations go
  Factory,      \* the ClearReserveFactory
  Oracle,       \* the ClearOracle
  Prices,       \* redemption prices, in units of One
  Scale,        \* 10^(18 - decimals) of each token
  Amounts,      \* amounts an operation moves
  Baskets,      \* the `amounts' of a balanced deposit or withdrawal
  None,         \* NULL: no row, no asset
  Setups,       \* the deployments to start from (see setup)
  MaxOps,       \* bound on operations
  MaxDay        \* bound on days

Reserves == {Base, Meta}
Tokens   == ToSet(BaseAssets) \cup {Native, Base}
Iou(r, a) == <<r, a>>                       \* the IOU of r's asset a
Ious     == {Iou(Base, a) : a \in ToSet(BaseAssets)} \cup {Iou(Meta, Native), Iou(Meta, Base)}
Holders  == Users \cup {Meta, Treasury}
Days     == 1..MaxDay

\* The addresses are distinct contracts and accounts, and an asset is listed once.
ASSUME AddressAssumption ==
  /\ Base # Meta /\ Base \notin ToSet(BaseAssets) \cup {Native} /\ Meta \notin Tokens
  /\ Reserves \cap Ious = {} /\ None \notin Tokens \cup Ious \cup {"base", "meta"}
  /\ Zero \notin Holders /\ Meta \notin Users \cup {Treasury} /\ IsFiniteSet(Users)
  /\ BaseAssets \in Seq(Tokens) /\ Len(BaseAssets) >= 2 /\ IsInjective(BaseAssets)

\* Amounts are unsigned, and a basket has an amount per asset.
ASSUME AmountAssumption ==
  /\ Scale \in [Tokens -> Nat \ {0}] /\ Prices \cup Amounts \subseteq Nat
  /\ \A basket \in Baskets : basket \in Seq(Nat) /\ Len(basket) = Len(BaseAssets)

\* The meta reserve has its two legs; when nothing announces the base reserve,
\* metaLegs falls back on the order that lists the native one first.
ASSUME SetupAssumption ==
  \A s \in Setups : /\ s.legs \in {<<Native, Base>>, <<Base, Native>>}
                    /\ {Base, Factory} \cap s.indexed = {} => s.legs[1] = Native

ASSUME BoundAssumption == MaxOps \in Nat /\ MaxDay \in Nat \ {0}

KindOf(r) == IF r = Base THEN "base" ELSE "meta"

VARIABLES
  chain,    \* the contracts' own state
  setup,    \* legs: the meta reserve's assetList; indexed: the contracts whose
            \* logs the pipeline delivers
  block,    \* block number of the latest operation
  day,      \* its day
  pending,  \* logs emitted and not yet applied
  db        \* the exporter's tables

vars == <<chain, setup, block, day, pending, db>>

ListOf(r) == IF r = Base THEN BaseAssets ELSE setup.legs

-----------------------------------------------------------------------------
(* The database: one field per table, a row or a function of rows each.    *)

ZeroOf(S) == [x \in S |-> 0]

\* Absent rows of the two histories: no block is below theirs.
NoValue  == [block |-> -1, gross |-> 0, debt |-> 0, supply |-> 0]
NoDetail == [block |-> -1, balance |-> 0, iouSupply |-> 0, value |-> 0, iouValue |-> 0]

EmptyDb ==
  [reserves  |-> [r \in Reserves |->            \* clear_reserves
                    [kind |-> None, supply |-> 0, deposits |-> 0, withdrawals |-> 0,
                     minted |-> 0, redeemed |-> 0, swaps |-> 0]],
   assets    |-> [r \in Reserves |->            \* clear_reserve_assets
                    [a \in Tokens |-> [iou |-> None, position |-> -1, iouSupply |-> 0]]],
   holdings  |-> [r \in Reserves |-> ZeroOf(Tokens)],      \* clear_reserve_token_balances
   balances  |-> [t \in Reserves \cup Ious |-> ZeroOf(Holders)], \* LP and IOU balances
   iouSupply |-> ZeroOf(Ious),                  \* clear_iou_tokens
   iouFees   |-> ZeroOf(Ious),
   redemption |-> [a \in Tokens |-> None],      \* clear_oracle_prices
   swapIou   |-> ZeroOf(Reserves),              \* iou_total over clear_reserve_swaps
   values    |-> [r \in Reserves |-> [d \in Days |-> NoValue]], \* clear_reserve_value_history
   details   |-> [r \in Reserves |-> [a \in Tokens |-> [d \in Days |-> NoDetail]]]]
                                                \* clear_reserve_asset_history

Listed(d, r) == {a \in Tokens : d.assets[r][a].iou # None}

-----------------------------------------------------------------------------
(* Statements the handlers share.                                          *)

\* ensureReserve: the kind is set by the insert only.
EnsureReserve(d, r) ==
  IF d.reserves[r].kind = None THEN [d EXCEPT !.reserves[r].kind = KindOf(r)] ELSE d

\* bumpReserve.
Bump(d, r, col, delta) == [EnsureReserve(d, r) EXCEPT !.reserves[r][col] = @ + delta]

\* adjustTokenBalance; a missing asset is a no-op.
AdjustHolding(d, r, a, delta) ==
  IF a = None THEN d ELSE [d EXCEPT !.holdings[r][a] = @ + delta]

\* adjustBalance.
AdjustBalance(d, t, h, delta) == [d EXCEPT !.balances[t][h] = @ + delta]

\* The view clear_reserve_par_values: assets and debt at par, and the redemption
\* price of the assets weighted by their net par balances.
Par(a, units)  == units * Scale[a]
ParGross(d, r) == SumFunction([a \in Listed(d, r) |-> Par(a, d.holdings[r][a])])
ParDebt(d, r)  == SumFunction([a \in Listed(d, r) |-> Par(a, d.assets[r][a].iouSupply)])
ParNav(d, r)   == Nonneg(ParGross(d, r) - ParDebt(d, r))
NetPar(d, r, a) == Par(a, Nonneg(d.holdings[r][a] - d.assets[r][a].iouSupply))

\* An asset the oracle tables do not know is at par.
Price(d, a) == IF d.redemption[a] = None THEN One ELSE d.redemption[a]

BugWeightedByGross(d, r) ==
  LET net      == SumFunction([a \in Listed(d, r) |-> NetPar(d, r, a)])
      weighted == SumFunction([a \in Listed(d, r) |-> Par(a, d.holdings[r][a]) * Price(d, a)])
  IN IF net = 0 THEN 0 ELSE weighted \div net

AvgRedemption(d, r) ==
  LET net      == SumFunction([a \in Listed(d, r) |-> NetPar(d, r, a)])
      weighted == SumFunction([a \in Listed(d, r) |-> NetPar(d, r, a) * Price(d, a)])
  IN IF net = 0 THEN 0 ELSE weighted \div net

\* What a leg is worth on the redemption basis; one that is a base reserve's LP
\* goes by that reserve's net assets and average price.
LegValue(d, a, units) ==
  IF a \in Reserves /\ d.reserves[a].kind = "base"
  THEN Redeemed(ConvertToValue(units, ParNav(d, a), d.reserves[a].supply), AvgRedemption(d, a))
  ELSE Redeemed(Par(a, units), Price(d, a))

\* The view clear_reserve_values: a base reserve keeps its par figure, a meta
\* reserve's is the sum of its legs'.
ReserveValue(d, r, par, units) ==
  IF d.reserves[r].kind = "meta"
  THEN SumFunction([a \in Listed(d, r) |-> LegValue(d, a, units[a])]) ELSE par

Gross(d, r) == ReserveValue(d, r, ParGross(d, r), d.holdings[r])
Debt(d, r)  == ReserveValue(d, r, ParDebt(d, r), [a \in Tokens |-> d.assets[r][a].iouSupply])

BugReplacesEarlierBlock(row) == row.block < block

\* The guard of the daily upsert: an absent row, or one not above this block.
Replaces(row) == row.block <= block

BugSnapshotNoDetails(d, r) ==
  LET row == [block |-> block, gross |-> Gross(d, r), debt |-> Debt(d, r),
              supply |-> d.reserves[r].supply]
  IN IF d.reserves[r].kind # None /\ Replaces(d.values[r][day])
     THEN [d EXCEPT !.values[r][day] = row] ELSE d

\* snapshotReserveValue, which snapshots the assets too (snapshotReserveAssets).
\* The value row needs the reserve's row, the details only its assets' rows.
Snapshot(d, r) ==
  LET row == [block |-> block, gross |-> Gross(d, r), debt |-> Debt(d, r),
              supply |-> d.reserves[r].supply]
      detail(a) == [block |-> block, balance |-> d.holdings[r][a],
                    iouSupply |-> d.assets[r][a].iouSupply,
                    value |-> LegValue(d, a, d.holdings[r][a]),
                    iouValue |-> LegValue(d, a, d.assets[r][a].iouSupply)]
      valued == IF d.reserves[r].kind # None /\ Replaces(d.values[r][day])
                THEN [d EXCEPT !.values[r][day] = row] ELSE d
  IN [valued EXCEPT !.details[r] =
        [a \in Tokens |->
           IF a \in Listed(d, r) /\ Replaces(@[a][day])
           THEN [@[a] EXCEPT ![day] = detail(a)] ELSE @[a]]]

-----------------------------------------------------------------------------
(* The handlers: each returns the database after one log.                  *)

\* The position of the asset that ORDER BY position puts first.
FirstOf(d, r, S) ==
  IF S = {} THEN None
  ELSE CHOOSE a \in S : \A b \in S : d.assets[r][a].position <= d.assets[r][b].position

\* The one it puts last, which a scan that overwrites what it found keeps.
LastOf(d, r, S) ==
  CHOOSE a \in S : \A b \in S : d.assets[r][b].position <= d.assets[r][a].position

BugLegsByPosition(d, r) ==
  LET listed == Listed(d, r) IN
  IF Cardinality(listed) = 2
  THEN LET native == FirstOf(d, r, listed)
       IN [native |-> native, base |-> FirstOf(d, r, listed \ {native})]
  ELSE [native |-> None, base |-> None]

\* metaLegs: the BaseLP leg is the last one whose asset is a base reserve; position
\* order decides for a reserve of two legs when neither is.
MetaLegs(d, r) ==
  LET listed   == Listed(d, r)
      baseLegs == {a \in listed \cap Reserves : d.reserves[a].kind = "base"}
      first    == FirstOf(d, r, listed)
  IN IF baseLegs # {} THEN LET base == LastOf(d, r, baseLegs)
                           IN [native |-> FirstOf(d, r, listed \ {base}), base |-> base]
     ELSE IF Cardinality(listed) = 2
     THEN [native |-> first, base |-> FirstOf(d, r, listed \ {first})]
     ELSE [native |-> None, base |-> None]

\* applyReserveAmounts: amounts[i] belongs to the asset at position i - 1.
ApplyAmounts(d, r, amounts, sign) ==
  [d EXCEPT !.holdings[r] =
     [a \in Tokens |->
        LET i == d.assets[r][a].position + 1
        IN IF a \in Listed(d, r) /\ i \in DOMAIN amounts THEN @[a] + sign * amounts[i] ELSE @[a]]]

\* applyMetaAmounts.
ApplyLegs(d, r, native, base, sign) ==
  LET legs == MetaLegs(d, r)
  IN AdjustHolding(AdjustHolding(d, r, legs.native, sign * native), r, legs.base, sign * base)

\* The holdings after a balanced Deposit (sign 1) or Withdraw (sign -1).
ApplyBalanced(d, log, sign) ==
  IF KindOf(log.addr) = "meta" THEN ApplyLegs(d, log.addr, log.native, log.base, sign)
                               ELSE ApplyAmounts(d, log.addr, log.amounts, sign)

Deposited(d, log) ==
  Bump(Snapshot(ApplyBalanced(d, log, 1), log.addr), log.addr, "deposits", log.lp)

Withdrawn(d, log) ==
  Bump(Snapshot(ApplyBalanced(d, log, -1), log.addr), log.addr, "withdrawals", log.lp)

BugFeeKept(d, log) ==
  Bump(Snapshot(AdjustHolding(d, log.addr, log.asset, log.in), log.addr),
       log.addr, "deposits", log.lp)

\* handleSingleAssetDeposit: the fee is forwarded to the treasury.
SingleDeposited(d, log) ==
  LET pulled == AdjustHolding(d, log.addr, log.asset, log.in)
      net    == AdjustHolding(pulled, log.addr, log.asset, -log.fee)
  IN Bump(Snapshot(net, log.addr), log.addr, "deposits", log.lp)

BugWithdrawnAsDeposit(d, log) ==
  LET paid == AdjustHolding(d, log.addr, log.asset, -log.out)
      net  == AdjustHolding(paid, log.addr, log.asset, -log.fee)
  IN Bump(Snapshot(net, log.addr), log.addr, "deposits", log.lp)

\* handleSingleAssetWithdraw: the amount and the fee both leave.
SingleWithdrawn(d, log) ==
  LET paid == AdjustHolding(d, log.addr, log.asset, -log.out)
      net  == AdjustHolding(paid, log.addr, log.asset, -log.fee)
  IN Bump(Snapshot(net, log.addr), log.addr, "withdrawals", log.lp)

\* The two legs of a Rebalanced or Swap.
Exchanged(d, log) ==
  AdjustHolding(AdjustHolding(d, log.addr, log.tokenIn, log.in), log.addr, log.tokenOut, -log.out)

Rebalanced(d, log) ==
  Snapshot(Exchanged(EnsureReserve(d, log.addr), log), log.addr)

Swapped(d, log) ==
  LET booked  == [EnsureReserve(d, log.addr) EXCEPT !.swapIou[log.addr] = @ + log.iouTotal]
      valued  == Snapshot(Exchanged(booked, log), log.addr)
  IN [valued EXCEPT !.reserves[log.addr].swaps = @ + 1]

\* handleFlashLoan (the fee stays) and handleDonationRecognized (the units do).
Received(d, log) ==
  Snapshot(AdjustHolding(EnsureReserve(d, log.addr), log.addr, log.asset, log.in), log.addr)

IouMinted(d, log) ==
  Bump(Snapshot(AdjustHolding(d, log.addr, log.asset, log.in), log.addr),
       log.addr, "minted", log.in)

BugRedeemedAsMinted(d, log) ==
  Bump(Snapshot(AdjustHolding(d, log.addr, log.asset, -log.out), log.addr),
       log.addr, "minted", log.out)

IouRedeemed(d, log) ==
  Bump(Snapshot(AdjustHolding(d, log.addr, log.asset, -log.out), log.addr),
       log.addr, "redeemed", log.out)

\* handleIouTreasuryFee.
FeeBooked(d, log) == [d EXCEPT !.iouFees[log.addr] = @ + log.fee]

BugNextPosition(d, r) == Cardinality(Listed(d, r)) + 1

\* The position a new asset gets: the number of rows the reserve has.
NextPosition(d, r) == Cardinality(Listed(d, r))

\* handleAssetAdded: position and iou_supply are kept when the row exists.
AssetAdded(d, log) ==
  LET old == d.assets[log.addr][log.asset]
      new == [old EXCEPT !.iou = Iou(log.addr, log.asset),
                         !.position = IF old.iou # None THEN @ ELSE NextPosition(d, log.addr)]
  IN [EnsureReserve(d, log.addr) EXCEPT !.assets[log.addr][log.asset] = new]

\* The reserve-asset rows with delta added to the debt of the IOU t.
Mirrored(assets, t, delta) ==
  [r \in Reserves |-> [a \in Tokens |->
     IF assets[r][a].iou = t THEN [assets[r][a] EXCEPT !.iouSupply = @ + delta]
                             ELSE assets[r][a]]]

BugSupplyNotMirrored(d, t, delta) ==
  IF t \in Reserves THEN [d EXCEPT !.reserves[t].supply = @ + delta]
                    ELSE [d EXCEPT !.iouSupply[t] = @ + delta]

BugMirrorOnly(d, t, delta) ==
  IF t \in Reserves THEN [d EXCEPT !.reserves[t].supply = @ + delta]
  ELSE [d EXCEPT !.assets = Mirrored(@, t, delta)]

\* addSupply: an IOU's supply is mirrored onto its reserve-asset row.
AddSupply(d, t, delta) ==
  IF t \in Reserves THEN [d EXCEPT !.reserves[t].supply = @ + delta]
  ELSE [d EXCEPT !.iouSupply[t] = @ + delta, !.assets = Mirrored(@, t, delta)]

BugNoResnapshot(d, t) == d

\* resnapshot: a mint or burn of an IOU changes its reserve's debt.
Resnapshot(d, t) ==
  LET owners == {r \in Reserves : \E a \in Listed(d, r) : d.assets[r][a].iou = t}
  IN IF t \in Ious /\ owners # {} THEN Snapshot(d, CHOOSE r \in owners : TRUE) ELSE d

\* handleTransfer, for an LP token (the reserve itself) or an IOU.
Transferred(d, log) ==
  LET t     == log.addr
      known == IF t \in Reserves THEN EnsureReserve(d, t) ELSE d
  IN IF log.from = Zero
     THEN Resnapshot(AddSupply(AdjustBalance(known, t, log.to, log.value), t, log.value), t)
     ELSE IF log.to = Zero
     THEN Resnapshot(AddSupply(AdjustBalance(known, t, log.from, -log.value), t, -log.value), t)
     ELSE AdjustBalance(AdjustBalance(known, t, log.from, -log.value), t, log.to, log.value)

-----------------------------------------------------------------------------
(* One action per handler: the first pending log is applied.               *)

log == Head(pending)

\* The contract whose log source delivers a log; an IOU's follows its reserve.
Source(l) == IF l.event = "NewClearReserve" THEN Factory
             ELSE IF l.addr \in Ious THEN l.addr[1] ELSE l.addr

Apply(event, d) ==
  /\ pending # <<>>
  /\ log.event = event /\ Source(log) \in setup.indexed
  /\ db' = d
  /\ pending' = Tail(pending)
  /\ UNCHANGED <<chain, setup, block, day>>

\* A log of a contract the pipeline does not index passes the exporter by.
PassBy ==
  /\ pending # <<>> /\ Source(log) \notin setup.indexed
  /\ pending' = Tail(pending)
  /\ UNCHANGED <<chain, setup, block, day, db>>

HandleTransfer            == Apply("Transfer", Transferred(db, log))
HandleAssetAdded          == Apply("AssetAdded", AssetAdded(db, log))
HandleNewClearReserve     == Apply("NewClearReserve", EnsureReserve(db, log.reserve))
HandleReserveDeposit      == Apply("Deposit", Deposited(db, log))
HandleReserveWithdraw     == Apply("Withdraw", Withdrawn(db, log))
HandleSingleAssetDeposit  == Apply("SingleAssetDeposit", SingleDeposited(db, log))
HandleSingleAssetWithdraw == Apply("SingleAssetWithdraw", SingleWithdrawn(db, log))
HandleRebalanced          == Apply("Rebalanced", Rebalanced(db, log))
HandleReserveSwap         == Apply("Swap", Swapped(db, log))
HandleFlashLoan           == Apply("FlashLoan", Received(db, log))
HandleDonationRecognized  == Apply("DonationRecognized", Received(db, log))
HandleIOUMinted           == Apply("IOUMinted", IouMinted(db, log))
HandleIOURedeemed         == Apply("IOURedeemed", IouRedeemed(db, log))
HandleIouTreasuryFee      == Apply("ClearIOUMinted", FeeBooked(db, log))
HandleOracleRedemption    == Apply("ClearOracleRedemptionPriceChanged",
                                   [db EXCEPT !.redemption[log.asset] = log.price])

Handle ==
  \/ HandleTransfer        \/ HandleAssetAdded          \/ HandleNewClearReserve
  \/ HandleReserveDeposit  \/ HandleSingleAssetDeposit
  \/ HandleReserveWithdraw \/ HandleSingleAssetWithdraw
  \/ HandleRebalanced      \/ HandleReserveSwap         \/ HandleFlashLoan
  \/ HandleIOUMinted       \/ HandleIOURedeemed         \/ HandleIouTreasuryFee
  \/ HandleDonationRecognized \/ HandleOracleRedemption

-----------------------------------------------------------------------------
(* The contracts, as the handlers assume them: what each operation changes *)
(* and the logs it emits.  An LP or IOU Transfer comes before or after the *)
(* reserve's own event.  Tokens other than the base LP are not followed.   *)

Transfer(t, from, to, v) ==
  [event |-> "Transfer", addr |-> t, from |-> from, to |-> to, value |-> v]

\* v of the LP token or IOU t changes hands; Zero holds nothing.
Pay(c, t, from, to, v) ==
  [c EXCEPT !.owned[t] = [h \in Holders |->
     @[h] + (IF h = to THEN v ELSE 0) - (IF h = from THEN v ELSE 0)]]

\* v of asset a changes hands, which is a log if a is the base LP.
Move(c, a, from, to, v)  == IF a = Base THEN Pay(c, Base, from, to, v) ELSE c
MoveLogs(a, from, to, v) == IF a = Base THEN <<Transfer(Base, from, to, v)>> ELSE <<>>
Has(a, h, v)             == a = Base => chain.owned[Base][h] >= v

Account(c, r, a, delta) == [c EXCEPT !.accounted[r][a] = @ + delta]

\* A basket: of the base reserve, one amount per asset; of the meta reserve,
\* its native and its base LP amount.
AccountBasket(c, r, basket, sign) ==
  IF r = Meta
  THEN Account(Account(c, Meta, Native, sign * basket[1]), Meta, Base, sign * basket[2])
  ELSE [c EXCEPT !.accounted[Base] =
          [a \in Tokens |-> @[a] + IF \E i \in DOMAIN basket : BaseAssets[i] = a
                                   THEN sign * basket[CHOOSE i \in DOMAIN basket : BaseAssets[i] = a]
                                   ELSE 0]]
Covered(r, basket) ==
  LET left == AccountBasket(chain, r, basket, -1)
  IN \A a \in Tokens : left.accounted[r][a] >= 0

EitherOrder(s, t) == {s \o t, t \o s}

Operation(c, logs) ==
  /\ pending = <<>> /\ block < MaxOps
  /\ block' = block + 1
  /\ day' \in {day, day + 1} \cap Days
  /\ chain' = c
  /\ pending' = logs
  /\ UNCHANGED <<setup, db>>

\* The shares a contract gives for a basket, at par.
Shares(r, basket) ==
  IF r = Meta THEN Par(Native, basket[1]) + Par(Base, basket[2])
  ELSE SumFunction([i \in DOMAIN basket |-> Par(BaseAssets[i], basket[i])])

Deposit(r, u, basket) ==
  LET lp    == Shares(r, basket)
      event == [event |-> "Deposit", addr |-> r, lp |-> lp, amounts |-> basket,
                native |-> basket[1], base |-> basket[2]]
      base  == IF r = Meta THEN Base ELSE None
  IN /\ Has(base, u, basket[2])
     /\ \E logs \in EitherOrder(<<Transfer(r, Zero, u, lp)>>, <<event>>) :
          Operation(AccountBasket(Pay(Move(chain, base, u, Meta, basket[2]), r, Zero, u, lp),
                                  r, basket, 1),
                    MoveLogs(base, u, Meta, basket[2]) \o logs)

Withdraw(r, u, basket) ==
  LET lp    == Shares(r, basket)
      event == [event |-> "Withdraw", addr |-> r, lp |-> lp, amounts |-> basket,
                native |-> basket[1], base |-> basket[2]]
      base  == IF r = Meta THEN Base ELSE None
  IN /\ chain.owned[r][u] >= lp /\ Covered(r, basket)
     /\ \E logs \in EitherOrder(<<Transfer(r, u, Zero, lp)>>, <<event>>) :
          Operation(AccountBasket(Pay(Move(chain, base, Meta, u, basket[2]), r, u, Zero, lp),
                                  r, basket, -1),
                    MoveLogs(base, Meta, u, basket[2]) \o logs)

SingleAssetDeposit(r, a, u, in, fee) ==
  LET lp    == Par(a, in - fee)
      event == [event |-> "SingleAssetDeposit", addr |-> r, asset |-> a, in |-> in,
                fee |-> fee, lp |-> lp]
      pulled == Move(Move(chain, a, u, Meta, in), a, Meta, Treasury, fee)
  IN /\ Has(a, u, in) /\ fee < in
     /\ \E logs \in EitherOrder(<<Transfer(r, Zero, u, lp)>>, <<event>>) :
          Operation(Account(Pay(pulled, r, Zero, u, lp), r, a, in - fee),
                    MoveLogs(a, u, Meta, in) \o MoveLogs(a, Meta, Treasury, fee) \o logs)

SingleAssetWithdraw(r, a, u, out, fee) ==
  LET lp    == Par(a, out + fee)
      event == [event |-> "SingleAssetWithdraw", addr |-> r, asset |-> a, out |-> out,
                fee |-> fee, lp |-> lp]
      paid  == Move(Move(chain, a, Meta, u, out), a, Meta, Treasury, fee)
  IN /\ chain.owned[r][u] >= lp /\ chain.accounted[r][a] >= out + fee
     /\ \E logs \in EitherOrder(<<Transfer(r, u, Zero, lp)>>, <<event>>) :
          Operation(Account(Pay(paid, r, u, Zero, lp), r, a, -(out + fee)),
                    MoveLogs(a, Meta, u, out) \o MoveLogs(a, Meta, Treasury, fee) \o logs)

\* Rebalance, or a swap whose shortfall `iou' is minted against tokenOut and
\* shared with the treasury.
Exchange(r, in, out, u, v, iou, event) ==
  LET token == Iou(r, out)
      fee   == iou \div 2
      paid  == Move(Move(chain, in, u, Meta, v), out, Meta, u, v - iou)
      own   == [event |-> event, addr |-> r, tokenIn |-> in, tokenOut |-> out,
                in |-> v, out |-> v - iou, iouTotal |-> iou]
      mint  == IF iou = 0 THEN <<>>
               ELSE <<Transfer(token, Zero, u, iou - fee), Transfer(token, Zero, Treasury, fee),
                      [event |-> "ClearIOUMinted", addr |-> token, fee |-> fee]>>
      owing == [Pay(Pay(paid, token, Zero, u, iou - fee), token, Zero, Treasury, fee)
                  EXCEPT !.fees[token] = @ + fee]
  IN /\ in # out /\ iou <= v
     /\ Has(in, u, v) /\ chain.accounted[r][out] >= v - iou
     /\ \E logs \in EitherOrder(mint, <<own>>) :
          Operation(Account(Account(owing, r, in, v), r, out, iou - v),
                    MoveLogs(in, u, Meta, v) \o MoveLogs(out, Meta, u, v - iou) \o logs)

\* The borrower returns the principal with a fee.
FlashLoan(r, a, u, fee) ==
  /\ chain.accounted[r][a] > 0 /\ Has(a, u, fee)
  /\ Operation(Account(Move(chain, a, u, Meta, fee), r, a, fee),
               MoveLogs(a, u, Meta, fee) \o
               <<[event |-> "FlashLoan", addr |-> r, asset |-> a, in |-> fee]>>)

\* A holder sends LP tokens or IOUs; base LP sent to the meta reserve is a
\* donation it does not account for until recognizeDonation.
Send(t, from, to, v) ==
  /\ chain.owned[t][from] >= v
  /\ LET paid == Pay(chain, t, from, to, v)
     IN Operation(IF t = Base /\ to = Meta THEN [paid EXCEPT !.donated = @ + v] ELSE paid,
                  <<Transfer(t, from, to, v)>>)

RecognizeDonation(r, a, v) ==
  /\ a = Base => chain.donated >= v
  /\ Operation([Account(chain, r, a, v) EXCEPT !.donated = IF a = Base THEN @ - v ELSE @],
               <<[event |-> "DonationRecognized", addr |-> r, asset |-> a, in |-> v]>>)

MintIou(r, a, u, v) ==
  /\ Has(a, u, v)
  /\ \E logs \in EitherOrder(<<Transfer(Iou(r, a), Zero, u, v)>>,
                               <<[event |-> "IOUMinted", addr |-> r, asset |-> a, in |-> v]>>) :
       Operation(Account(Pay(Move(chain, a, u, Meta, v), Iou(r, a), Zero, u, v), r, a, v),
                 MoveLogs(a, u, Meta, v) \o logs)

RedeemIou(r, a, u, v) ==
  /\ chain.owned[Iou(r, a)][u] >= v /\ chain.accounted[r][a] >= v
  /\ \E logs \in EitherOrder(<<Transfer(Iou(r, a), u, Zero, v)>>,
                               <<[event |-> "IOURedeemed", addr |-> r, asset |-> a, out |-> v]>>) :
       Operation(Account(Pay(Move(chain, a, Meta, u, v), Iou(r, a), u, Zero, v), r, a, -v),
                 MoveLogs(a, Meta, u, v) \o logs)

SetRedemption(a, price) ==
  Operation(chain, <<[event |-> "ClearOracleRedemptionPriceChanged", addr |-> Oracle,
                      asset |-> a, price |-> price]>>)

-----------------------------------------------------------------------------
Added(r, a)  == [event |-> "AssetAdded", addr |-> r, asset |-> a]
Announced(r) == [event |-> "NewClearReserve", reserve |-> r]

\* The logs of the two deployments, in block 0.
LaunchLogs ==
  <<Announced(Base)>> \o [i \in 1..Len(BaseAssets) |-> Added(Base, BaseAssets[i])] \o
  <<Added(Meta, setup.legs[1]), Added(Meta, setup.legs[2]), Announced(Meta)>>

Init ==
  /\ chain = [accounted |-> [r \in Reserves |-> ZeroOf(Tokens)],
              owned     |-> [t \in Reserves \cup Ious |-> ZeroOf(Holders)],
              fees      |-> ZeroOf(Ious),
              donated   |-> 0]
  /\ setup \in Setups
  /\ block = 0 /\ day = 1
  /\ pending = LaunchLogs
  /\ db = EmptyDb

AssetsOf(r) == ToSet(ListOf(r))

Operate ==
  \/ \E a \in Tokens \ Reserves, price \in Prices : SetRedemption(a, price)
  \/ \E r \in Reserves, u \in Users :
      \/ \E basket \in Baskets : Deposit(r, u, basket) \/ Withdraw(r, u, basket)
      \/ \E a \in AssetsOf(r), v \in Amounts, fee \in {0, 1} :
           SingleAssetDeposit(r, a, u, v, fee) \/ SingleAssetWithdraw(r, a, u, v, fee)
      \/ \E in, out \in AssetsOf(r), v \in Amounts :
           \/ Exchange(r, in, out, u, v, 0, "Rebalanced")
           \/ \E iou \in {0, v} : Exchange(r, in, out, u, v, iou, "Swap")
      \/ \E a \in AssetsOf(r), v \in Amounts :
           \/ FlashLoan(r, a, u, 1) \/ RecognizeDonation(r, a, v)
           \/ MintIou(r, a, u, v)   \/ RedeemIou(r, a, u, v)
      \/ \E t \in Reserves \cup Ious, v \in Amounts :
           \/ \E to \in Users : Send(t, u, to, v)
           \/ t = Base /\ Send(Base, u, Meta, v)

Next == Handle \/ PassBy \/ Operate

Spec == Init /\ [][Next]_vars

-----------------------------------------------------------------------------
(* Properties.  The tables are compared with the contracts when every log  *)
(* delivered so far is applied; a reserve is followed from its deployment  *)
(* if its logs are delivered.                                              *)

AllApplied == pending = <<>>
Followed   == Reserves \cap setup.indexed

\* The columns range over what the schema and the chain allow: amounts stay
\* non-negative, and a position is an index of the reserve's asset list.
TypeOK ==
  /\ block \in 0..MaxOps /\ day \in Days
  /\ \A r \in Reserves :
       /\ db.reserves[r].kind \in {None, KindOf(r)}
       /\ \A col \in {"deposits", "withdrawals", "minted", "redeemed", "swaps"} :
            db.reserves[r][col] \in Nat
       /\ \A a \in Tokens :
            IF a \in Listed(db, r) THEN db.assets[r][a].position \in 0..Len(ListOf(r)) - 1
                                   ELSE db.assets[r][a].position = -1
       /\ \A d \in Days : db.values[r][d].block \in -1..block

\* clear_reserve_token_balances is the contract's accountedBalance for every
\* asset of both reserves (schema.go:203-209), in whatever order the meta
\* reserve lists its legs and whether or not the base reserve is indexed.
HoldingsExact ==
  AllApplied => \A r \in Followed : db.holdings[r] = chain.accounted[r]

\* A token's supply is the sum of its holders' balances after every single log,
\* self transfers included, and the balances are the contract's own once its
\* logs are applied (handleTransfer).
SupplyConserved ==
  \A t \in Reserves \cup Ious :
    /\ SumFunction(db.balances[t]) =
         IF t \in Reserves THEN db.reserves[t].supply ELSE db.iouSupply[t]
    /\ AllApplied /\ (IF t \in Reserves THEN t ELSE t[1]) \in Followed
         => db.balances[t] = chain.owned[t]

\* The debt column of a reserve's asset is the supply of that asset's IOU, after
\* every single log (addSupply mirrors it, handlers.go:172-177).
IouMirrored ==
  \A r \in Reserves : \A a \in Listed(db, r) :
    db.assets[r][a].iouSupply = db.iouSupply[Iou(r, a)]

\* Two independent accounts of the LP supply agree: Transfers minted and burned
\* it, deposits and withdrawals totalled it.
LpReconciles ==
  AllApplied => \A r \in Followed :
    db.reserves[r].supply = db.reserves[r].deposits - db.reserves[r].withdrawals

\* A reserve's IOU debt is what was minted and what swaps left owing, less what
\* was redeemed (iou_minted, iou_redeemed, iou_total against iou_supply).
IouReconciles ==
  AllApplied => \A r \in Followed :
    SumFunction([a \in Listed(db, r) |-> db.assets[r][a].iouSupply]) =
      db.reserves[r].minted + db.swapIou[r] - db.reserves[r].redeemed

\* The meta reserve's base leg, built from the meta reserve's events, is its LP
\* balance, built from the base reserve's Transfers, less the donations that
\* governance has not recognised (schema.go:207).
LegIsLpBalance ==
  AllApplied /\ Followed = Reserves =>
    db.balances[Base][Meta] = db.holdings[Meta][Base] + chain.donated

RowDays(r) == {d \in Days : db.values[r][d] # NoValue}
LatestRow(r) == db.values[r][CHOOSE d \in RowDays(r) : \A e \in RowDays(r) : e <= d]

\* After every single log the base reserve's latest daily row holds its present
\* assets and debt, also when an IOU Transfer follows the event that moved the
\* asset: the resnapshot of handleTransfer is what makes it so.
BaseSnapshotCurrent ==
  Base \in Followed =>
    IF RowDays(Base) = {} THEN ParGross(db, Base) = 0 /\ ParDebt(db, Base) = 0
    ELSE LatestRow(Base).gross = ParGross(db, Base) /\ LatestRow(Base).debt = ParDebt(db, Base)

\* A day's value row and its per-asset rows agree block for block (schema.go:
\* 355-359): the rows of a meta reserve's legs sum to its assets and its debt,
\* those of a base reserve's tokens do at par.
HistoriesAgree ==
  \A r \in Followed, d \in Days :
    LET row == db.values[r][d]
        detail(a) == db.details[r][a][d]
    IN /\ \A a \in Listed(db, r) : detail(a).block = row.block
       /\ row # NoValue =>
            /\ row.gross = SumFunction([a \in Listed(db, r) |->
                              IF r = Meta THEN detail(a).value ELSE Par(a, detail(a).balance)])
            /\ row.debt  = SumFunction([a \in Listed(db, r) |->
                              IF r = Meta THEN detail(a).iouValue ELSE Par(a, detail(a).iouSupply)])

\* The meta reserve's base leg is never worth more at par than all the net assets
\* of the base reserve it is a claim on, however the two divisions round: the
\* units come from the meta reserve's events and the assets and the supply from
\* the base reserve's (clear_reserve_values, schema.go:543-549).
LegWithinBase ==
  AllApplied /\ Followed = Reserves =>
    ConvertToValue(db.holdings[Meta][Base], ParNav(db, Base), db.reserves[Base].supply)
      <= ParNav(db, Base)

\* The average redemption price of a base reserve lies between those of the assets
\* it holds more of than it owes, also when it owes more of another than it holds
\* (clear_reserve_par_values, schema.go:493-496).
AverageIsBetween ==
  LET priced == {a \in Listed(db, Base) : NetPar(db, Base, a) > 0}
  IN IF priced = {} THEN AvgRedemption(db, Base) = 0
     ELSE /\ \E a \in priced : Price(db, a) <= AvgRedemption(db, Base)
          /\ \E a \in priced : AvgRedemption(db, Base) <= Price(db, a)

\* schema.go:336-339: a row "holds the LAST (highest-block) snapshot of that day,
\* so it's the end-of-day value" of total_supply too.
LatestRowHasSupply ==
  AllApplied /\ Base \in Followed /\ RowDays(Base) # {} =>
    LatestRow(Base).supply = db.reserves[Base].supply

\* schema.go:355-357: the per-asset rows are "valued the way clear_reserve_values
\* values them (par for a token ...)", which for a base reserve's is par.
TokensValuedAtPar ==
  \A d \in Days, a \in Listed(db, Base) :
    LET detail == db.details[Base][a][d]
    IN detail # NoDetail => detail.value = Par(a, detail.balance)
=============================================================================
