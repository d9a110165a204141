# Verification of the Clear exporter plugin

The plugin (`src/`, Go) is an EVMI exporter. The host delivers the decoded logs
of a pipeline; the plugin folds them into PostgreSQL tables that describe the
Clear protocol: reserves and their holdings, LP and IOU balances, daily values,
Curve pools, oracle prices and governance settings. This directory models it in
TLA+, checks the models with TLC and proves the central results with TLAPS.

Everything the plugin knows comes from flows. It never reads a balance, so one
log lost, applied twice, or applied to the wrong row stays wrong for ever. That
is the theme of the properties: each log counts once, under the right kind, and
what is folded agrees with what the contracts hold.

## 1. The system

### Components

| Component | State | Operations | Correct when |
|---|---|---|---|
| Event loop (`main.go`) | `clear_processed_events`; the open transaction | `Init`, `NewLogEvent`, `Close` | a log's writes are committed exactly once, in order, and none is skipped |
| Registry and routing (`registry.go`, `dispatch.go`, `classify` in `db.go`) | `clear_contracts`; the in-memory map `registry` | seed, load, resolve, track; eight dispatchers | a log is routed by the kind the table gives its contract, before and after a restart |
| Reserve book (`handlers.go`) | reserves, assets, token balances, LP balances, activity, swaps | one handler per reserve event; LP `Transfer` | holdings and supply are the contract's; independent totals reconcile |
| IOU tokens | supply, balances, treasury fees; the supply mirrored on the reserve's asset | IOU `Transfer`, `ClearIOUMinted` | both copies of the supply agree and equal the sum of balances |
| Value and asset histories | one row per reserve (and asset) and day | snapshot, resnapshot | the row of a day is its last state; the two tables agree |
| Valuation views (`schema.go`) | none (views) | two layers: par, then redemption basis | the figures are the contracts' own, rounding included |
| Curve pools | pools, coins, swaps, liquidity, LP balances | two deployment handlers; swap and liquidity handlers | a pool's row has what both deployment events say, in either order |
| Token directory | `clear_tokens` | `ensureToken` with an RPC read | no token entered with a pool or reserve is missing, none left blank by a failed read |
| Pool resolution (`curve.go`) | none | `resolveDeployedPool` on a receipt | an event resolves to the pool it announces |
| Host API (`host.go`) | `curveAbiID`; the host's ABIs and log sources | register the ABI, create a source | a discovered pool is indexed from its first block, once |
| Oracle state | one row per asset; price history | six handlers for two contracts | the row agrees with both contracts, in any interleaving |
| Governance settings, protocol and deployer configuration | one row per contract, folded from setters | `upsertPatch`, `handleFactoryConfig`, ... | a column holds the last value set |
| Argument parsing (`db.go`) | none | `splitArrayArg`, `num`, `neg`, ... | the two renderings of an array split alike |

### How they interact

The host calls `NewLogEvent` for each log, one at a time, in block order and at
least once: after an error, a lost answer or a restart it delivers again. The
call is one transaction: claim the log's id, resolve the kind of its contract,
dispatch to a handler, commit. Handlers share the tables. Some reach outside the
transaction: into the in-memory registry, to an RPC node (`ensureToken`,
`resolveDeployedPool`, `fetchCurvePool`) and to the host (`registerCurvePoolSource`).
None of those three is undone by a rollback. A log source made by a handler
changes which logs the host delivers next.

### What is hard

- **Delivery.** Redelivery meets additive arithmetic (`balance = balance + x`);
  the claim in the same transaction is all that separates the two.
- **Rollback.** Memory and the host keep what a rolled-back transaction did.
- **Order.** A reserve's own event and the `Transfer`s of the same operation come
  in either order; so do the two deployment events of a Curve pool and the events
  of the two oracle contracts. A snapshot taken at one is stale after the other.
- **Naming.** A meta reserve's amounts carry no addresses, and Curve's deployment
  events do not name the pool. Both are inferred.
- **Numbers.** Shares are priced with a virtual offset, two truncations, and
  decimals.

PROJECT.json lists the hazards, each at the line where it bites.

## 2. The modules

| Module | Models | Role |
|---|---|---|
| `LogConsumption` | what an observer of the database sees of the stream | abstract specification |
| `ClearExporter` | event loop, ledger, registry, routing, host and crashes | core; implements `LogConsumption` |
| `ClearExporterProofs` | | theorems about `ClearExporter` |
| `Valuation` | the quotients of the valuation views | operators, for any amounts |
| `ValuationProofs` | | theorems about the rounding |
| `ReserveBook` | reserve handlers, IOUs, LP, histories, valuation views | the contracts are an external actor; extends `Valuation` |
| `ReserveBookProofs` | | theorems about `ReserveBook` |
| `CurveDiscovery` | deployment events, tokens, RPC reads, ABI and log sources; swaps, liquidity and LP Transfers of the pools | transaction steps, rollback and lost answers |
| `CurveDiscoveryProofs` | | theorems about `CurveDiscovery` |
| `PoolResolution` | the receipt of a deployment and its reading | pure algorithm over all receipts |
| `PoolResolutionProofs` | | theorem about `PoolResolution` |
| `OracleFold` | six oracle handlers, price history | two external contracts |
| `OracleFoldProofs` | | theorems about `OracleFold` |
| `Settings` | every setter event of the reserves, the factory and the Curve deployer; a reserve's row and its announcement | external contracts, `upsertPatch` and its variants |
| `SettingsProofs` | | theorems about `Settings` |
| `FoldLemmas` | | induction, and what sums over a finite set and queues obey; for the theorems about folded tables |
| `MC...` | | small instances for TLC |

The modules divide the work and rely on one another. `ClearExporter` abstracts
what a handler writes to a count; it shows that a log takes effect once, as a
whole, in order and under the right kind. `ReserveBook`, `OracleFold` and `Settings`
therefore apply each log once, in order, in one step. `ReserveBook` keeps of the
oracle's rows only the redemption price, which its valuations read. `CurveDiscovery` opens the transaction
again, because its handlers act outside it, and there a log is delivered until its
transaction commits. `PoolResolution` is why `CurveDiscovery` may take the resolved
address to be the right one.

Operators named `Bug...` are not part of a specification. Each is a plausible
defect of the definition that follows it, and the run listed beside it in
PROJECT.json must fail when it takes that definition's place.

### ClearExporter

| Model | Code |
|---|---|
| `processed`, `contracts` | `clear_processed_events`, `clear_contracts` |
| `applied[l]`, `route[l]` | how often, and under what kind, the writes of log `l` were committed (observers) |
| `offset`, `saved` | the host's position in the stream, volatile and durable |
| `registry` | the Go map `clearExporter.registry`; `Absent` is no key |
| `stage`, `kind`, `txContracts` | the open transaction of `NewLogEvent` |
| `Start`, `Seed`, `LoadRegistry` | `Init`: `seedContracts` (one statement per entry, each commits) and `loadRegistry` |
| `Redelivered`, `Claim` | the claim's `INSERT ... ON CONFLICT DO NOTHING` |
| `ResolveKnown`, `ResolveFirstSight` | `resolveKind` |
| `DispatchAnnouncement`, `DispatchPlain`, `Reject` | the dispatchers, by what they track or refuse |
| `CommitAcked`, `CommitAckLost`, `Fail`, `Crash` | the outcomes of the commit and the error paths |

The registry is written while the transaction is open and is not rolled back:
that is the reason for the steps inside `NewLogEvent`.
`Rejected` is the announcement that `handleNewClearReserve` cannot read; a handler
that cannot split another event's array argument fails each delivery in the same way,
and the stream stops there just the same (`Reject`).

### ReserveBook

`chain` is what the contracts hold, changed by one operation at a time. An
operation appends its logs to `pending`, and `db` is the tables. A log is applied if
the pipeline indexes its contract and goes by otherwise (`Source`, `PassBy`). There is
one action per handler; the statements that handlers share (`EnsureReserve`, `Bump`,
`AdjustHolding`, `Snapshot`, ...) are operators with the Go functions' names. A
handler is one operator on the database, composed in the order the Go code calls
its statements, so that a snapshot sees exactly the writes before it. The
deployment (`setup`) says in which order the meta reserve lists its legs and which
contracts are indexed; both matter to `metaLegs` and to the snapshot's join.

`Par`, `AvgRedemption`, `LegValue`, `Gross` and `Debt` are the columns of the two
views, evaluated where `Snapshot` reads them; `Scale` is a token's decimals and `One`
stands for 1e18. `snapshotReserveAssets` repeats the expressions of the second view,
so both use `LegValue`, and the difference between the two is only in what a base
reserve's row shows (section 4).

The contracts' behaviour is external. It is what the handlers and the comments
assume of it: an operation's token flows balance, and its logs are the reserve's
event with its Transfers before or after it. The deployments' own logs (`LaunchLogs`)
are the first in the queue: the directory of assets is folded too.

### CurveDiscovery, PoolResolution

`db` is committed and `tx` is what the open transaction sees. `step` walks through
the handler: claimed, tokens, ABI, source, done. `Rollback` restores `tx` only;
`abiId`, `hostAbi` and `sources` keep their values, and `LoseUpsertAbi` and
`LoseCreateLogSource` are calls that took effect although the caller saw an error.
A pool's own logs come after its deployment in the stream, and the host delivers one
only if a source covers it (`PassBy` otherwise): what the pool's book holds depends on
the discovery. `swaps`, `liquidity`, `balances` and `supply` of a row are the tables
`dispatchCurve` writes. `SupplyAt` and `BalanceAt` are the pool's own books, the sums
of its Transfers, with which the row is compared. Of the pool the model assumes
(`PoolLogs`) what a contract does: it logs after the factory has announced it, but for
its constructor's Transfer of nothing, which comes before and is lost; it lets
nobody spend what they do not have; and it announces its supply with each change of
its liquidity.
`PoolResolution` builds every receipt: constructors, deployment events, and logs
that resemble a constructor's in all but one respect.

### OracleFold

`chain` is what the two contracts hold of an asset, `rows` and `history` the
tables. A Pyth push emits two logs in either order, any other price write one.

### Settings

`logs` is what the contracts emitted, `next` the first one not consumed. A setter
event is the columns it writes and the argument each takes, the tables
`ReserveSetters`, `FactorySetters` and `DeployerSetters`, read off the dispatchers.
`Patched` is `upsertPatch`: the insert writes the kind, the update only the event's
columns. A reserve's row may be made by its first setter or by the factory's
announcement, `Announced`.

## 3. What is checked

Passing runs (every property has a mutant of the code that breaks it):

| Run | Instance | Shows |
|---|---|---|
| `exporter_loop` | all streams of 3 logs drawn from 9 (a factory, its reserve, the reserve's IOU, a Curve factory, its pool; names that are and are not recognised; one refused log), with and without a configuration, 2 faults | exactly once, in order, no gap; refused logs block; memory covers the table; events only add rows; routing follows the table; implements `LogConsumption`; every log no handler refuses is consumed |
| `reserve_book` | a base reserve of 2 assets of different scales, a meta reserve on it, a redemption price off par, 4 deployments, 3 operations over 2 days | holdings are the contracts'; supplies, balances, mirrors and totals agree; snapshots current and consistent; a leg is never worth more than its base, an average price lies between the prices |
| `pool_resolution` | all receipts of at most 6 logs, 2 pools | each event resolves to its pool |
| `curve_discovery` | 4 pools in 3 streams, endpoint and host on or off, 3 faults | rows keep both events' columns; pools sourced from their block; no own log lost; LP supply, balances and the announced supply agree; no token missing or left blank; a source always gets its row |
| `oracle_fold` | 2 assets, 4 logs, 2 blocks | rows agree with the contracts; the history is the prices written |
| `settings` | a base and a meta reserve, a factory, a deployer, 3 logs, 2 values of which one is the zero address | every column is its last setter's; a reserve is identified whichever log comes first |

Why the bounds are enough to be informative:

- `exporter_loop`: three logs allow an announcement, a log of the announced
  contract, and a second one after a restart; two faults allow a rollback
  followed by a crash. A mutated commit, claim or registry shows within them, and
  the proofs remove the bounds.
- `reserve_book`: three operations allow deposit, swap with a shortfall, redeem;
  a deposit into the base reserve, then one of its LP into the meta reserve, then
  a donation of it. Two days and one block per operation cover both sides of the
  snapshot's guard, and an operation emits several logs in one block. The
  redemption price is 3/4 of par and one token is worth ten units of the other, so
  that the divisions truncate; a swap with a shortfall makes an asset owe more than
  is held of it, where the net balance is floored. What the roundings do for all
  amounts is proved.
- `pool_resolution`: six logs hold two complete deployments (four logs) with two
  look-alikes anywhere, each short of one feature of a constructor's Transfer: that
  no other contract emits one with all of them is the environment's promise
  (curve.go:27-32).
- `curve_discovery`: both orders of the deployment events, a coin shared by two
  pools, two pools in one block, a swap in a pool's own block, an unresolvable
  deployment, a mint before the liquidity event that announces it, a transfer
  between holders, a burn to a supply of zero; three faults let one handler fail, be
  redelivered, and fail again after a restart.
- `oracle_fold`: four logs hold a push followed by two interfering events of
  either contract.
- `settings`: three logs hold two setters of one column with another between them,
  and an announcement before, between or after two setters.

Every run gives `CHECK_DEADLOCK FALSE`: each behaviour ends when the
stream is consumed and the bounds are met.

### Fairness

`FairSpec` is `WF_vars(Progress)`: if the exporter can take a step for ever, it
takes one. The host justifies it. It calls a running plugin with the next log,
delivers a failed one again, and restarts a plugin that stopped. Faults are not
fair and are bounded; a fault that recurs for ever would postpone a log for ever,
and the code does not promise otherwise. `EventuallyConsumed` excludes streams
with a log that its handler always refuses: that one blocks the stream, which
`RefusedStaysPending` shows to be what the code does.

## 4. Findings

Each is a run whose one property is what the repository says, which the model of
the code violates.

- **`first_sight_rollback`.** `resolveKind` stores a newly seen contract in memory
  before the transaction commits. If the event fails, the redelivered one finds the
  contract in memory and never writes its `clear_contracts` row
  (`registry.go:131`, against `registry.go:115-118`). After a restart, the contract
  is known only if its name is recognised again.
- **`config_overridden`.** `trackContract` overwrites memory, while the table keeps
  the configured row. Until the next restart the announcement wins over the
  configuration (`registry.go:150`, against `registry.go:160-161`).
- **`stale_snapshot`.** The daily row is taken at the reserve's event; an LP
  `Transfer` that follows it changes the supply and takes no snapshot, so the
  row's `total_supply` need not be the end-of-day value (`handlers.go:464`,
  against `schema.go:336-339`).
- **`oracle_refresh`.** A confidence override moves `last_block` and not
  `last_refresh`, which then describe different events (`handlers.go:871`,
  against `schema.go:293-295`).
- **`oracle_publish_time`.** A price write that is not Pyth's keeps the
  `publish_time` of the price it replaces (`handlers.go:819`, against
  `schema.go:295-296`).
- **`redemption_detail`.** The asset history values a base reserve's tokens at their
  redemption price, the value history leaves a base reserve at par: with an oracle
  price off par the two tables' values no longer agree (`handlers.go:391`, against
  `schema.go:355-358`).

## 5. What is proved

`ClearExporterProofs` proves, for every stream, set of addresses, configuration
and number of faults, under the named assumptions of `ClearExporter` (the stream's
length and the fault bound are naturals; logs and configurations have their types;
`NoAddr` is no address):

- `TypeCorrect`: `TypeOK`.
- `Invariance`: the inductive invariant `IInv`, and from it `ExactlyOnceHolds`,
  `NoGapHolds`, `RefusedHolds` and `MemoryCoversHolds`.
- `EventsKeepRowsHolds`: the action property on `clear_contracts`.
- `Refinement`: `ClearExporter` implements `LogConsumption`.
- `RoutedAsTabledHolds`: routing follows the table, provided that names,
  configurations and announcements agree on one kind per contract (`OneKind`).

The properties are not inductive alone. `ExactlyOnce` needs to know that the log
of an open transaction is not in the ledger yet, and `NoGap` needs in addition that
the durable cursor is never ahead of the volatile one: this is `TxInv`. That memory
covers the table after a commit needs that it covers what the open transaction has
written: this is `RegistryInv`, which is where the asymmetry between memory and
transaction is dealt with (memory may be ahead of the table, never behind). In the
proof only a commit touches the ledger (`LedgerStep`), so each part of `IInv` comes
down to that one step or to the few actions that move `offset` or the registry.
`RoutedAsTabled` needs a second invariant, `TruthInv`: tables and memory hold
nothing but the contract's true kind, or unknown. Without `OneKind` the property is
false, as `config_overridden` shows. The refinement maps a commit to the `Consume`
step of that log and every other step to a stutter, and it uses `NoGap` for the
abstract specification's order.

`PoolResolutionProofs` proves `ResolvesHolds` for transactions of any length with
any pools. Assumed is that the factory is neither a pool, nor another holder, nor
the zero address (`AddressAssumption`), and, by the definition of `OtherLogs`, that
only a pool under construction emits a constructor's Transfer. The invariant says that the pool under
construction, and each announced pool at the moment of its event, was the last one
whose constructor log appeared; `MaxIs` turns "last" into the code's maximum.

`ReserveBookProofs` proves every property of the `reserve_book` run, for any number of
base assets (from two, as a basket's first two amounts are read), users, operations and days, for all amounts, baskets, scales and prices,
and for either leg order and any set of indexed contracts. The assumptions are those of
`ReserveBook`: addresses are distinct and an asset is listed once
(`AddressAssumption`); amounts are unsigned and a basket has an amount per asset
(`AmountAssumption`); a deployment that announces no base reserve lists the native leg
first (`SetupAssumption`), the case in which `metaLegs` falls back on positions;
`BoundAssumption`; and, for prices, that `One` is positive. The argument:

- A log is worth something to each quantity the tables keep: a holding, a balance, a
  supply, a total (`HoldingFlow`, `BalanceFlow`, ...). Each handler adds to every
  quantity what its log is worth and to no other (`Effect`), which is one lemma per
  handler.
- Each operation of the contracts emits logs that are together worth what it changes
  (`Settled`), in whichever order they come, and leaves the contracts solvent. That is
  one lemma per operation.
- So at all times what the tables lack of the contracts is what the queue is still
  worth: `Due`, in `BookInv`. This is the inductive form of `HoldingsExact`,
  `LpReconciles`, `IouReconciles` and `LegIsLpBalance`, none of which says anything
  while a log is pending.
- A handler is worth what it should only if `metaLegs` and `applyReserveAmounts` find
  the assets. `CoreInv` therefore follows the launch logs one by one (`LaunchedTo`) up
  to the directory they leave (`Directory`), for each set of indexed contracts.
- `SumsInv` adds what holds after every single log: supplies are the sums of balances
  (`Summed`) and the debts of the assets are the supplies of their IOUs (`Mirrors`).
  It gives `SupplyConserved` and `IouMirrored`.
- `HistoryInv` adds the same of the histories (`HistoryOk`): rows are of past blocks, a
  day's two kinds of rows are of one block and sum up, and the base reserve's latest row
  is current. A step preserves it because every handler that changes a holding or a debt
  ends with a snapshot taken after the change (`History`). It gives
  `BaseSnapshotCurrent`, `HistoriesAgree` and `TypeOK`.
- `LegWithinBase` follows from `SumsInv` and `ValuationProofs`: the leg's units are within
  the supply because the two reserves' tables agree. `AverageIsBetween` needs of the
  tables only their types: it is about the truncated division of two sums.

`CurveDiscoveryProofs` proves `RowHolds`, `SourceHolds`, `BlankHolds`,
`DirectoryHolds`, `TypeHolds`, `NoneLost` and `LpHolds` for any pools, streams, holders
and number of failures. Assumed is that a pool's coins are sequences of tokens, that
the coin Clear pairs is a token or absent, that streams are of known pools and come
block by block, that the ABI's id is not 0 (`TokenFacts`, `StreamFacts`,
`FaultAssumption`), and `PoolLogs`. The first four are not
inductive: they speak of the committed tables, and what a commit publishes was written
statements earlier. The invariant `IInv` therefore says the same of the open
transaction, one log ahead (`Past`): the row it holds is right for the stream up to and
including the log at hand (`RowOK`); a token the log needs is entered or still to do
(`Directory`); the ABI id, when resolved, is the host's, and a source, once created,
is never lost (`Sources`). `RowOK` allows a column to be NULL or right, never wrong,
which is what makes the `COALESCE` of the factory's event harmless in either order.

`NoneLost` and `LpHolds` need `BookInv` in addition. A row's `Book` is right for the
first n logs if its swaps and liquidity rows count the pool's own logs among them, its
balances are the pool's and its supply is their sum; `Books` says so of the committed
rows and, one log ahead, of the transaction's. That nothing is passed by which the book
should have is `Origin`: a source starts at the block of a deployment that was
delivered, hence no later than any log of the pool which moves something. That a
balance in the tables is a natural number follows from its being the pool's.

`OracleFoldProofs` proves `TypeHolds`, `FoldHolds` and `HistoryHolds` for any assets,
prices and number of logs (`NullAssumption`, `BoundAssumption`). `FoldIsCurrent` speaks of the
moment when no log is pending. `Carried` is the invariant for every other moment: for
each column, the last pending log that writes it carries what the contract holds, and
if none does the row already says so. Emitting a log and consuming one are each
shown once, for a column, and the handlers are instances. For the history `Told` says
the same: an asset's points followed by the pending logs that will append one are, in
order, the prices written. A handler moves the first of the queue to the end of the
history, which leaves that list as it is.

`SettingsProofs` proves `ColumnsHold`, `IdentifiedHolds` and `TypeHolds` for any
contracts, values and number of logs. Assumed is that the contracts' sets are
disjoint and NULL is no value. The three together are inductive; the argument rests on
`OneSetterPerColumn`, that no two events of a contract write one column, which is
decided from the tables of setters.

`ValuationProofs` proves of the views' arithmetic, for all natural amounts:
`ClaimWithinNav` (units not above the supply convert to at most the net assets, the
reason for `LegWithinBase`), `SplittingNeverGains`, `ValueIsMonotone` and
`RedeemedAtPar`. It assumes that `One` is positive.

`FoldLemmas` holds what these rest on: changing one term of a sum changes it by as much,
a sum is monotone in its terms and, if they are natural, bounds each of them; and what a
queue of logs is worth when one is applied or another queue follows it. The library's
induction theorems take an operator, which the provers cannot instantiate, so induction
is stated of a set (`NatStep`, `SubsetStep`), from `WFMin`. `SumFunction` is a fold that
takes the elements in an arbitrary order: that its recursion has a solution is proved
once (`PartialSums`), and the lemmas are inductions over subsets on its equation.

Only model-checked: liveness (`EventuallyConsumed`, `SourceGetsItsRow`), which the
prover cannot treat under fairness. The six findings of section 4 are
counterexamples, found by TLC.

## 6. What is not modelled

- In `ReserveBook`, the share price at which a contract mints LP tokens: it is par,
  since the handlers take the shares from the event whatever they are.
- Amounts of the single coins in a pool's swaps and liquidity events.
- Three of the five pool parameters and the descriptive columns of an announcement,
  which are written with one that is modelled.
- A reserve first indexed some time after its deployment (`schema.go:207-209` limits
  exactness to reserves followed from it).
- The conversion of arguments (`splitArrayArg`, `num`, `neg`, ...): stateless functions
  on text, which `helpers_test.go:112-150` tabulates; the models start from the values.
- The rows of activity, swaps and liquidity beyond the totals that other tables
  repeat: they are appended and never read by the plugin.
- The text of events: hex, JSON, ABI decoding. An argument is its value.
- The separate getters of `fetchCurvePool` and `fetchTokenMeta`: a partial answer
  counts as none, since the fallback is the same. Only a request that fails as a
  whole fails the event; a getter that fails inside one is its answer
  (`curve.go:269-279`).
- A change of the endpoint or the host API between restarts. A deployment consumed
  without them stays undiscovered, which the code documents (`handlers.go:1114-1116`).
- Schema creation, the configuration form, logging, containers: no state changes.
- A chain reorganisation: the plugin has no handling for it.

## 7. Plan

Built, in this order: `ClearExporter` with its proofs, `ReserveBook`, `OracleFold`,
`PoolResolution`, `CurveDiscovery`, then `Settings`, the pool book in
`CurveDiscovery`, `Valuation`, and the proofs, those about `OracleFold`'s history, the
pools' books and `ReserveBook` last. What would come next:

1. Composition of `ClearExporter` with `CurveDiscovery`: the registry entry of a
   pool, its log source and its row under one sequence of faults.
2. `ReserveBook` with the contracts' own share price, for `LegWithinBase` once yield has
   moved the price off par.
3. The abstract specification of a folded table (a queue whose worth is what the table
   lacks), stated once and shown to be implemented by `ReserveBook` and `OracleFold`.

The runs are kept few: a component's invariants share one run, and a further run
needs a question or bounds of its own.
