------------------------------ MODULE OracleFold ------------------------------
(***************************************************************************)
(* The oracle state: dispatchOracle and the six oracle handlers            *)
(* (handlers.go), which fold the events of two contracts, the ClearOracle  *)
(* and the PythOracleAdapter, into one row per asset, each handler writing *)
(* only its own columns.                                                   *)
(*                                                                         *)
(* The contracts are external.  A price pushed by the adapter emits        *)
(* ClearOracleRateChanged and PriceUpdated in one transaction; any other   *)
(* price write emits ClearOracleRateChanged alone.  The logs are consumed  *)
(* later, in block order and each once (ClearExporter).  Their asset is    *)
(* never empty, so the early return of every handler is not taken.         *)
(***************************************************************************)
EXTENDS Naturals, Sequences, FiniteSets

CONSTANTS
  Assets,
  Oracle,   \* the ClearOracle
  Adapter,  \* the PythOracleAdapter
  Null,     \* SQL NULL
  Prices,   \* prices and redemption prices
  Stamps,   \* Pyth's publish times
  Caps,     \* confidence caps
  MaxLogs,  \* bound on the logs of a behaviour
  MaxBlock  \* bound on the blocks of a behaviour

ASSUME PriceAssumption == Prices \subseteq Nat \ {0}
ASSUME BoundAssumption == MaxLogs \in Nat /\ MaxBlock \in Nat \ {0}
ASSUME NullAssumption  ==
  /\ Null \notin Prices /\ Null \notin Stamps /\ Null \notin Caps /\ Null \notin BOOLEAN
  /\ Null # 0 /\ Null # Oracle /\ Null # Adapter

VARIABLES
  chain,   \* what the contracts hold of each asset
  block,   \* the block being built
  emitted, \* logs emitted so far
  pending, \* logs the exporter has yet to consume
  rows,    \* clear_oracle_prices
  history  \* clear_oracle_price_history, in the order of insertion

contracts == <<chain, block, emitted>>
vars      == <<contracts, pending, rows, history>>

\* `refresh' is the block whose timestamp last_refresh holds.  The decimals and
\* the TTL are written with `enabled' and stand or fall with it.
NoRow == [oracle |-> Null, enabled |-> Null, price |-> Null, redemption |-> Null,
          publish |-> Null, cap |-> Null, refresh |-> Null, block |-> Null]

\* `pushed' is the price that was published at `stamp'.
NewAsset == [enabled |-> Null, price |-> Null, redemption |-> Null, stamp |-> Null,
             pushed |-> Null, cap |-> Null, priced |-> <<>>]

Init ==
  /\ chain = [a \in Assets |-> NewAsset]
  /\ block = 1 /\ emitted = 0 /\ pending = <<>>
  /\ rows = [a \in Assets |-> NoRow]
  /\ history = <<>>

-----------------------------------------------------------------------------
(* The contracts                                                           *)

Log(event, addr, a, args) ==
  [event |-> event, addr |-> addr, asset |-> a, block |-> block, args |-> args]

Emit(logs) ==
  /\ emitted + Len(logs) <= MaxLogs
  /\ emitted' = emitted + Len(logs)
  /\ pending' = pending \o logs
  /\ UNCHANGED <<block, rows, history>>

Rate(a, p)       == Log("ClearOracleRateChanged", Oracle, a, [price |-> p])
Published(a, p, t) == Log("PriceUpdated", Adapter, a, [price |-> p, publishTime |-> t])

\* Configuring an asset keeps the price it has.
Configure(a, on, r) ==
  /\ chain' = [chain EXCEPT ![a].enabled = on, ![a].redemption = r]
  /\ Emit(<<Log("OracleConfigured", Oracle, a, [enabled |-> on, redemptionPrice |-> r])>>)

\* A price write that does not come from Pyth.
SetPrice(a, p) ==
  /\ chain' = [chain EXCEPT ![a].price = p, ![a].priced = Append(@, p)]
  /\ Emit(<<Rate(a, p)>>)

\* The events of a push may come in either order.
PushPrice(a, p, t) ==
  /\ chain' = [chain EXCEPT ![a].price = p, ![a].priced = Append(@, p),
                            ![a].stamp = t, ![a].pushed = p]
  /\ Emit(<<Rate(a, p), Published(a, p, t)>>) \/ Emit(<<Published(a, p, t), Rate(a, p)>>)

SetRedemption(a, r) ==
  /\ chain' = [chain EXCEPT ![a].redemption = r]
  /\ Emit(<<Log("ClearOracleRedemptionPriceChanged", Oracle, a, [redemptionPrice |-> r])>>)

InvalidatePrice(a) ==
  /\ chain' = [chain EXCEPT ![a].price = 0, ![a].stamp = Null, ![a].pushed = Null]
  /\ Emit(<<Log("ClearOraclePriceInvalidated", Oracle, a, <<>>)>>)

SetMaxConfidence(a, c) ==
  /\ chain' = [chain EXCEPT ![a].cap = c]
  /\ Emit(<<Log("AssetMaxConfidenceBpsUpdated", Adapter, a, [maxConfidenceBps |-> c])>>)

NextBlock ==
  /\ block < MaxBlock
  /\ block' = block + 1
  /\ UNCHANGED <<chain, emitted, pending, rows, history>>

-----------------------------------------------------------------------------
(* The handlers                                                            *)

log == Head(pending)

\* last_refresh and last_block, as every handler but one stamps them.
Refreshed(row) == [row EXCEPT !.refresh = log.block, !.block = log.block]

\* Consume the next log, an `event', upserting the row of its asset.
Consume(event, row) ==
  /\ pending # <<>> /\ log.event = event
  /\ rows' = [rows EXCEPT ![log.asset] = row]
  /\ pending' = Tail(pending)
  /\ UNCHANGED contracts

Upserted(event, Columns(_)) == Consume(event, Refreshed(Columns(rows[log.asset])))

handleOracleConfigured ==
  LET Columns(row) == [row EXCEPT !.oracle = log.addr, !.enabled = log.args.enabled,
                                  !.redemption = log.args.redemptionPrice]
  IN Upserted("OracleConfigured", Columns) /\ UNCHANGED history

BugOnePointPerBlock ==
  IF \E i \in 1..Len(history) : history[i].asset = log.asset /\ history[i].block = log.block
  THEN history
  ELSE Append(history, [asset |-> log.asset, block |-> log.block, price |-> log.args.price])

\* A point per log: the history is keyed by the log's id.
WithPoint ==
  Append(history, [asset |-> log.asset, block |-> log.block, price |-> log.args.price])

handleOracleRate ==
  LET Columns(row) == [row EXCEPT !.oracle = log.addr, !.price = log.args.price]
  IN Upserted("ClearOracleRateChanged", Columns) /\ history' = WithPoint

handleOracleRedemption ==
  LET Columns(row) == [row EXCEPT !.redemption = log.args.redemptionPrice]
  IN Upserted("ClearOracleRedemptionPriceChanged", Columns) /\ UNCHANGED history

BugInvalidatedKeepsTime(row) == [row EXCEPT !.oracle = log.addr, !.price = 0]

\* The cached price and its timestamp are zeroed, the rest stays.
Invalidated(row) == [row EXCEPT !.oracle = log.addr, !.price = 0, !.publish = Null]

handleOracleInvalidated ==
  Upserted("ClearOraclePriceInvalidated", Invalidated) /\ UNCHANGED history

\* This handler leaves `oracle' and last_refresh alone.
handleOracleMaxConfidence ==
  /\ Consume("AssetMaxConfidenceBpsUpdated",
             [rows[log.asset] EXCEPT !.cap = log.args.maxConfidenceBps, !.block = log.block])
  /\ UNCHANGED history

BugPublisherIsOracle(row) ==
  [row EXCEPT !.oracle = log.addr, !.price = log.args.price, !.publish = log.args.publishTime]

\* The emitter is the adapter, so `oracle' is left alone.
PublishedColumns(row) ==
  [row EXCEPT !.price = log.args.price, !.publish = log.args.publishTime]

handleOraclePublish ==
  Upserted("PriceUpdated", PublishedColumns) /\ UNCHANGED history

-----------------------------------------------------------------------------
ContractCall ==
  \E a \in Assets :
    /\ \/ \E on \in BOOLEAN, r \in Prices : Configure(a, on, r)
       \/ \E p \in Prices : SetPrice(a, p) \/ SetRedemption(a, p)
       \/ \E p \in Prices, t \in Stamps : PushPrice(a, p, t)
       \/ InvalidatePrice(a)
       \/ \E c \in Caps : SetMaxConfidence(a, c)

dispatchOracle ==
  \/ handleOracleConfigured \/ handleOracleRate \/ handleOracleRedemption
  \/ handleOracleInvalidated \/ handleOracleMaxConfidence \/ handleOraclePublish

Next == ContractCall \/ NextBlock \/ dispatchOracle

Spec == Init /\ [][Next]_vars

-----------------------------------------------------------------------------
(* Properties                                                              *)

\* The values the state ranges over.
TypeOK ==
  /\ emitted \in 0..MaxLogs /\ block \in 1..MaxBlock
  /\ \A a \in Assets :
       /\ rows[a].oracle \in {Null, Oracle}
       /\ rows[a].enabled \in BOOLEAN \cup {Null}
       /\ rows[a].price \in Prices \cup {0, Null}
       /\ rows[a].redemption \in Prices \cup {Null}
       /\ rows[a].publish \in Stamps \cup {Null}
       /\ rows[a].cap \in Caps \cup {Null}
       /\ {rows[a].refresh, rows[a].block} \subseteq 1..MaxBlock \cup {Null}
  /\ Len(history) <= emitted

\* Whatever the order in which the two contracts' events interleave, a row that
\* has consumed them all agrees with the contracts in every column ("each handler
\* upserts only its own columns so it can create the row or patch an existing one
\* in any order", handlers.go:768-769).
FoldIsCurrent ==
  pending = <<>> =>
    \A a \in Assets :
      /\ rows[a].price = chain[a].price
      /\ rows[a].redemption = chain[a].redemption
      /\ rows[a].enabled = chain[a].enabled
      /\ rows[a].publish = chain[a].stamp
      /\ rows[a].cap = chain[a].cap
      /\ chain[a].enabled # Null \/ chain[a].price # Null => rows[a].oracle = Oracle

\* The points of a among the first n of the history.
PointsOf(a, n) == {i \in 1..n : history[i].asset = a}

\* An asset's history is exactly the prices written for it, each once and in
\* order, Pyth's pushes included ("every price write, including Pyth-driven ones,
\* funnels through it", schema.go:318-319), and no invalidation: its n-th point
\* has the n-th price written.
HistoryIsComplete ==
  pending = <<>> =>
    \A a \in Assets :
      LET points == PointsOf(a, Len(history))
      IN /\ Cardinality(points) = Len(chain[a].priced)
         /\ \A i \in points : history[i].price = chain[a].priced[Cardinality(PointsOf(a, i))]

\* last_refresh and last_block are of one event: "last_refresh is the
\* block-header timestamp of the most recent oracle event ... last_block is the
\* same event's block number" (schema.go:293-295).
RefreshIsLastBlock == \A a \in Assets : rows[a].refresh = rows[a].block

\* publish_time belongs to the price beside it: "publish_time is Pyth's own
\* timestamp for the price" (schema.go:295), once all events are consumed.
PublishTimeOfPrice ==
  pending = <<>> =>
    \A a \in Assets : rows[a].publish # Null => rows[a].price = chain[a].pushed
=============================================================================
