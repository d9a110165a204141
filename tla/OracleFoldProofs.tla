--------------------------- MODULE OracleFoldProofs ---------------------------
(***************************************************************************)
(* For any assets, prices and number of logs, the oracle rows agree with   *)
(* the contracts once the logs are consumed, and the price history is the  *)
(* prices written.  The invariant is about every column on its own: the    *)
(* last pending log that writes it carries what the contract holds, and if *)
(* there is none the row does.  For the history it is that the points      *)
(* written, followed by the logs pending, hold the prices of every asset.  *)
(***************************************************************************)
EXTENDS OracleFold, FoldLemmas

Cols == {"price", "redemption", "enabled", "publish", "cap"}

Priced == {"ClearOracleRateChanged", "PriceUpdated", "ClearOraclePriceInvalidated"}

\* The events that write a column.
Writers(c) ==
  CASE c = "price"      -> Priced
    [] c = "redemption" -> {"OracleConfigured", "ClearOracleRedemptionPriceChanged"}
    [] c = "enabled"    -> {"OracleConfigured"}
    [] c = "publish"    -> {"PriceUpdated", "ClearOraclePriceInvalidated"}
    [] c = "cap"        -> {"AssetMaxConfidenceBpsUpdated"}

Writes(l, a, c) == l.asset = a /\ l.event \in Writers(c)

\* What the log l writes to column c.
Wrote(l, c) ==
  CASE c = "price"      -> IF l.event = "ClearOraclePriceInvalidated" THEN 0 ELSE l.args.price
    [] c = "redemption" -> l.args.redemptionPrice
    [] c = "enabled"    -> l.args.enabled
    [] c = "publish"    -> IF l.event = "ClearOraclePriceInvalidated" THEN Null
                           ELSE l.args.publishTime
    [] c = "cap"        -> l.args.maxConfidenceBps

\* What the contracts hold for column c of a.
Held(a, c) ==
  CASE c = "price"      -> chain[a].price
    [] c = "redemption" -> chain[a].redemption
    [] c = "enabled"    -> chain[a].enabled
    [] c = "publish"    -> chain[a].stamp
    [] c = "cap"        -> chain[a].cap

\* What the row of a says in column c.
Stored(a, c) ==
  CASE c = "price"      -> rows[a].price
    [] c = "redemption" -> rows[a].redemption
    [] c = "enabled"    -> rows[a].enabled
    [] c = "publish"    -> rows[a].publish
    [] c = "cap"        -> rows[a].cap

\* The positions of p's logs that write column c of a.
Writing(p, a, c) == {i \in 1..Len(p) : Writes(p[i], a, c)}

\* With p pending, a column that says `stored' is going to say `held'.
Agree(p, a, c, stored, held) ==
  /\ Writing(p, a, c) = {} => stored = held
  /\ \A i \in Writing(p, a, c) :
       (\A j \in Writing(p, a, c) : j <= i) => Wrote(p[i], c) = held

Carried == \A a \in Assets, c \in Cols : Agree(pending, a, c, Stored(a, c), Held(a, c))

\* The events of the ClearOracle that stamp the row with its address.
Stamping == {"OracleConfigured", "ClearOracleRateChanged", "ClearOraclePriceInvalidated"}

Stamped(a) == \E i \in 1..Len(pending) : pending[i].asset = a /\ pending[i].event \in Stamping

OracleKnown ==
  \A a \in Assets :
    chain[a].enabled # Null \/ chain[a].price # Null => rows[a].oracle = Oracle \/ Stamped(a)

ArgsOf(event) ==
  CASE event = "OracleConfigured"                  -> [enabled : BOOLEAN, redemptionPrice : Prices]
    [] event = "ClearOracleRateChanged"            -> [price : Prices]
    [] event = "ClearOracleRedemptionPriceChanged" -> [redemptionPrice : Prices]
    [] event = "ClearOraclePriceInvalidated"       -> {<<>>}
    [] event = "AssetMaxConfidenceBpsUpdated"      -> [maxConfidenceBps : Caps]
    [] event = "PriceUpdated"                      -> [price : Prices, publishTime : Stamps]

Events == Stamping \cup {"ClearOracleRedemptionPriceChanged", "PriceUpdated",
                         "AssetMaxConfidenceBpsUpdated"}

LogType ==
  {l \in [event : Events, addr : {Oracle, Adapter}, asset : Assets, block : 1..MaxBlock,
          args : UNION {ArgsOf(event) : event \in Events}] :
     l.args \in ArgsOf(l.event) /\ (l.event \in Stamping => l.addr = Oracle)}

\* A value of S or NULL.
Maybe(S) == S \cup {Null}

ChainType ==
  [enabled : Maybe(BOOLEAN), price : Maybe(Prices \cup {0}), redemption : Maybe(Prices),
   stamp : Maybe(Stamps), pushed : Maybe(Prices), cap : Maybe(Caps), priced : Seq(Prices)]

RowType ==
  [oracle : Maybe({Oracle}), enabled : Maybe(BOOLEAN), price : Maybe(Prices \cup {0}),
   redemption : Maybe(Prices), publish : Maybe(Stamps), cap : Maybe(Caps),
   refresh : Maybe(1..MaxBlock), block : Maybe(1..MaxBlock)]

Point == [asset : Assets, block : 1..MaxBlock, price : Prices]

Shape ==
  /\ emitted \in 0..MaxLogs /\ block \in 1..MaxBlock
  /\ chain \in [Assets -> ChainType]
  /\ rows \in [Assets -> RowType]
  /\ pending \in Seq(LogType)
  /\ history \in Seq(Point)
  /\ Len(history) + Len(pending) <= emitted

IInv == Shape /\ Carried /\ OracleKnown

-----------------------------------------------------------------------------
(* One column while logs are emitted and consumed.                         *)

\* A log emitted carries what the contract now holds, if it writes the column.
LEMMA AgreeAppend ==
  ASSUME NEW p \in Seq(LogType), NEW l \in LogType, NEW a, NEW c, NEW stored, NEW held,
         Agree(p, a, c, stored, held)
  PROVE  Agree(Append(p, l), a, c, stored, IF Writes(l, a, c) THEN Wrote(l, c) ELSE held)
<1> DEFINE q == Append(p, l)
<1>1. /\ Len(p) \in Nat /\ Len(q) = Len(p) + 1 /\ q[Len(p) + 1] = l
      /\ \A i \in 1..Len(p) : q[i] = p[i]
  OBVIOUS
<1> HIDE DEF q
<1>2. CASE Writes(l, a, c)
  <2>1. Len(p) + 1 \in Writing(q, a, c)
    BY <1>1, <1>2 DEF Writing
  <2>2. \A i \in Writing(q, a, c) : (\A j \in Writing(q, a, c) : j <= i) => i = Len(p) + 1
    BY <1>1, <2>1 DEF Writing
  <2> QED
    BY <1>1, <1>2, <2>1, <2>2 DEF Agree, q
<1>3. CASE ~ Writes(l, a, c)
  <2>1. Writing(q, a, c) = Writing(p, a, c)
    BY <1>1, <1>3 DEF Writing
  <2>2. \A i \in Writing(p, a, c) : q[i] = p[i]
    BY <1>1 DEF Writing
  <2> QED
    BY <1>3, <2>1, <2>2 DEF Agree, q
<1> QED
  BY <1>2, <1>3

\* A log consumed puts what it carries into the row, if it writes the column.
LEMMA AgreeTail ==
  ASSUME NEW p \in Seq(LogType), p # <<>>, NEW a, NEW c, NEW stored, NEW held,
         Agree(p, a, c, stored, held)
  PROVE  Agree(Tail(p), a, c, IF Writes(Head(p), a, c) THEN Wrote(Head(p), c) ELSE stored, held)
<1> DEFINE q == Tail(p)
<1>1. /\ Len(p) \in Nat \ {0} /\ Len(q) = Len(p) - 1 /\ Head(p) = p[1]
      /\ \A i \in 1..Len(q) : q[i] = p[i + 1]
  OBVIOUS
<1> HIDE DEF q
<1>2. \A i \in Writing(q, a, c) : i + 1 \in Writing(p, a, c) /\ q[i] = p[i + 1]
  BY <1>1 DEF Writing
<1>3. \A i \in Writing(p, a, c) : i # 1 => i - 1 \in Writing(q, a, c)
  BY <1>1 DEF Writing
<1>4. 1 \in Writing(p, a, c) <=> Writes(Head(p), a, c)
  BY <1>1 DEF Writing
<1>5. ASSUME NEW i \in Writing(q, a, c), \A j \in Writing(q, a, c) : j <= i
      PROVE  Wrote(q[i], c) = held
  <2>1. \A j \in Writing(p, a, c) : j <= i + 1
    BY <1>1, <1>3, <1>5 DEF Writing
  <2> QED
    BY <1>2, <1>5, <2>1 DEF Agree
<1>6. ASSUME Writing(q, a, c) = {}
      PROVE  (IF Writes(Head(p), a, c) THEN Wrote(Head(p), c) ELSE stored) = held
  <2>1. Writing(p, a, c) \subseteq {1}
    BY <1>3, <1>6
  <2>2. CASE Writes(Head(p), a, c)
    BY <1>1, <1>4, <2>1, <2>2 DEF Agree
  <2>3. CASE ~ Writes(Head(p), a, c)
    BY <1>4, <2>1, <2>3 DEF Agree
  <2> QED
    BY <2>2, <2>3
<1> QED
  BY <1>5, <1>6 DEF Agree, q

-----------------------------------------------------------------------------
(* Emitting one log or two.                                                *)

\* A column of the contracts after the log l.
After(l, a, c, held) == IF Writes(l, a, c) THEN Wrote(l, c) ELSE held

\* The price and `enabled' change only with a log that stamps the row.
StampsChange(l) ==
  \A a \in Assets :
    \/ l.asset = a /\ l.event \in Stamping
    \/ chain'[a].enabled = chain[a].enabled /\ chain'[a].price = chain[a].price

\* A call that emits one log, which carries what the contract changes.
LEMMA EmitOne ==
  ASSUME IInv, NEW l \in LogType, Emit(<<l>>), chain' \in [Assets -> ChainType],
         \A a \in Assets, c \in Cols : Held(a, c)' = After(l, a, c, Held(a, c)),
         StampsChange(l)
  PROVE  IInv'
<1>1. /\ pending' = Append(pending, l) /\ Len(pending') = Len(pending) + 1
      /\ pending' \in Seq(LogType) /\ pending \in Seq(LogType) /\ Len(pending) \in Nat
      /\ pending'[Len(pending) + 1] = l
      /\ \A i \in 1..Len(pending) : pending'[i] = pending[i]
  BY DEF IInv, Shape, Emit
<1>2. Shape'
  <2>1. emitted' = emitted + 1 /\ emitted' <= MaxLogs
    BY DEF Emit
  <2> QED
    BY <1>1, <2>1, BoundAssumption DEF IInv, Shape, Emit
<1>3. Carried'
  <2> SUFFICES ASSUME NEW a \in Assets, NEW c \in Cols
               PROVE  Agree(pending', a, c, Stored(a, c)', Held(a, c)')
    BY DEF Carried, Agree, Writing, Writes, Wrote
  <2>1. Agree(pending, a, c, Stored(a, c), Held(a, c))
    BY DEF IInv, Carried
  <2>2. Stored(a, c)' = Stored(a, c)
    BY DEF Stored, Emit
  <2> QED
    BY <1>1, <2>1, <2>2, AgreeAppend DEF After
<1>4. OracleKnown'
  <2> SUFFICES ASSUME NEW a \in Assets, chain'[a].enabled # Null \/ chain'[a].price # Null
               PROVE  rows'[a].oracle = Oracle \/ Stamped(a)'
    BY DEF OracleKnown
  <2>1. Stamped(a) => Stamped(a)'
    BY <1>1 DEF Stamped
  <2>2. l.asset = a /\ l.event \in Stamping => Stamped(a)'
    BY <1>1 DEF Stamped
  <2> QED
    BY <2>1, <2>2 DEF IInv, OracleKnown, StampsChange, Emit
<1> QED
  BY <1>2, <1>3, <1>4 DEF IInv

\* A push emits two logs, which carry it together.
LEMMA EmitTwo ==
  ASSUME IInv, NEW l \in LogType, NEW k \in LogType, Emit(<<l, k>>),
         chain' \in [Assets -> ChainType],
         \A a \in Assets, c \in Cols : Held(a, c)' = After(k, a, c, After(l, a, c, Held(a, c))),
         StampsChange(l) \/ StampsChange(k)
  PROVE  IInv'
<1> DEFINE p == Append(pending, l)
<1>1. pending \in Seq(LogType) /\ Len(pending) \in Nat
  BY DEF IInv, Shape
<1>2. /\ p \in Seq(LogType) /\ Len(p) = Len(pending) + 1 /\ p[Len(pending) + 1] = l
      /\ \A i \in 1..Len(pending) : p[i] = pending[i]
  BY <1>1
<1>3. pending' = Append(p, k)
  BY <1>1 DEF Emit
<1> HIDE DEF p
<1>4. /\ pending' \in Seq(LogType) /\ Len(pending') = Len(p) + 1 /\ pending'[Len(p) + 1] = k
      /\ \A i \in 1..Len(p) : pending'[i] = p[i]
  BY <1>2, <1>3
<1>5. Shape'
  <2>1. emitted' = emitted + 2 /\ emitted' <= MaxLogs
    BY DEF Emit
  <2> QED
    BY <1>1, <1>2, <1>4, <2>1, BoundAssumption DEF IInv, Shape, Emit
<1>6. Carried'
  <2> SUFFICES ASSUME NEW a \in Assets, NEW c \in Cols
               PROVE  Agree(pending', a, c, Stored(a, c)', Held(a, c)')
    BY DEF Carried, Agree, Writing, Writes, Wrote
  <2>1. Agree(pending, a, c, Stored(a, c), Held(a, c))
    BY DEF IInv, Carried
  <2>2. Agree(p, a, c, Stored(a, c), After(l, a, c, Held(a, c)))
    BY <1>1, <2>1, AgreeAppend DEF After, p
  <2>3. Agree(pending', a, c, Stored(a, c), After(k, a, c, After(l, a, c, Held(a, c))))
    BY <1>2, <1>3, <2>2, AgreeAppend DEF After
  <2>4. Stored(a, c)' = Stored(a, c)
    BY DEF Stored, Emit
  <2> QED
    BY <2>3, <2>4
<1>7. OracleKnown'
  <2> SUFFICES ASSUME NEW a \in Assets, chain'[a].enabled # Null \/ chain'[a].price # Null
               PROVE  rows'[a].oracle = Oracle \/ Stamped(a)'
    BY DEF OracleKnown
  <2>1. Stamped(a) => Stamped(a)'
    BY <1>1, <1>2, <1>4 DEF Stamped
  <2>2. l.asset = a /\ l.event \in Stamping => Stamped(a)'
    BY <1>1, <1>2, <1>4 DEF Stamped
  <2>3. k.asset = a /\ k.event \in Stamping => Stamped(a)'
    BY <1>1, <1>2, <1>4 DEF Stamped
  <2> QED
    BY <2>1, <2>2, <2>3 DEF IInv, OracleKnown, StampsChange, Emit
<1> QED
  BY <1>5, <1>6, <1>7 DEF IInv

-----------------------------------------------------------------------------
(* Consuming a log.                                                        *)

LEMMA MaybeAppended ==
  ASSUME NEW S, NEW s \in Seq(S), NEW t, t = s \/ \E x \in S : t = Append(s, x)
  PROVE  t \in Seq(S) /\ Len(s) \in Nat /\ Len(t) \in Nat /\ Len(t) <= Len(s) + 1
<1>1. CASE t = s
  BY <1>1
<1>2. ASSUME NEW x \in S, t = Append(s, x)
      PROVE  t \in Seq(S) /\ Len(t) = Len(s) + 1
  BY <1>2
<1> QED
  BY <1>1, <1>2

\* A handler that writes what its log carries keeps the invariant.
LEMMA ConsumeKeeps ==
  ASSUME IInv, pending # <<>>, pending' = Tail(pending), UNCHANGED contracts,
         rows' \in [Assets -> RowType],
         \A a \in Assets, c \in Cols :
           Stored(a, c)' = IF Writes(log, a, c) THEN Wrote(log, c) ELSE Stored(a, c),
         \A a \in Assets : IF log.asset = a /\ log.event \in Stamping
                           THEN rows'[a].oracle = Oracle ELSE rows'[a].oracle = rows[a].oracle,
         history' = history \/ \E point \in Point : history' = Append(history, point)
  PROVE  IInv'
<1>1. /\ pending \in Seq(LogType) /\ Len(pending) \in Nat \ {0}
      /\ pending' \in Seq(LogType) /\ Len(pending') = Len(pending) - 1 /\ log = pending[1]
      /\ \A i \in 1..Len(pending') : pending'[i] = pending[i + 1]
  BY DEF IInv, Shape, log
<1>2. Shape'
  <2>1. /\ history' \in Seq(Point) /\ Len(history') <= Len(history) + 1
        /\ Len(history) \in Nat /\ Len(history') \in Nat
    <3>1. history \in Seq(Point)
      BY DEF IInv, Shape
    <3> QED
      BY <3>1, MaybeAppended
  <2> QED
    BY <1>1, <2>1, BoundAssumption DEF IInv, Shape, contracts
<1>3. Carried'
  <2> SUFFICES ASSUME NEW a \in Assets, NEW c \in Cols
               PROVE  Agree(pending', a, c, Stored(a, c)', Held(a, c)')
    BY DEF Carried, Agree, Writing, Writes, Wrote
  <2>1. Agree(pending, a, c, Stored(a, c), Held(a, c))
    BY DEF IInv, Carried
  <2>2. Held(a, c)' = Held(a, c)
    BY DEF Held, contracts
  <2> QED
    BY <1>1, <2>1, <2>2, AgreeTail DEF log
<1>4. OracleKnown'
  <2> SUFFICES ASSUME NEW a \in Assets, chain[a].enabled # Null \/ chain[a].price # Null
               PROVE  rows'[a].oracle = Oracle \/ Stamped(a)'
    BY DEF OracleKnown, contracts
  <2>1. rows[a].oracle = Oracle \/ Stamped(a)
    BY DEF IInv, OracleKnown
  <2>2. CASE log.asset = a /\ log.event \in Stamping
    BY <2>2
  <2>3. CASE ~ (log.asset = a /\ log.event \in Stamping)
    <3>1. rows[a].oracle = Oracle => rows'[a].oracle = Oracle
      BY <2>3
    <3>2. Stamped(a) => Stamped(a)'
      <4>1. SUFFICES ASSUME NEW i \in 1..Len(pending),
                            pending[i].asset = a, pending[i].event \in Stamping
                     PROVE  Stamped(a)'
        BY DEF Stamped
      <4>2. i # 1
        BY <1>1, <2>3, <4>1
      <4>3. i - 1 \in 1..Len(pending') /\ pending'[i - 1] = pending[i]
        BY <1>1, <4>2
      <4> QED
        BY <4>1, <4>3 DEF Stamped
    <3> QED
      BY <2>1, <3>1, <3>2
  <2> QED
    BY <2>2, <2>3
<1> QED
  BY <1>2, <1>3, <1>4 DEF IInv

\* What the log at the head of pending is.
LEMMA NextLog ==
  ASSUME IInv, pending # <<>>
  PROVE  /\ log \in LogType /\ log.asset \in Assets /\ log.event \in Events
         /\ log.block \in 1..MaxBlock /\ log.args \in ArgsOf(log.event)
         /\ log.event \in Stamping => log.addr = Oracle
<1>1. pending \in Seq(LogType)
  BY DEF IInv, Shape
<1>2. log \in LogType
  BY <1>1 DEF log
<1> QED
  BY <1>2 DEF LogType

-----------------------------------------------------------------------------
(* The handlers.                                                           *)

\* The values a log carries are values of its columns.
LEMMA LogValues ==
  ASSUME IInv, pending # <<>>
  PROVE  /\ log.event \in Stamping => log.addr \in Maybe({Oracle})
         /\ log.block \in Maybe(1..MaxBlock)
         /\ log.event = "OracleConfigured" =>
              log.args.enabled \in Maybe(BOOLEAN) /\ log.args.redemptionPrice \in Maybe(Prices)
         /\ log.event \in {"ClearOracleRateChanged", "PriceUpdated"} =>
              log.args.price \in Prices /\ log.args.price \in Maybe(Prices \cup {0})
         /\ log.event = "PriceUpdated" => log.args.publishTime \in Maybe(Stamps)
         /\ log.event = "ClearOracleRedemptionPriceChanged" =>
              log.args.redemptionPrice \in Maybe(Prices)
         /\ log.event = "AssetMaxConfidenceBpsUpdated" =>
              log.args.maxConfidenceBps \in Maybe(Caps)
         /\ 0 \in Maybe(Prices \cup {0}) /\ Null \in Maybe(Stamps)
<1>1. /\ log.event = "OracleConfigured" =>
           log.args \in [enabled : BOOLEAN, redemptionPrice : Prices]
      /\ log.event = "ClearOracleRateChanged" => log.args \in [price : Prices]
      /\ log.event = "ClearOracleRedemptionPriceChanged" =>
           log.args \in [redemptionPrice : Prices]
      /\ log.event = "AssetMaxConfidenceBpsUpdated" => log.args \in [maxConfidenceBps : Caps]
      /\ log.event = "PriceUpdated" => log.args \in [price : Prices, publishTime : Stamps]
  BY NextLog DEF ArgsOf
<1>2. log.block \in 1..MaxBlock /\ (log.event \in Stamping => log.addr = Oracle)
  BY NextLog
<1>3. log.event = "OracleConfigured" => log.args.enabled \in Maybe(BOOLEAN)
  BY <1>1 DEF Maybe
<1> QED
  BY <1>1, <1>2, <1>3 DEF Maybe

\* The step of a handler that upserts `row' for the asset of the log.
UpsertsRow(row) ==
  /\ rows' = [rows EXCEPT ![log.asset] = row]
  /\ \A c \in Cols : row[c] = IF log.event \in Writers(c) THEN Wrote(log, c)
                                                       ELSE rows[log.asset][c]
  /\ IF log.event \in Stamping THEN row.oracle = Oracle
                                ELSE row.oracle = rows[log.asset].oracle

\* What the handlers share: they patch the row of their log's asset.
LEMMA UpsertKeeps ==
  ASSUME IInv, NEW event, NEW row \in RowType, Consume(event, row), UpsertsRow(row),
         history' = history \/ \E point \in Point : history' = Append(history, point)
  PROVE  IInv'
<1>1. /\ pending # <<>> /\ pending' = Tail(pending) /\ UNCHANGED contracts
      /\ rows' = [rows EXCEPT ![log.asset] = row]
  BY DEF Consume
<1>2. log.asset \in Assets /\ rows \in [Assets -> RowType]
  BY <1>1, NextLog DEF IInv, Shape
<1>3. rows' \in [Assets -> RowType]
  BY <1>1, <1>2
<1>4. ASSUME NEW a \in Assets, NEW c \in Cols
      PROVE  Stored(a, c)' = IF Writes(log, a, c) THEN Wrote(log, c) ELSE Stored(a, c)
  <2>1. Stored(a, c) = rows[a][c] /\ Stored(a, c)' = rows'[a][c]
    BY DEF Stored, Cols
  <2>2. rows'[a] = IF a = log.asset THEN row ELSE rows[a]
    BY <1>1, <1>2
  <2> QED
    BY <2>1, <2>2 DEF UpsertsRow, Writes
<1>5. ASSUME NEW a \in Assets
      PROVE  IF log.asset = a /\ log.event \in Stamping
             THEN rows'[a].oracle = Oracle ELSE rows'[a].oracle = rows[a].oracle
  BY <1>1, <1>2 DEF UpsertsRow
<1> QED
  BY <1>1, <1>3, <1>4, <1>5, ConsumeKeeps

LEMMA ConfiguredKeeps ==
  ASSUME IInv, handleOracleConfigured
  PROVE  IInv'
<1> DEFINE old == rows[log.asset]
           row == Refreshed([old EXCEPT !.oracle = log.addr, !.enabled = log.args.enabled,
                                       !.redemption = log.args.redemptionPrice])
<1>1. Consume("OracleConfigured", row) /\ history' = history
  BY DEF handleOracleConfigured, Upserted
<1>2. pending # <<>> /\ log.event = "OracleConfigured"
  BY <1>1 DEF Consume
<1>3. old \in RowType
  BY <1>2, NextLog DEF IInv, Shape
<1> HIDE DEF old
<1>4. row \in RowType
  BY <1>2, <1>3, LogValues DEF RowType, Refreshed, Stamping
<1>5. \A c \in Cols : row[c] = IF log.event \in Writers(c) THEN Wrote(log, c) ELSE old[c]
  BY <1>2, <1>3 DEF RowType, Refreshed, Cols, Writers, Wrote, Priced
<1>6. IF log.event \in Stamping THEN row.oracle = Oracle ELSE row.oracle = old.oracle
  BY <1>2, <1>3, NextLog DEF RowType, Refreshed, Stamping
<1> HIDE DEF row
<1>7. UpsertsRow(row)
  BY <1>1, <1>5, <1>6 DEF UpsertsRow, Consume, old
<1> QED
  BY <1>1, <1>4, <1>7, UpsertKeeps

LEMMA RateKeeps ==
  ASSUME IInv, handleOracleRate
  PROVE  IInv'
<1> DEFINE old == rows[log.asset]
           row == Refreshed([old EXCEPT !.oracle = log.addr, !.price = log.args.price])
<1>1. Consume("ClearOracleRateChanged", row) /\ history' = WithPoint
  BY DEF handleOracleRate, Upserted
<1>2. pending # <<>> /\ log.event = "ClearOracleRateChanged"
  BY <1>1 DEF Consume
<1>3. old \in RowType
  BY <1>2, NextLog DEF IInv, Shape
<1> HIDE DEF old
<1>4. row \in RowType
  BY <1>2, <1>3, LogValues DEF RowType, Refreshed, Stamping
<1>5. \A c \in Cols : row[c] = IF log.event \in Writers(c) THEN Wrote(log, c) ELSE old[c]
  BY <1>2, <1>3 DEF RowType, Refreshed, Cols, Writers, Wrote, Priced
<1>6. IF log.event \in Stamping THEN row.oracle = Oracle ELSE row.oracle = old.oracle
  BY <1>2, <1>3, NextLog DEF RowType, Refreshed, Stamping
<1> HIDE DEF row
<1>7. \E point \in Point : history' = Append(history, point)
  <2>1. log.asset \in Assets /\ log.block \in 1..MaxBlock /\ log.args.price \in Prices
    BY <1>2, NextLog, LogValues
  <2>2. [asset |-> log.asset, block |-> log.block, price |-> log.args.price] \in Point
    BY <2>1 DEF Point
  <2> QED
    BY <1>1, <2>2 DEF WithPoint
<1>8. UpsertsRow(row)
  BY <1>1, <1>5, <1>6 DEF UpsertsRow, Consume, old
<1> QED
  BY <1>1, <1>4, <1>7, <1>8, UpsertKeeps

LEMMA RedemptionKeeps ==
  ASSUME IInv, handleOracleRedemption
  PROVE  IInv'
<1> DEFINE old == rows[log.asset]
           row == Refreshed([old EXCEPT !.redemption = log.args.redemptionPrice])
<1>1. Consume("ClearOracleRedemptionPriceChanged", row) /\ history' = history
  BY DEF handleOracleRedemption, Upserted
<1>2. pending # <<>> /\ log.event = "ClearOracleRedemptionPriceChanged"
  BY <1>1 DEF Consume
<1>3. old \in RowType
  BY <1>2, NextLog DEF IInv, Shape
<1> HIDE DEF old
<1>4. row \in RowType
  BY <1>2, <1>3, LogValues DEF RowType, Refreshed, Stamping
<1>5. \A c \in Cols : row[c] = IF log.event \in Writers(c) THEN Wrote(log, c) ELSE old[c]
  BY <1>2, <1>3 DEF RowType, Refreshed, Cols, Writers, Wrote, Priced
<1>6. IF log.event \in Stamping THEN row.oracle = Oracle ELSE row.oracle = old.oracle
  BY <1>2, <1>3, NextLog DEF RowType, Refreshed, Stamping
<1> HIDE DEF row
<1>7. UpsertsRow(row)
  BY <1>1, <1>5, <1>6 DEF UpsertsRow, Consume, old
<1> QED
  BY <1>1, <1>4, <1>7, UpsertKeeps

LEMMA InvalidatedKeeps ==
  ASSUME IInv, handleOracleInvalidated
  PROVE  IInv'
<1> DEFINE old == rows[log.asset]
           row == Refreshed([old EXCEPT !.oracle = log.addr, !.price = 0, !.publish = Null])
<1>1. Consume("ClearOraclePriceInvalidated", row) /\ history' = history
  BY DEF handleOracleInvalidated, Upserted, Invalidated
<1>2. pending # <<>> /\ log.event = "ClearOraclePriceInvalidated"
  BY <1>1 DEF Consume
<1>3. old \in RowType
  BY <1>2, NextLog DEF IInv, Shape
<1> HIDE DEF old
<1>4. row \in RowType
  BY <1>2, <1>3, LogValues DEF RowType, Refreshed, Stamping
<1>5. \A c \in Cols : row[c] = IF log.event \in Writers(c) THEN Wrote(log, c) ELSE old[c]
  BY <1>2, <1>3 DEF RowType, Refreshed, Cols, Writers, Wrote, Priced
<1>6. IF log.event \in Stamping THEN row.oracle = Oracle ELSE row.oracle = old.oracle
  BY <1>2, <1>3, NextLog DEF RowType, Refreshed, Stamping
<1> HIDE DEF row
<1>7. UpsertsRow(row)
  BY <1>1, <1>5, <1>6 DEF UpsertsRow, Consume, old
<1> QED
  BY <1>1, <1>4, <1>7, UpsertKeeps

LEMMA MaxConfidenceKeeps ==
  ASSUME IInv, handleOracleMaxConfidence
  PROVE  IInv'
<1> DEFINE old == rows[log.asset]
           row == [old EXCEPT !.cap = log.args.maxConfidenceBps,
                             !.block = log.block]
<1>1. Consume("AssetMaxConfidenceBpsUpdated", row) /\ history' = history
  BY DEF handleOracleMaxConfidence, Consume
<1>2. pending # <<>> /\ log.event = "AssetMaxConfidenceBpsUpdated"
  BY <1>1 DEF Consume
<1>3. old \in RowType
  BY <1>2, NextLog DEF IInv, Shape
<1> HIDE DEF old
<1>4. row \in RowType
  BY <1>2, <1>3, LogValues DEF RowType, Stamping
<1>5. \A c \in Cols : row[c] = IF log.event \in Writers(c) THEN Wrote(log, c) ELSE old[c]
  BY <1>2, <1>3 DEF RowType, Cols, Writers, Wrote, Priced
<1>6. IF log.event \in Stamping THEN row.oracle = Oracle ELSE row.oracle = old.oracle
  BY <1>2, <1>3, NextLog DEF RowType, Stamping
<1> HIDE DEF row
<1>7. UpsertsRow(row)
  BY <1>1, <1>5, <1>6 DEF UpsertsRow, Consume, old
<1> QED
  BY <1>1, <1>4, <1>7, UpsertKeeps

LEMMA PublishKeeps ==
  ASSUME IInv, handleOraclePublish
  PROVE  IInv'
<1> DEFINE old == rows[log.asset]
           row == Refreshed([old EXCEPT !.price = log.args.price, !.publish = log.args.publishTime])
<1>1. Consume("PriceUpdated", row) /\ history' = history
  BY DEF handleOraclePublish, Upserted, PublishedColumns
<1>2. pending # <<>> /\ log.event = "PriceUpdated"
  BY <1>1 DEF Consume
<1>3. old \in RowType
  BY <1>2, NextLog DEF IInv, Shape
<1> HIDE DEF old
<1>4. row \in RowType
  BY <1>2, <1>3, LogValues DEF RowType, Refreshed, Stamping
<1>5. \A c \in Cols : row[c] = IF log.event \in Writers(c) THEN Wrote(log, c) ELSE old[c]
  BY <1>2, <1>3 DEF RowType, Refreshed, Cols, Writers, Wrote, Priced
<1>6. IF log.event \in Stamping THEN row.oracle = Oracle ELSE row.oracle = old.oracle
  BY <1>2, <1>3, NextLog DEF RowType, Refreshed, Stamping
<1> HIDE DEF row
<1>7. UpsertsRow(row)
  BY <1>1, <1>5, <1>6 DEF UpsertsRow, Consume, old
<1> QED
  BY <1>1, <1>4, <1>7, UpsertKeeps

-----------------------------------------------------------------------------
(* The contracts.                                                          *)

\* The logs the contracts emit are logs.
LEMMA LogsAreLogs ==
  ASSUME IInv, NEW a \in Assets
  PROVE  /\ \A on \in BOOLEAN, r \in Prices :
              Log("OracleConfigured", Oracle, a, [enabled |-> on, redemptionPrice |-> r]) \in LogType
         /\ \A p \in Prices : Rate(a, p) \in LogType
         /\ \A p \in Prices, t \in Stamps : Published(a, p, t) \in LogType
         /\ \A r \in Prices :
              Log("ClearOracleRedemptionPriceChanged", Oracle, a, [redemptionPrice |-> r]) \in LogType
         /\ Log("ClearOraclePriceInvalidated", Oracle, a, <<>>) \in LogType
         /\ \A k \in Caps :
              Log("AssetMaxConfidenceBpsUpdated", Adapter, a, [maxConfidenceBps |-> k]) \in LogType
<1>1. ASSUME NEW event \in Events, NEW addr \in {Oracle, Adapter}, NEW args \in ArgsOf(event),
             event \in Stamping => addr = Oracle
      PROVE  Log(event, addr, a, args) \in LogType
  <2>1. block \in 1..MaxBlock
    BY DEF IInv, Shape
  <2>2. args \in UNION {ArgsOf(e) : e \in Events}
    OBVIOUS
  <2> HIDE DEF Events
  <2> QED
    BY <1>1, <2>1, <2>2 DEF LogType, Log
<1>2. Events = {"OracleConfigured", "ClearOracleRateChanged", "ClearOraclePriceInvalidated",
                "ClearOracleRedemptionPriceChanged", "PriceUpdated", "AssetMaxConfidenceBpsUpdated"}
  BY DEF Events, Stamping
<1>3. ASSUME NEW on \in BOOLEAN, NEW r \in Prices
      PROVE  Log("OracleConfigured", Oracle, a, [enabled |-> on, redemptionPrice |-> r]) \in LogType
  <2>1. [enabled |-> on, redemptionPrice |-> r] \in ArgsOf("OracleConfigured")
    BY DEF ArgsOf
  <2> QED
    BY <1>1, <1>2, <2>1
<1>4. ASSUME NEW p \in Prices PROVE Rate(a, p) \in LogType
  BY <1>1, <1>2 DEF Rate, ArgsOf
<1>5. ASSUME NEW p \in Prices, NEW t \in Stamps PROVE Published(a, p, t) \in LogType
  BY <1>1, <1>2 DEF Published, ArgsOf, Stamping
<1>6. ASSUME NEW r \in Prices
      PROVE  Log("ClearOracleRedemptionPriceChanged", Oracle, a, [redemptionPrice |-> r]) \in LogType
  BY <1>1, <1>2 DEF ArgsOf
<1>7. Log("ClearOraclePriceInvalidated", Oracle, a, <<>>) \in LogType
  BY <1>1, <1>2 DEF ArgsOf
<1>8. ASSUME NEW k \in Caps
      PROVE  Log("AssetMaxConfidenceBpsUpdated", Adapter, a, [maxConfidenceBps |-> k]) \in LogType
  BY <1>1, <1>2 DEF ArgsOf, Stamping
<1> QED
  BY <1>3, <1>4, <1>5, <1>6, <1>7, <1>8

LEMMA ConfigureKeeps ==
  ASSUME IInv, NEW a \in Assets, NEW on \in BOOLEAN, NEW r \in Prices, Configure(a, on, r)
  PROVE  IInv'
<1> DEFINE l == Log("OracleConfigured", Oracle, a, [enabled |-> on, redemptionPrice |-> r])
<1>1. l \in LogType /\ Emit(<<l>>)
  BY LogsAreLogs DEF Configure
<1>2. l.asset = a /\ l.event = "OracleConfigured" /\ l.args.enabled = on /\ l.args.redemptionPrice = r
  BY DEF Log
<1>3. chain' = [chain EXCEPT ![a].enabled = on, ![a].redemption = r]
  BY DEF Configure
<1>4. chain \in [Assets -> ChainType]
  BY DEF IInv, Shape
<1>5. on \in Maybe(BOOLEAN) /\ r \in Maybe(Prices)
  BY DEF Maybe
<1>6. chain' \in [Assets -> ChainType]
  BY <1>3, <1>4, <1>5 DEF ChainType
<1> HIDE DEF l
<1>7. ASSUME NEW x \in Assets, NEW c \in Cols
      PROVE  Held(x, c)' = After(l, x, c, Held(x, c))
  BY <1>2, <1>3, <1>4 DEF Cols, Held, After, Writes, Wrote, Writers, Priced, ChainType
<1>8. StampsChange(l)
  BY <1>2, <1>3, <1>4 DEF StampsChange, Stamping
<1> QED
  BY <1>1, <1>6, <1>7, <1>8, EmitOne

LEMMA SetPriceKeeps ==
  ASSUME IInv, NEW a \in Assets, NEW p \in Prices, SetPrice(a, p)
  PROVE  IInv'
<1> DEFINE l == Rate(a, p)
<1>1. l \in LogType /\ Emit(<<l>>)
  BY LogsAreLogs DEF SetPrice
<1>2. l.asset = a /\ l.event = "ClearOracleRateChanged" /\ l.args.price = p
  BY DEF Log, Rate
<1>3. chain' = [chain EXCEPT ![a].price = p, ![a].priced = Append(@, p)]
  BY DEF SetPrice
<1>4. chain \in [Assets -> ChainType]
  BY DEF IInv, Shape
<1>5. p \in Maybe(Prices \cup {0}) /\ Append(chain[a].priced, p) \in Seq(Prices)
  BY <1>4 DEF Maybe, ChainType
<1>6. chain' \in [Assets -> ChainType]
  BY <1>3, <1>4, <1>5 DEF ChainType
<1> HIDE DEF l
<1>7. ASSUME NEW x \in Assets, NEW c \in Cols
      PROVE  Held(x, c)' = After(l, x, c, Held(x, c))
  BY <1>2, <1>3, <1>4 DEF Cols, Held, After, Writes, Wrote, Writers, Priced, ChainType
<1>8. StampsChange(l)
  BY <1>2, <1>3, <1>4 DEF StampsChange, Stamping, ChainType
<1> QED
  BY <1>1, <1>6, <1>7, <1>8, EmitOne

LEMMA SetRedemptionKeeps ==
  ASSUME IInv, NEW a \in Assets, NEW r \in Prices, SetRedemption(a, r)
  PROVE  IInv'
<1> DEFINE l == Log("ClearOracleRedemptionPriceChanged", Oracle, a, [redemptionPrice |-> r])
<1>1. l \in LogType /\ Emit(<<l>>)
  BY LogsAreLogs DEF SetRedemption
<1>2. l.asset = a /\ l.event = "ClearOracleRedemptionPriceChanged" /\ l.args.redemptionPrice = r
  BY DEF Log, Rate
<1>3. chain' = [chain EXCEPT ![a].redemption = r]
  BY DEF SetRedemption
<1>4. chain \in [Assets -> ChainType]
  BY DEF IInv, Shape
<1>5. r \in Maybe(Prices)
  BY <1>4 DEF Maybe, ChainType
<1>6. chain' \in [Assets -> ChainType]
  BY <1>3, <1>4, <1>5 DEF ChainType
<1> HIDE DEF l
<1>7. ASSUME NEW x \in Assets, NEW c \in Cols
      PROVE  Held(x, c)' = After(l, x, c, Held(x, c))
  BY <1>2, <1>3, <1>4 DEF Cols, Held, After, Writes, Wrote, Writers, Priced, ChainType
<1>8. StampsChange(l)
  BY <1>2, <1>3, <1>4 DEF StampsChange, Stamping, ChainType
<1> QED
  BY <1>1, <1>6, <1>7, <1>8, EmitOne

LEMMA InvalidatePriceKeeps ==
  ASSUME IInv, NEW a \in Assets, InvalidatePrice(a)
  PROVE  IInv'
<1> DEFINE l == Log("ClearOraclePriceInvalidated", Oracle, a, <<>>)
<1>1. l \in LogType /\ Emit(<<l>>)
  BY LogsAreLogs DEF InvalidatePrice
<1>2. l.asset = a /\ l.event = "ClearOraclePriceInvalidated"
  BY DEF Log, Rate
<1>3. chain' = [chain EXCEPT ![a].price = 0, ![a].stamp = Null, ![a].pushed = Null]
  BY DEF InvalidatePrice
<1>4. chain \in [Assets -> ChainType]
  BY DEF IInv, Shape
<1>5. 0 \in Maybe(Prices \cup {0}) /\ Null \in Maybe(Stamps) /\ Null \in Maybe(Prices)
  BY <1>4 DEF Maybe, ChainType
<1>6. chain' \in [Assets -> ChainType]
  BY <1>3, <1>4, <1>5 DEF ChainType
<1> HIDE DEF l
<1>7. ASSUME NEW x \in Assets, NEW c \in Cols
      PROVE  Held(x, c)' = After(l, x, c, Held(x, c))
  BY <1>2, <1>3, <1>4 DEF Cols, Held, After, Writes, Wrote, Writers, Priced, ChainType
<1>8. StampsChange(l)
  BY <1>2, <1>3, <1>4 DEF StampsChange, Stamping, ChainType
<1> QED
  BY <1>1, <1>6, <1>7, <1>8, EmitOne

LEMMA SetMaxConfidenceKeeps ==
  ASSUME IInv, NEW a \in Assets, NEW k \in Caps, SetMaxConfidence(a, k)
  PROVE  IInv'
<1> DEFINE l == Log("AssetMaxConfidenceBpsUpdated", Adapter, a, [maxConfidenceBps |-> k])
<1>1. l \in LogType /\ Emit(<<l>>)
  BY LogsAreLogs DEF SetMaxConfidence
<1>2. l.asset = a /\ l.event = "AssetMaxConfidenceBpsUpdated" /\ l.args.maxConfidenceBps = k
  BY DEF Log, Rate
<1>3. chain' = [chain EXCEPT ![a].cap = k]
  BY DEF SetMaxConfidence
<1>4. chain \in [Assets -> ChainType]
  BY DEF IInv, Shape
<1>5. k \in Maybe(Caps)
  BY <1>4 DEF Maybe, ChainType
<1>6. chain' \in [Assets -> ChainType]
  BY <1>3, <1>4, <1>5 DEF ChainType
<1> HIDE DEF l
<1>7. ASSUME NEW x \in Assets, NEW c \in Cols
      PROVE  Held(x, c)' = After(l, x, c, Held(x, c))
  BY <1>2, <1>3, <1>4 DEF Cols, Held, After, Writes, Wrote, Writers, Priced, ChainType
<1>8. StampsChange(l)
  BY <1>2, <1>3, <1>4 DEF StampsChange, Stamping, ChainType
<1> QED
  BY <1>1, <1>6, <1>7, <1>8, EmitOne

LEMMA PushPriceKeeps ==
  ASSUME IInv, NEW a \in Assets, NEW p \in Prices, NEW t \in Stamps, PushPrice(a, p, t)
  PROVE  IInv'
<1> DEFINE l == Rate(a, p)
           k == Published(a, p, t)
<1>1. l \in LogType /\ k \in LogType /\ (Emit(<<l, k>>) \/ Emit(<<k, l>>))
  BY LogsAreLogs DEF PushPrice
<1>2. /\ l.asset = a /\ l.event = "ClearOracleRateChanged" /\ l.args.price = p
      /\ k.asset = a /\ k.event = "PriceUpdated" /\ k.args.price = p /\ k.args.publishTime = t
  BY DEF Log, Rate, Published
<1>3. chain' = [chain EXCEPT ![a].price = p, ![a].priced = Append(@, p),
                             ![a].stamp = t, ![a].pushed = p]
  BY DEF PushPrice
<1>4. chain \in [Assets -> ChainType]
  BY DEF IInv, Shape
<1>5. /\ p \in Maybe(Prices \cup {0}) /\ Append(chain[a].priced, p) \in Seq(Prices)
      /\ t \in Maybe(Stamps) /\ p \in Maybe(Prices)
  BY <1>4 DEF Maybe, ChainType
<1>6. chain' \in [Assets -> ChainType]
  BY <1>3, <1>4, <1>5 DEF ChainType
<1> HIDE DEF l, k
<1>7. ASSUME NEW x \in Assets, NEW c \in Cols
      PROVE  /\ Held(x, c)' = After(k, x, c, After(l, x, c, Held(x, c)))
             /\ Held(x, c)' = After(l, x, c, After(k, x, c, Held(x, c)))
  BY <1>2, <1>3, <1>4 DEF Cols, Held, After, Writes, Wrote, Writers, Priced, ChainType
<1>8. StampsChange(l)
  BY <1>2, <1>3, <1>4 DEF StampsChange, Stamping, ChainType
<1> QED
  BY <1>1, <1>6, <1>7, <1>8, EmitTwo

LEMMA StutterKeeps ==
  ASSUME IInv, UNCHANGED <<chain, emitted, pending, rows, history>>, block' \in 1..MaxBlock
  PROVE  IInv'
<1>1. Carried'
  <2> SUFFICES ASSUME NEW a \in Assets, NEW c \in Cols
               PROVE  Agree(pending', a, c, Stored(a, c)', Held(a, c)')
    BY DEF Carried, Agree, Writing, Writes, Wrote
  <2>1. Agree(pending, a, c, Stored(a, c), Held(a, c))
    BY DEF IInv, Carried
  <2>2. Stored(a, c)' = Stored(a, c) /\ Held(a, c)' = Held(a, c)
    BY DEF Stored, Held
  <2> QED
    BY <2>1, <2>2
<1>2. OracleKnown'
  BY DEF IInv, OracleKnown, Stamped
<1>3. Shape'
  BY DEF IInv, Shape
<1> QED
  BY <1>1, <1>2, <1>3 DEF IInv

-----------------------------------------------------------------------------
(* The invariant.                                                          *)

LEMMA InitIInv == Init => IInv
<1> SUFFICES ASSUME Init PROVE IInv
  OBVIOUS
<1>1. pending = <<>> /\ history = <<>> /\ emitted = 0 /\ block = 1
  BY DEF Init
<1>2. \A a \in Assets : chain[a] = NewAsset /\ rows[a] = NoRow
  BY DEF Init
<1>3. \A S : Null \in Maybe(S)
  BY DEF Maybe
<1>4. NewAsset \in ChainType /\ NoRow \in RowType
  BY <1>3 DEF NewAsset, NoRow, ChainType, RowType
<1>5. Shape
  BY <1>1, <1>4, BoundAssumption DEF Init, Shape
<1>6. Carried
  <2> SUFFICES ASSUME NEW a \in Assets, NEW c \in Cols
               PROVE  Agree(pending, a, c, Stored(a, c), Held(a, c))
    BY DEF Carried
  <2>1. Writing(pending, a, c) = {}
    BY <1>1 DEF Writing
  <2>2. Stored(a, c) = Held(a, c)
    BY <1>2 DEF Stored, Held, NewAsset, NoRow, Cols
  <2> QED
    BY <2>1, <2>2 DEF Agree
<1>7. OracleKnown
  BY <1>2 DEF OracleKnown, NewAsset
<1> QED
  BY <1>5, <1>6, <1>7 DEF IInv

LEMMA NextIInv == IInv /\ [Next]_vars => IInv'
<1> SUFFICES ASSUME IInv, [Next]_vars PROVE IInv'
  OBVIOUS
<1>1. CASE ContractCall
  <2> PICK a \in Assets :
        \/ \E on \in BOOLEAN, r \in Prices : Configure(a, on, r)
        \/ \E p \in Prices : SetPrice(a, p) \/ SetRedemption(a, p)
        \/ \E p \in Prices, t \in Stamps : PushPrice(a, p, t)
        \/ InvalidatePrice(a)
        \/ \E k \in Caps : SetMaxConfidence(a, k)
    BY <1>1 DEF ContractCall
  <2>1. CASE \E on \in BOOLEAN, r \in Prices : Configure(a, on, r)
    BY <2>1, ConfigureKeeps
  <2>2. CASE \E p \in Prices : SetPrice(a, p) \/ SetRedemption(a, p)
    BY <2>2, SetPriceKeeps, SetRedemptionKeeps
  <2>3. CASE \E p \in Prices, t \in Stamps : PushPrice(a, p, t)
    BY <2>3, PushPriceKeeps
  <2>4. CASE InvalidatePrice(a)
    BY <2>4, InvalidatePriceKeeps
  <2>5. CASE \E k \in Caps : SetMaxConfidence(a, k)
    BY <2>5, SetMaxConfidenceKeeps
  <2> QED
    BY <2>1, <2>2, <2>3, <2>4, <2>5
<1>2. CASE NextBlock
  <2>1. block' \in 1..MaxBlock
    BY <1>2, BoundAssumption DEF NextBlock, IInv, Shape
  <2> QED
    BY <1>2, <2>1, StutterKeeps DEF NextBlock
<1>3. CASE dispatchOracle
  BY <1>3, ConfiguredKeeps, RateKeeps, RedemptionKeeps, InvalidatedKeeps, MaxConfidenceKeeps,
     PublishKeeps DEF dispatchOracle
<1>4. CASE UNCHANGED vars
  <2>1. block' \in 1..MaxBlock
    BY <1>4 DEF vars, contracts, IInv, Shape
  <2> QED
    BY <1>4, <2>1, StutterKeeps DEF vars, contracts
<1> QED
  BY <1>1, <1>2, <1>3, <1>4 DEF Next

LEMMA IInvHolds == Spec => []IInv
  BY InitIInv, NextIInv, PTL DEF Spec

\* The rows and the history keep their types whatever the contracts are asked
\* to do and however far behind the exporter is.
THEOREM TypeHolds == Spec => []TypeOK
<1>1. IInv => TypeOK
  <2> SUFFICES ASSUME IInv PROVE TypeOK
    OBVIOUS
  <2>1. rows \in [Assets -> RowType]
    BY DEF IInv, Shape
  <2>2. ASSUME NEW a \in Assets
        PROVE  /\ rows[a].oracle \in {Null, Oracle}
               /\ rows[a].price \in Prices \cup {0, Null}
               /\ rows[a].redemption \in Prices \cup {Null}
               /\ rows[a].publish \in Stamps \cup {Null}
               /\ rows[a].cap \in Caps \cup {Null}
               /\ {rows[a].refresh, rows[a].block} \subseteq 1..MaxBlock \cup {Null}
    BY <2>1 DEF RowType, Maybe
  <2>3. ASSUME NEW a \in Assets
        PROVE  rows[a].enabled \in BOOLEAN \cup {Null}
    <3>1. rows[a].enabled \in Maybe(BOOLEAN)
      BY <2>1 DEF RowType
    <3> QED
      BY <3>1 DEF Maybe
  <2>4. Len(history) <= emitted
    <3>1. Len(history) \in Nat /\ Len(pending) \in Nat
      BY DEF IInv, Shape
    <3> QED
      BY <3>1 DEF IInv, Shape
  <2> QED
    BY <2>2, <2>3, <2>4 DEF TypeOK, IInv, Shape
<1> QED
  BY <1>1, IInvHolds, PTL

\* Whatever the calls and their interleaving, once the logs are consumed every
\* column of every row is what the two contracts hold (handlers.go:768-769).
THEOREM FoldHolds == Spec => []FoldIsCurrent
<1>1. IInv => FoldIsCurrent
  <2> SUFFICES ASSUME IInv, pending = <<>>, NEW a \in Assets
               PROVE  /\ rows[a].price = chain[a].price
                      /\ rows[a].redemption = chain[a].redemption
                      /\ rows[a].enabled = chain[a].enabled
                      /\ rows[a].publish = chain[a].stamp
                      /\ rows[a].cap = chain[a].cap
                      /\ chain[a].enabled # Null \/ chain[a].price # Null => rows[a].oracle = Oracle
    BY DEF FoldIsCurrent
  <2>1. \A c \in Cols : Stored(a, c) = Held(a, c)
    <3>1. \A c \in Cols : Writing(pending, a, c) = {}
      BY DEF Writing
    <3> QED
      BY <3>1 DEF IInv, Carried, Agree
  <2>2. ~ Stamped(a)
    BY DEF Stamped
  <2> QED
    BY <2>1, <2>2 DEF Cols, Stored, Held, IInv, OracleKnown
<1> QED
  BY <1>1, IInvHolds, PTL

-----------------------------------------------------------------------------
(* The price history.  The points written and the prices still pending form  *)
(* one queue; its places that are about an asset number the asset's prices.  *)

\* The places I of 1..n, in order, hold the members of q: T counts them.
Counts(I, V, n, q, T) ==
  /\ T \in [0..n -> Nat] /\ T[0] = 0 /\ T[n] = Len(q)
  /\ \A i \in 1..n : IF i \in I THEN T[i] = T[i - 1] + 1 /\ q[T[i]] = V[i] ELSE T[i] = T[i - 1]

Lists(I, V, n, q) == \E T : Counts(I, V, n, q, T)

\* A count never falls.
LEMMA CountsGrow ==
  ASSUME NEW I, NEW V, NEW n \in Nat, NEW q, NEW T, Counts(I, V, n, q, T)
  PROVE  \A i \in 0..n : T[i] <= T[n]
<1> DEFINE S == {k \in Nat : k <= n => T[n - k] <= T[n]}
<1>1. T \in [0..n -> Nat]
  BY DEF Counts
<1>2. 0 \in S
  <2>1. n - 0 = n /\ T[n] \in Nat
    BY <1>1
  <2> QED
    BY <2>1
<1>3. ASSUME NEW k \in Nat, k \in S PROVE k + 1 \in S
  <2> SUFFICES ASSUME k + 1 <= n PROVE T[n - (k + 1)] <= T[n]
    OBVIOUS
  <2>1. PICK i \in 1..n : i = n - k /\ i - 1 = n - (k + 1) /\ T[i] <= T[n]
    <3>1. n - k \in 1..n /\ (n - k) - 1 = n - (k + 1)
      OBVIOUS
    <3> QED
      BY <1>3, <3>1
  <2>2. T[i] = T[i - 1] + 1 \/ T[i] = T[i - 1]
    BY DEF Counts
  <2>3. T[i] \in Nat /\ T[i - 1] \in Nat /\ T[n] \in Nat
    BY <1>1
  <2> QED
    BY <2>1, <2>2, <2>3
<1>4. Nat \subseteq S
  <2> HIDE DEF S
  <2> QED
    BY <1>2, <1>3, NatStep
<1>5. ASSUME NEW i \in 0..n PROVE T[i] <= T[n]
  <2>1. PICK k \in Nat : k = n - i /\ n - k = i
    <3>1. n - i \in Nat /\ n - (n - i) = i
      OBVIOUS
    <3> QED
      BY <3>1
  <2>2. k \in S /\ k <= n
    BY <1>4, <2>1
  <2> QED
    BY <2>1, <2>2
<1> QED
  BY <1>5

\* A place more, without a member.
LEMMA ListsPast ==
  ASSUME NEW I, NEW J, NEW V, NEW W, NEW n \in Nat, NEW q, Lists(I, V, n, q),
         n + 1 \notin J, \A i \in 1..n : (i \in J <=> i \in I) /\ W[i] = V[i]
  PROVE  Lists(J, W, n + 1, q)
<1>1. PICK T : Counts(I, V, n, q, T)
  BY DEF Lists
<1>2. /\ T \in [0..n -> Nat] /\ T[0] = 0 /\ T[n] = Len(q)
      /\ \A i \in 1..n : IF i \in I THEN T[i] = T[i - 1] + 1 /\ q[T[i]] = V[i] ELSE T[i] = T[i - 1]
  BY <1>1 DEF Counts
<1>3. PICK U \in [0..n + 1 -> Nat] : (\A i \in 0..n : U[i] = T[i]) /\ U[n + 1] = T[n]
  <2> DEFINE H == [i \in 0..n + 1 |-> IF i <= n THEN T[i] ELSE T[n]]
  <2>1. ASSUME NEW i \in 0..n + 1 PROVE (IF i <= n THEN T[i] ELSE T[n]) \in Nat
    BY <1>2
  <2>2. H \in [0..n + 1 -> Nat]
    BY <2>1
  <2>3. (\A i \in 0..n : H[i] = T[i]) /\ H[n + 1] = T[n]
    OBVIOUS
  <2> HIDE DEF H
  <2> QED
    BY <2>2, <2>3
<1>4. ASSUME NEW i \in 1..n + 1
      PROVE  IF i \in J THEN U[i] = U[i - 1] + 1 /\ q[U[i]] = W[i] ELSE U[i] = U[i - 1]
  <2>1. CASE i = n + 1
    <3>1. i - 1 = n /\ U[n] = T[n]
      BY <1>3, <2>1
    <3> QED
      BY <1>3, <2>1, <3>1
  <2>2. CASE i # n + 1
    <3>1. i \in 1..n /\ i \in 0..n /\ i - 1 \in 0..n
      BY <2>2
    <3> QED
      BY <1>2, <1>3, <3>1
  <2> QED
    BY <2>1, <2>2
<1>5. Counts(J, W, n + 1, q, U)
  <2>1. U[0] = 0 /\ U[n + 1] = Len(q)
    BY <1>2, <1>3
  <2> QED
    BY <1>3, <1>4, <2>1 DEF Counts
<1> QED
  BY <1>5 DEF Lists

\* A place more, with a member at the end.
LEMMA ListsMore ==
  ASSUME NEW I, NEW J, NEW V, NEW W, NEW n \in Nat, NEW S, NEW q \in Seq(S), NEW x \in S,
         Lists(I, V, n, q), n + 1 \in J, W[n + 1] = x,
         \A i \in 1..n : (i \in J <=> i \in I) /\ W[i] = V[i]
  PROVE  Lists(J, W, n + 1, Append(q, x))
<1>1. PICK T : Counts(I, V, n, q, T)
  BY DEF Lists
<1>2. /\ T \in [0..n -> Nat] /\ T[0] = 0 /\ T[n] = Len(q)
      /\ \A i \in 1..n : IF i \in I THEN T[i] = T[i - 1] + 1 /\ q[T[i]] = V[i] ELSE T[i] = T[i - 1]
  BY <1>1 DEF Counts
<1>3. PICK p : p = Append(q, x)
  OBVIOUS
<1>4. Len(p) = Len(q) + 1 /\ p[Len(q) + 1] = x /\ (\A k \in 1..Len(q) : p[k] = q[k]) /\ Len(q) \in Nat
  BY <1>3
<1>5. \A i \in 0..n : T[i] <= Len(q)
  BY <1>1, <1>2, CountsGrow
<1>6. PICK U \in [0..n + 1 -> Nat] : (\A i \in 0..n : U[i] = T[i]) /\ U[n + 1] = T[n] + 1
  <2> DEFINE H == [i \in 0..n + 1 |-> IF i <= n THEN T[i] ELSE T[n] + 1]
  <2>1. ASSUME NEW i \in 0..n + 1 PROVE (IF i <= n THEN T[i] ELSE T[n] + 1) \in Nat
    BY <1>2
  <2>2. H \in [0..n + 1 -> Nat]
    BY <2>1
  <2>3. (\A i \in 0..n : H[i] = T[i]) /\ H[n + 1] = T[n] + 1
    OBVIOUS
  <2> HIDE DEF H
  <2> QED
    BY <2>2, <2>3
<1>7. ASSUME NEW i \in 1..n + 1
      PROVE  IF i \in J THEN U[i] = U[i - 1] + 1 /\ p[U[i]] = W[i] ELSE U[i] = U[i - 1]
  <2>1. CASE i = n + 1
    <3>1. i - 1 = n /\ U[n] = T[n]
      BY <1>6, <2>1
    <3> QED
      BY <1>2, <1>4, <1>6, <2>1, <3>1
  <2>2. CASE i # n + 1
    <3>1. i \in 1..n /\ i \in 0..n /\ i - 1 \in 0..n
      BY <2>2
    <3>2. T[i] \in Nat /\ T[i - 1] \in Nat /\ T[i] <= Len(q)
      BY <1>2, <1>5, <3>1
    <3>3. U[i] = T[i] /\ U[i - 1] = T[i - 1]
      BY <1>6, <3>1
    <3>4. CASE i \in J
      <4>1. T[i] = T[i - 1] + 1 /\ q[T[i]] = W[i]
        BY <1>2, <3>1, <3>4
      <4>2. PICK now \in Nat, old \in Nat : now = T[i] /\ old = T[i - 1]
        BY <3>2
      <4>3. now = old + 1 /\ now <= Len(q)
        BY <3>2, <4>1, <4>2
      <4>4. now \in 1..Len(q)
        BY <1>4, <4>2, <4>3
      <4>5. p[T[i]] = q[T[i]]
        BY <1>4, <4>2, <4>4
      <4> QED
        BY <3>3, <3>4, <4>1, <4>5
    <3>5. CASE i \notin J
      BY <1>2, <3>1, <3>3, <3>5
    <3> QED
      BY <3>4, <3>5
  <2> QED
    BY <2>1, <2>2
<1>8. Counts(J, W, n + 1, p, U)
  <2>1. U[0] = 0 /\ U[n + 1] = Len(p)
    BY <1>2, <1>4, <1>6
  <2> QED
    BY <1>6, <1>7, <2>1 DEF Counts
<1> QED
  BY <1>3, <1>8 DEF Lists

\* A place without a member, taken out.
LEMMA ListsLess ==
  ASSUME NEW I, NEW J, NEW V, NEW W, NEW n \in Nat, NEW m \in 1..n + 1, NEW q,
         Lists(I, V, n + 1, q), m \notin I,
         \A i \in 1..n : IF i < m THEN (i \in J <=> i \in I) /\ W[i] = V[i]
                                  ELSE (i \in J <=> i + 1 \in I) /\ W[i] = V[i + 1]
  PROVE  Lists(J, W, n, q)
<1>1. PICK T : Counts(I, V, n + 1, q, T)
  BY DEF Lists
<1>2. /\ T \in [0..n + 1 -> Nat] /\ T[0] = 0 /\ T[n + 1] = Len(q)
      /\ \A i \in 1..n + 1 :
           IF i \in I THEN T[i] = T[i - 1] + 1 /\ q[T[i]] = V[i] ELSE T[i] = T[i - 1]
  BY <1>1 DEF Counts
<1>3. PICK U \in [0..n -> Nat] : \A i \in 0..n : U[i] = IF i < m THEN T[i] ELSE T[i + 1]
  <2> DEFINE H == [i \in 0..n |-> IF i < m THEN T[i] ELSE T[i + 1]]
  <2>1. ASSUME NEW i \in 0..n PROVE (IF i < m THEN T[i] ELSE T[i + 1]) \in Nat
    <3>1. i \in 0..n + 1 /\ i + 1 \in 0..n + 1
      OBVIOUS
    <3> QED
      BY <1>2, <3>1
  <2>2. H \in [0..n -> Nat] /\ \A i \in 0..n : H[i] = IF i < m THEN T[i] ELSE T[i + 1]
    BY <2>1
  <2> HIDE DEF H
  <2> QED
    BY <2>2
<1>4. T[m] = T[m - 1]
  BY <1>2
<1>5. ASSUME NEW i \in 1..n
      PROVE  IF i \in J THEN U[i] = U[i - 1] + 1 /\ q[U[i]] = W[i] ELSE U[i] = U[i - 1]
  <2>1. i \in 0..n /\ i - 1 \in 0..n /\ i \in 1..n + 1 /\ i + 1 \in 1..n + 1
    OBVIOUS
  <2>2. CASE i < m
    <3>1. i - 1 < m
      BY <2>1, <2>2
    <3>2. U[i] = T[i] /\ U[i - 1] = T[i - 1] /\ (i \in J <=> i \in I) /\ W[i] = V[i]
      BY <1>3, <2>1, <2>2, <3>1
    <3> QED
      BY <1>2, <2>1, <3>2
  <2>3. CASE ~ (i < m)
    <3>1. U[i] = T[i + 1] /\ (i \in J <=> i + 1 \in I) /\ W[i] = V[i + 1]
      BY <1>3, <2>1, <2>3
    <3>2. U[i - 1] = T[i]
      <4>1. CASE i = m
        <5>1. i - 1 < m
          BY <4>1
        <5> QED
          BY <1>3, <1>4, <2>1, <4>1, <5>1
      <4>2. CASE i # m
        <5>1. ~ (i - 1 < m) /\ (i - 1) + 1 = i
          BY <2>3, <4>2
        <5> QED
          BY <1>3, <2>1, <5>1
      <4> QED
        BY <4>1, <4>2
    <3>3. IF i + 1 \in I THEN T[i + 1] = T[i] + 1 /\ q[T[i + 1]] = V[i + 1] ELSE T[i + 1] = T[i]
      <4>1. (i + 1) - 1 = i
        OBVIOUS
      <4> QED
        BY <1>2, <2>1, <4>1
    <3> QED
      BY <3>1, <3>2, <3>3
  <2> QED
    BY <2>2, <2>3
<1>6. U[0] = 0 /\ U[n] = Len(q)
  <2>1. U[0] = 0
    BY <1>2, <1>3
  <2>2. U[n] = IF n < m THEN T[n] ELSE T[n + 1]
    BY <1>3
  <2>3. n < m => m = n + 1 /\ m - 1 = n
    OBVIOUS
  <2> QED
    BY <1>2, <1>4, <2>1, <2>2, <2>3
<1>7. Counts(J, W, n, q, U)
  BY <1>3, <1>5, <1>6 DEF Counts
<1> QED
  BY <1>7 DEF Lists

\* The places up to i, which are c.
Upto(I, i) == {j \in I : j <= i}
Number(I, i, c) == IsFiniteSet(Upto(I, i)) /\ Cardinality(Upto(I, i)) = c

\* None before the first, all at the end.
LEMMA UptoEnds ==
  ASSUME NEW n \in Nat, NEW I, I \subseteq 1..n
  PROVE  Number(I, 0, 0) /\ Upto(I, n) = I
<1>1. \A j \in I : j \in Nat /\ 1 <= j /\ j <= n
  <2> SUFFICES ASSUME NEW j \in I PROVE j \in Nat /\ 1 <= j /\ j <= n
    OBVIOUS
  <2>1. j \in 1..n
    OBVIOUS
  <2> QED
    BY <2>1
<1>2. Upto(I, 0) = {}
  <2>1. \A j \in I : ~ (j <= 0)
    BY <1>1
  <2> QED
    BY <2>1 DEF Upto
<1>3. Upto(I, n) = I
  BY <1>1 DEF Upto
<1>4. Number(I, 0, 0)
  BY <1>2, FS_EmptySet DEF Number
<1> QED
  BY <1>3, <1>4

\* One place further.
LEMMA NumberNext ==
  ASSUME NEW n \in Nat, NEW I, I \subseteq 1..n, NEW i \in Nat, NEW k, k = i + 1,
         NEW c \in Nat, Number(I, i, c)
  PROVE  Number(I, k, IF k \in I THEN c + 1 ELSE c)
<1>1. ASSUME NEW j \in I PROVE j <= k <=> j <= i \/ j = k
  <2>1. j \in 1..n
    OBVIOUS
  <2> QED
    BY <2>1
<1>2. ~ (k <= i)
  OBVIOUS
<1>3. \A j : j \in Upto(I, k) <=> j \in Upto(I, i) \/ (j = k /\ k \in I)
  BY <1>1, Zenon DEF Upto
<1>4. k \notin Upto(I, i)
  BY <1>2, Zenon DEF Upto
<1>5. CASE k \in I
  <2>1. Upto(I, k) = Upto(I, i) \cup {k}
    BY <1>3, <1>5
  <2>2. IsFiniteSet(Upto(I, i) \cup {k}) /\ Cardinality(Upto(I, i) \cup {k}) = c + 1
    BY <1>4, FS_AddElement DEF Number
  <2> QED
    BY <1>5, <2>1, <2>2 DEF Number
<1>6. CASE k \notin I
  <2>1. Upto(I, k) = Upto(I, i)
    BY <1>3, <1>6
  <2> QED
    BY <1>6, <2>1 DEF Number
<1> QED
  BY <1>5, <1>6

\* The k-th of the places holds the k-th member, and there are no more members.
InOrder(I, V, q) ==
  Cardinality(I) = Len(q) /\ \A i \in I : V[i] = q[Cardinality(Upto(I, i))]

\* A list filled to the last position is the whole list.
LEMMA ListsAll ==
  ASSUME NEW n \in Nat, NEW I, I \subseteq 1..n, NEW V, NEW q, Lists(I, V, n, q)
  PROVE  InOrder(I, V, q)
<1>1. PICK T : Counts(I, V, n, q, T)
  BY DEF Lists
<1>2. /\ T \in [0..n -> Nat] /\ T[0] = 0 /\ T[n] = Len(q)
      /\ \A i \in 1..n : IF i \in I THEN T[i] = T[i - 1] + 1 /\ q[T[i]] = V[i] ELSE T[i] = T[i - 1]
  BY <1>1 DEF Counts
<1> DEFINE S == {i \in Nat : i <= n => Number(I, i, T[i])}
<1>3. 0 \in S
  BY <1>2, UptoEnds
<1>4. ASSUME NEW i \in Nat, i \in S PROVE i + 1 \in S
  <2> SUFFICES ASSUME i + 1 <= n PROVE Number(I, i + 1, T[i + 1])
    OBVIOUS
  <2>1. PICK k : k = i + 1 /\ k - 1 = i /\ k \in 1..n
    OBVIOUS
  <2>2. PICK c \in Nat : c = T[i] /\ Number(I, i, c)
    BY <1>2, <1>4
  <2>3. Number(I, k, IF k \in I THEN c + 1 ELSE c)
    BY <2>1, <2>2, NumberNext
  <2>4. IF k \in I THEN T[k] = T[k - 1] + 1 ELSE T[k] = T[k - 1]
    BY <1>2, <2>1
  <2>5. T[k] = IF k \in I THEN c + 1 ELSE c
    BY <2>1, <2>2, <2>4
  <2> QED
    BY <2>1, <2>3, <2>5
<1>5. Nat \subseteq S
  <2> HIDE DEF S
  <2> QED
    BY <1>3, <1>4, NatStep
<1>6. \A i \in 0..n : Cardinality(Upto(I, i)) = T[i]
  BY <1>5 DEF Number
<1>7. Cardinality(I) = Len(q)
  <2>1. Upto(I, n) = I
    BY UptoEnds
  <2>2. Cardinality(Upto(I, n)) = T[n]
    BY <1>6
  <2> QED
    BY <1>2, <2>1, <2>2
<1>8. ASSUME NEW i \in I PROVE V[i] = q[Cardinality(Upto(I, i))]
  <2>1. i \in 1..n /\ i \in 0..n
    OBVIOUS
  <2> QED
    BY <1>2, <1>6, <2>1
<1> QED
  BY <1>7, <1>8 DEF InOrder

\* The log writes a price of a.
IsPrice(l, a) == l.event = "ClearOracleRateChanged" /\ l.asset = a

\* The places about a in the points h followed by the logs p, and what is there.
Places(h, p, a) ==
  {i \in 1..Len(h) + Len(p) : IF i <= Len(h) THEN h[i].asset = a ELSE IsPrice(p[i - Len(h)], a)}
Values(h, p) ==
  [i \in 1..Len(h) + Len(p) |-> IF i <= Len(h) THEN h[i].price ELSE p[i - Len(h)].args.price]

\* Once p is consumed, h is going to tell of a the prices q.
Tells(h, p, a, q) == Lists(Places(h, p, a), Values(h, p), Len(h) + Len(p), q)

Told == \A a \in Assets : Tells(history, pending, a, chain[a].priced)

\* The places, one by one: m points, then k logs.
Reads(I, V, h, m, p, k, a) ==
  /\ I \subseteq 1..m + k
  /\ \A i \in 1..m : (i \in I <=> h[i].asset = a) /\ V[i] = h[i].price
  /\ \A i \in 1..k : (m + i \in I <=> IsPrice(p[i], a)) /\ V[m + i] = p[i].args.price

\* What the history and the queue have at a position.
LEMMA At ==
  ASSUME NEW h, NEW p, NEW m \in Nat, NEW k \in Nat, m = Len(h), k = Len(p), NEW a
  PROVE  Reads(Places(h, p, a), Values(h, p), h, m, p, k, a)
<1>1. Places(h, p, a) \subseteq 1..m + k
  BY DEF Places
<1>2. ASSUME NEW i \in 1..m
      PROVE  /\ i \in Places(h, p, a) <=> h[i].asset = a
             /\ Values(h, p)[i] = h[i].price
  <2>1. i \in 1..m + k /\ i <= m
    OBVIOUS
  <2> QED
    BY <2>1 DEF Places, Values
<1>3. ASSUME NEW i \in 1..k
      PROVE  /\ m + i \in Places(h, p, a) <=> IsPrice(p[i], a)
             /\ Values(h, p)[m + i] = p[i].args.price
  <2>1. PICK j \in 1..m + k : j = m + i /\ ~ (j <= m) /\ j - m = i
    <3>1. m + i \in 1..m + k /\ ~ (m + i <= m) /\ (m + i) - m = i
      OBVIOUS
    <3> QED
      BY <3>1
  <2> QED
    BY <2>1 DEF Places, Values
<1> QED
  BY <1>1, <1>2, <1>3 DEF Reads

\* A log emitted tells of one more price, if it is one.
LEMMA TellsMore ==
  ASSUME NEW h \in Seq(Point), NEW p \in Seq(LogType), NEW l \in LogType, NEW a,
         NEW q \in Seq(Prices), Tells(h, p, a, q)
  PROVE  Tells(h, Append(p, l), a, IF IsPrice(l, a) THEN Append(q, l.args.price) ELSE q)
<1>0. PICK m \in Nat, k \in Nat : m = Len(h) /\ k = Len(p)
  OBVIOUS
<1>1. PICK r :
        /\ r = Append(p, l) /\ m = Len(h) /\ k = Len(p) /\ Len(r) = k + 1 /\ r[k + 1] = l
        /\ \A i \in 1..k : r[i] = p[i]
  <2>1. /\ Len(h) \in Nat /\ Len(p) \in Nat /\ Len(Append(p, l)) = Len(p) + 1
        /\ Append(p, l)[Len(p) + 1] = l /\ \A i \in 1..Len(p) : Append(p, l)[i] = p[i]
    OBVIOUS
  <2> QED
    BY <1>0, <2>1
<1>2. PICK n \in Nat : n = m + k /\ n + 1 = m + (k + 1)
  OBVIOUS
<1>3. PICK I, J, V, W : /\ I = Places(h, p, a) /\ J = Places(h, r, a)
                        /\ V = Values(h, p) /\ W = Values(h, r)
  OBVIOUS
<1>4. Reads(I, V, h, m, p, k, a)
  BY <1>1, <1>3, At
<1>5. PICK j \in Nat : j = k + 1 /\ j = Len(r)
  BY <1>1
<1>6. Reads(J, W, h, m, r, j, a)
  BY <1>1, <1>3, <1>5, At
<1>7. ASSUME NEW i \in 1..n PROVE (i \in J <=> i \in I) /\ W[i] = V[i]
  <2>1. CASE i <= m
    <3>1. i \in 1..m
      BY <2>1
    <3> QED
      BY <1>4, <1>6, <3>1 DEF Reads
  <2>2. CASE ~ (i <= m)
    <3>1. PICK b \in 1..k : i = m + b /\ b \in 1..j
      <4>1. i - m \in 1..k /\ i = m + (i - m) /\ i - m \in 1..j
        BY <1>2, <1>5, <2>2
      <4> QED
        BY <4>1
    <3>2. r[b] = p[b]
      BY <1>1
    <3> QED
      BY <1>4, <1>6, <3>1, <3>2 DEF Reads
  <2> QED
    BY <2>1, <2>2
<1>8. (n + 1 \in J <=> IsPrice(l, a)) /\ W[n + 1] = l.args.price
  <2>1. j \in 1..j /\ n + 1 = m + j /\ r[j] = l
    BY <1>1, <1>2, <1>5
  <2> QED
    BY <1>6, <2>1 DEF Reads
<1>9. Lists(I, V, n, q)
  BY <1>1, <1>2, <1>3 DEF Tells
<1>10. CASE IsPrice(l, a)
  <2>1. PICK x \in Prices : x = l.args.price
    BY <1>10 DEF LogType, ArgsOf, IsPrice
  <2>2. Lists(J, W, n + 1, Append(q, x))
    BY <1>7, <1>8, <1>9, <1>10, <2>1, ListsMore
  <2> QED
    BY <1>1, <1>2, <1>3, <1>10, <2>1, <2>2 DEF Tells
<1>11. CASE ~ IsPrice(l, a)
  <2>1. Lists(J, W, n + 1, q)
    BY <1>7, <1>8, <1>9, <1>11, ListsPast
  <2> QED
    BY <1>1, <1>2, <1>3, <1>11, <2>1 DEF Tells
<1> QED
  BY <1>10, <1>11

\* A log that writes no price changes nothing when it is consumed.
LEMMA TellsRest ==
  ASSUME NEW h \in Seq(Point), NEW p \in Seq(LogType), p # <<>>, NEW a, NEW q, Tells(h, p, a, q),
         ~ IsPrice(Head(p), a)
  PROVE  Tells(h, Tail(p), a, q)
<1>0. PICK m \in Nat, k \in Nat : m = Len(h) /\ k = Len(Tail(p))
  OBVIOUS
<1>1. PICK r :
        /\ r = Tail(p) /\ m = Len(h) /\ k = Len(r) /\ Len(p) = k + 1 /\ p[1] = Head(p)
        /\ \A i \in 1..k : r[i] = p[i + 1]
  <2>1. /\ Len(h) \in Nat /\ Len(Tail(p)) \in Nat /\ Len(p) = Len(Tail(p)) + 1 /\ p[1] = Head(p)
        /\ \A i \in 1..Len(Tail(p)) : Tail(p)[i] = p[i + 1]
    OBVIOUS
  <2> QED
    BY <1>0, <2>1
<1>2. PICK n \in Nat : n = m + k /\ n + 1 = m + (k + 1)
  OBVIOUS
<1>3. PICK I, J, V, W : /\ I = Places(h, p, a) /\ J = Places(h, r, a)
                        /\ V = Values(h, p) /\ W = Values(h, r)
  OBVIOUS
<1>4. PICK j \in Nat : j = k + 1 /\ j = Len(p)
  BY <1>1
<1>5. Reads(I, V, h, m, p, j, a)
  BY <1>1, <1>3, <1>4, At
<1>6. Reads(J, W, h, m, r, k, a)
  BY <1>1, <1>3, At
<1>7. m + 1 \in 1..n + 1 /\ m + 1 \notin I
  <2>1. 1 \in 1..j
    BY <1>4
  <2> QED
    BY <1>1, <1>2, <1>5, <2>1 DEF Reads
<1>8. ASSUME NEW i \in 1..n
      PROVE  IF i < m + 1 THEN (i \in J <=> i \in I) /\ W[i] = V[i]
                          ELSE (i \in J <=> i + 1 \in I) /\ W[i] = V[i + 1]
  <2>1. CASE i < m + 1
    <3>1. i \in 1..m
      BY <2>1
    <3> QED
      BY <1>5, <1>6, <2>1, <3>1 DEF Reads
  <2>2. CASE ~ (i < m + 1)
    <3>1. PICK b \in 1..k : i = m + b /\ b + 1 \in 1..j /\ i + 1 = m + (b + 1)
      <4>1. i - m \in 1..k /\ i = m + (i - m) /\ (i - m) + 1 \in 1..j /\ i + 1 = m + ((i - m) + 1)
        BY <1>2, <1>4, <2>2
      <4> QED
        BY <4>1
    <3>2. r[b] = p[b + 1]
      BY <1>1
    <3> QED
      BY <1>5, <1>6, <2>2, <3>1, <3>2 DEF Reads
  <2> QED
    BY <2>1, <2>2
<1>9. Lists(I, V, n + 1, q)
  BY <1>1, <1>2, <1>3 DEF Tells
<1>10. Lists(J, W, n, q)
  <2>1. PICK b \in 1..n + 1 : b = m + 1
    BY <1>7
  <2> QED
    BY <1>7, <1>8, <1>9, <2>1, ListsLess
<1> QED
  BY <1>1, <1>2, <1>3, <1>10 DEF Tells

\* A price consumed is a point more at the place of its log.
LEMMA TellsPoint ==
  ASSUME NEW h \in Seq(Point), NEW p \in Seq(LogType), p # <<>>, NEW a, NEW q, Tells(h, p, a, q),
         NEW point \in Point, Head(p).event = "ClearOracleRateChanged",
         point.asset = Head(p).asset, point.price = Head(p).args.price
  PROVE  Tells(Append(h, point), Tail(p), a, q)
<1>0. PICK m \in Nat, k \in Nat : m = Len(h) /\ k = Len(Tail(p))
  OBVIOUS
<1>1. PICK r, g :
        /\ r = Tail(p) /\ m = Len(h) /\ k = Len(r) /\ Len(p) = k + 1 /\ p[1] = Head(p)
        /\ \A i \in 1..k : r[i] = p[i + 1]
        /\ g = Append(h, point) /\ Len(g) = m + 1 /\ g[m + 1] = point
        /\ \A i \in 1..m : g[i] = h[i]
  <2>1. /\ Len(h) \in Nat /\ Len(Tail(p)) \in Nat /\ Len(p) = Len(Tail(p)) + 1 /\ p[1] = Head(p)
        /\ \A i \in 1..Len(Tail(p)) : Tail(p)[i] = p[i + 1]
    OBVIOUS
  <2>2. /\ Len(Append(h, point)) = Len(h) + 1 /\ Append(h, point)[Len(h) + 1] = point
        /\ \A i \in 1..Len(h) : Append(h, point)[i] = h[i]
    OBVIOUS
  <2> QED
    BY <1>0, <2>1, <2>2
<1>2. PICK n \in Nat : n = m + (k + 1) /\ n = (m + 1) + k
  <2>1. m + (k + 1) \in Nat /\ m + (k + 1) = (m + 1) + k
    OBVIOUS
  <2> QED
    BY <2>1
<1>3. PICK I, J, V, W : /\ I = Places(h, p, a) /\ J = Places(g, r, a)
                        /\ V = Values(h, p) /\ W = Values(g, r)
  OBVIOUS
<1>4. PICK j \in Nat, b \in Nat : j = k + 1 /\ j = Len(p) /\ b = m + 1 /\ b = Len(g)
  <2>1. k + 1 \in Nat /\ m + 1 \in Nat
    OBVIOUS
  <2> QED
    BY <1>1, <2>1
<1>5. Reads(I, V, h, m, p, j, a)
  BY <1>1, <1>3, <1>4, At
<1>6. Reads(J, W, g, b, r, k, a)
  BY <1>1, <1>3, <1>4, At
<1>7. ASSUME NEW i \in 1..n PROVE (i \in J <=> i \in I) /\ W[i] = V[i]
  <2>1. CASE i <= m
    <3>1. i \in 1..m /\ i \in 1..b
      BY <1>4, <2>1
    <3> QED
      BY <1>1, <1>5, <1>6, <3>1 DEF Reads
  <2>2. CASE i = m + 1
    <3>1. i \in 1..b /\ 1 \in 1..j /\ g[i] = point
      BY <1>1, <1>4, <2>2
    <3>2. (i \in I <=> IsPrice(p[1], a)) /\ V[i] = p[1].args.price
      BY <1>5, <2>2, <3>1 DEF Reads
    <3>3. (i \in J <=> point.asset = a) /\ W[i] = point.price
      BY <1>6, <3>1 DEF Reads
    <3>4. /\ IsPrice(p[1], a) <=> point.asset = a
          /\ p[1].args.price = point.price
      BY <1>1 DEF IsPrice
    <3> QED
      BY <3>2, <3>3, <3>4
  <2>3. CASE i > m + 1
    <3>1. PICK c \in 1..k : i = b + c /\ c + 1 \in 1..j /\ i = m + (c + 1)
      <4>1. i - b \in 1..k /\ i = b + (i - b) /\ (i - b) + 1 \in 1..j /\ i = m + ((i - b) + 1)
        BY <1>2, <1>4, <2>3
      <4> QED
        BY <4>1
    <3>2. r[c] = p[c + 1]
      BY <1>1
    <3> QED
      BY <1>5, <1>6, <3>1, <3>2 DEF Reads
  <2> QED
    BY <2>1, <2>2, <2>3
<1>8. Lists(I, V, n, q)
  BY <1>1, <1>2, <1>3 DEF Tells
<1>9. Lists(J, W, n, q)
  BY <1>7, <1>8 DEF Lists, Counts
<1> QED
  BY <1>1, <1>2, <1>3, <1>9 DEF Tells

\* With nothing pending, the history tells all.
LEMMA TellsAll ==
  ASSUME NEW a \in Assets, history \in Seq(Point), Tells(history, <<>>, a, chain[a].priced)
  PROVE  LET points == PointsOf(a, Len(history))
         IN /\ Cardinality(points) = Len(chain[a].priced)
            /\ \A i \in points : history[i].price = chain[a].priced[Cardinality(PointsOf(a, i))]
<1>1. PICK n \in Nat : n = Len(history) /\ n + 0 = n
  OBVIOUS
<1>2. PICK I, V, q : /\ I = Places(history, <<>>, a) /\ V = Values(history, <<>>)
                     /\ q = chain[a].priced
  OBVIOUS
<1>3. /\ I \subseteq 1..n
      /\ \A i \in 1..n : (i \in I <=> history[i].asset = a) /\ V[i] = history[i].price
  <2>1. Len(<<>>) = 0
    OBVIOUS
  <2>2. PICK k \in Nat : k = 0
    OBVIOUS
  <2>3. Reads(I, V, history, n, <<>>, k, a)
    BY <1>1, <1>2, <2>1, <2>2, At
  <2> QED
    BY <1>1, <2>2, <2>3 DEF Reads
<1>4. Lists(I, V, n, q)
  BY <1>1, <1>2 DEF Tells
<1>5. Cardinality(I) = Len(q) /\ \A i \in I : V[i] = q[Cardinality(Upto(I, i))]
  <2>1. I \subseteq 1..n
    BY <1>3
  <2>2. InOrder(I, V, q)
    BY <1>4, <2>1, ListsAll
  <2> QED
    BY <2>2 DEF InOrder
<1>6. I = PointsOf(a, n)
  BY <1>3 DEF PointsOf
<1>7. ASSUME NEW i \in I PROVE Upto(I, i) = PointsOf(a, i)
  <2>1. i \in 1..n
    BY <1>3
  <2>2. \A j : j \in Upto(I, i) <=> j \in PointsOf(a, i)
    <3>1. ASSUME NEW j PROVE j \in Upto(I, i) <=> j \in 1..n /\ history[j].asset = a /\ j <= i
      BY <1>3 DEF Upto
    <3>2. ASSUME NEW j PROVE j \in PointsOf(a, i) <=> j \in 1..i /\ history[j].asset = a
      BY DEF PointsOf
    <3>3. \A j : j \in 1..i <=> j \in 1..n /\ j <= i
      BY <2>1
    <3> QED
      BY <3>1, <3>2, <3>3
  <2> QED
    BY <2>2
<1>8. ASSUME NEW i \in I PROVE history[i].price = q[Cardinality(PointsOf(a, i))]
  <2>1. V[i] = history[i].price
    BY <1>3
  <2>2. Cardinality(Upto(I, i)) = Cardinality(PointsOf(a, i))
    BY <1>7
  <2> QED
    BY <1>5, <2>1, <2>2
<1> QED
  BY <1>1, <1>2, <1>5, <1>6, <1>8

-----------------------------------------------------------------------------
(* The steps.                                                              *)

\* The prices of a after the log l.
Quoted(l, a, q) == IF IsPrice(l, a) THEN Append(q, l.args.price) ELSE q

\* Quoted prices are prices.
LEMMA QuotedType ==
  ASSUME NEW l \in LogType, NEW a, NEW q \in Seq(Prices)
  PROVE  Quoted(l, a, q) \in Seq(Prices)
<1>1. CASE IsPrice(l, a)
  <2>1. PICK x \in Prices : x = l.args.price
    BY <1>1 DEF LogType, ArgsOf, IsPrice
  <2> QED
    BY <1>1, <2>1 DEF Quoted
<1>2. CASE ~ IsPrice(l, a)
  BY <1>2 DEF Quoted
<1> QED
  BY <1>1, <1>2

\* The types the argument about the history needs.
LEMMA TypesOfQueue ==
  ASSUME IInv
  PROVE  /\ history \in Seq(Point) /\ pending \in Seq(LogType)
         /\ \A a \in Assets : chain[a].priced \in Seq(Prices)
BY DEF IInv, Shape, ChainType

\* A log emitted is told by the queue until it is consumed.
LEMMA OneTold ==
  ASSUME IInv, Told, NEW l \in LogType, Emit(<<l>>),
         \A a \in Assets : chain'[a].priced = Quoted(l, a, chain[a].priced)
  PROVE  Told'
<1> SUFFICES ASSUME NEW a \in Assets PROVE Tells(history', pending', a, chain'[a].priced)
  BY DEF Told, Tells, Lists, Counts, Places, Values, IsPrice
<1>1. Tells(history, pending, a, chain[a].priced)
  BY DEF Told
<1>2. history' = history /\ pending' = Append(pending, l)
  BY TypesOfQueue DEF Emit
<1>3. chain'[a].priced = IF IsPrice(l, a) THEN Append(chain[a].priced, l.args.price)
                                          ELSE chain[a].priced
  BY DEF Quoted
<1> QED
  BY <1>1, <1>2, <1>3, TypesOfQueue, TellsMore

\* The same of two logs.
LEMMA TwoTold ==
  ASSUME IInv, Told, NEW l \in LogType, NEW k \in LogType, Emit(<<l, k>>),
         \A a \in Assets : chain'[a].priced = Quoted(k, a, Quoted(l, a, chain[a].priced))
  PROVE  Told'
<1> SUFFICES ASSUME NEW a \in Assets PROVE Tells(history', pending', a, chain'[a].priced)
  BY DEF Told, Tells, Lists, Counts, Places, Values, IsPrice
<1>1. PICK h \in Seq(Point), p \in Seq(LogType), q \in Seq(Prices) :
        h = history /\ p = pending /\ q = chain[a].priced /\ Tells(h, p, a, q)
  BY TypesOfQueue DEF Told
<1>2. PICK r \in Seq(LogType) : r = Append(p, l)
  <2>1. Append(p, l) \in Seq(LogType)
    OBVIOUS
  <2> QED
    BY <2>1
<1>3. PICK s \in Seq(Prices) : s = Quoted(l, a, q)
  BY QuotedType
<1>4. Tells(h, r, a, s)
  <2>1. Tells(h, Append(p, l), a, IF IsPrice(l, a) THEN Append(q, l.args.price) ELSE q)
    BY <1>1, TellsMore
  <2> QED
    BY <1>2, <1>3, <2>1 DEF Quoted
<1>5. Tells(h, Append(r, k), a, Quoted(k, a, s))
  <2>1. Tells(h, Append(r, k), a, IF IsPrice(k, a) THEN Append(s, k.args.price) ELSE s)
    BY <1>4, TellsMore
  <2> QED
    BY <2>1 DEF Quoted
<1>6. history' = history /\ pending' = Append(r, k)
  <2>1. pending \o <<l, k>> = Append(Append(pending, l), k)
    BY TypesOfQueue
  <2> QED
    BY <1>1, <1>2, <2>1 DEF Emit
<1> QED
  BY <1>1, <1>3, <1>5, <1>6

\* A log other than a price's is consumed.
LEMMA QuietTold ==
  ASSUME IInv, Told, NEW event, NEW row, Consume(event, row), event # "ClearOracleRateChanged",
         UNCHANGED history
  PROVE  Told'
<1> SUFFICES ASSUME NEW a \in Assets PROVE Tells(history', pending', a, chain'[a].priced)
  BY DEF Told, Tells, Lists, Counts, Places, Values, IsPrice
<1>1. /\ pending # <<>> /\ Head(pending).event = event
      /\ pending' = Tail(pending) /\ history' = history /\ chain' = chain
  BY DEF Consume, log, contracts
<1>2. ~ IsPrice(Head(pending), a) /\ Tells(history, pending, a, chain[a].priced)
  BY <1>1 DEF IsPrice, Told
<1> QED
  BY <1>1, <1>2, TypesOfQueue, TellsRest

\* A price write moves from the queue to the history.
LEMMA RateTold ==
  ASSUME IInv, Told, handleOracleRate
  PROVE  Told'
<1> SUFFICES ASSUME NEW a \in Assets PROVE Tells(history', pending', a, chain'[a].priced)
  BY DEF Told, Tells, Lists, Counts, Places, Values, IsPrice
<1>1. /\ pending # <<>> /\ log.event = "ClearOracleRateChanged"
      /\ pending' = Tail(pending) /\ history' = WithPoint /\ chain' = chain
  BY DEF handleOracleRate, Upserted, Consume, contracts
<1>2. PICK point \in Point : /\ history' = Append(history, point)
                             /\ point.asset = log.asset /\ point.price = log.args.price
  <2>1. log.asset \in Assets /\ log.block \in 1..MaxBlock /\ log.args.price \in Prices
    BY <1>1, NextLog, LogValues
  <2> QED
    BY <1>1, <2>1 DEF WithPoint, Point
<1>3. Tells(history, pending, a, chain[a].priced)
  BY DEF Told
<1> QED
  BY <1>1, <1>2, <1>3, TypesOfQueue, TellsPoint DEF log

\* A call that writes no price.
LEMMA OtherCall ==
  ASSUME IInv, Told, NEW l \in LogType, Emit(<<l>>), l.event # "ClearOracleRateChanged",
         \A a \in Assets : chain'[a].priced = chain[a].priced
  PROVE  Told'
BY OneTold DEF Quoted, IsPrice

\* Every call tells the price it writes.
LEMMA CallTold ==
  ASSUME IInv, Told, ContractCall
  PROVE  Told'
<1> PICK a \in Assets :
      \/ \E on \in BOOLEAN, r \in Prices : Configure(a, on, r)
      \/ \E p \in Prices : SetPrice(a, p) \/ SetRedemption(a, p)
      \/ \E p \in Prices, t \in Stamps : PushPrice(a, p, t)
      \/ InvalidatePrice(a)
      \/ \E k \in Caps : SetMaxConfidence(a, k)
  BY DEF ContractCall
<1>1. chain \in [Assets -> ChainType]
  BY DEF IInv, Shape
<1>2. ASSUME NEW on \in BOOLEAN, NEW r \in Prices, Configure(a, on, r) PROVE Told'
  <2>1. PICK l \in LogType : Emit(<<l>>) /\ l.event = "OracleConfigured"
    BY <1>2, LogsAreLogs DEF Configure, Log
  <2>2. \A x \in Assets : chain'[x].priced = chain[x].priced
    BY <1>1, <1>2 DEF Configure, ChainType
  <2> QED
    BY <2>1, <2>2, OtherCall
<1>3. ASSUME NEW p \in Prices, SetPrice(a, p) PROVE Told'
  <2>1. PICK l \in LogType : /\ Emit(<<l>>) /\ l.event = "ClearOracleRateChanged"
                             /\ l.asset = a /\ l.args.price = p
    BY <1>3, LogsAreLogs DEF SetPrice, Rate, Log
  <2>2. \A x \in Assets : chain'[x].priced = IF x = a THEN Append(chain[x].priced, p)
                                                      ELSE chain[x].priced
    BY <1>1, <1>3 DEF SetPrice, ChainType
  <2>3. \A x \in Assets : chain'[x].priced = Quoted(l, x, chain[x].priced)
    BY <2>1, <2>2 DEF Quoted, IsPrice
  <2> QED
    BY <2>1, <2>3, OneTold
<1>4. ASSUME NEW r \in Prices, SetRedemption(a, r) PROVE Told'
  <2>1. PICK l \in LogType : Emit(<<l>>) /\ l.event = "ClearOracleRedemptionPriceChanged"
    BY <1>4, LogsAreLogs DEF SetRedemption, Log
  <2>2. \A x \in Assets : chain'[x].priced = chain[x].priced
    BY <1>1, <1>4 DEF SetRedemption, ChainType
  <2> QED
    BY <2>1, <2>2, OtherCall
<1>5. ASSUME NEW p \in Prices, NEW t \in Stamps, PushPrice(a, p, t) PROVE Told'
  <2>1. PICK l \in LogType, k \in LogType :
          /\ Emit(<<l, k>>) \/ Emit(<<k, l>>)
          /\ l.event = "ClearOracleRateChanged" /\ l.asset = a /\ l.args.price = p
          /\ k.event = "PriceUpdated"
    <3>1. Rate(a, p) \in LogType /\ Published(a, p, t) \in LogType
      BY LogsAreLogs
    <3>2. /\ Rate(a, p).event = "ClearOracleRateChanged" /\ Rate(a, p).asset = a
          /\ Rate(a, p).args.price = p /\ Published(a, p, t).event = "PriceUpdated"
      BY DEF Rate, Published, Log
    <3> QED
      BY <1>5, <3>1, <3>2 DEF PushPrice
  <2>2. \A x \in Assets : chain'[x].priced = IF x = a THEN Append(chain[x].priced, p)
                                                      ELSE chain[x].priced
    BY <1>1, <1>5 DEF PushPrice, ChainType
  <2>3. \A x \in Assets : /\ chain'[x].priced = Quoted(k, x, Quoted(l, x, chain[x].priced))
                          /\ chain'[x].priced = Quoted(l, x, Quoted(k, x, chain[x].priced))
    BY <2>1, <2>2 DEF Quoted, IsPrice
  <2> QED
    BY <2>1, <2>3, TwoTold
<1>6. ASSUME InvalidatePrice(a) PROVE Told'
  <2>1. PICK l \in LogType : Emit(<<l>>) /\ l.event = "ClearOraclePriceInvalidated"
    BY <1>6, LogsAreLogs DEF InvalidatePrice, Log
  <2>2. \A x \in Assets : chain'[x].priced = chain[x].priced
    BY <1>1, <1>6 DEF InvalidatePrice, ChainType
  <2> QED
    BY <2>1, <2>2, OtherCall
<1>7. ASSUME NEW k \in Caps, SetMaxConfidence(a, k) PROVE Told'
  <2>1. PICK l \in LogType : Emit(<<l>>) /\ l.event = "AssetMaxConfidenceBpsUpdated"
    BY <1>7, LogsAreLogs DEF SetMaxConfidence, Log
  <2>2. \A x \in Assets : chain'[x].priced = chain[x].priced
    BY <1>1, <1>7 DEF SetMaxConfidence, ChainType
  <2> QED
    BY <2>1, <2>2, OtherCall
<1> QED
  BY <1>2, <1>3, <1>4, <1>5, <1>6, <1>7

LEMMA InitTold == Init => Told
<1> SUFFICES ASSUME Init, NEW a \in Assets PROVE Tells(history, pending, a, chain[a].priced)
  BY DEF Told
<1>1. history = <<>> /\ pending = <<>> /\ chain[a].priced = <<>>
  BY DEF Init, NewAsset
<1>2. PICK I, V : I = Places(<<>>, <<>>, a) /\ V = Values(<<>>, <<>>)
  OBVIOUS
<1>3. Lists(I, V, 0, <<>>)
  <2> DEFINE T == [i \in 0..0 |-> 0]
  <2>1. T \in [0..0 -> Nat] /\ T[0] = 0 /\ Len(<<>>) = 0
    OBVIOUS
  <2> HIDE DEF T
  <2>2. Counts(I, V, 0, <<>>, T)
    BY <2>1 DEF Counts
  <2> QED
    BY <2>2 DEF Lists
<1>4. Len(<<>>) + Len(<<>>) = 0
  OBVIOUS
<1> QED
  BY <1>1, <1>2, <1>3, <1>4 DEF Tells

\* Every step keeps what is told.
LEMMA NextTold == IInv /\ Told /\ [Next]_vars => Told'
<1> SUFFICES ASSUME IInv, Told, [Next]_vars PROVE Told'
  OBVIOUS
<1>1. CASE ContractCall
  BY <1>1, CallTold
<1>2. CASE dispatchOracle
  <2>1. CASE handleOracleConfigured
    BY <2>1, QuietTold DEF handleOracleConfigured, Upserted
  <2>2. CASE handleOracleRate
    BY <2>2, RateTold
  <2>3. CASE handleOracleRedemption
    BY <2>3, QuietTold DEF handleOracleRedemption, Upserted
  <2>4. CASE handleOracleInvalidated
    BY <2>4, QuietTold DEF handleOracleInvalidated, Upserted
  <2>5. CASE handleOracleMaxConfidence
    BY <2>5, QuietTold DEF handleOracleMaxConfidence
  <2>6. CASE handleOraclePublish
    BY <2>6, QuietTold DEF handleOraclePublish, Upserted
  <2> QED
    BY <1>2, <2>1, <2>2, <2>3, <2>4, <2>5, <2>6 DEF dispatchOracle
<1>3. CASE NextBlock \/ UNCHANGED vars
  <2>1. history' = history /\ pending' = pending /\ chain' = chain
    BY <1>3 DEF NextBlock, vars, contracts
  <2> SUFFICES ASSUME NEW a \in Assets PROVE Tells(history', pending', a, chain'[a].priced)
    BY DEF Told, Tells, Lists, Counts, Places, Values, IsPrice
  <2> QED
    BY <2>1 DEF Told
<1> QED
  BY <1>1, <1>2, <1>3 DEF Next

\* However the calls of the two contracts interleave and however far the
\* exporter lags, an asset's history is the prices written for it, in order:
\* handleOracleRate loses none, repeats none, and no other handler adds one.
THEOREM HistoryHolds == Spec => []HistoryIsComplete
<1>1. IInv /\ Told => HistoryIsComplete
  <2> SUFFICES ASSUME IInv, Told, pending = <<>>, NEW a \in Assets
               PROVE  LET points == PointsOf(a, Len(history))
                      IN /\ Cardinality(points) = Len(chain[a].priced)
                         /\ \A i \in points :
                              history[i].price = chain[a].priced[Cardinality(PointsOf(a, i))]
    BY DEF HistoryIsComplete
  <2>1. history \in Seq(Point) /\ Tells(history, <<>>, a, chain[a].priced)
    BY TypesOfQueue DEF Told
  <2> QED
    BY <2>1, TellsAll
<1> QED
  BY <1>1, InitIInv, NextIInv, InitTold, NextTold, PTL DEF Spec
=============================================================================
