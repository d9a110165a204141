------------------------- MODULE CurveDiscoveryProofs -------------------------
(***************************************************************************)
(* For any pools, streams and number of failures: a pool's row does not    *)
(* depend on the order of its two deployment events, a discovered pool has *)
(* its log source and none of its own logs is lost, its LP supply is what  *)
(* the pool announces, and the token directory is complete and honest.     *)
(*                                                                         *)
(* The invariant says what the committed tables owe to the logs processed  *)
(* so far and, while a handler is past its first statements, what the open *)
(* transaction owes to them and to the log it handles.  BookInv adds the   *)
(* pools' own logs: a row counts them up to that position.                 *)
(***************************************************************************)
EXTENDS CurveDiscovery, FoldLemmas

\* The logs of the stream s before position n include `event' of p.
Before(s, n, event, p) == \E l \in 1..n - 1 : s[l].event = event /\ s[l].pool = p

\* The factory's event of p was processed with the means, m, to resolve it.
KnownBefore(s, n, m, p) ==
  Before(s, n, "CurvePoolDeployed", p) /\ m /\ p \notin Unresolvable

\* What the row of p says after the logs before n.
RowOK(s, n, m, p, row) ==
  LET fact == Truth[p]
  IN /\ row.deployer \in {NoAddr, fact.deployer}
     /\ row.basePool \in {NoAddr, fact.basePool}
     /\ row.coin \in {NoAddr, fact.coin}
     /\ KnownBefore(s, n, m, p) => row.factory = CurveFactory /\ row.coins = fact.coins
     /\ KnownBefore(s, n, m, p) /\ fact.meta =>
          row.deployer = fact.deployer /\ row.basePool = fact.basePool /\ row.coin = fact.coin
     /\ Before(s, n, "PoolDeployed", p) =>
          /\ row.reserve = fact.reserve /\ row.deployer = fact.deployer
          /\ row.basePool = fact.basePool /\ row.coin = fact.coin

\* The tokens the log l enters.
Needed(l, m) ==
  IF l.event = "CurvePoolDeployed"
  THEN IF m /\ l.pool \notin Unresolvable THEN {l.pool} \cup ToSet(Truth[l.pool].coins) ELSE {}
  ELSE IF l.event = "PoolDeployed" THEN {l.pool, Truth[l.pool].coin} \ {NoAddr} ELSE {}

\* The tokens the logs before n entered are all in the directory.
EnteredOK(s, n, m, tokens) ==
  \A l \in 1..n - 1 : \A t \in Needed(s[l], m) : tokens[t] # "absent"

Past == step \in {"tokens", "abi", "source", "done"}

IsRow(row) ==
  row = [exists |-> row.exists, reserve |-> row.reserve, basePool |-> row.basePool,
         coin |-> row.coin, deployer |-> row.deployer, factory |-> row.factory,
         coins |-> row.coins, named |-> row.named, swaps |-> row.swaps, supply |-> row.supply,
         balances |-> row.balances, liquidity |-> row.liquidity]

IsTables(tables) ==
  /\ tables = [pools |-> tables.pools, tokens |-> tables.tokens, contracts |-> tables.contracts]
  /\ tables.pools = [p \in Pools |-> tables.pools[p]]
  /\ \A p \in Pools : IsRow(tables.pools[p])
  /\ tables.tokens \in [Tokens -> {"absent", "blank", "known"}]

Shape ==
  /\ stream \in Streams /\ next \in 1..Len(stream) + 1
  /\ step \in {"idle", "claimed", "tokens", "abi", "source", "done"}
  /\ step # "idle" => next <= Len(stream)
  /\ IsTables(db) /\ IsTables(tx)
  /\ todo \in Seq(Tokens)
  /\ step = "claimed" => tx = db

Rows ==
  /\ \A p \in Pools : RowOK(stream, next, rpc, p, db.pools[p])
  /\ Past => \A p \in Pools : RowOK(stream, next + 1, rpc, p, tx.pools[p])

Directory ==
  /\ EnteredOK(stream, next, rpc, db.tokens)
  /\ Past => /\ EnteredOK(stream, next, rpc, tx.tokens)
             /\ \A t \in Needed(log, rpc) :
                  tx.tokens[t] # "absent" \/ (step = "tokens" /\ t \in ToSet(todo))

Honest ==
  rpc => \A t \in Tokens :
    /\ db.tokens[t] = "blank" => t \in answered
    /\ step # "idle" /\ tx.tokens[t] = "blank" => t \in answered

\* The host's side of a discovered pool.
HostKnows(p) == sources[p] # NoSource

Sources ==
  /\ abiId \in {0, hostAbi}
  /\ rpc \in BOOLEAN /\ host \in BOOLEAN
  /\ sources = [p \in Pools |-> sources[p]]
  /\ \A p \in Pools : HostKnows(p) => sources[p].abi = hostAbi /\ hostAbi # 0
  /\ \A p \in Pools : KnownBefore(stream, next, rpc, p) /\ host => HostKnows(p) /\ p \in db.contracts
  /\ Past => db.contracts \subseteq tx.contracts
  /\ step \in {"abi", "source"} => host /\ pool \in tx.contracts
  /\ step = "source" => abiId # 0
  /\ step = "done" /\ log.event = "CurvePoolDeployed" /\ rpc /\ pool \notin Unresolvable /\ host =>
       HostKnows(pool) /\ pool \in tx.contracts

IInv == Shape /\ Rows /\ Directory /\ Honest /\ Sources

-----------------------------------------------------------------------------
(* The logs before a position.                                             *)

\* What was seen before the next position: what was seen before this one, or the log here.
LEMMA OneMore ==
  ASSUME NEW s, NEW n \in Nat \ {0}, NEW event, NEW p
  PROVE  Before(s, n + 1, event, p) <=> Before(s, n, event, p) \/ (s[n].event = event /\ s[n].pool = p)
BY DEF Before

\* A log of another kind leaves what a row must say as it is.
LEMMA RowSame ==
  ASSUME NEW s, NEW n \in Nat \ {0}, NEW m, NEW p, NEW row, RowOK(s, n, m, p, row),
         s[n].pool # p \/ s[n].event \notin {"CurvePoolDeployed", "PoolDeployed"}
                     \/ (s[n].event = "CurvePoolDeployed" /\ (~ m \/ p \in Unresolvable))
  PROVE  RowOK(s, n + 1, m, p, row)
<1>1. Before(s, n + 1, "PoolDeployed", p) <=> Before(s, n, "PoolDeployed", p)
  BY OneMore
<1>2. KnownBefore(s, n + 1, m, p) <=> KnownBefore(s, n, m, p)
  BY OneMore DEF KnownBefore
<1> QED
  BY <1>1, <1>2 DEF RowOK

\* A row with the same columns says the same.
LEMMA RowColumns ==
  ASSUME NEW s, NEW n, NEW m, NEW p, NEW row, RowOK(s, n, m, p, row), NEW new,
         new.deployer = row.deployer, new.basePool = row.basePool, new.coin = row.coin,
         new.factory = row.factory, new.coins = row.coins, new.reserve = row.reserve
  PROVE  RowOK(s, n, m, p, new)
BY DEF RowOK

\* Once the tokens of the log here are entered, those of all logs up to it are.
LEMMA EnteredMore ==
  ASSUME NEW s, NEW n \in Nat \ {0}, NEW m, NEW tokens, EnteredOK(s, n, m, tokens),
         \A t \in Needed(s[n], m) : tokens[t] # "absent"
  PROVE  EnteredOK(s, n + 1, m, tokens)
<1> SUFFICES ASSUME NEW l \in 1..(n + 1) - 1, NEW t \in Needed(s[l], m)
             PROVE  tokens[t] # "absent"
  BY DEF EnteredOK
<1>1. l = n \/ l \in 1..n - 1
  OBVIOUS
<1> QED
  BY <1>1 DEF EnteredOK

\* What is known of the log at hand.
LEMMA AtHand ==
  ASSUME Shape
  PROVE  /\ next \in Nat \ {0} /\ log = stream[next] /\ pool = stream[next].pool
         /\ step # "idle" => pool \in Pools /\ next + 1 \in 1..Len(stream) + 1
BY StreamFacts DEF Shape, log, pool

\* The tokens a log needs are tokens of the pools.
LEMMA NeededTokens ==
  ASSUME NEW l, l.pool \in Pools, NEW m
  PROVE  Needed(l, m) \subseteq Tokens
<1>1. l.pool \in Tokens
  BY DEF Tokens
<1>2. ToSet(Truth[l.pool].coins) \subseteq Tokens
  BY DEF Tokens
<1>3. Truth[l.pool].coin \in Tokens \cup {NoAddr}
  BY TokenFacts
<1> QED
  BY <1>1, <1>2, <1>3 DEF Needed

-----------------------------------------------------------------------------
(* What a step that leaves a part of the state alone preserves.            *)

\* A part of the invariant stays when what it speaks of stays.
LEMMA RowsFrame ==
  ASSUME Rows, UNCHANGED <<stream, rpc, next, db>>, Past' => Past /\ tx'.pools = tx.pools
  PROVE  Rows'
BY DEF Rows

LEMMA DirectoryFrame ==
  ASSUME Directory, UNCHANGED <<stream, rpc, next, db>>,
         Past' => /\ Past /\ tx'.tokens = tx.tokens
                  /\ step = "tokens" => todo' = todo /\ (step' = "tokens" \/ todo = <<>>)
  PROVE  Directory'
<1>1. UNCHANGED log
  BY DEF log
<1>2. todo = <<>> => ToSet(todo) = {}
  BY DEF ToSet
<1> QED
  BY <1>1, <1>2 DEF Directory

LEMMA HonestFrame ==
  ASSUME Honest, UNCHANGED <<rpc, db>>, answered \subseteq answered',
         step' # "idle" => (step # "idle" /\ tx'.tokens = tx.tokens) \/ tx' = db
  PROVE  Honest'
BY DEF Honest

LEMMA SourcesFrame ==
  ASSUME Sources, UNCHANGED <<setting, next, db, sources, hostAbi>>, abiId' \in {abiId, 0},
         Past' => db.contracts \subseteq tx'.contracts,
         step' \notin {"abi", "source"},
         step' = "done" => ~ (log.event = "CurvePoolDeployed" /\ rpc /\ pool \notin Unresolvable
                              /\ host)
  PROVE  Sources'
<1>1. UNCHANGED <<stream, rpc, host, log, pool>>
  BY DEF setting, log, pool
<1>2. \A p : HostKnows(p)' <=> HostKnows(p)
  BY DEF HostKnows
<1> QED
  BY <1>1, <1>2 DEF Sources

-----------------------------------------------------------------------------
(* The steps.                                                              *)

\* A pool's own log is no deployment event and needs no token.
LEMMA OwnLogFacts ==
  ASSUME OwnLog
  PROVE  log.event \notin {"CurvePoolDeployed", "PoolDeployed"} /\ \A m : Needed(log, m) = {}
BY DEF OwnLog, OwnEvents, Exchanges, Provisions, Needed

LEMMA BeginKeeps ==
  ASSUME IInv, Begin
  PROVE  IInv'
<1>1. /\ UNCHANGED <<setting, next, db, abiId, hostAbi, sources, answered>>
      /\ tx' = db /\ step' = "claimed" /\ todo' = <<>> /\ next <= Len(stream) /\ ~ Past'
  BY DEF Begin, Past
<1>2. Shape'
  BY <1>1 DEF IInv, Shape, setting
<1>3. Rows'
  BY <1>1, RowsFrame DEF IInv, setting
<1>4. Directory'
  BY <1>1, DirectoryFrame DEF IInv, setting
<1>5. Honest'
  BY <1>1, HonestFrame DEF IInv, setting
<1>6. Sources'
  BY <1>1, SourcesFrame DEF IInv
<1> QED
  BY <1>2, <1>3, <1>4, <1>5, <1>6 DEF IInv

LEMMA PassByKeeps ==
  ASSUME IInv, PassBy
  PROVE  IInv'
<1>1. /\ UNCHANGED <<setting, db, tx, handler, abiId, hostAbi, sources, answered>>
      /\ next' = next + 1 /\ step = "idle" /\ next <= Len(stream) /\ ~ Past /\ ~ Past'
      /\ OwnLog
  BY DEF PassBy, Past, Deliverable, handler
<1>2. /\ next \in Nat \ {0} /\ stream[next] = log /\ Needed(log, rpc) = {}
      /\ log.event \notin {"CurvePoolDeployed", "PoolDeployed"}
  BY <1>1, AtHand, OwnLogFacts DEF IInv
<1>3. Shape'
  BY <1>1, <1>2, StreamFacts DEF IInv, Shape, setting, handler
<1>4. Rows'
  <2>1. \A p \in Pools : RowOK(stream, next + 1, rpc, p, db.pools[p])
    BY <1>2, RowSame DEF IInv, Rows
  <2> QED
    BY <1>1, <2>1 DEF Rows, setting
<1>5. Directory'
  <2>1. EnteredOK(stream, next + 1, rpc, db.tokens)
    BY <1>2, EnteredMore DEF IInv, Directory
  <2> QED
    BY <1>1, <2>1 DEF Directory, setting
<1>6. Honest'
  BY <1>1, HonestFrame DEF IInv, setting, handler
<1>7. Sources'
  <2>1. \A p : KnownBefore(stream, next + 1, rpc, p) <=> KnownBefore(stream, next, rpc, p)
    BY <1>2, OneMore DEF KnownBefore
  <2>2. \A p : HostKnows(p)' <=> HostKnows(p)
    BY <1>1 DEF HostKnows
  <2>3. step' = "idle"
    BY <1>1 DEF handler
  <2> QED
    BY <1>1, <2>1, <2>2, <2>3 DEF IInv, Sources, setting
<1> QED
  BY <1>3, <1>4, <1>5, <1>6, <1>7 DEF IInv

\* Replacing the row of the pool at hand leaves tables and the other rows.
LEMMA SetPoolTables ==
  ASSUME NEW tables, IsTables(tables), NEW row, IsRow(row), pool \in Pools
  PROVE  LET new == SetPool(tables, row)
         IN /\ IsTables(new) /\ new.tokens = tables.tokens /\ new.contracts = tables.contracts
            /\ \A p \in Pools \ {pool} : new.pools[p] = tables.pools[p]
            /\ new.pools[pool] = [row EXCEPT !.exists = TRUE]
<1> DEFINE new == SetPool(tables, row)
           put == [row EXCEPT !.exists = TRUE]
<1>1. IsRow(put)
  <2>1. ASSUME NEW v PROVE IsRow([row EXCEPT !.exists = v])
    BY DEF IsRow
  <2> QED
    BY <2>1
<1> HIDE DEF put
<1>2. /\ new = [pools |-> [tables.pools EXCEPT ![pool] = put],
                tokens |-> tables.tokens, contracts |-> tables.contracts]
      /\ tables.pools = [p \in Pools |-> tables.pools[p]]
  <2>1. tables = [pools |-> tables.pools, tokens |-> tables.tokens, contracts |-> tables.contracts]
    BY DEF IsTables
  <2>2. new = [tables EXCEPT !.pools[pool] = put]
    BY DEF SetPool, put
  <2>3. ASSUME NEW a, NEW b, NEW c
        PROVE  [[pools |-> a, tokens |-> b, contracts |-> c] EXCEPT !.pools[pool] = put]
                 = [pools |-> [a EXCEPT ![pool] = put], tokens |-> b, contracts |-> c]
    OBVIOUS
  <2> HIDE DEF new
  <2> QED
    BY <2>1, <2>2, <2>3 DEF IsTables
<1> HIDE DEF new
<1>3. \A p \in Pools : new.pools[p] = IF p = pool THEN put ELSE tables.pools[p]
  BY <1>2
<1>4. IsTables(new)
  BY <1>1, <1>2, <1>3 DEF IsTables
<1> QED
  BY <1>2, <1>3, <1>4 DEF new, put

LEMMA HandleOwnLogKeeps ==
  ASSUME IInv, HandleOwnLog
  PROVE  IInv'
<1> DEFINE old == tx.pools[pool]
           row == CASE log.event \in Exchanges  -> Swapped(old)
                    [] log.event \in Provisions -> Provided(old)
                    [] log.event = "Transfer"   -> Transferred(old)
<1>1. /\ UNCHANGED <<setting, next, db, todo, hinted, abiId, hostAbi, sources, answered>>
      /\ tx' = SetPool(tx, row) /\ step = "claimed" /\ step' = "done" /\ OwnLog
  BY DEF HandleOwnLog
<1>2. /\ next \in Nat \ {0} /\ stream[next] = log /\ pool \in Pools /\ tx = db
      /\ \A m : Needed(log, m) = {}
      /\ log.event \notin {"CurvePoolDeployed", "PoolDeployed"} /\ Past' /\ IsTables(tx)
  BY <1>1, AtHand, OwnLogFacts DEF IInv, Shape, Past
<1>3. IsRow(old)
  BY <1>2 DEF IsTables
<1>4. /\ IsRow(row) /\ row.deployer = old.deployer /\ row.basePool = old.basePool
      /\ row.coin = old.coin /\ row.factory = old.factory /\ row.coins = old.coins
      /\ row.reserve = old.reserve
  <2> HIDE DEF old
  <2>1. ASSUME NEW new \in {Swapped(old), Provided(old), Transferred(old)}
        PROVE  /\ IsRow(new) /\ new.deployer = old.deployer /\ new.basePool = old.basePool
               /\ new.coin = old.coin /\ new.factory = old.factory /\ new.coins = old.coins
               /\ new.reserve = old.reserve
    BY <1>3 DEF IsRow, Swapped, Provided, Transferred
  <2>2. row \in {Swapped(old), Provided(old), Transferred(old)}
    BY <1>1 DEF OwnLog, OwnEvents
  <2> QED
    BY <2>1, <2>2
<1> HIDE DEF row
<1>5. /\ IsTables(tx') /\ tx'.tokens = tx.tokens /\ tx'.contracts = tx.contracts
      /\ \A p \in Pools \ {pool} : tx'.pools[p] = tx.pools[p]
      /\ tx'.pools[pool] = [row EXCEPT !.exists = TRUE]
  BY <1>1, <1>2, <1>4, SetPoolTables
<1>6. Shape'
  BY <1>1, <1>5 DEF IInv, Shape, setting
<1>7. Rows'
  <2>1. \A p \in Pools : RowOK(stream, next + 1, rpc, p, db.pools[p])
    BY <1>2, RowSame DEF IInv, Rows
  <2>2. RowOK(stream, next + 1, rpc, pool, tx'.pools[pool])
    <3>1. /\ tx'.pools[pool].deployer = old.deployer /\ tx'.pools[pool].basePool = old.basePool
          /\ tx'.pools[pool].coin = old.coin /\ tx'.pools[pool].factory = old.factory
          /\ tx'.pools[pool].coins = old.coins /\ tx'.pools[pool].reserve = old.reserve
      <4> HIDE DEF old
      <4> QED
        BY <1>4, <1>5 DEF IsRow
    <3> QED
      BY <1>2, <2>1, <3>1, RowColumns
  <2> QED
    BY <1>1, <1>2, <1>5, <2>1, <2>2 DEF IInv, Rows, setting
<1>8. Directory'
  BY <1>1, <1>2, <1>5 DEF IInv, Directory, Past, setting, log
<1>9. Honest'
  BY <1>1, <1>5, HonestFrame DEF IInv, setting
<1>10. Sources'
  BY <1>1, <1>2, <1>5, SourcesFrame DEF IInv
<1> QED
  BY <1>6, <1>7, <1>8, <1>9, <1>10 DEF IInv

\* PoolDeployed writes the linkage whatever the row held.
LEMMA RecordLinkageKeeps ==
  ASSUME IInv, RecordLinkage
  PROVE  IInv'
<1> DEFINE fact == Truth[pool]
           old == tx.pools[pool]
           row == [old EXCEPT !.reserve = fact.reserve, !.basePool = fact.basePool,
                              !.coin = fact.coin, !.deployer = fact.deployer]
<1>1. /\ UNCHANGED <<setting, next, db, hinted, abiId, hostAbi, sources, answered>>
      /\ tx' = SetPool(tx, row) /\ step = "claimed" /\ step' = "tokens"
      /\ log.event = "PoolDeployed"
      /\ todo' = IF fact.coin = NoAddr THEN <<pool>> ELSE <<pool, fact.coin>>
  BY DEF RecordLinkage
<1>2. /\ next \in Nat \ {0} /\ stream[next] = log /\ pool \in Pools /\ tx = db
      /\ Past' /\ IsTables(tx) /\ log.pool = pool
  BY <1>1, AtHand DEF IInv, Shape, Past, pool
<1>3. IsRow(old)
  BY <1>2 DEF IsTables
<1>4. /\ IsRow(row) /\ row.deployer = fact.deployer /\ row.basePool = fact.basePool
      /\ row.coin = fact.coin /\ row.factory = old.factory /\ row.coins = old.coins
      /\ row.reserve = fact.reserve
  <2> HIDE DEF old, fact
  <2>1. PICK r, b, c, d :
          /\ r = fact.reserve /\ b = fact.basePool /\ c = fact.coin /\ d = fact.deployer
          /\ row = [old EXCEPT !.reserve = r, !.basePool = b, !.coin = c, !.deployer = d]
    OBVIOUS
  <2> HIDE DEF row
  <2>2. /\ IsRow(row) /\ row.deployer = d /\ row.basePool = b /\ row.coin = c
        /\ row.factory = old.factory /\ row.coins = old.coins /\ row.reserve = r
    BY <1>3, <2>1 DEF IsRow
  <2> QED
    BY <2>1, <2>2
<1> HIDE DEF row
<1>5. /\ IsTables(tx') /\ tx'.tokens = tx.tokens /\ tx'.contracts = tx.contracts
      /\ \A p \in Pools \ {pool} : tx'.pools[p] = tx.pools[p]
      /\ tx'.pools[pool] = [row EXCEPT !.exists = TRUE]
  BY <1>1, <1>2, <1>4, SetPoolTables
<1>6. todo' \in Seq(Tokens) /\ {pool, fact.coin} \ {NoAddr} \subseteq ToSet(todo')
  <2>1. pool \in Tokens /\ fact.coin \in Tokens \cup {NoAddr}
    BY <1>2, TokenFacts DEF Tokens
  <2>2. pool # NoAddr
    BY <2>1, TokenFacts
  <2> HIDE DEF fact
  <2>3. CASE fact.coin = NoAddr
    BY <1>1, <2>1, <2>2, <2>3 DEF ToSet
  <2>4. CASE fact.coin # NoAddr
    BY <1>1, <2>1, <2>2, <2>4 DEF ToSet
  <2> QED
    BY <2>3, <2>4
<1>7. Shape'
  BY <1>1, <1>5, <1>6 DEF IInv, Shape, setting
<1>8. Rows'
  <2>1. \A p \in Pools \ {pool} : RowOK(stream, next + 1, rpc, p, db.pools[p])
    BY <1>2, RowSame DEF IInv, Rows
  <2>2. RowOK(stream, next + 1, rpc, pool, tx'.pools[pool])
    <3>1. /\ tx'.pools[pool].deployer = fact.deployer /\ tx'.pools[pool].basePool = fact.basePool
          /\ tx'.pools[pool].coin = fact.coin /\ tx'.pools[pool].factory = old.factory
          /\ tx'.pools[pool].coins = old.coins /\ tx'.pools[pool].reserve = fact.reserve
      <4> HIDE DEF old, fact
      <4> QED
        BY <1>4, <1>5 DEF IsRow
    <3>2. KnownBefore(stream, next + 1, rpc, pool) <=> KnownBefore(stream, next, rpc, pool)
      BY <1>1, <1>2, OneMore DEF KnownBefore
    <3>3. RowOK(stream, next, rpc, pool, old)
      BY <1>2 DEF IInv, Rows
    <3> QED
      BY <3>1, <3>2, <3>3 DEF RowOK
  <2> QED
    BY <1>1, <1>2, <1>5, <2>1, <2>2 DEF IInv, Rows, setting
<1>9. Directory'
  <2>1. Needed(log, rpc) \subseteq ToSet(todo')
    BY <1>1, <1>2, <1>6 DEF Needed
  <2> QED
    BY <1>1, <1>2, <1>5, <2>1 DEF IInv, Directory, Past, setting, log
<1>10. Honest'
  BY <1>1, <1>5, HonestFrame DEF IInv, setting
<1>11. Sources'
  BY <1>1, <1>2, <1>5, SourcesFrame DEF IInv
<1> QED
  BY <1>7, <1>8, <1>9, <1>10, <1>11 DEF IInv

LEMMA NotResolvedKeeps ==
  ASSUME IInv, NotResolved
  PROVE  IInv'
<1>1. /\ UNCHANGED <<setting, next, db, tx, todo, hinted, abiId, hostAbi, sources, answered>>
      /\ step = "claimed" /\ step' = "done" /\ log.event = "CurvePoolDeployed"
      /\ ~ rpc \/ pool \in Unresolvable
  BY DEF NotResolved
<1>2. /\ next \in Nat \ {0} /\ stream[next] = log /\ log.pool = pool /\ tx = db
      /\ Needed(log, rpc) = {} /\ Past'
  BY <1>1, AtHand DEF IInv, Shape, Past, Needed, pool
<1>3. Shape'
  BY <1>1 DEF IInv, Shape, setting
<1>4. Rows'
  <2>1. \A p \in Pools : RowOK(stream, next + 1, rpc, p, db.pools[p])
    BY <1>1, <1>2, RowSame DEF IInv, Rows
  <2> QED
    BY <1>1, <1>2, <2>1 DEF IInv, Rows, setting
<1>5. Directory'
  BY <1>1, <1>2 DEF IInv, Directory, setting, log
<1>6. Honest'
  BY <1>1, HonestFrame DEF IInv, setting
<1>7. Sources'
  BY <1>1, <1>2, SourcesFrame DEF IInv
<1> QED
  BY <1>3, <1>4, <1>5, <1>6, <1>7 DEF IInv

\* The factory's event fills what is missing and changes nothing that is there.
LEMMA RecordPoolKeeps ==
  ASSUME IInv, RecordPool
  PROVE  IInv'
<1> DEFINE fact == Truth[pool]
           old == tx.pools[pool]
<1>1. PICK full \in FetchedAll :
        /\ tx' = SetPool(tx, FactoryRow(old, full))
        /\ hinted' = full
        /\ answered' = IF full THEN answered \cup {pool} ELSE answered
  BY DEF RecordPool
<1> DEFINE row == FactoryRow(old, full)
<1>2. /\ UNCHANGED <<setting, next, db, abiId, hostAbi, sources>>
      /\ step = "claimed" /\ step' = "tokens" /\ log.event = "CurvePoolDeployed"
      /\ rpc /\ pool \notin Unresolvable /\ todo' = <<pool>> \o fact.coins
      /\ tx' = SetPool(tx, row) /\ answered \subseteq answered'
  BY <1>1 DEF RecordPool
<1>3. /\ next \in Nat \ {0} /\ stream[next] = log /\ pool \in Pools /\ tx = db
      /\ Past' /\ IsTables(tx) /\ log.pool = pool
  BY <1>2, AtHand DEF IInv, Shape, Past, pool
<1>4. IsRow(old)
  BY <1>3 DEF IsTables
<1>5. /\ IsRow(row)
      /\ row.deployer = Coalesce(old.deployer, fact.deployer)
      /\ row.basePool = Coalesce(old.basePool, IF fact.meta THEN fact.basePool ELSE NoAddr)
      /\ row.coin = Coalesce(old.coin, IF fact.meta THEN fact.coin ELSE NoAddr)
      /\ row.factory = CurveFactory /\ row.coins = fact.coins /\ row.reserve = old.reserve
  <2> HIDE DEF old, fact
  <2>1. PICK v, d, b, c :
          /\ d = Coalesce(old.deployer, fact.deployer)
          /\ b = Coalesce(old.basePool, IF fact.meta THEN fact.basePool ELSE NoAddr)
          /\ c = Coalesce(old.coin, IF fact.meta THEN fact.coin ELSE NoAddr)
          /\ row = [old EXCEPT !.factory = CurveFactory, !.coins = fact.coins, !.named = v,
                               !.deployer = d, !.basePool = b, !.coin = c]
    BY Zenon DEF FactoryRow, fact
  <2> HIDE DEF row
  <2>2. /\ IsRow(row) /\ row.deployer = d /\ row.basePool = b /\ row.coin = c
        /\ row.factory = CurveFactory /\ row.coins = fact.coins /\ row.reserve = old.reserve
    BY <1>4, <2>1 DEF IsRow
  <2> QED
    BY <2>1, <2>2
<1> HIDE DEF row
<1>6. /\ IsTables(tx') /\ tx'.tokens = tx.tokens /\ tx'.contracts = tx.contracts
      /\ \A p \in Pools \ {pool} : tx'.pools[p] = tx.pools[p]
      /\ tx'.pools[pool] = [row EXCEPT !.exists = TRUE]
  BY <1>2, <1>3, <1>5, SetPoolTables
<1>7. todo' \in Seq(Tokens) /\ {pool} \cup ToSet(fact.coins) \subseteq ToSet(todo')
  <2>1. pool \in Tokens /\ fact.coins \in Seq(Tokens)
    BY <1>3, TokenFacts DEF Tokens
  <2> HIDE DEF fact
  <2>2. \A n \in DOMAIN fact.coins : n + 1 \in DOMAIN todo' /\ todo'[n + 1] = fact.coins[n]
    BY <1>2, <2>1
  <2>3. 1 \in DOMAIN todo' /\ todo'[1] = pool /\ todo' \in Seq(Tokens)
    BY <1>2, <2>1
  <2> QED
    BY <2>2, <2>3 DEF ToSet
<1>8. Shape'
  BY <1>2, <1>6, <1>7 DEF IInv, Shape, setting
<1>9. Rows'
  <2>1. \A p \in Pools \ {pool} : RowOK(stream, next + 1, rpc, p, db.pools[p])
    BY <1>3, RowSame DEF IInv, Rows
  <2>2. RowOK(stream, next + 1, rpc, pool, row)
    <3>1. RowOK(stream, next, rpc, pool, old)
      BY <1>3 DEF IInv, Rows
    <3>2. Before(stream, next + 1, "PoolDeployed", pool) <=> Before(stream, next, "PoolDeployed", pool)
      BY <1>2, <1>3, OneMore
    <3> HIDE DEF old
    <3> QED
      BY <1>5, <3>1, <3>2 DEF RowOK, Coalesce
  <2>3. RowOK(stream, next + 1, rpc, pool, tx'.pools[pool])
    <3>1. /\ tx'.pools[pool].deployer = row.deployer /\ tx'.pools[pool].basePool = row.basePool
          /\ tx'.pools[pool].coin = row.coin /\ tx'.pools[pool].factory = row.factory
          /\ tx'.pools[pool].coins = row.coins /\ tx'.pools[pool].reserve = row.reserve
      BY <1>5, <1>6 DEF IsRow
    <3> QED
      BY <2>2, <3>1, RowColumns
  <2> QED
    BY <1>2, <1>3, <1>6, <2>1, <2>3 DEF IInv, Rows, setting
<1>10. Directory'
  <2>1. Needed(log, rpc) \subseteq ToSet(todo')
    BY <1>2, <1>3, <1>7 DEF Needed
  <2> QED
    BY <1>2, <1>3, <1>6, <2>1 DEF IInv, Directory, Past, setting, log
<1>11. Honest'
  BY <1>2, <1>6, HonestFrame DEF IInv, setting
<1>12. Sources'
  BY <1>2, <1>3, <1>6, SourcesFrame DEF IInv
<1> QED
  BY <1>8, <1>9, <1>10, <1>11, <1>12 DEF IInv

\* ensureToken leaves a row, and a blank one only where a node has answered.
LEMMA EnsureTokenKeeps ==
  ASSUME IInv, EnsureToken
  PROVE  IInv'
<1> DEFINE t == Head(todo)
           isHint == hinted /\ t = pool
<1>1. /\ UNCHANGED <<setting, next, db, step, hinted, abiId, hostAbi, sources>>
      /\ step = "tokens" /\ todo # <<>> /\ todo' = Tail(todo)
      /\ \/ InsertUnread(t, tx.tokens[t], isHint)
         \/ InsertRead(t, tx.tokens[t], isHint)
         \/ Patch(t, tx.tokens[t], isHint)
  BY DEF EnsureToken, Rest
<1>2. /\ t \in Tokens /\ todo' \in Seq(Tokens) /\ ToSet(todo) \subseteq {t} \cup ToSet(todo')
      /\ IsTables(tx)
  <2>1. todo \in Seq(Tokens) /\ IsTables(tx)
    BY DEF IInv, Shape
  <2>2. \A n \in DOMAIN todo : n = 1 \/ (n - 1 \in DOMAIN Tail(todo) /\ Tail(todo)[n - 1] = todo[n])
    BY <1>1, <2>1
  <2> QED
    BY <1>1, <2>1, <2>2 DEF ToSet
<1>3. \/ tx' = tx /\ tx.tokens[t] # "absent"
      \/ \E meta \in {"known", "blank"} :
           /\ tx' = [tx EXCEPT !.tokens[t] = meta]
           /\ meta = "blank" /\ rpc => t \in answered'
  BY <1>1, Zenon DEF InsertUnread, InsertRead, Patch
<1>4. answered \subseteq answered'
  BY <1>1 DEF InsertUnread, InsertRead, Patch
<1> HIDE DEF t, isHint
<1>5. /\ IsTables(tx') /\ tx'.pools = tx.pools /\ tx'.contracts = tx.contracts
      /\ tx'.tokens[t] # "absent"
      /\ \A u \in Tokens \ {t} : tx'.tokens[u] = tx.tokens[u]
      /\ rpc /\ tx'.tokens[t] = "blank" => tx' = tx \/ t \in answered'
  <2>1. CASE tx' = tx /\ tx.tokens[t] # "absent"
    BY <1>2, <2>1
  <2>2. ASSUME NEW meta \in {"known", "blank"}, tx' = [tx EXCEPT !.tokens[t] = meta],
               meta = "blank" /\ rpc => t \in answered'
        PROVE  /\ IsTables(tx') /\ tx'.pools = tx.pools /\ tx'.contracts = tx.contracts
               /\ tx'.tokens[t] = meta /\ \A u \in Tokens \ {t} : tx'.tokens[u] = tx.tokens[u]
    <3>1. tx = [pools |-> tx.pools, tokens |-> tx.tokens, contracts |-> tx.contracts]
      BY <1>2 DEF IsTables
    <3>2. ASSUME NEW a, NEW b, NEW c
          PROVE  [[pools |-> a, tokens |-> b, contracts |-> c] EXCEPT !.tokens[t] = meta]
                   = [pools |-> a, tokens |-> [b EXCEPT ![t] = meta], contracts |-> c]
      OBVIOUS
    <3>3. tx' = [pools |-> tx.pools, tokens |-> [tx.tokens EXCEPT ![t] = meta],
                 contracts |-> tx.contracts]
      BY <2>2, <3>1, <3>2
    <3>4. /\ [tx.tokens EXCEPT ![t] = meta] \in [Tokens -> {"absent", "blank", "known"}]
          /\ [tx.tokens EXCEPT ![t] = meta][t] = meta
          /\ \A u \in Tokens \ {t} : [tx.tokens EXCEPT ![t] = meta][u] = tx.tokens[u]
      BY <1>2 DEF IsTables
    <3> QED
      BY <1>2, <3>3, <3>4 DEF IsTables
  <2> QED
    BY <1>3, <2>1, <2>2
<1>6. Shape'
  BY <1>1, <1>2, <1>5 DEF IInv, Shape, setting
<1>7. Rows'
  BY <1>1, <1>5, RowsFrame DEF IInv, setting, Past
<1>8. Directory'
  <2>1. next \in Nat \ {0} /\ log.pool \in Pools /\ UNCHANGED log
    BY <1>1, AtHand DEF IInv, log, pool, setting
  <2>2. \A u \in Tokens : tx.tokens[u] # "absent" => tx'.tokens[u] # "absent"
    BY <1>5
  <2>3. EnteredOK(stream, next, rpc, tx'.tokens)
    <3> SUFFICES ASSUME NEW l \in 1..next - 1, NEW u \in Needed(stream[l], rpc)
                 PROVE  tx'.tokens[u] # "absent"
      BY DEF EnteredOK
    <3>1. stream[l].pool \in Pools
      BY StreamFacts DEF IInv, Shape
    <3>2. u \in Tokens
      BY <3>1, NeededTokens
    <3>3. tx.tokens[u] # "absent"
      BY <1>1 DEF IInv, Directory, EnteredOK, Past
    <3> QED
      BY <2>2, <3>2, <3>3
  <2>4. \A u \in Needed(log, rpc) : tx'.tokens[u] # "absent" \/ u \in ToSet(todo')
    <3> SUFFICES ASSUME NEW u \in Needed(log, rpc), tx'.tokens[u] = "absent"
                 PROVE  u \in ToSet(todo')
      OBVIOUS
    <3>1. u \in Tokens /\ u # t
      BY <1>5, <2>1, NeededTokens
    <3>2. tx.tokens[u] = "absent"
      BY <1>5, <3>1
    <3>3. u \in ToSet(todo)
      BY <1>1, <3>2 DEF IInv, Directory, Past
    <3> QED
      BY <1>2, <3>1, <3>3
  <2> QED
    BY <1>1, <2>1, <2>3, <2>4 DEF IInv, Directory, Past, setting
<1>9. Honest'
  BY <1>1, <1>2, <1>4, <1>5 DEF IInv, Honest, setting
<1>10. Sources'
  BY <1>1, <1>5, SourcesFrame DEF IInv, Sources, Past
<1> QED
  BY <1>6, <1>7, <1>8, <1>9, <1>10 DEF IInv

LEMMA TrackKeeps ==
  ASSUME IInv, Track
  PROVE  IInv'
<1>1. /\ UNCHANGED <<setting, next, db, todo, hinted, abiId, hostAbi, sources, answered>>
      /\ tx' = [tx EXCEPT !.contracts = tx.contracts \cup {pool}]
      /\ step = "tokens" /\ todo = <<>> /\ Past /\ Past'
      /\ step' = IF log.event = "CurvePoolDeployed" /\ host THEN "abi" ELSE "done"
  BY DEF Track, Past
<1>2. /\ IsTables(tx') /\ tx'.pools = tx.pools /\ tx'.tokens = tx.tokens
      /\ tx'.contracts = tx.contracts \cup {pool}
  <2>1. IsTables(tx)
    BY DEF IInv, Shape
  <2>2. tx = [pools |-> tx.pools, tokens |-> tx.tokens, contracts |-> tx.contracts]
    BY <2>1 DEF IsTables
  <2>3. ASSUME NEW a, NEW b, NEW c, NEW d
        PROVE  [[pools |-> a, tokens |-> b, contracts |-> c] EXCEPT !.contracts = d]
                 = [pools |-> a, tokens |-> b, contracts |-> d]
    OBVIOUS
  <2>4. tx' = [pools |-> tx.pools, tokens |-> tx.tokens, contracts |-> tx.contracts \cup {pool}]
    BY <1>1, <2>2, <2>3
  <2> QED
    BY <2>1, <2>4 DEF IsTables
<1>3. Shape'
  BY <1>1, <1>2 DEF IInv, Shape, setting
<1>4. Rows'
  BY <1>1, <1>2, RowsFrame DEF IInv, setting
<1>5. Directory'
  BY <1>1, <1>2, DirectoryFrame DEF IInv, setting
<1>6. Honest'
  BY <1>1, <1>2, HonestFrame DEF IInv, setting
<1>7. Sources'
  <2>1. UNCHANGED <<stream, rpc, host, log, pool>>
    BY <1>1 DEF setting, log, pool
  <2>2. \A p : HostKnows(p)' <=> HostKnows(p)
    BY <1>1 DEF HostKnows
  <2> QED
    BY <1>1, <1>2, <2>1, <2>2 DEF IInv, Sources
<1> QED
  BY <1>3, <1>4, <1>5, <1>6, <1>7 DEF IInv

\* The host and its answers touch no table.
LEMMA TablesStand ==
  ASSUME IInv, UNCHANGED <<setting, next, db, tx, todo, answered>>,
         Past, Past', step # "tokens", step' # "tokens", step' \in {"source", "done"}
  PROVE  Shape' /\ Rows' /\ Directory' /\ Honest'
<1>1. Shape'
  BY DEF IInv, Shape, setting, Past
<1>2. Rows'
  BY RowsFrame DEF IInv, setting
<1>3. Directory'
  BY DirectoryFrame DEF IInv, setting
<1>4. Honest'
  BY HonestFrame DEF IInv, setting, Past
<1> QED
  BY <1>1, <1>2, <1>3, <1>4

LEMMA ResolveAbiKeeps ==
  ASSUME IInv, ResolveAbi
  PROVE  IInv'
<1>1. /\ UNCHANGED <<setting, next, db, tx, todo, sources, answered>>
      /\ hostAbi' = (IF abiId = 0 /\ hostAbi = 0 THEN AbiId ELSE hostAbi)
      /\ abiId' = (IF abiId = 0 THEN hostAbi' ELSE abiId)
      /\ step = "abi" /\ step' = "source" /\ Past /\ Past'
  BY DEF ResolveAbi, Past
<1>2. UNCHANGED <<stream, rpc, host, log, pool>>
  BY <1>1 DEF setting, log, pool
<1>3. \A p : HostKnows(p)' <=> HostKnows(p)
  BY <1>1 DEF HostKnows
<1>4. abiId' # 0 /\ abiId' = hostAbi' /\ (hostAbi # 0 => hostAbi' = hostAbi)
  BY <1>1, FaultAssumption DEF IInv, Sources
<1>5. Sources'
  BY <1>1, <1>2, <1>3, <1>4 DEF IInv, Sources
<1> QED
  BY <1>1, <1>5, TablesStand DEF IInv

\* The source CreateLogSource returns is the pool's, under the registered ABI.
LEMMA SourcedPool ==
  ASSUME IInv, step = "source"
  PROVE  /\ Sourced = [p \in Pools |-> Sourced[p]]
         /\ Sourced[pool] # NoSource /\ Sourced[pool].abi = hostAbi /\ hostAbi # 0
         /\ \A p \in Pools \ {pool} : Sourced[p] = sources[p]
<1>1. pool \in Pools /\ sources = [p \in Pools |-> sources[p]] /\ abiId = hostAbi /\ hostAbi # 0
  BY AtHand DEF IInv, Sources
<1>2. CASE sources[pool] # NoSource
  BY <1>1, <1>2 DEF Sourced, IInv, Sources, HostKnows
<1>3. CASE sources[pool] = NoSource
  <2> DEFINE new == [start |-> StartBlock, abi |-> abiId]
  <2>1. Sourced = [sources EXCEPT ![pool] = new]
    BY <1>3 DEF Sourced
  <2>2. new # NoSource /\ new.abi = abiId
    BY <1>1 DEF NoSource
  <2> HIDE DEF new
  <2>3. \A p \in Pools : Sourced[p] = IF p = pool THEN new ELSE sources[p]
    BY <1>1, <2>1
  <2>4. Sourced = [p \in Pools |-> Sourced[p]]
    <3>1. \A f : f = [p \in Pools |-> f[p]] =>
                [f EXCEPT ![pool] = new] = [p \in Pools |-> [f EXCEPT ![pool] = new][p]]
      OBVIOUS
    <3> QED
      BY <1>1, <2>1, <3>1
  <2> QED
    BY <1>1, <2>2, <2>3, <2>4
<1> QED
  BY <1>2, <1>3

LEMMA RegisterSourceKeeps ==
  ASSUME IInv, RegisterSource
  PROVE  IInv'
<1>1. /\ UNCHANGED <<setting, next, db, tx, todo, abiId, hostAbi, answered>>
      /\ sources' = Sourced /\ step = "source" /\ step' = "done" /\ Past /\ Past'
  BY DEF RegisterSource, Past
<1>2. UNCHANGED <<stream, rpc, host, log, pool>>
  BY <1>1 DEF setting, log, pool
<1>3. /\ sources' = [p \in Pools |-> sources'[p]]
      /\ sources'[pool] # NoSource /\ sources'[pool].abi = hostAbi /\ hostAbi # 0
      /\ \A p \in Pools \ {pool} : sources'[p] = sources[p]
  BY <1>1, SourcedPool
<1>4. Sources'
  <2>1. \A p \in Pools : sources[p] # NoSource => sources'[p] # NoSource
    BY <1>3
  <2>2. \A p \in Pools : sources'[p] # NoSource => sources'[p].abi = hostAbi' /\ hostAbi' # 0
    BY <1>1, <1>3 DEF IInv, Sources, HostKnows
  <2> QED
    BY <1>1, <1>2, <1>3, <2>1, <2>2 DEF IInv, Sources, HostKnows
<1> QED
  BY <1>1, <1>4, TablesStand DEF IInv

LEMMA CommitKeeps ==
  ASSUME IInv, Commit
  PROVE  IInv'
<1>1. /\ UNCHANGED <<setting, tx, todo, abiId, hostAbi, sources, answered>>
      /\ db' = tx /\ next' = next + 1 /\ step = "done" /\ step' = "idle" /\ Past /\ ~ Past'
  BY DEF Commit, Past
<1>2. UNCHANGED <<stream, rpc, host>>
  BY <1>1 DEF setting
<1>3. /\ next \in Nat \ {0} /\ stream[next] = log /\ log.pool = pool
      /\ next + 1 \in 1..Len(stream) + 1
  BY <1>1, AtHand DEF IInv, pool
<1>4. Shape'
  BY <1>1, <1>2, <1>3 DEF IInv, Shape
<1>5. Rows'
  BY <1>1, <1>2 DEF IInv, Rows
<1>6. Directory'
  <2>1. EnteredOK(stream, next + 1, rpc, tx.tokens)
    BY <1>1, <1>3, EnteredMore DEF IInv, Directory
  <2> QED
    BY <1>1, <1>2, <2>1 DEF Directory
<1>7. Honest'
  BY <1>1, <1>2 DEF IInv, Honest
<1>8. Sources'
  <2>1. \A p : HostKnows(p)' <=> HostKnows(p)
    BY <1>1 DEF HostKnows
  <2>2. ASSUME NEW p \in Pools, KnownBefore(stream, next + 1, rpc, p), host
        PROVE  HostKnows(p) /\ p \in tx.contracts
    <3>1. CASE KnownBefore(stream, next, rpc, p)
      BY <1>1, <2>2, <3>1 DEF IInv, Sources
    <3>2. CASE ~ KnownBefore(stream, next, rpc, p)
      <4>1. log.event = "CurvePoolDeployed" /\ pool = p /\ rpc /\ p \notin Unresolvable
        BY <1>3, <2>2, <3>2, OneMore DEF KnownBefore
      <4> QED
        BY <1>1, <2>2, <4>1 DEF IInv, Sources
    <3> QED
      BY <3>1, <3>2
  <2> QED
    BY <1>1, <1>2, <2>1, <2>2 DEF IInv, Sources
<1> QED
  BY <1>4, <1>5, <1>6, <1>7, <1>8 DEF IInv

-----------------------------------------------------------------------------
(* The failures.                                                           *)

\* What the four failures share.
LEMMA RollbackKeeps ==
  ASSUME IInv, Rollback, UNCHANGED <<setting, next, db, answered>>
  PROVE  /\ Shape' /\ Rows' /\ Directory' /\ Honest'
         /\ UNCHANGED <<stream, rpc, host>> /\ step' = "idle" /\ ~ Past'
<1>1. /\ tx' = db /\ step' = "idle" /\ todo' = <<>> /\ ~ Past'
      /\ UNCHANGED <<stream, rpc, host>>
  BY DEF Rollback, Past, setting
<1>2. Shape'
  BY <1>1 DEF IInv, Shape
<1>3. Rows'
  BY <1>1, RowsFrame DEF IInv
<1>4. Directory'
  BY <1>1, DirectoryFrame DEF IInv
<1>5. Honest'
  BY <1>1, HonestFrame DEF IInv
<1> QED
  BY <1>1, <1>2, <1>3, <1>4, <1>5

LEMMA FailKeeps ==
  ASSUME IInv, Fail \/ Restart
  PROVE  IInv'
<1>1. /\ Rollback /\ UNCHANGED <<setting, next, db, hostAbi, sources, answered>>
      /\ abiId' \in {abiId, 0}
  BY DEF Fail, Restart
<1>2. Sources'
  BY <1>1, RollbackKeeps, SourcesFrame DEF IInv
<1> QED
  BY <1>1, <1>2, RollbackKeeps DEF IInv

LEMMA LoseUpsertAbiKeeps ==
  ASSUME IInv, LoseUpsertAbi
  PROVE  IInv'
<1>1. /\ Rollback /\ UNCHANGED <<setting, next, db, abiId, sources, answered>>
      /\ abiId = 0 /\ hostAbi = 0 /\ hostAbi' = AbiId
  BY DEF LoseUpsertAbi
<1>2. \A p : HostKnows(p)' <=> HostKnows(p)
  BY <1>1 DEF HostKnows
<1>3. Sources'
  BY <1>1, <1>2, RollbackKeeps DEF IInv, Sources
<1> QED
  BY <1>1, <1>3, RollbackKeeps DEF IInv

LEMMA LoseCreateLogSourceKeeps ==
  ASSUME IInv, LoseCreateLogSource
  PROVE  IInv'
<1>1. /\ Rollback /\ UNCHANGED <<setting, next, db, abiId, hostAbi, answered>>
      /\ step = "source" /\ sources' = Sourced
  BY DEF LoseCreateLogSource
<1>2. /\ sources' = [p \in Pools |-> sources'[p]]
      /\ \A p \in Pools : HostKnows(p) => HostKnows(p)'
      /\ \A p \in Pools : HostKnows(p)' => sources'[p].abi = hostAbi /\ hostAbi # 0
  BY <1>1, SourcedPool DEF HostKnows, IInv, Sources
<1>3. Sources'
  BY <1>1, <1>2, RollbackKeeps DEF IInv, Sources
<1> QED
  BY <1>1, <1>3, RollbackKeeps DEF IInv

-----------------------------------------------------------------------------
(* The invariant holds.                                                    *)

\* The invariant holds at first, and every step keeps it.
LEMMA InitIInv == Init => IInv
<1> SUFFICES ASSUME Init PROVE IInv
  OBVIOUS
<1>1. /\ stream \in Streams /\ next = 1 /\ db = EmptyDb /\ tx = EmptyDb /\ step = "idle"
      /\ todo = <<>> /\ abiId = 0 /\ hostAbi = 0 /\ sources = [p \in Pools |-> NoSource]
      /\ rpc \in BOOLEAN /\ host \in BOOLEAN /\ ~ Past
  BY DEF Init, Past
<1>2. IsTables(EmptyDb)
  <2>1. IsRow(NoRow)
    BY DEF IsRow, NoRow
  <2> QED
    BY <2>1 DEF IsTables, EmptyDb
<1>3. \A s, event, p : ~ Before(s, 1, event, p)
  BY DEF Before
<1>4. Shape
  BY <1>1, <1>2, StreamFacts DEF Shape
<1>5. Rows
  <2>1. \A p \in Pools : RowOK(stream, 1, rpc, p, NoRow)
    BY <1>3 DEF RowOK, KnownBefore, NoRow
  <2> QED
    BY <1>1, <2>1 DEF Rows, EmptyDb
<1>6. Directory
  BY <1>1 DEF Directory, EnteredOK
<1>7. Honest
  BY <1>1 DEF Honest, EmptyDb
<1>8. Sources
  BY <1>1, <1>3 DEF Sources, HostKnows, KnownBefore
<1> QED
  BY <1>4, <1>5, <1>6, <1>7, <1>8 DEF IInv

LEMMA NextIInv == IInv /\ [Next]_vars => IInv'
<1> SUFFICES ASSUME IInv, [Next]_vars PROVE IInv'
  OBVIOUS
<1>1. CASE UNCHANGED vars
  <2>1. /\ UNCHANGED <<stream, rpc, host, next, db, tx, step, todo, abiId, hostAbi, sources>>
        /\ UNCHANGED answered
    BY <1>1 DEF vars, setting, handler
  <2>2. UNCHANGED <<log, pool>>
    BY <2>1 DEF log, pool
  <2>3. \A p : HostKnows(p)' <=> HostKnows(p)
    BY <2>1 DEF HostKnows
  <2>4. Past' <=> Past
    BY <2>1 DEF Past
  <2>5. Shape' /\ Rows'
    BY <2>1, <2>2, <2>4 DEF IInv, Shape, Rows
  <2>6. Directory' /\ Honest'
    BY <2>1, <2>2, <2>4 DEF IInv, Directory, Honest
  <2>7. Sources'
    BY <2>1, <2>2, <2>3, <2>4 DEF IInv, Sources
  <2> QED
    BY <2>5, <2>6, <2>7 DEF IInv
<1>2. CASE Progress
  BY <1>2, BeginKeeps, PassByKeeps, HandleOwnLogKeeps, RecordLinkageKeeps, NotResolvedKeeps,
     RecordPoolKeeps, EnsureTokenKeeps, TrackKeeps, ResolveAbiKeeps, RegisterSourceKeeps,
     CommitKeeps DEF Progress
<1>3. CASE Next /\ ~ Progress
  BY <1>3, FailKeeps, LoseUpsertAbiKeeps, LoseCreateLogSourceKeeps DEF Next
<1> QED
  BY <1>1, <1>2, <1>3

LEMMA AlwaysIInv == Spec => []IInv
<1>1. Init => IInv
  BY InitIInv
<1>2. IInv /\ [Next]_vars => IInv'
  BY NextIInv
<1> QED
  BY <1>1, <1>2, PTL DEF Spec

-----------------------------------------------------------------------------

\* The properties speak of the logs processed; the invariant of those before a position.
LEMMA DoneIsBefore ==
  ASSUME NEW event, NEW p
  PROVE  /\ Done(event, p) <=> Before(stream, next, event, p)
         /\ Discovered(p) <=> KnownBefore(stream, next, rpc, p)
BY DEF Done, Discovered, Before, KnownBefore

\* The row of a pool says what both of its deployment events announced, for any
\* order of the two, any other pools' logs between them and any failures: each
\* handler writes its own columns and fills what the other left NULL.
THEOREM RowHolds == Spec => []RowKeepsBoth
<1>1. IInv => RowKeepsBoth
  BY DoneIsBefore DEF IInv, Rows, RowOK, RowKeepsBoth
<1> QED
  BY <1>1, AlwaysIInv, PTL

\* Whenever a discovery is committed the host indexes the pool under the
\* registered ABI and the registry routes it, whatever calls were lost on the
\* way: registerCurvePoolSource fails the event rather than go on.
THEOREM SourceHolds == Spec => []DiscoveredIsSourced
<1>1. IInv => DiscoveredIsSourced
  BY DoneIsBefore DEF IInv, Sources, HostKnows, DiscoveredIsSourced
<1> QED
  BY <1>1, AlwaysIInv, PTL

\* A token's row is blank only where its getters were asked and answered
\* nothing: a failed read fails the event and takes the row with it.
THEOREM BlankHolds == Spec => []BlankWasAnswered
<1>1. IInv => BlankWasAnswered
  BY DEF IInv, Honest, BlankWasAnswered
<1> QED
  BY <1>1, AlwaysIInv, PTL

\* A committed deployment leaves the pool's LP token and every coin it pairs in
\* clear_tokens: ensureTokens goes through the whole list or fails the event.
THEOREM DirectoryHolds == Spec => []DirectoryComplete
<1>1. ASSUME IInv, NEW p \in Pools
      PROVE  /\ Discovered(p) => \A t \in {p} \cup ToSet(Truth[p].coins) : db.tokens[t] # "absent"
             /\ Done("PoolDeployed", p) =>
                  \A t \in {p, Truth[p].coin} \ {NoAddr} : db.tokens[t] # "absent"
  <2>1. EnteredOK(stream, next, rpc, db.tokens)
    BY <1>1 DEF IInv, Directory
  <2>2. ASSUME Discovered(p)
        PROVE  \A t \in {p} \cup ToSet(Truth[p].coins) : db.tokens[t] # "absent"
    <3>1. PICK l \in 1..next - 1 : stream[l].event = "CurvePoolDeployed" /\ stream[l].pool = p
      BY <2>2 DEF Discovered, Done
    <3>2. Needed(stream[l], rpc) = {p} \cup ToSet(Truth[p].coins)
      BY <2>2, <3>1 DEF Discovered, Needed
    <3> QED
      BY <2>1, <3>2 DEF EnteredOK
  <2>3. ASSUME Done("PoolDeployed", p)
        PROVE  \A t \in {p, Truth[p].coin} \ {NoAddr} : db.tokens[t] # "absent"
    <3>1. PICK l \in 1..next - 1 : stream[l].event = "PoolDeployed" /\ stream[l].pool = p
      BY <2>3 DEF Done
    <3>2. Needed(stream[l], rpc) = {p, Truth[p].coin} \ {NoAddr}
      BY <3>1 DEF Needed
    <3> QED
      BY <2>1, <3>2 DEF EnteredOK
  <2> QED
    BY <2>2, <2>3
<1>2. IInv => DirectoryComplete
  BY <1>1 DEF DirectoryComplete
<1> QED
  BY <1>2, AlwaysIInv, PTL
-----------------------------------------------------------------------------
(* The pools' own books.  A pool's row follows the logs the pool has        *)
(* written, so both are sums and counts over the same positions.            *)

\* The positions before n of the logs of p whose event is one of `events'.
At(s, n, events, p) == {l \in 1..n - 1 : s[l].event \in events /\ s[l].pool = p}

\* Positions of logs are finitely many.
LEMMA AtFinite ==
  ASSUME NEW s, NEW n \in Nat \ {0}, NEW events, NEW p
  PROVE  IsFiniteSet(At(s, n, events, p)) /\ Cardinality(At(s, n, events, p)) \in Nat
<1>1. At(s, n, events, p) \in SUBSET (1..n - 1)
  BY DEF At
<1>2. IsFiniteSet(1..n - 1)
  BY FS_Interval
<1> QED
  BY <1>1, <1>2, FS_Subset, FS_CardinalityType

\* A log of p of that kind adds its position, another log none.
LEMMA AtCount ==
  ASSUME NEW s, NEW n \in Nat \ {0}, NEW events, NEW p, s[n].event \in events, s[n].pool = p
  PROVE  Cardinality(At(s, n + 1, events, p)) = Cardinality(At(s, n, events, p)) + 1
<1>1. PICK A : A = At(s, n, events, p)
  OBVIOUS
<1>2. IsFiniteSet(A)
  BY <1>1, AtFinite
<1>3. n \notin A /\ At(s, n + 1, events, p) = A \cup {n}
  BY <1>1 DEF At
<1>4. Cardinality(A \cup {n}) = Cardinality(A) + 1
  BY <1>2, <1>3, FS_AddElement
<1> QED
  BY <1>1, <1>3, <1>4

\* A log of another kind or pool adds no position.
LEMMA AtSame ==
  ASSUME NEW s, NEW n \in Nat \ {0}, NEW events, NEW p, s[n].event \notin events \/ s[n].pool # p
  PROVE  At(s, n + 1, events, p) = At(s, n, events, p)
BY DEF At

\* q lists the logs of s at the positions in P, in order.
Recorded(s, P, q) ==
  /\ Len(q) = Cardinality(P)
  /\ \A l \in P : q[Cardinality({k \in P : k <= l})] = <<s[l].event, s[l].supply>>

\* A list stays one when the next position is added to both.
LEMMA RecordedMore ==
  ASSUME NEW s, NEW n \in Nat \ {0}, NEW P, P \subseteq 1..n - 1, NEW E, NEW q \in Seq(E),
         Recorded(s, P, q), NEW e \in E, e = <<s[n].event, s[n].supply>>
  PROVE  Recorded(s, P \cup {n}, Append(q, e))
<1> DEFINE Q == P \cup {n}
<1>1. IsFiniteSet(P) /\ n \notin P
  <2>1. PICK top \in Int : top = n - 1
    OBVIOUS
  <2>2. IsFiniteSet(P)
    <3>1. PICK N : N = 1..top
      OBVIOUS
    <3>2. IsFiniteSet(N)
      BY <3>1, FS_Interval
    <3>3. P \subseteq N
      BY <2>1, <3>1
    <3> QED
      BY <3>2, <3>3, FS_Subset, Zenon
  <2>3. n \notin 1..n - 1
    OBVIOUS
  <2> QED
    BY <2>2, <2>3
<1>2. Cardinality(Q) = Cardinality(P) + 1 /\ Cardinality(P) \in Nat
  BY <1>1, FS_AddElement, FS_CardinalityType
<1>3. Len(q) = Cardinality(P) /\ \A l \in P : q[Cardinality({k \in P : k <= l})] = <<s[l].event, s[l].supply>>
  BY DEF Recorded
<1>4. PICK r : r = Append(q, e)
  OBVIOUS
<1>5. Len(r) = Len(q) + 1 /\ r[Len(q) + 1] = e /\ \A i \in 1..Len(q) : r[i] = q[i]
  BY <1>4
<1>6. ASSUME NEW l \in Q
      PROVE  r[Cardinality({k \in Q : k <= l})] = <<s[l].event, s[l].supply>>
  <2>1. CASE l = n
    <3>1. \A k \in Q : k <= n
      OBVIOUS
    <3> QED
      BY <1>2, <1>3, <1>5, <2>1, <3>1
  <2>2. CASE l # n
    <3> DEFINE K == {k \in P : k <= l}
    <3>1. l \in P /\ l < n
      BY <2>2
    <3>2. {k \in Q : k <= l} = K
      BY <3>1
    <3>3. K \subseteq P /\ l \in K
      BY <3>1
    <3>4. Cardinality(K) \in 1..Len(q)
      <4>1. IsFiniteSet(K) /\ Cardinality(K) <= Cardinality(P) /\ Cardinality(K) \in Nat
        BY <1>1, <3>3, FS_Subset, FS_CardinalityType
      <4>2. Cardinality(K) # 0
        BY <3>3, <4>1, FS_EmptySet
      <4> QED
        BY <1>2, <1>3, <4>1, <4>2
    <3>5. r[Cardinality(K)] = q[Cardinality(K)]
      BY <1>5, <3>4
    <3>6. q[Cardinality(K)] = <<s[l].event, s[l].supply>>
      BY <1>3, <3>1
    <3> QED
      BY <3>2, <3>5, <3>6
  <2> QED
    BY <2>1, <2>2
<1>7. Len(r) = Cardinality(Q)
  BY <1>2, <1>3, <1>5
<1> QED
  BY <1>4, <1>6, <1>7 DEF Recorded

\* A sum over the first n of N positions.
Prefix(f, N, n) == SumFunction([k \in 1..N |-> IF k <= n THEN f[k] ELSE 0])

\* n is one of the positions of the sequence f of N numbers.
PositionIn(n, f, N) == N \in Nat /\ f \in [1..N -> Int] /\ n \in 1..N

\* A prefix grows by one term.
LEMMA PrefixNext ==
  ASSUME NEW N, NEW f, NEW n, PositionIn(n, f, N)
  PROVE  /\ Prefix(f, N, n) \in Int /\ Prefix(f, N, n - 1) \in Int
         /\ Prefix(f, N, n) = Prefix(f, N, n - 1) + f[n]
<1>1. N \in Nat /\ f \in [1..N -> Int] /\ n \in 1..N
  BY DEF PositionIn
<1>2. PICK S, g, h : /\ S = 1..N
                     /\ g = [k \in 1..N |-> IF k <= n THEN f[k] ELSE 0]
                     /\ h = [k \in 1..N |-> IF k <= n - 1 THEN f[k] ELSE 0]
  OBVIOUS
<1>3. g \in [S -> Int] /\ h \in [S -> Int]
  <2>1. \A k \in 1..N : /\ (IF k <= n THEN f[k] ELSE 0) \in Int
                        /\ (IF k <= n - 1 THEN f[k] ELSE 0) \in Int
    BY <1>1
  <2>2. g \in [1..N -> Int]
    BY <1>2, <2>1
  <2>3. h \in [1..N -> Int]
    BY <1>2, <2>1
  <2> QED
    BY <1>2, <2>2, <2>3
<1>4. IsFiniteSet(S) /\ n \in S
  BY <1>1, <1>2, FS_Interval
<1>5. \A y \in S : y # n => g[y] = h[y]
  <2>1. \A k \in 1..N : g[k] = IF k <= n THEN f[k] ELSE 0
    BY <1>2
  <2>2. \A k \in 1..N : h[k] = IF k <= n - 1 THEN f[k] ELSE 0
    BY <1>2
  <2>3. \A k \in 1..N : k # n => (k <= n <=> k <= n - 1)
    BY <1>1
  <2>4. \A k \in 1..N : k # n => g[k] = h[k]
    BY <2>1, <2>2, <2>3, Zenon
  <2> QED
    BY <1>2, <2>4, Zenon
<1>6. SumFunction(g) = SumFunction(h) + g[n] - h[n]
  BY <1>3, <1>4, <1>5, SumChange
<1>7. SumFunction(g) \in Int /\ SumFunction(h) \in Int
  BY <1>3, <1>4, SumType
<1>8. g[n] = f[n] /\ h[n] = 0 /\ f[n] \in Int
  BY <1>1, <1>2
<1>9. Prefix(f, N, n) = SumFunction(g) /\ Prefix(f, N, n - 1) = SumFunction(h)
  BY <1>2 DEF Prefix
<1> QED
  BY <1>6, <1>7, <1>8, <1>9

\* From f to g the value v is moved between two holders, or minted or burned.
Shifted(f, g, S, from, to, v) ==
  \A h \in S : g[h] = f[h] + (IF h = to THEN v ELSE 0) - (IF h = from THEN v ELSE 0)

\* What a mint or a burn issues.
Issued(from, to, none, v) == (IF from = none THEN v ELSE 0) - (IF to = none THEN v ELSE 0)

\* What a value moved between two holders, or minted or burned, does to the sum.
LEMMA SumMoved ==
  ASSUME NEW S, IsFiniteSet(S), NEW none, none \notin S, NEW f \in [S -> Int], NEW g \in [S -> Int],
         NEW from \in S \cup {none}, NEW to \in S \cup {none}, NEW v \in Int,
         Shifted(f, g, S, from, to, v)
  PROVE  SumFunction(g) = SumFunction(f) + Issued(from, to, none, v)
<1>1. PICK m \in [S -> Int] : \A h \in S : m[h] = f[h] + (IF h = to THEN v ELSE 0)
  <2> DEFINE k == [h \in S |-> f[h] + (IF h = to THEN v ELSE 0)]
  <2>1. k \in [S -> Int] /\ \A h \in S : k[h] = f[h] + (IF h = to THEN v ELSE 0)
    OBVIOUS
  <2> HIDE DEF k
  <2> QED
    BY <2>1
<1>2. SumFunction(m) = SumFunction(f) + (IF to = none THEN 0 ELSE v)
  <2>1. CASE to = none
    <3>1. \A h \in S : m[h] = f[h]
      BY <1>1, <2>1
    <3>2. m = f
      BY <3>1
    <3> QED
      BY <2>1, <3>2, SumType
  <2>2. CASE to # none
    <3>1. PICK x \in S : x = to
      BY <2>2
    <3>2. m[x] = f[x] + v
      BY <1>1, <3>1
    <3>3. SumFunction(m) = SumFunction(f) + m[x] - f[x]
      <4>1. \A y \in S : y # x => m[y] = f[y]
        BY <1>1, <3>1
      <4> QED
        BY <4>1, SumChange
    <3>4. SumFunction(f) \in Int /\ f[x] \in Int
      BY SumType
    <3> QED
      BY <2>2, <3>2, <3>3, <3>4
  <2> QED
    BY <2>1, <2>2
<1>3. SumFunction(g) = SumFunction(m) - (IF from = none THEN 0 ELSE v)
  <2>1. \A h \in S : g[h] = m[h] - (IF h = from THEN v ELSE 0)
    BY <1>1 DEF Shifted
  <2>2. CASE from = none
    <3>1. \A h \in S : g[h] = m[h]
      BY <2>1, <2>2
    <3>2. g = m
      BY <3>1
    <3> QED
      BY <2>2, <3>2, SumType
  <2>3. CASE from # none
    <3>1. PICK x \in S : x = from
      BY <2>3
    <3>2. g[x] = m[x] - v
      BY <2>1, <3>1
    <3>3. SumFunction(g) = SumFunction(m) + g[x] - m[x]
      <4>1. \A y \in S : y # x => g[y] = m[y]
        BY <2>1, <3>1
      <4> QED
        BY <4>1, SumChange
    <3>4. SumFunction(m) \in Int /\ m[x] \in Int
      BY SumType
    <3> QED
      BY <2>3, <3>2, <3>3, <3>4
  <2> QED
    BY <2>2, <2>3
<1>4. SumFunction(f) \in Int
  BY SumType
<1> QED
  BY <1>2, <1>3, <1>4 DEF Issued

\* What a log moves is an amount.
LEMMA Amounts ==
  ASSUME NEW s \in Streams, NEW k \in 1..Len(s), NEW p
  PROVE  Minted(s[k], p) \in Int /\ \A h : Received(s[k], p, h) \in Int
<1>1. s[k].event = "Transfer" => s[k].value \in Int
  BY PoolLogs
<1> QED
  BY <1>1 DEF Minted, Received

\* The pool's books, one log further.
LEMMA SupplyNext ==
  ASSUME NEW s \in Streams, NEW p, NEW n \in 1..Len(s)
  PROVE  /\ SupplyAt(s, p, n) \in Int /\ SupplyAt(s, p, n - 1) \in Int
         /\ SupplyAt(s, p, n) = SupplyAt(s, p, n - 1) + Minted(s[n], p)
<1>1. PICK N \in Nat : N = Len(s)
  BY StreamFacts
<1>2. PICK f \in [1..N -> Int] : f = [k \in 1..N |-> Minted(s[k], p)]
  <2>1. \A k \in 1..N : Minted(s[k], p) \in Int
    BY <1>1, Amounts
  <2>2. [k \in 1..N |-> Minted(s[k], p)] \in [1..N -> Int]
    BY <2>1
  <2> QED
    BY <2>2
<1>3. \A i : SupplyAt(s, p, i) = Prefix(f, N, i)
  <2> SUFFICES ASSUME NEW i PROVE SupplyAt(s, p, i) = Prefix(f, N, i)
    OBVIOUS
  <2>1. \A k \in 1..N : f[k] = Minted(s[k], p)
    BY <1>2
  <2>2. [k \in 1..N |-> IF k <= i THEN f[k] ELSE 0] = [k \in 1..N |-> IF k <= i THEN Minted(s[k], p) ELSE 0]
    BY <2>1
  <2> QED
    BY <1>1, <2>2 DEF SupplyAt, Prefix
<1>4. /\ Prefix(f, N, n) \in Int /\ Prefix(f, N, n - 1) \in Int
      /\ Prefix(f, N, n) = Prefix(f, N, n - 1) + f[n]
  <2>1. PositionIn(n, f, N)
    BY <1>1 DEF PositionIn
  <2> QED
    BY <2>1, PrefixNext
<1>5. f[n] = Minted(s[n], p)
  BY <1>1, <1>2
<1> QED
  BY <1>3, <1>4, <1>5

\* A holder's balance at the pool grows by what the log moves.
LEMMA BalanceNext ==
  ASSUME NEW s \in Streams, NEW p, NEW h \in Holders, NEW n \in 1..Len(s)
  PROVE  /\ BalanceAt(s, p, h, n) \in Int /\ BalanceAt(s, p, h, n - 1) \in Int
         /\ BalanceAt(s, p, h, n) = BalanceAt(s, p, h, n - 1) + Received(s[n], p, h)
<1>1. PICK N \in Nat : N = Len(s)
  BY StreamFacts
<1>2. PICK f \in [1..N -> Int] : f = [k \in 1..N |-> Received(s[k], p, h)]
  <2>1. \A k \in 1..N : Received(s[k], p, h) \in Int
    BY <1>1, Amounts
  <2>2. [k \in 1..N |-> Received(s[k], p, h)] \in [1..N -> Int]
    BY <2>1
  <2> QED
    BY <2>2
<1>3. \A i : BalanceAt(s, p, h, i) = Prefix(f, N, i)
  <2> SUFFICES ASSUME NEW i PROVE BalanceAt(s, p, h, i) = Prefix(f, N, i)
    OBVIOUS
  <2>1. \A k \in 1..N : f[k] = Received(s[k], p, h)
    BY <1>2
  <2>2. [k \in 1..N |-> IF k <= i THEN f[k] ELSE 0] = [k \in 1..N |-> IF k <= i THEN Received(s[k], p, h) ELSE 0]
    BY <2>1
  <2> QED
    BY <1>1, <2>2 DEF BalanceAt, Prefix
<1>4. /\ Prefix(f, N, n) \in Int /\ Prefix(f, N, n - 1) \in Int
      /\ Prefix(f, N, n) = Prefix(f, N, n - 1) + f[n]
  <2>1. PositionIn(n, f, N)
    BY <1>1 DEF PositionIn
  <2> QED
    BY <2>1, PrefixNext
<1>5. f[n] = Received(s[n], p, h)
  BY <1>1, <1>2
<1> QED
  BY <1>3, <1>4, <1>5

\* A log that moves nothing of p leaves its books.
LEMMA NoneMoved ==
  ASSUME NEW s \in Streams, NEW p, NEW n \in 1..Len(s),
         s[n].event # "Transfer" \/ s[n].pool # p \/ s[n].value = 0
  PROVE  /\ SupplyAt(s, p, n) = SupplyAt(s, p, n - 1)
         /\ \A h \in Holders : BalanceAt(s, p, h, n) = BalanceAt(s, p, h, n - 1)
<1>1. Minted(s[n], p) = 0 /\ \A h : Received(s[n], p, h) = 0
  BY DEF Minted, Received
<1>2. SupplyAt(s, p, n) = SupplyAt(s, p, n - 1)
  BY <1>1, SupplyNext
<1>3. ASSUME NEW h \in Holders PROVE BalanceAt(s, p, h, n) = BalanceAt(s, p, h, n - 1)
  BY <1>1, BalanceNext
<1> QED
  BY <1>2, <1>3

\* Before any log the pool has issued nothing.
LEMMA NoneYet ==
  ASSUME NEW s \in Streams, NEW p
  PROVE  SupplyAt(s, p, 0) = 0 /\ \A h \in Holders : BalanceAt(s, p, h, 0) = 0
<1>1. PICK N \in Nat : N = Len(s)
  BY StreamFacts
<1>2. PICK z \in [1..N -> Int] : z = [k \in 1..N |-> 0]
  <2>1. [k \in 1..N |-> 0] \in [1..N -> Int]
    OBVIOUS
  <2> QED
    BY <2>1
<1>3. SumFunction(z) = 0
  <2>1. IsFiniteSet(1..N) /\ \A k \in 1..N : z[k] = 0
    BY <1>2, FS_Interval
  <2> QED
    BY <2>1, SumZero
<1>4. \A k \in 1..N : ~ (k <= 0)
  OBVIOUS
<1>5. SupplyAt(s, p, 0) = 0
  <2>1. [k \in 1..N |-> IF k <= 0 THEN Minted(s[k], p) ELSE 0] = z
    BY <1>2, <1>4
  <2> QED
    BY <1>1, <1>3, <2>1 DEF SupplyAt
<1>6. ASSUME NEW h \in Holders PROVE BalanceAt(s, p, h, 0) = 0
  <2>1. [k \in 1..N |-> IF k <= 0 THEN Received(s[k], p, h) ELSE 0] = z
    BY <1>2, <1>4
  <2> QED
    BY <1>1, <1>3, <2>1 DEF BalanceAt
<1> QED
  BY <1>5, <1>6

\* The rows a liquidity history may hold.
Entries(s) == {<<s[l].event, s[l].supply>> : l \in 1..Len(s)}

\* The row of p is a book of the logs of p before n.
Kept(s, n, p, row) ==
  /\ row.swaps = Cardinality(At(s, n, Exchanges, p))
  /\ Recorded(s, At(s, n, Provisions, p), row.liquidity)
  /\ row.supply = SupplyAt(s, p, n - 1)
  /\ \A h \in Holders : row.balances[h] = BalanceAt(s, p, h, n - 1)

\* m says that the host API and an endpoint are there: a pool that can be
\* resolved then has its logs in its row, any other has no log delivered.
Book(s, n, m, p, row) ==
  /\ row.balances \in [Holders -> Int] /\ row.liquidity \in Seq(Entries(s))
  /\ row.supply \in Int /\ row.supply = SumFunction(row.balances)
  /\ IF m /\ p \notin Unresolvable THEN Kept(s, n, p, row)
                                   ELSE \A h \in Holders : row.balances[h] = 0

\* A row with the same columns is as good a book.
LEMMA BookColumns ==
  ASSUME NEW s, NEW n, NEW m, NEW p, NEW row, Book(s, n, m, p, row), NEW new,
         new.swaps = row.swaps, new.supply = row.supply, new.balances = row.balances,
         new.liquidity = row.liquidity
  PROVE  Book(s, n, m, p, new)
BY DEF Book, Kept

\* A log that is not p's, or moves nothing, leaves its book complete.
LEMMA BookSame ==
  ASSUME NEW s \in Streams, NEW n \in 1..Len(s), NEW m, NEW p, NEW row, Book(s, n, m, p, row),
         \/ s[n].pool # p \/ s[n].event \notin OwnEvents \/ ~ m \/ p \in Unresolvable
         \/ s[n].event = "Transfer" /\ s[n].value = 0
  PROVE  Book(s, n + 1, m, p, row)
<1>1. CASE ~ (m /\ p \notin Unresolvable)
  BY <1>1 DEF Book
<1>2. CASE m /\ p \notin Unresolvable
  <2>1. ~ (s[n].event \in Exchanges /\ s[n].pool = p) /\ ~ (s[n].event \in Provisions /\ s[n].pool = p)
    BY <1>2 DEF OwnEvents, Exchanges, Provisions
  <2>2. s[n].event # "Transfer" \/ s[n].pool # p \/ s[n].value = 0
    BY <1>2 DEF OwnEvents
  <2>3. n \in Nat \ {0} /\ (n + 1) - 1 = n
    BY StreamFacts
  <2>4. /\ At(s, n + 1, Exchanges, p) = At(s, n, Exchanges, p)
        /\ At(s, n + 1, Provisions, p) = At(s, n, Provisions, p)
    BY <2>1, <2>3, AtSame
  <2>5. /\ SupplyAt(s, p, n) = SupplyAt(s, p, n - 1)
        /\ \A h \in Holders : BalanceAt(s, p, h, n) = BalanceAt(s, p, h, n - 1)
    BY <2>2, NoneMoved
  <2>6. Kept(s, n, p, row)
    BY <1>2 DEF Book
  <2>7. Kept(s, n + 1, p, row)
    BY <2>3, <2>4, <2>5, <2>6 DEF Kept
  <2> QED
    BY <1>2, <2>7 DEF Book
<1> QED
  BY <1>1, <1>2

\* A log that is p's is entered in its book.
LEMMA BookSwap ==
  ASSUME NEW s \in Streams, NEW n \in 1..Len(s), NEW m, m, NEW p, p \notin Unresolvable, NEW row,
         Book(s, n, m, p, row), s[n].pool = p, s[n].event \in Exchanges,
         NEW new, new.swaps = row.swaps + 1, new.supply = row.supply,
         new.balances = row.balances, new.liquidity = row.liquidity
  PROVE  Book(s, n + 1, m, p, new)
<1>1. n \in Nat \ {0} /\ (n + 1) - 1 = n
  BY StreamFacts
<1>2. s[n].event \notin Provisions /\ s[n].event # "Transfer"
  BY DEF Exchanges, Provisions
<1>3. /\ Cardinality(At(s, n + 1, Exchanges, p)) = Cardinality(At(s, n, Exchanges, p)) + 1
      /\ At(s, n + 1, Provisions, p) = At(s, n, Provisions, p)
  BY <1>1, <1>2, AtCount, AtSame
<1>4. /\ SupplyAt(s, p, n) = SupplyAt(s, p, n - 1)
      /\ \A h \in Holders : BalanceAt(s, p, h, n) = BalanceAt(s, p, h, n - 1)
  BY <1>2, NoneMoved
<1>5. Kept(s, n, p, row)
  BY DEF Book
<1>6. Kept(s, n + 1, p, new)
  BY <1>1, <1>3, <1>4, <1>5 DEF Kept
<1> QED
  BY <1>6 DEF Book

\* A liquidity event adds its row.
LEMMA BookProvision ==
  ASSUME NEW s \in Streams, NEW n \in 1..Len(s), NEW m, m, NEW p, p \notin Unresolvable, NEW row,
         Book(s, n, m, p, row), s[n].pool = p, s[n].event \in Provisions,
         NEW new, new.swaps = row.swaps, new.supply = row.supply, new.balances = row.balances,
         new.liquidity = Append(row.liquidity, <<s[n].event, s[n].supply>>)
  PROVE  Book(s, n + 1, m, p, new)
<1>1. n \in Nat \ {0} /\ (n + 1) - 1 = n
  BY StreamFacts
<1>2. s[n].event \notin Exchanges /\ s[n].event # "Transfer"
  BY DEF Exchanges, Provisions
<1>3. PICK P : P = At(s, n, Provisions, p)
  OBVIOUS
<1>4. At(s, n + 1, Exchanges, p) = At(s, n, Exchanges, p)
  BY <1>1, <1>2, AtSame
<1>5. At(s, n + 1, Provisions, p) = P \cup {n}
  BY <1>1, <1>3 DEF At
<1>6. /\ SupplyAt(s, p, n) = SupplyAt(s, p, n - 1)
      /\ \A h \in Holders : BalanceAt(s, p, h, n) = BalanceAt(s, p, h, n - 1)
  BY <1>2, NoneMoved
<1>7. Kept(s, n, p, row)
  BY DEF Book
<1>8. PICK e \in Entries(s) : e = <<s[n].event, s[n].supply>>
  BY DEF Entries
<1>9. PICK q \in Seq(Entries(s)) : q = row.liquidity
  BY DEF Book
<1>10. Recorded(s, P \cup {n}, Append(q, e)) /\ Append(q, e) \in Seq(Entries(s))
  <2>1. P \subseteq 1..n - 1
    BY <1>3 DEF At
  <2>2. Recorded(s, P, q)
    BY <1>3, <1>7, <1>9 DEF Kept
  <2>3. Recorded(s, P \cup {n}, Append(q, e))
    BY <1>1, <1>8, <2>1, <2>2, RecordedMore
  <2> QED
    BY <2>3
<1>11. Kept(s, n + 1, p, new)
  BY <1>1, <1>4, <1>5, <1>6, <1>7, <1>8, <1>9, <1>10 DEF Kept
<1> QED
  BY <1>8, <1>9, <1>10, <1>11 DEF Book

\* From row to new the Transfer l of p is entered.
Entered(row, new, l, p) ==
  /\ new.swaps = row.swaps /\ new.liquidity = row.liquidity
  /\ new.balances \in [Holders -> Int]
  /\ \A h \in Holders : new.balances[h] = row.balances[h] + Received(l, p, h)
  /\ new.supply = row.supply + Minted(l, p)

\* A Transfer moves the row's balances and supply as it does the pool's.
LEMMA BookTransfer ==
  ASSUME NEW s \in Streams, NEW n \in 1..Len(s), NEW m, m, NEW p, p \notin Unresolvable, NEW row,
         Book(s, n, m, p, row), s[n].pool = p, s[n].event = "Transfer",
         NEW new, Entered(row, new, s[n], p)
  PROVE  Book(s, n + 1, m, p, new)
<1>1. n \in Nat \ {0} /\ (n + 1) - 1 = n
  BY StreamFacts
<1>2. s[n].event \notin Exchanges /\ s[n].event \notin Provisions
  BY DEF Exchanges, Provisions
<1>3. /\ At(s, n + 1, Exchanges, p) = At(s, n, Exchanges, p)
      /\ At(s, n + 1, Provisions, p) = At(s, n, Provisions, p)
  BY <1>1, <1>2, AtSame
<1>4. Kept(s, n, p, row)
  BY DEF Book
<1>5. new.supply = SupplyAt(s, p, n) /\ new.supply \in Int
  BY <1>4, SupplyNext, Amounts DEF Kept, Entered
<1>6. ASSUME NEW h \in Holders PROVE new.balances[h] = BalanceAt(s, p, h, n)
  <2>1. row.balances[h] = BalanceAt(s, p, h, n - 1)
    BY <1>4 DEF Kept
  <2>2. BalanceAt(s, p, h, n) = BalanceAt(s, p, h, n - 1) + Received(s[n], p, h)
    BY BalanceNext
  <2> QED
    BY <2>1, <2>2 DEF Entered
<1>7. Kept(s, n + 1, p, new)
  BY <1>1, <1>3, <1>4, <1>5, <1>6 DEF Kept, Entered
<1>8. new.supply = SumFunction(new.balances)
  <2>1. PICK f \in [Holders -> Int], g \in [Holders -> Int] : f = row.balances /\ g = new.balances
    BY DEF Book, Entered
  <2>2. PICK v \in Int, from \in Holders \cup {NoAddr}, to \in Holders \cup {NoAddr} :
           v = s[n].value /\ from = s[n].from /\ to = s[n].to
    BY PoolLogs
  <2>3. Shifted(f, g, Holders, from, to, v)
    <3> SUFFICES ASSUME NEW h \in Holders
                 PROVE  g[h] = f[h] + (IF h = to THEN v ELSE 0) - (IF h = from THEN v ELSE 0)
      BY DEF Shifted
    <3>1. g[h] = f[h] + Received(s[n], p, h)
      BY <2>1 DEF Entered
    <3>2. Received(s[n], p, h) = (IF h = to THEN v ELSE 0) - (IF h = from THEN v ELSE 0)
      BY <2>2 DEF Received
    <3>3. f[h] \in Int
      OBVIOUS
    <3> QED
      BY <3>1, <3>2, <3>3
  <2>4. SumFunction(g) = SumFunction(f) + Issued(from, to, NoAddr, v)
    <3>1. IsFiniteSet(Holders) /\ NoAddr \notin Holders
      BY PoolLogs
    <3> QED
      BY <2>3, <3>1, SumMoved
  <2>5. Minted(s[n], p) = Issued(from, to, NoAddr, v)
    BY <2>2 DEF Minted, Issued
  <2>6. row.supply \in Int /\ row.supply = SumFunction(f)
    BY <2>1 DEF Book
  <2> QED
    BY <2>1, <2>4, <2>5, <2>6 DEF Entered
<1>9. new.liquidity \in Seq(Entries(s)) /\ new.balances \in [Holders -> Int]
  BY DEF Book, Entered
<1> QED
  BY <1>5, <1>7, <1>8, <1>9 DEF Book

\* The host API and an endpoint are there.
Means == host /\ rpc

\* handleCurveSwap, handleCurveLiquidity and handleTransfer enter a pool's own log.
LEMMA OwnLogEntered ==
  ASSUME Shape, next <= Len(stream), OwnLog, Means, pool \notin Unresolvable,
         NEW row, IsRow(row), Book(stream, next, Means, pool, row),
         NEW new, IsRow(new),
         new = (CASE log.event \in Exchanges  -> Swapped(row)
                  [] log.event \in Provisions -> Provided(row)
                  [] log.event = "Transfer"   -> Transferred(row)),
         NEW put, put = [new EXCEPT !.exists = TRUE]
  PROVE  Book(stream, next + 1, Means, pool, put)
<1>1. /\ stream \in Streams /\ next \in 1..Len(stream) /\ log = stream[next]
      /\ stream[next].pool = pool
  BY StreamFacts DEF Shape, log, pool
<1>2. /\ put.swaps = new.swaps /\ put.supply = new.supply /\ put.balances = new.balances
      /\ put.liquidity = new.liquidity
  BY DEF IsRow
<1>3. CASE log.event \in Exchanges
  <2>1. log.event \notin Provisions /\ log.event # "Transfer"
    BY <1>3 DEF Exchanges, Provisions
  <2>2. new = Swapped(row)
    BY <1>3, <2>1
  <2>3. /\ new.swaps = row.swaps + 1 /\ new.supply = row.supply /\ new.balances = row.balances
        /\ new.liquidity = row.liquidity
    BY <2>2 DEF Swapped, IsRow
  <2>4. /\ put.swaps = row.swaps + 1 /\ put.supply = row.supply /\ put.balances = row.balances
        /\ put.liquidity = row.liquidity /\ stream[next].event \in Exchanges
    BY <1>1, <1>2, <1>3, <2>3
  <2> QED
    BY <1>1, <2>4, BookSwap
<1>4. CASE log.event \in Provisions
  <2>1. log.event \notin Exchanges /\ log.event # "Transfer"
    BY <1>4 DEF Exchanges, Provisions
  <2>2. new = Provided(row)
    BY <1>4, <2>1
  <2>3. /\ new.swaps = row.swaps /\ new.supply = row.supply /\ new.balances = row.balances
        /\ new.liquidity = Append(row.liquidity, <<log.event, log.supply>>)
    BY <2>2 DEF Provided, IsRow
  <2>4. /\ put.swaps = row.swaps /\ put.supply = row.supply /\ put.balances = row.balances
        /\ put.liquidity = Append(row.liquidity, <<stream[next].event, stream[next].supply>>)
        /\ stream[next].event \in Provisions
    BY <1>1, <1>2, <1>4, <2>3
  <2> QED
    BY <1>1, <2>4, BookProvision
<1>5. CASE log.event = "Transfer"
  <2>1. log.event \notin Exchanges /\ log.event \notin Provisions
    BY <1>5 DEF Exchanges, Provisions
  <2>2. new = Transferred(row)
    BY <1>5, <2>1
  <2>3. PICK moved : moved = [h \in Holders |-> row.balances[h] + (IF h = log.to THEN log.value ELSE 0)
                                                                - (IF h = log.from THEN log.value ELSE 0)]
    OBVIOUS
  <2>4. /\ new.swaps = row.swaps /\ new.liquidity = row.liquidity /\ new.balances = moved
        /\ new.supply = row.supply + (IF log.from = NoAddr THEN log.value ELSE 0)
                                   - (IF log.to = NoAddr THEN log.value ELSE 0)
    BY <2>2, <2>3 DEF Transferred, IsRow
  <2>5. log.value \in Int /\ row.supply \in Int /\ row.balances \in [Holders -> Int]
    BY <1>1, <1>5, PoolLogs DEF Book
  <2>6. new.supply = row.supply + Minted(log, pool)
    BY <1>1, <1>5, <2>4, <2>5 DEF Minted
  <2>7. ASSUME NEW h \in Holders
        PROVE  moved[h] = row.balances[h] + Received(log, pool, h) /\ moved[h] \in Int
    <3>1. moved[h] = row.balances[h] + (IF h = log.to THEN log.value ELSE 0)
                                     - (IF h = log.from THEN log.value ELSE 0)
      BY <2>3
    <3>2. Received(log, pool, h) = (IF log.to = h THEN log.value ELSE 0)
                                   - (IF log.from = h THEN log.value ELSE 0)
      BY <1>1, <1>5 DEF Received
    <3>3. row.balances[h] \in Int
      BY <2>5
    <3> QED
      BY <2>5, <3>1, <3>2, <3>3
  <2>8. moved \in [Holders -> Int]
    BY <2>3, <2>7
  <2>9. Entered(row, put, stream[next], pool)
    BY <1>1, <1>2, <2>4, <2>6, <2>7, <2>8 DEF Entered
  <2> QED
    BY <1>1, <1>5, <2>9, BookTransfer
<1> QED
  BY <1>3, <1>4, <1>5 DEF OwnLog, OwnEvents

-----------------------------------------------------------------------------
(* The books of the state, and the sources they are filled from.           *)

Books ==
  /\ \A p \in Pools : Book(stream, next, Means, p, db.pools[p])
  /\ Past => \A p \in Pools : Book(stream, next + 1, Means, p, tx.pools[p])

\* A source is of a pool that is resolved, from the block of its deployment.
Resolved(p) == rpc /\ host /\ p \notin Unresolvable

StartsAt(p, l) ==
  /\ l <= Len(stream) /\ stream[l].event = "CurvePoolDeployed" /\ stream[l].pool = p
  /\ sources[p].start = stream[l].block

Origin ==
  /\ \A p \in Pools : HostKnows(p) => Resolved(p) /\ \E l \in 1..next : StartsAt(p, l)
  /\ step = "claimed" /\ OwnLog => HostKnows(pool)
  /\ step = "tokens" /\ log.event = "CurvePoolDeployed" => rpc /\ pool \notin Unresolvable
  /\ step \in {"abi", "source"} => log.event = "CurvePoolDeployed" /\ Resolved(pool)

Values ==
  /\ step \in {"idle", "claimed"} => tx = db
  /\ hinted \in BOOLEAN
  /\ \A tables \in {db, tx} :
       /\ tables.contracts \subseteq Pools
       /\ \A p \in Pools : tables.pools[p].coins \in {<<>>, Truth[p].coins}
  /\ hostAbi \in {0, AbiId} /\ answered \subseteq Tokens /\ faults \in 0..MaxFaults

BookInv == IInv /\ Books /\ Origin /\ Values

-----------------------------------------------------------------------------
(* What a step that leaves a part of the state alone preserves.            *)

LEMMA BooksFrame ==
  ASSUME Books, UNCHANGED <<setting, next, db>>, Past' => Past /\ tx'.pools = tx.pools
  PROVE  Books'
<1>1. UNCHANGED <<stream, rpc, host>> /\ (Means' <=> Means)
  BY DEF setting, Means
<1> QED
  BY <1>1 DEF Books

\* A deployment's handler opens the log's transaction: the books are as they were.
LEMMA BooksOpen ==
  ASSUME Shape, Books, UNCHANGED <<setting, next, db>>, step = "claimed", ~ OwnLog,
         \A p \in Pools :
           /\ tx'.pools[p].swaps = db.pools[p].swaps /\ tx'.pools[p].supply = db.pools[p].supply
           /\ tx'.pools[p].balances = db.pools[p].balances
           /\ tx'.pools[p].liquidity = db.pools[p].liquidity
  PROVE  Books'
<1>1. UNCHANGED <<stream, rpc, host>> /\ (Means' <=> Means)
  BY DEF setting, Means
<1>2. stream \in Streams /\ next \in 1..Len(stream) /\ stream[next].event \notin OwnEvents
  BY StreamFacts DEF Shape, OwnLog, log
<1>3. ASSUME NEW p \in Pools PROVE Book(stream, next + 1, Means, p, tx'.pools[p])
  <2>1. Book(stream, next, Means, p, db.pools[p])
    BY DEF Books
  <2>2. Book(stream, next + 1, Means, p, db.pools[p])
    BY <1>2, <2>1, BookSame
  <2> QED
    BY <2>2, BookColumns
<1> QED
  BY <1>1, <1>3 DEF Books

LEMMA OriginFrame ==
  ASSUME Origin, UNCHANGED <<setting, next, sources>>,
         step' = "claimed" => (OwnLog => HostKnows(pool)),
         step' = "tokens" => (log.event = "CurvePoolDeployed" => rpc /\ pool \notin Unresolvable),
         step' \in {"abi", "source"} => log.event = "CurvePoolDeployed" /\ Resolved(pool)
  PROVE  Origin'
<1>1. UNCHANGED <<stream, rpc, host, log, pool>> /\ (OwnLog' <=> OwnLog)
  BY DEF setting, log, pool, OwnLog
<1>2. \A p : (HostKnows(p)' <=> HostKnows(p)) /\ (Resolved(p)' <=> Resolved(p))
  BY <1>1 DEF HostKnows, Resolved
<1>3. \A p, l : StartsAt(p, l)' <=> StartsAt(p, l)
  BY <1>1 DEF StartsAt
<1> QED
  BY <1>1, <1>2, <1>3 DEF Origin

\* What stays is typed as it was; what a handler writes is given.
LEMMA ValuesFrame ==
  ASSUME Values, UNCHANGED <<db, hostAbi>>, hinted' \in BOOLEAN,
         tx' = tx \/ tx' = db
           \/ (/\ step' \notin {"idle", "claimed"}
               /\ tx'.contracts \subseteq Pools
               /\ \A p \in Pools : tx'.pools[p].coins \in {<<>>, Truth[p].coins}),
         step' \in {"idle", "claimed"} => tx' = db \/ (tx' = tx /\ step \in {"idle", "claimed"}),
         answered' \subseteq Tokens, faults' \in 0..MaxFaults
  PROVE  Values'
BY DEF Values

\* Past the first statement of a handler, its transaction only goes on.
LEMMA PastKeeps ==
  ASSUME BookInv, IInv', UNCHANGED <<setting, next, db, sources, hinted, faults>>,
         Past, Past', tx'.pools = tx.pools, tx'.contracts \subseteq tx.contracts \cup {pool},
         step \in {"tokens", "abi", "source"}, hostAbi' \in {hostAbi, AbiId},
         answered' \subseteq Tokens,
         step' = "tokens" => step = "tokens",
         step' \in {"abi", "source"} =>
           IF step = "tokens" THEN log.event = "CurvePoolDeployed" /\ host ELSE step # "source"
  PROVE  BookInv'
<1>1. Books'
  BY BooksFrame DEF BookInv
<1>2. Origin'
  <2>1. rpc \in BOOLEAN /\ host \in BOOLEAN
    BY DEF BookInv, IInv, Sources
  <2> QED
    BY <2>1, OriginFrame DEF BookInv, Origin, Resolved, Past
<1>3. pool \in Pools /\ step \notin {"idle", "claimed"} /\ step' \notin {"idle", "claimed"}
  BY AtHand DEF BookInv, IInv, Past
<1>4. Values'
  BY <1>3 DEF BookInv, Values
<1> QED
  BY <1>1, <1>2, <1>4 DEF BookInv

\* Tokens and routing leave the pools' rows alone.
LEMMA TokensKeep ==
  ASSUME BookInv, EnsureToken \/ Track
  PROVE  BookInv'
<1>1. IInv'
  BY EnsureTokenKeeps, TrackKeeps DEF BookInv
<1>2. tx = [pools |-> tx.pools, tokens |-> tx.tokens, contracts |-> tx.contracts]
  BY DEF BookInv, IInv, Shape, IsTables
<1>3. CASE EnsureToken
  <2> DEFINE t == Head(todo)
             isHint == hinted /\ t = pool
  <2>1. /\ UNCHANGED <<setting, next, db, step, hinted, abiId, hostAbi, sources, faults>>
        /\ step = "tokens" /\ todo # <<>>
        /\ InsertUnread(t, tx.tokens[t], isHint) \/ InsertRead(t, tx.tokens[t], isHint)
             \/ Patch(t, tx.tokens[t], isHint)
    BY <1>3 DEF EnsureToken
  <2>2. t \in Tokens /\ answered \subseteq Tokens
    BY <2>1 DEF BookInv, IInv, Shape, Values
  <2> HIDE DEF t, isHint
  <2>3. \E v : tx' = [tx EXCEPT !.tokens[t] = v] \/ tx' = tx
    BY <2>1 DEF InsertUnread, InsertRead, Patch
  <2>4. ASSUME NEW a, NEW b, NEW c, NEW v
        PROVE  /\ [[pools |-> a, tokens |-> b, contracts |-> c] EXCEPT !.tokens[t] = v].pools = a
               /\ [[pools |-> a, tokens |-> b, contracts |-> c] EXCEPT !.tokens[t] = v].contracts = c
    OBVIOUS
  <2>5. tx'.pools = tx.pools /\ tx'.contracts = tx.contracts
    BY <1>2, <2>3, <2>4
  <2>6. answered' \subseteq Tokens
    BY <2>1, <2>2 DEF InsertUnread, InsertRead, Patch
  <2>7. Past /\ Past' /\ step' = "tokens"
    BY <2>1 DEF Past
  <2> QED
    BY <1>1, <2>1, <2>5, <2>6, <2>7, PastKeeps
<1>4. CASE Track
  <2>1. /\ UNCHANGED <<setting, next, db, hinted, hostAbi, sources, answered, faults>>
        /\ tx' = [tx EXCEPT !.contracts = tx.contracts \cup {pool}]
        /\ step = "tokens" /\ Past /\ Past'
        /\ step' = IF log.event = "CurvePoolDeployed" /\ host THEN "abi" ELSE "done"
    BY <1>4 DEF Track, Past
  <2>2. ASSUME NEW a, NEW b, NEW c, NEW d
        PROVE  [[pools |-> a, tokens |-> b, contracts |-> c] EXCEPT !.contracts = d]
                 = [pools |-> a, tokens |-> b, contracts |-> d]
    OBVIOUS
  <2>3. tx'.pools = tx.pools /\ tx'.contracts = tx.contracts \cup {pool}
    BY <1>2, <2>1, <2>2
  <2>4. answered' \subseteq Tokens
    BY <2>1 DEF BookInv, Values
  <2> QED
    BY <1>1, <2>1, <2>3, <2>4, PastKeeps
<1> QED
  BY <1>3, <1>4

\* The source the host makes starts at the block of the log at hand.
LEMMA SourcedOrigin ==
  ASSUME BookInv, step = "source", sources' = Sourced, UNCHANGED <<setting, next>>
  PROVE  \A p \in Pools : HostKnows(p)' => Resolved(p)' /\ \E l \in 1..next : StartsAt(p, l)'
<1>1. UNCHANGED <<stream, rpc, host>>
  BY DEF setting
<1>2. /\ log.event = "CurvePoolDeployed" /\ Resolved(pool) /\ next <= Len(stream)
      /\ \A p \in Pools : HostKnows(p) => Resolved(p) /\ \E l \in 1..next : StartsAt(p, l)
  BY DEF BookInv, IInv, Shape, Origin
<1>3. pool \in Pools /\ next \in Nat \ {0} /\ stream[next] = log /\ stream[next].pool = pool
  BY AtHand DEF BookInv, IInv
<1>4. sources = [p \in Pools |-> sources[p]]
  BY DEF BookInv, IInv, Sources
<1> SUFFICES ASSUME NEW p \in Pools, HostKnows(p)'
             PROVE  Resolved(p)' /\ \E l \in 1..next : StartsAt(p, l)'
  OBVIOUS
<1>5. Resolved(p)' <=> Resolved(p)
  BY <1>1 DEF Resolved
<1>6. CASE HostKnows(p) /\ sources'[p] = sources[p]
  BY <1>1, <1>2, <1>5, <1>6 DEF StartsAt
<1>7. CASE ~ (HostKnows(p) /\ sources'[p] = sources[p])
  <2>1. sources[pool] = NoSource /\ p = pool
    <3>1. CASE sources[pool] # NoSource
      BY <1>7, <3>1 DEF Sourced, HostKnows
    <3>2. CASE sources[pool] = NoSource /\ p # pool
      <4>1. sources'[p] = sources[p]
        BY <1>3, <3>2, SourcedPool DEF BookInv
      <4> QED
        BY <1>7, <4>1 DEF HostKnows
    <3> QED
      BY <3>1, <3>2
  <2> DEFINE new == [start |-> StartBlock, abi |-> abiId]
  <2>2. sources' = [sources EXCEPT ![pool] = new] /\ new.start = log.block
    BY <2>1 DEF Sourced, StartBlock
  <2> HIDE DEF new
  <2>3. sources'[p] = new
    BY <1>3, <1>4, <2>1, <2>2
  <2>4. StartsAt(p, next)'
    BY <1>1, <1>2, <1>3, <2>1, <2>2, <2>3 DEF StartsAt
  <2> QED
    BY <1>2, <1>3, <1>5, <2>1, <2>4
<1> QED
  BY <1>6, <1>7

\* The source a deployment makes starts in its own block.
LEMMA HostKeeps ==
  ASSUME BookInv, ResolveAbi \/ RegisterSource
  PROVE  BookInv'
<1>1. IInv'
  BY ResolveAbiKeeps, RegisterSourceKeeps DEF BookInv
<1>2. CASE ResolveAbi
  <2>1. /\ UNCHANGED <<setting, next, db, tx, hinted, sources, answered, faults>>
        /\ hostAbi' \in {hostAbi, AbiId} /\ step = "abi" /\ step' = "source" /\ Past /\ Past'
    BY <1>2 DEF ResolveAbi, Past
  <2>2. answered' \subseteq Tokens
    BY <2>1 DEF BookInv, Values
  <2> QED
    BY <1>1, <2>1, <2>2, PastKeeps
<1>3. CASE RegisterSource
  <2>1. /\ UNCHANGED <<setting, next, db, tx, hinted, hostAbi, answered, faults>>
        /\ sources' = Sourced /\ step = "source" /\ step' = "done" /\ Past /\ Past'
    BY <1>3 DEF RegisterSource, Past
  <2>2. Books'
    BY <2>1, BooksFrame DEF BookInv
  <2>3. Origin'
    BY <2>1, SourcedOrigin DEF Origin, setting
  <2>4. Values'
    BY <2>1 DEF BookInv, Values
  <2> QED
    BY <1>1, <2>2, <2>3, <2>4 DEF BookInv
<1> QED
  BY <1>2, <1>3

\* A failure takes the transaction back, and a call that took effect with it or not.
LEMMA FaultsKeep ==
  ASSUME BookInv, Fail \/ LoseUpsertAbi \/ LoseCreateLogSource \/ Restart
  PROVE  BookInv'
<1>1. IInv'
  BY FailKeeps, LoseUpsertAbiKeeps, LoseCreateLogSourceKeeps DEF BookInv
<1>2. /\ Rollback /\ UNCHANGED <<setting, next, db, answered>> /\ hostAbi' \in {hostAbi, AbiId}
      /\ sources' = sources \/ (step = "source" /\ sources' = Sourced)
  BY DEF Fail, LoseUpsertAbi, LoseCreateLogSource, Restart
<1>3. tx' = db /\ step' = "idle" /\ hinted' = FALSE /\ faults' = faults + 1 /\ faults < MaxFaults /\ ~ Past'
  BY <1>2 DEF Rollback, Past
<1>4. Books'
  BY <1>2, <1>3, BooksFrame DEF BookInv
<1>5. Origin'
  <2>1. CASE sources' = sources
    BY <1>2, <1>3, <2>1, OriginFrame DEF BookInv
  <2>2. CASE step = "source" /\ sources' = Sourced
    BY <1>2, <1>3, <2>2, SourcedOrigin DEF Origin, setting
  <2> QED
    BY <1>2, <2>1, <2>2
<1>6. Values'
  <2>1. faults \in 0..MaxFaults /\ MaxFaults \in Nat
    BY FaultAssumption DEF BookInv, Values
  <2>2. faults' \in 0..MaxFaults
    BY <1>3, <2>1
  <2> QED
    BY <1>2, <1>3, <2>2 DEF BookInv, Values
<1> QED
  BY <1>1, <1>4, <1>5, <1>6 DEF BookInv

\* The commit publishes what the transaction owed.
LEMMA CommitBooks ==
  ASSUME BookInv, Commit
  PROVE  BookInv'
<1>1. IInv'
  BY CommitKeeps DEF BookInv
<1>2. /\ UNCHANGED <<setting, tx, hinted, hostAbi, sources, answered, faults>>
      /\ db' = tx /\ next' = next + 1 /\ step = "done" /\ step' = "idle" /\ Past /\ ~ Past'
  BY DEF Commit, Past
<1>3. UNCHANGED <<stream, rpc, host>> /\ (Means' <=> Means) /\ next \in Nat
  BY <1>2 DEF setting, Means, BookInv, IInv, Shape
<1>4. Books'
  <2>1. \A p \in Pools : Book(stream, next + 1, Means, p, tx.pools[p])
    BY <1>2 DEF BookInv, Books
  <2>2. Means' = Means
    BY <1>3 DEF Means
  <2>3. \A p \in Pools : Book(stream', next', Means', p, db'.pools[p])
    BY <1>2, <1>3, <2>1, <2>2
  <2> QED
    BY <1>2, <2>3 DEF Books
<1>5. Origin'
  <2>1. \A p \in Pools : (HostKnows(p)' <=> HostKnows(p)) /\ (Resolved(p)' <=> Resolved(p))
    BY <1>2, <1>3 DEF HostKnows, Resolved
  <2>2. \A p, l : StartsAt(p, l)' <=> StartsAt(p, l)
    BY <1>2, <1>3 DEF StartsAt
  <2>3. 1..next \subseteq 1..next'
    BY <1>2, <1>3
  <2> QED
    BY <1>2, <2>1, <2>2, <2>3 DEF BookInv, Origin
<1>6. Values'
  BY <1>2 DEF BookInv, Values
<1> QED
  BY <1>1, <1>4, <1>5, <1>6 DEF BookInv

\* A log is only delivered if the host knows its pool.
LEMMA BeginBooks ==
  ASSUME BookInv, Begin
  PROVE  BookInv'
<1>1. IInv'
  BY BeginKeeps DEF BookInv
<1>2. /\ UNCHANGED <<setting, next, db, hostAbi, sources, answered, faults>>
      /\ tx' = db /\ step' = "claimed" /\ hinted' = FALSE /\ Deliverable /\ ~ Past'
  BY DEF Begin, Past
<1>3. Books'
  BY <1>2, BooksFrame DEF BookInv
<1>4. Origin'
  BY <1>2, OriginFrame DEF BookInv, Deliverable, HostKnows
<1>5. Values'
  BY <1>2 DEF BookInv, Values
<1> QED
  BY <1>1, <1>3, <1>4, <1>5 DEF BookInv

\* A log that is not delivered is not that of a pool the host knows, or moves nothing.
LEMMA PassedByNothing ==
  ASSUME BookInv, PassBy
  PROVE  ~ Means \/ pool \in Unresolvable \/ (log.event = "Transfer" /\ log.value = 0)
<1>1. step = "idle" /\ next <= Len(stream) /\ ~ Deliverable /\ OwnLog
  BY DEF PassBy, Deliverable
<1>2. /\ stream \in Streams /\ next \in 1..Len(stream) /\ log = stream[next]
      /\ log.pool = pool /\ pool \in Pools
  BY <1>1, StreamFacts DEF BookInv, IInv, Shape, log, pool
<1> SUFFICES ASSUME Means, pool \notin Unresolvable,
                    NEW k \in 1..next, stream[k].event = "CurvePoolDeployed", stream[k].pool = pool
             PROVE  FALSE
  <2>1. \/ \E k \in 1..next : stream[k].event = "CurvePoolDeployed" /\ stream[k].pool = pool
        \/ log.event = "Transfer" /\ log.value = 0
    BY <1>1, <1>2, PoolLogs DEF OwnLog
  <2> QED
    BY <2>1
<1>3. k \in 1..next - 1
  <2>1. k # next
    BY <1>1, <1>2, OwnLogFacts
  <2> QED
    BY <1>2, <2>1
<1>4. HostKnows(pool)
  <2>1. KnownBefore(stream, next, rpc, pool) /\ host
    BY <1>3 DEF KnownBefore, Before, Means
  <2> QED
    BY <1>2, <2>1 DEF BookInv, IInv, Sources
<1>5. PICK l \in 1..next : StartsAt(pool, l)
  BY <1>2, <1>4 DEF BookInv, Origin
<1>6. sources[pool].start <= log.block
  <2>1. stream[l].block <= stream[next].block
    BY <1>2, StreamFacts
  <2> QED
    BY <1>2, <1>5, <2>1 DEF StartsAt
<1> QED
  BY <1>1, <1>4, <1>6 DEF Deliverable, HostKnows

\* A log passed by is of a pool the host does not index yet, and moves nothing.
LEMMA PassByBooks ==
  ASSUME BookInv, PassBy
  PROVE  BookInv'
<1>1. IInv'
  BY PassByKeeps DEF BookInv
<1>2. /\ UNCHANGED <<setting, db, tx, handler, hostAbi, sources, answered, faults>>
      /\ next' = next + 1 /\ step = "idle" /\ step' = "idle" /\ ~ Past /\ ~ Past' /\ next <= Len(stream)
  BY DEF PassBy, Past, handler
<1>3. UNCHANGED <<stream, rpc, host, hinted>> /\ Means' = Means
  BY <1>2 DEF setting, Means, handler
<1>4. /\ stream \in Streams /\ next \in 1..Len(stream) /\ log = stream[next] /\ log.pool = pool
  BY <1>2, StreamFacts DEF BookInv, IInv, Shape, log, pool
<1>5. Books'
  <2>1. ASSUME NEW p \in Pools PROVE Book(stream, next + 1, Means, p, db.pools[p])
    <3>1. Book(stream, next, Means, p, db.pools[p])
      BY DEF BookInv, Books
    <3>2. \/ stream[next].pool # p \/ ~ Means \/ p \in Unresolvable
          \/ stream[next].event = "Transfer" /\ stream[next].value = 0
      BY <1>4, PassedByNothing
    <3> QED
      BY <1>4, <3>1, <3>2, BookSame
  <2>2. \A p \in Pools : Book(stream', next', Means', p, db'.pools[p])
    BY <1>2, <1>3, <2>1
  <2> QED
    BY <1>2, <2>2 DEF Books
<1>6. Origin'
  <2>1. \A p \in Pools : (HostKnows(p)' <=> HostKnows(p)) /\ (Resolved(p)' <=> Resolved(p))
    BY <1>2, <1>3 DEF HostKnows, Resolved
  <2>2. \A p, l : StartsAt(p, l)' <=> StartsAt(p, l)
    BY <1>2, <1>3 DEF StartsAt
  <2>3. 1..next \subseteq 1..next'
    BY <1>2, <1>4
  <2> QED
    BY <1>2, <2>1, <2>2, <2>3 DEF BookInv, Origin
<1>7. Values'
  BY <1>2, <1>3 DEF BookInv, Values
<1> QED
  BY <1>1, <1>5, <1>6, <1>7 DEF BookInv

\* What replacing the row of the pool at hand leaves and writes.
LEMMA RowPut ==
  ASSUME BookInv, step = "claimed", NEW row, IsRow(row), tx' = SetPool(tx, row)
  PROVE  /\ tx'.contracts = db.contracts /\ db.contracts \subseteq Pools /\ pool \in Pools
         /\ \A p \in Pools : /\ p # pool => tx'.pools[p] = db.pools[p]
                             /\ db.pools[p].coins \in {<<>>, Truth[p].coins}
         /\ tx'.pools[pool] = [row EXCEPT !.exists = TRUE]
         /\ tx'.pools[pool].coins = row.coins /\ tx'.pools[pool].swaps = row.swaps
         /\ tx'.pools[pool].supply = row.supply /\ tx'.pools[pool].balances = row.balances
         /\ tx'.pools[pool].liquidity = row.liquidity
<1>1. tx = db /\ IsTables(tx) /\ pool \in Pools
  BY AtHand DEF BookInv, IInv, Shape
<1>2. /\ tx'.contracts = db.contracts /\ \A p \in Pools \ {pool} : tx'.pools[p] = db.pools[p]
      /\ tx'.pools[pool] = [row EXCEPT !.exists = TRUE]
  BY <1>1, SetPoolTables
<1>3. /\ tx'.pools[pool].coins = row.coins /\ tx'.pools[pool].swaps = row.swaps
      /\ tx'.pools[pool].supply = row.supply /\ tx'.pools[pool].balances = row.balances
      /\ tx'.pools[pool].liquidity = row.liquidity
  BY <1>2 DEF IsRow
<1>4. db.contracts \subseteq Pools /\ \A p \in Pools : db.pools[p].coins \in {<<>>, Truth[p].coins}
  BY DEF BookInv, Values
<1> QED
  BY <1>1, <1>2, <1>3, <1>4

\* The row at hand before the handler writes it.
LEMMA RowAtHand ==
  ASSUME BookInv, step = "claimed"
  PROVE  /\ IsRow(tx.pools[pool]) /\ tx.pools[pool] = db.pools[pool] /\ Past \in BOOLEAN
         /\ tx.pools[pool].coins \in {<<>>, Truth[pool].coins}
BY AtHand DEF BookInv, IInv, Shape, IsTables, Values, Past

\* The pool's own log enters the row of its pool, and no other.
LEMMA HandleOwnLogBooks ==
  ASSUME BookInv, HandleOwnLog
  PROVE  BookInv'
<1>1. IInv'
  BY HandleOwnLogKeeps DEF BookInv
<1>2. PICK old : old = tx.pools[pool]
  OBVIOUS
<1>3. PICK row : row = CASE log.event \in Exchanges  -> Swapped(old)
                         [] log.event \in Provisions -> Provided(old)
                         [] log.event = "Transfer"   -> Transferred(old)
  OBVIOUS
<1>4. /\ UNCHANGED <<setting, next, db, hinted, hostAbi, sources, answered, faults>>
      /\ tx' = SetPool(tx, row) /\ step = "claimed" /\ step' = "done" /\ OwnLog /\ Past'
  BY <1>2, <1>3 DEF HandleOwnLog, Past
<1>5. IsRow(old) /\ old = db.pools[pool] /\ pool \in Pools
  BY <1>2, <1>4, RowAtHand, AtHand DEF BookInv, IInv
<1>6. IsRow(row) /\ row.coins = old.coins
  <2>1. ASSUME NEW new \in {Swapped(old), Provided(old), Transferred(old)}
        PROVE  IsRow(new) /\ new.coins = old.coins
    BY <1>5 DEF IsRow, Swapped, Provided, Transferred
  <2>2. row \in {Swapped(old), Provided(old), Transferred(old)}
    BY <1>3, <1>4 DEF OwnLog, OwnEvents
  <2> QED
    BY <2>1, <2>2
<1>7. /\ tx'.contracts \subseteq Pools
      /\ \A p \in Pools : p # pool => tx'.pools[p] = db.pools[p]
      /\ tx'.pools[pool] = [row EXCEPT !.exists = TRUE] /\ tx'.pools[pool].coins = row.coins
      /\ \A p \in Pools : db.pools[p].coins \in {<<>>, Truth[p].coins}
  BY <1>4, <1>6, RowPut
<1>8. UNCHANGED <<stream, rpc, host>> /\ Means' = Means /\ stream \in Streams
      /\ next \in 1..Len(stream) /\ log = stream[next] /\ log.pool = pool /\ next <= Len(stream)
  BY <1>4, StreamFacts DEF setting, Means, BookInv, IInv, Shape, log, pool
<1>9. Means /\ pool \notin Unresolvable
  BY <1>4, <1>5 DEF BookInv, Origin, Resolved, Means
<1>10. Books'
  <2>1. ASSUME NEW p \in Pools PROVE Book(stream, next, Means, p, db.pools[p])
    BY DEF BookInv, Books
  <2>2. ASSUME NEW p \in Pools, p # pool PROVE Book(stream, next + 1, Means, p, tx'.pools[p])
    <3>1. Book(stream, next + 1, Means, p, db.pools[p])
      BY <1>8, <2>1, <2>2, BookSame
    <3> QED
      BY <1>7, <2>2, <3>1
  <2>3. Book(stream, next + 1, Means, pool, tx'.pools[pool])
    <3>1. Book(stream, next, Means, pool, old)
      BY <1>5, <2>1
    <3>2. Shape /\ OwnLog /\ next <= Len(stream)
      BY <1>4, <1>8 DEF BookInv, IInv
    <3>3. PICK put : put = tx'.pools[pool] /\ put = [row EXCEPT !.exists = TRUE]
      BY <1>7
    <3>4. Book(stream, next + 1, Means, pool, put)
      BY <1>3, <1>5, <1>6, <1>9, <3>1, <3>2, <3>3, OwnLogEntered
    <3> QED
      BY <3>3, <3>4
  <2>4. \A p \in Pools : Book(stream', next', Means', p, db'.pools[p])
    BY <1>4, <1>8, <2>1
  <2>5. \A p \in Pools : Book(stream', next' + 1, Means', p, tx'.pools[p])
    BY <1>4, <1>8, <2>2, <2>3
  <2> QED
    BY <2>4, <2>5 DEF Books
<1>11. Origin'
  BY <1>4, OriginFrame DEF BookInv
<1>12. Values'
  <2>1. \A p \in Pools : tx'.pools[p].coins \in {<<>>, Truth[p].coins}
    BY <1>5, <1>6, <1>7
  <2> QED
    BY <1>4, <1>7, <2>1 DEF BookInv, Values
<1> QED
  BY <1>1, <1>10, <1>11, <1>12 DEF BookInv

\* The deployment events leave the book of a row alone.
LEMMA RecordLinkageBooks ==
  ASSUME BookInv, RecordLinkage
  PROVE  BookInv'
<1>1. IInv'
  BY RecordLinkageKeeps DEF BookInv
<1>2. PICK old : old = tx.pools[pool]
  OBVIOUS
<1>3. PICK r, b, c, d : /\ r = Truth[pool].reserve /\ b = Truth[pool].basePool
                        /\ c = Truth[pool].coin /\ d = Truth[pool].deployer
  OBVIOUS
<1>4. PICK row : row = [old EXCEPT !.reserve = r, !.basePool = b, !.coin = c, !.deployer = d]
  OBVIOUS
<1>5. /\ UNCHANGED <<setting, next, db, hinted, hostAbi, sources, answered, faults>>
      /\ tx' = SetPool(tx, row) /\ step = "claimed" /\ step' = "tokens"
      /\ log.event = "PoolDeployed"
  BY <1>2, <1>3, <1>4 DEF RecordLinkage
<1>6. IsRow(old) /\ old = db.pools[pool]
  BY <1>2, <1>5, RowAtHand
<1>7. /\ IsRow(row) /\ row.coins = old.coins /\ row.swaps = old.swaps /\ row.supply = old.supply
      /\ row.balances = old.balances /\ row.liquidity = old.liquidity
  BY <1>4, <1>6 DEF IsRow
<1>8. /\ tx'.contracts \subseteq Pools
      /\ \A p \in Pools : /\ p # pool => tx'.pools[p] = db.pools[p]
                          /\ db.pools[p].coins \in {<<>>, Truth[p].coins}
      /\ tx'.pools[pool].coins = row.coins /\ tx'.pools[pool].swaps = row.swaps
      /\ tx'.pools[pool].supply = row.supply /\ tx'.pools[pool].balances = row.balances
      /\ tx'.pools[pool].liquidity = row.liquidity
  BY <1>5, <1>7, RowPut
<1>9. Books'
  <2>1. ~ OwnLog
    BY <1>5, OwnLogFacts
  <2>2. Shape
    BY DEF BookInv, IInv
  <2> QED
    BY <1>5, <1>6, <1>7, <1>8, <2>1, <2>2, BooksOpen DEF BookInv
<1>10. Origin'
  BY <1>5, OriginFrame DEF BookInv
<1>11. Values'
  BY <1>5, <1>6, <1>7, <1>8 DEF BookInv, Values
<1> QED
  BY <1>1, <1>9, <1>10, <1>11 DEF BookInv

LEMMA RecordPoolBooks ==
  ASSUME BookInv, RecordPool
  PROVE  BookInv'
<1>1. IInv'
  BY RecordPoolKeeps DEF BookInv
<1>2. PICK old : old = tx.pools[pool]
  OBVIOUS
<1>3. PICK full \in BOOLEAN :
        /\ tx' = SetPool(tx, FactoryRow(old, full)) /\ hinted' = full
        /\ answered' = IF full THEN answered \cup {pool} ELSE answered
  BY <1>2 DEF RecordPool, FetchedAll
<1>4. PICK row : row = FactoryRow(old, full)
  OBVIOUS
<1>5. PICK w, v, d, b, c :
        /\ w = Truth[pool].coins
        /\ row = [old EXCEPT !.factory = CurveFactory, !.coins = w, !.named = v,
                             !.deployer = d, !.basePool = b, !.coin = c]
  BY <1>4, Zenon DEF FactoryRow
<1>6. /\ UNCHANGED <<setting, next, db, hostAbi, sources, faults>>
      /\ tx' = SetPool(tx, row) /\ step = "claimed" /\ step' = "tokens"
      /\ log.event = "CurvePoolDeployed" /\ rpc /\ pool \notin Unresolvable
  BY <1>3, <1>4 DEF RecordPool
<1>7. IsRow(old) /\ old = db.pools[pool]
  BY <1>2, <1>6, RowAtHand
<1>8. /\ IsRow(row) /\ row.coins = w /\ row.swaps = old.swaps /\ row.supply = old.supply
      /\ row.balances = old.balances /\ row.liquidity = old.liquidity
  BY <1>5, <1>7 DEF IsRow
<1>9. /\ tx'.contracts \subseteq Pools /\ pool \in Pools
      /\ \A p \in Pools : /\ p # pool => tx'.pools[p] = db.pools[p]
                          /\ db.pools[p].coins \in {<<>>, Truth[p].coins}
      /\ tx'.pools[pool].coins = row.coins /\ tx'.pools[pool].swaps = row.swaps
      /\ tx'.pools[pool].supply = row.supply /\ tx'.pools[pool].balances = row.balances
      /\ tx'.pools[pool].liquidity = row.liquidity
  BY <1>6, <1>8, RowPut
<1>10. Books'
  <2>1. ~ OwnLog
    BY <1>6, OwnLogFacts
  <2>2. Shape
    BY DEF BookInv, IInv
  <2> QED
    BY <1>6, <1>7, <1>8, <1>9, <2>1, <2>2, BooksOpen DEF BookInv
<1>11. Origin'
  BY <1>6, OriginFrame DEF BookInv
<1>12. Values'
  <2>1. \A p \in Pools : tx'.pools[p].coins \in {<<>>, Truth[p].coins}
    BY <1>5, <1>8, <1>9
  <2>2. answered' \subseteq Tokens
    BY <1>3, <1>9 DEF BookInv, Values, Tokens
  <2> QED
    BY <1>3, <1>6, <1>9, <2>1, <2>2 DEF BookInv, Values
<1> QED
  BY <1>1, <1>10, <1>11, <1>12 DEF BookInv

LEMMA NotResolvedBooks ==
  ASSUME BookInv, NotResolved
  PROVE  BookInv'
<1>1. IInv'
  BY NotResolvedKeeps DEF BookInv
<1>2. /\ UNCHANGED <<setting, next, db, tx, hinted, hostAbi, sources, answered, faults>>
      /\ step = "claimed" /\ step' = "done" /\ log.event = "CurvePoolDeployed"
  BY DEF NotResolved
<1>3. tx = db /\ Shape /\ ~ OwnLog
  BY <1>2, OwnLogFacts DEF BookInv, IInv, Shape
<1>4. Books'
  BY <1>2, <1>3, BooksOpen DEF BookInv
<1>5. Origin'
  BY <1>2, OriginFrame DEF BookInv
<1>6. Values'
  BY <1>2, <1>3 DEF BookInv, Values
<1> QED
  BY <1>1, <1>4, <1>5, <1>6 DEF BookInv

\* The tables start without a log entered.
LEMMA InitBooks == Init => BookInv
<1> SUFFICES ASSUME Init PROVE BookInv
  OBVIOUS
<1>1. /\ stream \in Streams /\ next = 1 /\ db = EmptyDb /\ tx = EmptyDb /\ step = "idle"
      /\ hinted = FALSE /\ hostAbi = 0 /\ answered = {} /\ faults = 0
      /\ sources = [p \in Pools |-> NoSource] /\ ~ Past
  BY DEF Init, Past
<1>2. IInv
  BY InitIInv
<1>3. PICK z : z = [h \in Holders |-> 0]
  OBVIOUS
<1>4. /\ NoRow.balances = z /\ NoRow.liquidity = <<>> /\ NoRow.supply = 0 /\ NoRow.swaps = 0
      /\ NoRow.coins = <<>>
  BY <1>3 DEF NoRow
<1>5. z \in [Holders -> Int] /\ \A h \in Holders : z[h] = 0
  BY <1>3
<1>6. SumFunction(z) = 0
  BY <1>5, SumZero, PoolLogs
<1>7. ASSUME NEW p PROVE Book(stream, 1, Means, p, NoRow)
  <2>1. \A events : At(stream, 1, events, p) = {}
    BY DEF At
  <2>2. Cardinality(At(stream, 1, Exchanges, p)) = 0 /\ Recorded(stream, At(stream, 1, Provisions, p), <<>>)
    BY <2>1, FS_EmptySet DEF Recorded
  <2>3. /\ SupplyAt(stream, p, 1 - 1) = 0
        /\ \A h \in Holders : BalanceAt(stream, p, h, 1 - 1) = 0
    BY <1>1, NoneYet
  <2>4. Kept(stream, 1, p, NoRow)
    BY <1>4, <1>5, <2>2, <2>3 DEF Kept
  <2> QED
    BY <1>4, <1>5, <1>6, <2>4 DEF Book
<1>8. EmptyDb.contracts = {} /\ \A p \in Pools : EmptyDb.pools[p] = NoRow
  BY DEF EmptyDb
<1>9. Books
  BY <1>1, <1>7, <1>8 DEF Books
<1>10. Origin
  BY <1>1 DEF Origin, HostKnows
<1>11. Values
  <2>1. 0 \in 0..MaxFaults
    BY FaultAssumption
  <2>2. \A p \in Pools : EmptyDb.pools[p].coins = <<>>
    BY <1>4, <1>8
  <2>3. EmptyDb.contracts \subseteq Pools
    BY <1>8
  <2> QED
    BY <1>1, <2>1, <2>2, <2>3 DEF Values
<1> QED
  BY <1>2, <1>9, <1>10, <1>11 DEF BookInv

\* Every step keeps the books.
LEMMA NextBooks == BookInv /\ [Next]_vars => BookInv'
<1> SUFFICES ASSUME BookInv, [Next]_vars PROVE BookInv'
  OBVIOUS
<1>1. CASE UNCHANGED vars
  <2>1. /\ UNCHANGED <<setting, next, db, tx, step, hinted, hostAbi, sources, answered, faults>>
        /\ UNCHANGED <<stream, rpc, host>>
    BY <1>1 DEF vars, setting, handler
  <2>2. IInv'
    BY <1>1, NextIInv DEF BookInv
  <2>3. Past' => Past
    BY <2>1 DEF Past
  <2>4. Books'
    BY <2>1, <2>3, BooksFrame DEF BookInv
  <2>5. Origin'
    BY <2>1, OriginFrame DEF BookInv, Origin
  <2>6. Values'
    BY <2>1 DEF BookInv, Values
  <2> QED
    BY <2>2, <2>4, <2>5, <2>6 DEF BookInv
<1>2. CASE Progress
  BY <1>2, BeginBooks, PassByBooks, HandleOwnLogBooks, RecordLinkageBooks, NotResolvedBooks,
     RecordPoolBooks, TokensKeep, HostKeeps, CommitBooks DEF Progress
<1>3. CASE Next /\ ~ Progress
  BY <1>3, FaultsKeep DEF Next
<1> QED
  BY <1>1, <1>2, <1>3

LEMMA AlwaysBooks == Spec => []BookInv
<1>1. Init => BookInv
  BY InitBooks
<1>2. BookInv /\ [Next]_vars => BookInv'
  BY NextBooks
<1> QED
  BY <1>1, <1>2, PTL DEF Spec

-----------------------------------------------------------------------------

\* Nobody's balance is negative: the book is the pool's, which pays nobody what
\* they do not have.
LEMMA BookNatural ==
  ASSUME NEW s \in Streams, NEW n \in 1..Len(s) + 1, NEW m, NEW p \in Pools, NEW row,
         Book(s, n, m, p, row)
  PROVE  row.balances \in [Holders -> Nat]
<1>1. n - 1 \in 0..Len(s)
  BY StreamFacts
<1>2. \A h \in Holders : BalanceAt(s, p, h, n - 1) \in Nat
  BY <1>1, PoolLogs
<1>3. row.balances \in [Holders -> Int] /\ \A h \in Holders : row.balances[h] \in Nat
  BY <1>2 DEF Book, Kept
<1> QED
  BY <1>3

\* Whatever the handlers do to them, the columns stay in their ranges: no holder
\* of a pool's LP goes below zero, no ABI but the registered one is used.
THEOREM TypeHolds == Spec => []TypeOK
<1>1. ASSUME BookInv PROVE TypeOK
  <2>1. /\ Shape /\ Sources /\ Books /\ Origin /\ Values
    BY <1>1 DEF BookInv, IInv
  <2>2. /\ next \in 1..Len(stream) + 1 /\ stream \in Streams
        /\ step \in {"idle", "claimed", "tokens", "abi", "source", "done"}
        /\ todo \in Seq(Tokens) /\ hinted \in BOOLEAN
        /\ \A t \in Tokens : db.tokens[t] \in {"absent", "blank", "known"}
        /\ \A t \in Tokens : tx.tokens[t] \in {"absent", "blank", "known"}
    BY <2>1 DEF Shape, Values, IsTables
  <2>3. ASSUME NEW p \in Pools
        PROVE  /\ db.pools[p].balances \in [Holders -> Nat] /\ tx.pools[p].balances \in [Holders -> Nat]
    <3>1. db.pools[p].balances \in [Holders -> Nat]
      BY <2>1, <2>2, BookNatural DEF Books
    <3>2. CASE Past
      <4>1. next + 1 \in 1..Len(stream) + 1
        BY <2>1, <3>2, AtHand DEF Past
      <4>2. Book(stream, next + 1, Means, p, tx.pools[p])
        BY <2>1, <3>2 DEF Books
      <4> QED
        BY <2>2, <3>1, <4>1, <4>2, BookNatural
    <3>3. CASE ~ Past
      <4>1. tx = db
        BY <2>1, <2>2, <3>3 DEF Values, Past
      <4> QED
        BY <3>1, <4>1
    <3> QED
      BY <3>2, <3>3
  <2>4. ASSUME NEW p \in Pools PROVE sources[p].start \in Nat /\ sources[p].abi \in {0, AbiId}
    <3>1. CASE HostKnows(p)
      <4>1. PICK l \in 1..next : StartsAt(p, l)
        BY <2>1, <3>1 DEF Origin
      <4>2. sources[p].start \in Nat
        BY <2>2, <4>1, StreamFacts DEF StartsAt
      <4>3. sources[p].abi \in {0, AbiId}
        BY <2>1, <3>1 DEF Sources, Values
      <4> QED
        BY <4>2, <4>3
    <3>2. CASE ~ HostKnows(p)
      BY <3>2 DEF HostKnows, NoSource
    <3> QED
      BY <3>1, <3>2
  <2>5. /\ \A tables \in {db, tx} :
             /\ tables.contracts \subseteq Pools
             /\ \A p \in Pools : tables.pools[p].coins \in {<<>>, Truth[p].coins}
        /\ abiId \in {0, hostAbi} /\ hostAbi \in {0, AbiId}
        /\ answered \subseteq Tokens /\ faults \in 0..MaxFaults
    BY <2>1 DEF Values, Sources
  <2> QED
    BY <2>2, <2>3, <2>4, <2>5 DEF TypeOK
<1>2. BookInv => TypeOK
  BY <1>1
<1> QED
  BY <1>2, AlwaysBooks, PTL

\* Every log of a discovered pool is in its row, once and in its place, for any
\* stream of logs and any failures: the source starts at the deployment, and
\* what a failed delivery wrote is taken back with it.
THEOREM NoneLost == Spec => []NoOwnLogLost
<1>1. ASSUME BookInv, host, NEW p \in Pools, Discovered(p)
      PROVE  /\ db.pools[p].swaps = Cardinality(Processed(Exchanges, p))
             /\ \A h \in Holders : db.pools[p].balances[h] = BalanceAt(stream, p, h, next - 1)
             /\ Recorded(stream, Processed(Provisions, p), db.pools[p].liquidity)
  <2>1. Means /\ p \notin Unresolvable
    BY <1>1 DEF Means, Discovered
  <2>2. Kept(stream, next, p, db.pools[p])
    BY <1>1, <2>1 DEF BookInv, Books, Book
  <2>3. \A events : Processed(events, p) = At(stream, next, events, p)
    BY DEF Processed, At
  <2> QED
    BY <2>2, <2>3 DEF Kept
<1>2. BookInv => NoOwnLogLost
  BY <1>1 DEF NoOwnLogLost, Recorded
<1> QED
  BY <1>2, AlwaysBooks, PTL

\* The supply summed from the Transfers is the sum of the balances and what the
\* pool announces with its last liquidity event.
THEOREM LpHolds == Spec => []LpAgreesWithPool
<1>1. ASSUME BookInv, NEW p \in Pools
      PROVE  db.pools[p].supply = SumFunction(db.pools[p].balances)
  BY <1>1 DEF BookInv, Books, Book
<1>2. ASSUME BookInv, host, NEW p \in Pools, Discovered(p), next - 1 \in Processed(Provisions, p)
      PROVE  db.pools[p].supply = stream[next - 1].supply
  <2>1. Means /\ p \notin Unresolvable
    BY <1>2 DEF Means, Discovered
  <2>2. db.pools[p].supply = SupplyAt(stream, p, next - 1)
    BY <1>2, <2>1 DEF BookInv, Books, Book, Kept
  <2>3. /\ next - 1 \in 1..next - 1 /\ stream[next - 1].event \in Provisions
        /\ stream[next - 1].pool = p
    BY <1>2 DEF Processed
  <2>4. stream \in Streams /\ next - 1 \in 1..Len(stream)
    BY <1>2, <2>3, StreamFacts DEF BookInv, IInv, Shape
  <2> QED
    BY <2>2, <2>3, <2>4, PoolLogs
<1>3. BookInv => LpAgreesWithPool
  BY <1>1, <1>2 DEF LpAgreesWithPool
<1> QED
  BY <1>3, AlwaysBooks, PTL

=============================================================================
