---------------------------- MODULE CurveDiscovery ----------------------------
(***************************************************************************)
(* The discovery of Curve pools: handleCurvePoolDeployed and               *)
(* handlePoolDeployed with ensureToken (handlers.go), the reads of         *)
(* curve.go and the host calls of host.go, in NewLogEvent's transaction.   *)
(*                                                                         *)
(* A pool has up to two deployment events, in either order: the Curve      *)
(* factory's and, for a pool of the ClearCurvePoolDeployer, PoolDeployed.  *)
(* The factory's makes the host index the pool, whose own logs are then    *)
(* delivered.  Reads and host calls are not undone by a rollback.          *)
(*                                                                         *)
(* ClearExporter is where delivery, claims and routing are modelled, and   *)
(* PoolResolution is why a resolved address is the right one.  Here a log  *)
(* is delivered until its transaction commits.                             *)
(***************************************************************************)
EXTENDS Integers, Sequences, FiniteSets, SequencesExt

CONSTANTS
  Pools,        \* the pools deployed
  Truth,        \* what each pool is
  Unresolvable, \* pools whose receipt holds no constructor log
  Holders,      \* holders of the pools' LP tokens
  Streams,      \* sequences of logs [event, pool, block, ...] to choose from
  CurveFactory, \* the StableSwap-NG factory
  NoAddr,       \* NULL, or an empty or zero address
  AbiId,        \* the id the host gives the pool ABI
  MaxFaults     \* bound on failures and restarts

\* `meta' is the Curve classification.  `reserve' is NoAddr for a pool that
\* Clear did not deploy, and `coin' for a plain pool; `deployer' called Curve's
\* factory, so it is the ClearCurvePoolDeployer where there is a reserve.
ASSUME PoolFacts ==
  \A p \in Pools :
    DOMAIN Truth[p] = {"meta", "reserve", "basePool", "coin", "deployer", "coins"}

ASSUME FaultAssumption == MaxFaults \in Nat /\ AbiId \in Nat \ {0}

Tokens == Pools \cup UNION {ToSet(Truth[p].coins) : p \in Pools}

\* The coin Clear pairs in a pool is one of the pools' coins.
ASSUME TokenFacts ==
  /\ NoAddr \notin Tokens
  /\ \A p \in Pools : Truth[p].coins \in Seq(Tokens) /\ Truth[p].coin \in Tokens \cup {NoAddr}

\* Logs come block by block.
ASSUME StreamFacts ==
  \A s \in Streams :
    /\ Len(s) \in Nat
    /\ \A n \in 1..Len(s) :
         /\ s[n].pool \in Pools /\ s[n].block \in Nat
         /\ \A k \in 1..n : s[k].block <= s[n].block

Exchanges == {"TokenExchange", "TokenExchangeUnderlying"}
Provisions == {"AddLiquidity", "RemoveLiquidity", "RemoveLiquidityOne", "RemoveLiquidityImbalance"}

\* The logs of a pool itself.
OwnEvents == Exchanges \cup Provisions \cup {"Transfer"}

\* What the log l, if it is a Transfer of p's LP token, adds to the token's supply
\* and to the balance of h.
Minted(l, p) ==
  IF l.event = "Transfer" /\ l.pool = p
  THEN (IF l.from = NoAddr THEN l.value ELSE 0) - (IF l.to = NoAddr THEN l.value ELSE 0)
  ELSE 0

Received(l, p, h) ==
  IF l.event = "Transfer" /\ l.pool = p
  THEN (IF l.to = h THEN l.value ELSE 0) - (IF l.from = h THEN l.value ELSE 0)
  ELSE 0

\* The pool's own books after the first n logs of s.
SupplyAt(s, p, n) ==
  SumFunction([k \in 1..Len(s) |-> IF k <= n THEN Minted(s[k], p) ELSE 0])

BalanceAt(s, p, h, n) ==
  SumFunction([k \in 1..Len(s) |-> IF k <= n THEN Received(s[k], p, h) ELSE 0])

\* The pool is a contract that logs after the factory announced it, but for its
\* constructor's Transfer of nothing.  It lets nobody spend what they do not
\* have, and announces its supply with every change of its liquidity.
ASSUME PoolLogs ==
  /\ IsFiniteSet(Holders) /\ NoAddr \notin Holders
  /\ \A s \in Streams :
       /\ \A n \in 1..Len(s) :
            /\ s[n].event = "Transfer" =>
                 /\ s[n].value \in Nat
                 /\ s[n].from \in Holders \cup {NoAddr} /\ s[n].to \in Holders \cup {NoAddr}
            /\ s[n].event \in OwnEvents =>
                 \/ \E k \in 1..n : s[k].event = "CurvePoolDeployed" /\ s[k].pool = s[n].pool
                 \/ s[n].event = "Transfer" /\ s[n].value = 0
            /\ s[n].event \in Provisions => s[n].supply = SupplyAt(s, s[n].pool, n)
       /\ \A p \in Pools, h \in Holders, n \in 0..Len(s) : BalanceAt(s, p, h, n) \in Nat

VARIABLES
  stream,   \* the chain's logs
  next,     \* position of the log being delivered
  db,       \* committed tables
  tx,       \* the tables as the open transaction sees them
  step,     \* progress of the handler
  todo,     \* tokens the handler has yet to ensure
  hinted,   \* the pool's getters have all been read by this handler
  rpc,      \* an RPC endpoint is configured
  host,     \* the host API is there and indexCurvePools is on
  abiId,    \* clearExporter.curveAbiID
  hostAbi,  \* the ABI's id at the host, 0 if it is not registered
  sources,  \* the host's log sources of the pools
  answered, \* tokens whose getters a node has answered, if only by reverting
  faults    \* failures and restarts so far

handler == <<step, todo, hinted>>
setting == <<stream, rpc, host>>
vars    == <<setting, next, db, tx, handler, abiId, hostAbi, sources, answered, faults>>

log  == stream[next]
pool == log.pool

\* A row of clear_curve_pools; `named' stands for the columns the getters fill,
\* `factory' for those of the Curve factory's event.  `balances' and `liquidity'
\* are the pool's rows of clear_curve_lp_balances and clear_curve_liquidity.
NoRow == [exists |-> FALSE, reserve |-> NoAddr, basePool |-> NoAddr, coin |-> NoAddr,
          deployer |-> NoAddr, factory |-> NoAddr, coins |-> <<>>, named |-> FALSE,
          swaps |-> 0, supply |-> 0, balances |-> [h \in Holders |-> 0], liquidity |-> <<>>]

EmptyDb == [pools     |-> [p \in Pools |-> NoRow],
            tokens    |-> [t \in Tokens |-> "absent"],   \* clear_tokens
            contracts |-> {}]                            \* clear_contracts

NoSource == [start |-> 0, abi |-> 0]

Init ==
  /\ stream \in Streams
  /\ rpc \in BOOLEAN /\ host \in BOOLEAN
  /\ next = 1
  /\ db = EmptyDb /\ tx = EmptyDb
  /\ step = "idle" /\ todo = <<>> /\ hinted = FALSE
  /\ abiId = 0 /\ hostAbi = 0
  /\ sources = [p \in Pools |-> NoSource]
  /\ answered = {}
  /\ faults = 0

-----------------------------------------------------------------------------
\* COALESCE over two columns or values.
Coalesce(v, w) == IF v = NoAddr THEN w ELSE v

\* An UPDATE of a pool's row after ensureCurve.
SetPool(tables, row) == [tables EXCEPT !.pools[pool] = [row EXCEPT !.exists = TRUE]]

OwnLog == log.event \in OwnEvents

\* The host delivers a pool's own log if it has a source that starts early enough.
Deliverable == OwnLog => sources[pool] # NoSource /\ sources[pool].start <= log.block

Begin ==
  /\ step = "idle" /\ next <= Len(stream) /\ Deliverable
  /\ tx' = db
  /\ step' = "claimed" /\ todo' = <<>> /\ hinted' = FALSE
  /\ UNCHANGED <<setting, next, db, abiId, hostAbi, sources, answered, faults>>

\* A log the host does not index passes the exporter by.
PassBy ==
  /\ step = "idle" /\ next <= Len(stream) /\ ~ Deliverable
  /\ next' = next + 1
  /\ UNCHANGED <<setting, db, tx, handler, abiId, hostAbi, sources, answered, faults>>

\* handleCurveSwap.
Swapped(row) == [row EXCEPT !.swaps = @ + 1]

\* handleCurveLiquidity: a history row, with the event's token_supply.
Provided(row) == [row EXCEPT !.liquidity = Append(@, <<log.event, log.supply>>)]

BugBurnKeepsSupply(row) ==
  LET moved == [h \in Holders |-> row.balances[h] + (IF h = log.to THEN log.value ELSE 0)
                                                  - (IF h = log.from THEN log.value ELSE 0)]
  IN [row EXCEPT !.balances = moved,
                 !.supply = @ + (IF log.from = NoAddr THEN log.value ELSE 0)]

\* handleTransfer on a pool, whose token is the pool's LP: a mint and a burn
\* move the supply with the holder's balance.
Transferred(row) ==
  LET moved == [h \in Holders |-> row.balances[h] + (IF h = log.to THEN log.value ELSE 0)
                                                  - (IF h = log.from THEN log.value ELSE 0)]
  IN [row EXCEPT !.balances = moved,
                 !.supply = @ + (IF log.from = NoAddr THEN log.value ELSE 0)
                              - (IF log.to = NoAddr THEN log.value ELSE 0)]

\* dispatchCurve.
HandleOwnLog ==
  /\ step = "claimed" /\ OwnLog
  /\ tx' = SetPool(tx, CASE log.event \in Exchanges  -> Swapped(tx.pools[pool])
                         [] log.event \in Provisions -> Provided(tx.pools[pool])
                         [] log.event = "Transfer"   -> Transferred(tx.pools[pool]))
  /\ step' = "done"
  /\ UNCHANGED <<setting, next, db, todo, hinted, abiId, hostAbi, sources, answered, faults>>

\* handlePoolDeployed, up to its tokens.
RecordLinkage ==
  LET fact == Truth[pool]
  IN /\ step = "claimed" /\ log.event = "PoolDeployed"
     /\ tx' = SetPool(tx, [tx.pools[pool] EXCEPT
                             !.reserve = fact.reserve, !.basePool = fact.basePool,
                             !.coin = fact.coin, !.deployer = fact.deployer])
     /\ todo' = IF fact.coin = NoAddr THEN <<pool>> ELSE <<pool, fact.coin>>
     /\ step' = "tokens"
     /\ UNCHANGED <<setting, next, db, hinted, abiId, hostAbi, sources, answered, faults>>

\* handleCurvePoolDeployed without an endpoint, or when the receipt shows no
\* pool: the event is consumed.
NotResolved ==
  /\ step = "claimed" /\ log.event = "CurvePoolDeployed"
  /\ ~ rpc \/ pool \in Unresolvable
  /\ step' = "done"
  /\ UNCHANGED <<setting, next, db, tx, todo, hinted, abiId, hostAbi, sources, answered, faults>>

BugFactoryRow(row, named) ==
  LET fact == Truth[pool]
  IN [row EXCEPT !.factory  = CurveFactory,
                 !.coins    = fact.coins,
                 !.named    = @ \/ named,
                 !.deployer = fact.deployer,
                 !.basePool = IF fact.meta THEN fact.basePool ELSE NoAddr,
                 !.coin     = IF fact.meta THEN fact.coin ELSE NoAddr]

\* The columns the Curve factory's event writes; PoolDeployed's are only filled
\* where they are NULL.  A plain pool's event has no coin and no base pool.
FactoryRow(row, named) ==
  LET fact == Truth[pool]
  IN [row EXCEPT !.factory  = CurveFactory,
                 !.coins    = fact.coins,
                 !.named    = @ \/ named,
                 !.deployer = Coalesce(@, fact.deployer),
                 !.basePool = Coalesce(@, IF fact.meta THEN fact.basePool ELSE NoAddr),
                 !.coin     = Coalesce(@, IF fact.meta THEN fact.coin ELSE NoAddr)]

\* fetchCurvePool answers everything, or leaves something out: then the coins
\* are the event's and the pool's token is read again.
FetchedAll == BOOLEAN

\* handleCurvePoolDeployed, up to its tokens.
RecordPool ==
  /\ step = "claimed" /\ log.event = "CurvePoolDeployed"
  /\ rpc /\ pool \notin Unresolvable
  /\ \E full \in FetchedAll :
       /\ tx' = SetPool(tx, FactoryRow(tx.pools[pool], full))
       /\ hinted' = full
       /\ answered' = IF full THEN answered \cup {pool} ELSE answered
  /\ todo' = <<pool>> \o Truth[pool].coins
  /\ step' = "tokens"
  /\ UNCHANGED <<setting, next, db, abiId, hostAbi, sources, faults>>

BugRest(created) == IF created THEN Tail(todo) ELSE <<>>

\* ensureTokens goes on to the next token whether or not this one was new.
Rest(created) == Tail(todo)

BugReadSwallowed(t, row, isHint) ==
  /\ row = "absent"
  /\ tx' = [tx EXCEPT !.tokens[t] = IF isHint THEN "known" ELSE "blank"]
  /\ UNCHANGED answered

\* ensureToken inserts a row without a read: no endpoint, or all is known.
InsertUnread(t, row, isHint) ==
  /\ row = "absent" /\ (isHint \/ ~ rpc)
  /\ tx' = [tx EXCEPT !.tokens[t] = IF isHint THEN "known" ELSE "blank"]
  /\ UNCHANGED answered

\* ensureToken inserts a row with what the getters answer.  A request that gets
\* through is an answer, also where a getter of its batch fails (curve.go:269-279):
\* "blank" then stands for what is still missing.
InsertRead(t, row, isHint) ==
  /\ row = "absent" /\ rpc /\ ~ isHint
  /\ \E meta \in {"known", "blank"} : tx' = [tx EXCEPT !.tokens[t] = meta]
  /\ answered' = answered \cup {t}

\* ensureToken finds the row and fills a gap if it has something to add.
Patch(t, row, isHint) ==
  /\ row # "absent"
  /\ tx' = IF isHint THEN [tx EXCEPT !.tokens[t] = "known"] ELSE tx
  /\ UNCHANGED answered

EnsureToken ==
  LET t == Head(todo)
      row == tx.tokens[t]
      isHint == hinted /\ t = pool
  IN /\ step = "tokens" /\ todo # <<>>
     /\ InsertUnread(t, row, isHint) \/ InsertRead(t, row, isHint) \/ Patch(t, row, isHint)
     /\ todo' = Rest(row = "absent")
     /\ UNCHANGED <<setting, next, db, step, hinted, abiId, hostAbi, sources, faults>>

BugTrackKnown ==
  /\ step = "tokens" /\ todo = <<>>
  /\ tx' = [tx EXCEPT !.contracts = @ \cup {pool}]
  /\ step' = IF log.event = "CurvePoolDeployed" /\ host /\ pool \notin tx.contracts
             THEN "abi" ELSE "done"
  /\ UNCHANGED <<setting, next, db, todo, hinted, abiId, hostAbi, sources, answered, faults>>

\* trackContract; registerCurvePoolSource does nothing without the host API.
Track ==
  /\ step = "tokens" /\ todo = <<>>
  /\ tx' = [tx EXCEPT !.contracts = @ \cup {pool}]
  /\ step' = IF log.event = "CurvePoolDeployed" /\ host THEN "abi" ELSE "done"
  /\ UNCHANGED <<setting, next, db, todo, hinted, abiId, hostAbi, sources, answered, faults>>

BugAbiNotReused ==
  /\ step = "abi"
  /\ hostAbi' = IF abiId = 0 THEN hostAbi + AbiId ELSE hostAbi
  /\ abiId' = IF abiId = 0 THEN hostAbi' ELSE abiId
  /\ step' = "source"
  /\ UNCHANGED <<setting, next, db, tx, todo, hinted, sources, answered, faults>>

\* curvePoolAbiID: the cached id, else the registered ABI's, else a new one's.
ResolveAbi ==
  /\ step = "abi"
  /\ hostAbi' = IF abiId = 0 /\ hostAbi = 0 THEN AbiId ELSE hostAbi
  /\ abiId' = IF abiId = 0 THEN hostAbi' ELSE abiId
  /\ step' = "source"
  /\ UNCHANGED <<setting, next, db, tx, todo, hinted, sources, answered, faults>>

BugStartBlock == log.block + 1

\* StartBlock: the deployment's own block.
StartBlock == log.block

\* The host's CreateLogSource returns the source it has, or makes one.
Sourced ==
  IF sources[pool] # NoSource THEN sources
  ELSE [sources EXCEPT ![pool] = [start |-> StartBlock, abi |-> abiId]]

RegisterSource ==
  /\ step = "source"
  /\ sources' = Sourced
  /\ step' = "done"
  /\ UNCHANGED <<setting, next, db, tx, todo, hinted, abiId, hostAbi, answered, faults>>

Commit ==
  /\ step = "done"
  /\ db' = tx
  /\ next' = next + 1
  /\ step' = "idle"
  /\ UNCHANGED <<setting, tx, todo, hinted, abiId, hostAbi, sources, answered, faults>>

-----------------------------------------------------------------------------
Rollback ==
  /\ faults < MaxFaults /\ faults' = faults + 1
  /\ step' = "idle" /\ todo' = <<>> /\ hinted' = FALSE
  /\ tx' = db

BugFailSkips ==
  /\ step # "idle"
  /\ Rollback
  /\ next' = next + 1
  /\ UNCHANGED <<setting, db, abiId, hostAbi, sources, answered>>

\* A statement, a read or a host call fails: the event does, and is redelivered.
Fail ==
  /\ step # "idle"
  /\ Rollback
  /\ UNCHANGED <<setting, next, db, abiId, hostAbi, sources, answered>>

\* A host call takes effect and its answer is lost.
LoseUpsertAbi ==
  /\ step = "abi" /\ abiId = 0 /\ hostAbi = 0
  /\ Rollback
  /\ hostAbi' = AbiId
  /\ UNCHANGED <<setting, next, db, abiId, sources, answered>>

LoseCreateLogSource ==
  /\ step = "source"
  /\ Rollback
  /\ sources' = Sourced
  /\ UNCHANGED <<setting, next, db, abiId, hostAbi, answered>>

\* A restart forgets the ABI id too.
Restart ==
  /\ Rollback
  /\ abiId' = 0
  /\ UNCHANGED <<setting, next, db, hostAbi, sources, answered>>

-----------------------------------------------------------------------------
Progress ==
  \/ Begin \/ PassBy \/ HandleOwnLog \/ RecordLinkage \/ NotResolved \/ RecordPool
  \/ EnsureToken \/ Track \/ ResolveAbi \/ RegisterSource \/ Commit

Next == Progress \/ Fail \/ LoseUpsertAbi \/ LoseCreateLogSource \/ Restart

Spec == Init /\ [][Next]_vars

\* The host redelivers a failed log and restarts a plugin that stopped.
FairSpec == Spec /\ WF_vars(Progress)

-----------------------------------------------------------------------------
(* Properties                                                              *)

Done(event, p) == \E l \in 1..next - 1 : stream[l].event = event /\ stream[l].pool = p

\* The factory's event of p is processed with the means to resolve it.
Discovered(p) == Done("CurvePoolDeployed", p) /\ rpc /\ p \notin Unresolvable

\* The values the state ranges over, whatever the handlers do to it.
TypeOK ==
  /\ next \in 1..Len(stream) + 1
  /\ step \in {"idle", "claimed", "tokens", "abi", "source", "done"}
  /\ todo \in Seq(Tokens) /\ hinted \in BOOLEAN
  /\ \A tables \in {db, tx} :
       /\ \A t \in Tokens : tables.tokens[t] \in {"absent", "blank", "known"}
       /\ \A p \in Pools : /\ tables.pools[p].coins \in {<<>>, Truth[p].coins}
                           /\ tables.pools[p].balances \in [Holders -> Nat]
       /\ tables.contracts \subseteq Pools
  /\ abiId \in {0, hostAbi} /\ hostAbi \in {0, AbiId}
  /\ \A p \in Pools : sources[p].start \in Nat /\ sources[p].abi \in {0, AbiId}
  /\ answered \subseteq Tokens /\ faults \in 0..MaxFaults

\* What a pool's row says does not depend on which deployment event landed
\* second, nor on the retries: handleCurvePoolDeployed "writes only its own
\* columns" and the reserve linkage of PoolDeployed survives (handlers.go:1110).
RowKeepsBoth ==
  \A p \in Pools :
    LET row == db.pools[p]
        fact == Truth[p]
    IN /\ Discovered(p) => row.factory = CurveFactory /\ row.coins = fact.coins
       /\ Discovered(p) /\ fact.meta =>
            <<row.deployer, row.basePool, row.coin>> = <<fact.deployer, fact.basePool, fact.coin>>
       /\ Done("PoolDeployed", p) =>
            <<row.reserve, row.deployer, row.basePool, row.coin>> =
              <<fact.reserve, fact.deployer, fact.basePool, fact.coin>>

\* Every discovered pool is indexed by the host, under the registered ABI, by
\* the time its deployment is processed (registerCurvePoolSource fails the event
\* otherwise), and is routed.
DiscoveredIsSourced ==
  \A p \in Pools :
    Discovered(p) /\ host => /\ sources[p].abi = hostAbi /\ hostAbi # 0
                             /\ p \in db.contracts

\* The positions of the processed logs of p whose event is one of `events'.
Processed(events, p) ==
  {l \in 1..next - 1 : stream[l].event \in events /\ stream[l].pool = p}

\* No log of a discovered pool is lost or counted twice, from the block it is
\* deployed in ("the pool is indexed from its creation and no earlier",
\* host.go:37-38): its swaps, its LP balances and, row by row, its liquidity
\* history are those of the chain.
NoOwnLogLost ==
  host => \A p \in Pools :
    LET provisions == Processed(Provisions, p)
    IN Discovered(p) =>
         /\ db.pools[p].swaps = Cardinality(Processed(Exchanges, p))
         /\ \A h \in Holders : db.pools[p].balances[h] = BalanceAt(stream, p, h, next - 1)
         /\ Len(db.pools[p].liquidity) = Cardinality(provisions)
         /\ \A l \in provisions :
              db.pools[p].liquidity[Cardinality({k \in provisions : k <= l})] =
                <<stream[l].event, stream[l].supply>>

\* The supply summed from a pool's Transfers is the sum of its holders' balances
\* and, after a liquidity event, the token_supply the pool itself announces: the
\* two are separate logs, so a lost or repeated mint or burn would part them.
LpAgreesWithPool ==
  host => \A p \in Pools :
    /\ db.pools[p].supply = SumFunction(db.pools[p].balances)
    /\ Discovered(p) /\ next - 1 \in Processed(Provisions, p) =>
         db.pools[p].supply = stream[next - 1].supply

\* With an endpoint, no token stays blank because a read failed: a row without
\* metadata means its getters answered nothing (ensureToken rolls back else).
BlankWasAnswered ==
  rpc => \A t \in Tokens : db.tokens[t] = "blank" => t \in answered

\* A pool is entered together with its LP token and every coin it pairs.
DirectoryComplete ==
  \A p \in Pools :
    /\ Discovered(p) => \A t \in {p} \cup ToSet(Truth[p].coins) : db.tokens[t] # "absent"
    /\ Done("PoolDeployed", p) =>
         \A t \in {p, Truth[p].coin} \ {NoAddr} : db.tokens[t] # "absent"

\* A log source, made before the commit and never undone, ends up with the row
\* and the coins of its pool: the deployment is redelivered until it commits.
SourceGetsItsRow ==
  \A p \in Pools :
    sources[p] # NoSource ~> db.pools[p].factory = CurveFactory /\ p \in db.contracts
=============================================================================
