------------------------------- MODULE Settings -------------------------------
(***************************************************************************)
(* The configuration rows: every setter of a reserve, of the reserve       *)
(* factory and of the Curve pool deployer emits an event, and the handlers *)
(* fold those events into one row per contract (upsertPatch and its two    *)
(* variants for the factory), each event patching only the columns it      *)
(* carries.  A reserve's row in clear_reserves is created by whichever of  *)
(* its logs comes first, and completed by the factory's announcement.      *)
(*                                                                         *)
(* The contracts are external: they emit any setter events, in any order,  *)
(* with any arguments.  The logs are consumed later, in order and each     *)
(* once (ClearExporter).  An event always carries its arguments.           *)
(***************************************************************************)
EXTENDS Naturals, Sequences

CONSTANTS
  BaseReserves, MetaReserves,
  Factories,  \* ClearReserveFactory contracts
  Deployers,  \* ClearCurvePoolDeployer contracts
  Values,     \* values of an argument: amounts and addresses
  ZeroAddr,   \* the zero address, a value
  Null,       \* SQL NULL
  MaxLogs     \* bound on the logs of a behaviour

Reserves  == BaseReserves \cup MetaReserves
Contracts == Reserves \cup Factories \cup Deployers

ASSUME ContractAssumption ==
  /\ BaseReserves \cap MetaReserves = {} /\ Reserves \cap Factories = {}
  /\ Deployers \cap (Reserves \cup Factories) = {}
ASSUME ValueAssumption ==
  /\ ZeroAddr \in Values
  /\ Null \notin Values /\ Null \notin Factories /\ Null \notin Reserves
  /\ Null \notin {"base", "meta"}
ASSUME BoundAssumption == MaxLogs \in Nat

VARIABLES
  logs,     \* logs emitted so far
  next,     \* the first one not consumed
  config,   \* clear_reserve_settings, clear_protocol_config and
            \* clear_curve_deployer_config: a contract has one row in one of them
  reserves  \* clear_reserves

vars == <<logs, next, config, reserves>>

KindOf(r) == IF r \in MetaReserves THEN "meta" ELSE "base"

-----------------------------------------------------------------------------
(* What each event writes: its columns, and the argument each one takes.   *)

ReserveSetters ==
  [FlashFeeUpdated               |-> [flash_fee_bps |-> "flashFeeBps"],
   BaseQuoteFeeBpsUpdated        |-> [base_quote_fee_bps |-> "baseQuoteFeeBps"],
   SingleAssetFeeBpsUpdated      |-> [single_asset_fee_bps |-> "singleAssetFeeBps"],
   RedemptionProximityBpsUpdated |-> [redemption_proximity_bps |-> "redemptionProximityBps"],
   RebalanceTriggerBpsUpdated    |-> [rebalance_trigger_bps |-> "triggerBps"],
   RebalanceDeviationBpsUpdated  |-> [rebalance_deviation_bps |-> "deviationBps"],
   IouDistributionUpdated        |-> [iou_trader_bps |-> "traderBps",
                                      iou_treasury_bps |-> "treasuryBps"],
   BaseQuoteDistributionUpdated  |-> [base_quote_trader_bps |-> "traderBps",
                                      base_quote_treasury_bps |-> "treasuryBps"],
   SwapSpreadBpsUpdated          |-> [swap_spread_min_bps |-> "minBps",
                                      swap_spread_max_bps |-> "maxBps"]]

FactorySetters ==
  [NewTreasury                  |-> [treasury |-> "newTreasury"],
   NewBaseReserveImplementation |-> [base_reserve_implementation |-> "implementation",
                                     base_reserve_version |-> "version"],
   NewMetaReserveImplementation |-> [meta_reserve_implementation |-> "implementation",
                                     meta_reserve_version |-> "version"],
   NewIOUImplementation         |-> [iou_implementation |-> "implementation",
                                     iou_version |-> "version"],
   CurvePoolDeployerUpdated     |-> [curve_pool_deployer |-> "deployer"]]

\* The three other pool parameters are written along with the fee.
DeployerSetters ==
  [FactoryUpdated    |-> [curve_factory |-> "factory"],
   PoolParamsUpdated |-> [amplification |-> "amplification", fee |-> "fee"]]

SettersOf(c) ==
  IF c \in Reserves THEN ReserveSetters
  ELSE IF c \in Factories THEN FactorySetters ELSE DeployerSetters

Columns(c) == UNION {DOMAIN SettersOf(c)[e] : e \in DOMAIN SettersOf(c)}

ImplementationSetters ==
  {"NewBaseReserveImplementation", "NewMetaReserveImplementation", "NewIOUImplementation"}

\* A row whose last_block is 0 is not there yet.
NoRow(c) == [kind |-> Null, last_block |-> 0, col |-> [k \in Columns(c) |-> Null]]
Unknown  == [kind |-> Null, factory |-> Null, implementation |-> Null]

Init ==
  /\ logs = <<>> /\ next = 1
  /\ config = [c \in Contracts |-> NoRow(c)]
  /\ reserves = [r \in Reserves |-> Unknown]

-----------------------------------------------------------------------------
(* The contracts.  Each log is in a block of its own, numbered from 1.     *)

ArgsOf(c, e) == {SettersOf(c)[e][k] : k \in DOMAIN SettersOf(c)[e]}

\* The setters a contract has: a reserve's rebalance parameter depends on its
\* kind (schema.go:110-111).
Offers(c) ==
  DOMAIN SettersOf(c) \
    (IF c \in BaseReserves THEN {"RebalanceDeviationBpsUpdated"}
     ELSE IF c \in MetaReserves THEN {"RebalanceTriggerBpsUpdated"} ELSE {})

SetterLogs(c) ==
  UNION {[addr : {c}, event : {e}, reserve : {Null}, args : [ArgsOf(c, e) -> Values]] :
           e \in Offers(c)}

Announcement(f, r, impl) ==
  [addr |-> f, event |-> "NewClearReserve", reserve |-> r, args |-> [implementation |-> impl]]

Emit(l) ==
  /\ Len(logs) < MaxLogs
  /\ logs' = Append(logs, l)
  /\ UNCHANGED <<next, config, reserves>>

Set(c) == \E l \in SetterLogs(c) : Emit(l)

\* The factory creates a reserve, once, before or after its first setters.
Create(f, r, impl) ==
  /\ \A n \in 1..Len(logs) : logs[n].reserve # r
  /\ Emit(Announcement(f, r, impl))

-----------------------------------------------------------------------------
(* The handlers                                                            *)

log == logs[next]

\* The next log is one of `events' of a contract of this kind.
Consume(contracts, events) ==
  /\ next <= Len(logs) /\ log.addr \in contracts /\ log.event \in events
  /\ next' = next + 1
  /\ UNCHANGED logs

BugUntypedReserve(r) ==
  [reserves EXCEPT ![r].kind = IF @ = Null THEN "reserve" ELSE @]

\* ensureReserve: the kind is written by the insert only.
EnsureReserve(r) ==
  [reserves EXCEPT ![r].kind = IF @ = Null THEN KindOf(r) ELSE @]

BugReplacesRow(row, kind, sets) ==
  [kind |-> kind, last_block |-> next,
   col  |-> [k \in DOMAIN row.col |-> IF k \in DOMAIN sets THEN log.args[sets[k]] ELSE Null]]

\* upsertPatch: the columns of the event are written, the others left alone;
\* the kind is written by the insert only.
Patched(row, kind, sets) ==
  [kind |-> IF row.last_block = 0 THEN kind ELSE row.kind,
   last_block |-> next,
   col  |-> [k \in DOMAIN row.col |->
               IF k \in DOMAIN sets THEN log.args[sets[k]] ELSE row.col[k]]]

Upserted(kind) ==
  [config EXCEPT ![log.addr] = Patched(@, kind, SettersOf(log.addr)[log.event])]

handleReserveSettings ==
  /\ Consume(Reserves, DOMAIN ReserveSetters)
  /\ reserves' = EnsureReserve(log.addr)
  /\ config' = Upserted(KindOf(log.addr))

handleFactoryConfig ==
  /\ Consume(Factories, DOMAIN FactorySetters \ ImplementationSetters)
  /\ config' = Upserted(Null)
  /\ UNCHANGED reserves

\* A zero implementation is ignored, a zero treasury or deployer is not.
handleFactoryImplementation ==
  /\ Consume(Factories, ImplementationSetters)
  /\ config' = IF log.args.implementation = ZeroAddr THEN config ELSE Upserted(Null)
  /\ UNCHANGED reserves

handleCurveDeployerConfig ==
  /\ Consume(Deployers, DOMAIN DeployerSetters)
  /\ config' = Upserted(Null)
  /\ UNCHANGED reserves

BugAnnouncedInserts ==
  IF reserves[log.reserve].kind # Null THEN reserves
  ELSE [reserves EXCEPT ![log.reserve] =
         [kind |-> KindOf(log.reserve), factory |-> log.addr,
          implementation |-> log.args.implementation]]

\* The announcement completes the row whether or not a setter created it.
Announced ==
  [EnsureReserve(log.reserve) EXCEPT
     ![log.reserve].factory = log.addr,
     ![log.reserve].implementation = log.args.implementation]

handleNewClearReserve ==
  /\ Consume(Factories, {"NewClearReserve"})
  /\ reserves' = Announced
  /\ UNCHANGED config

-----------------------------------------------------------------------------
ContractCall ==
  \/ \E c \in Contracts : Set(c)
  \/ \E f \in Factories, r \in Reserves, impl \in Values \ {ZeroAddr} : Create(f, r, impl)

Next ==
  \/ ContractCall
  \/ handleReserveSettings \/ handleFactoryConfig \/ handleFactoryImplementation
  \/ handleCurveDeployerConfig \/ handleNewClearReserve

Spec == Init /\ [][Next]_vars

-----------------------------------------------------------------------------
(* Properties                                                              *)

Consumed == 1..(next - 1)

Announcements == {Announcement(f, r, impl) : f \in Factories, r \in Reserves, impl \in Values}
LogType       == (UNION {SetterLogs(c) : c \in Contracts}) \cup Announcements

RowType(c) ==
  [kind       : IF c \in Reserves THEN {KindOf(c), Null} ELSE {Null},
   last_block : 0..Len(logs),
   col        : [Columns(c) -> Values \cup {Null}]]

EntryType(r) ==
  [kind : {KindOf(r), Null}, factory : Factories \cup {Null}, implementation : Values \cup {Null}]

\* The logs the contracts emit, and the columns of the tables: a reserve's kind is
\* one of the two, the settings row has that of its reserve.
TypeOK ==
  /\ logs \in Seq(LogType) /\ Len(logs) <= MaxLogs
  /\ next \in 1..Len(logs) + 1
  /\ DOMAIN config = Contracts /\ \A c \in Contracts : config[c] \in RowType(c)
  /\ DOMAIN reserves = Reserves /\ \A r \in Reserves : reserves[r] \in EntryType(r)

\* The n-th log sets e's columns in c's row.
Sets(n, c, e) ==
  /\ logs[n].addr = c /\ logs[n].event = e
  /\ e \in ImplementationSetters => logs[n].args.implementation # ZeroAddr

\* Column k of c's row has the value of the last consumed e that sets it, and is
\* NULL when there is none.
Latest(c, e, k) ==
  \/ /\ \A n \in Consumed : ~ Sets(n, c, e)
     /\ config[c].col[k] = Null
  \/ \E n \in Consumed :
       /\ Sets(n, c, e) /\ \A m \in Consumed : m > n => ~ Sets(m, c, e)
       /\ config[c].col[k] = logs[n].args[SettersOf(c)[e][k]]

\* A row "always holds the latest value of each parameter" (handlers.go:898-904),
\* whichever setter created it and however the setters, those of several columns
\* included, are interleaved: at every moment the row is the contract's own
\* configuration as of the last log consumed.
ColumnsAreLatest ==
  \A c \in Contracts : \A e \in DOMAIN SettersOf(c) : \A k \in DOMAIN SettersOf(c)[e] :
    Latest(c, e, k)

\* The consumed announcements of r.
AnnouncedBy(r) == {n \in Consumed : logs[n].reserve = r}

Identified(r) ==
  /\ (reserves[r].kind = KindOf(r)) <=> \E n \in Consumed : r \in {logs[n].addr, logs[n].reserve}
  /\ config[r].last_block # 0 => config[r].kind = KindOf(r) /\ reserves[r].kind = KindOf(r)
  /\ \/ /\ AnnouncedBy(r) = {}
        /\ reserves[r].factory = Null /\ reserves[r].implementation = Null
     \/ \E n \in AnnouncedBy(r) : /\ reserves[r].factory = logs[n].addr
                                  /\ reserves[r].implementation = logs[n].args.implementation

\* A reserve has its row in clear_reserves as soon as one of its logs or its
\* announcement is consumed, under one kind in both tables, and its identity
\* columns are the announcement's whether that came first or last.
ReserveIsIdentified == \A r \in Reserves : Identified(r)

\* What every step preserves.
IInv == TypeOK /\ ColumnsAreLatest /\ ReserveIsIdentified
=============================================================================
