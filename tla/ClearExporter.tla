---------------------------- MODULE ClearExporter ----------------------------
(***************************************************************************)
(* The exporter's event loop: main.go (Init, NewLogEvent), registry.go and *)
(* the routing of dispatch.go, run against a host that delivers a stream   *)
(* of logs in order and at least once.                                     *)
(*                                                                         *)
(* NewLogEvent is one database transaction.  Its steps are separate        *)
(* actions because the exporter's memory (the contract registry) is        *)
(* updated on the way and is NOT rolled back with the transaction.  A      *)
(* handler's writes are abstracted to one count per log, `applied'; what   *)
(* they write is the subject of the other modules.                         *)
(***************************************************************************)
EXTENDS Naturals

CONSTANTS
  N,          \* number of logs in the stream
  Addr,       \* contract addresses (normalised)
  NoAddr,     \* an empty or zero address in a log's arguments
  LogRecord,  \* the logs that can occur in a stream
  Config,     \* the pluginConfig.contracts an operator may start with
  MaxFaults   \* bound on failures, lost acknowledgements and crashes

Kinds == {"base_reserve", "meta_reserve", "iou", "curve", "oracle",
          "factory", "curve_deployer", "curve_factory"}
Unknown == "unknown"
Absent  == "absent"          \* no entry: the key is not in the Go map

Events == {"AssetAdded", "NewClearReserve", "PoolDeployed",
           "CurvePoolDeployed", "other"}

\* A row of clear_contracts.
NoRow == [kind |-> Absent, source |-> Absent]
Row   == [kind : Kinds, source : {"config", "dynamic"}] \cup {NoRow}

\* The words classify() looks for in a contract name.
Keywords == {"oracle", "factory", "curve", "stableswap", "deployer",
             "reserve", "meta", "base", "iou", "pool"}

\* `name' is the keywords the log's contract name contains; `subject' is the
\* contract that an announcing event names, `subjectKind' its reserveType.
ASSUME StreamAssumption == N \in Nat /\ MaxFaults \in Nat
ASSUME AddrAssumption   == NoAddr \notin Addr
ASSUME RecordAssumption ==
  LogRecord \subseteq [addr : Addr, name : SUBSET Keywords,
                       event : Events, subject : Addr \cup {NoAddr},
                       subjectKind : {"base_reserve", "meta_reserve", Unknown}]
ASSUME ConfigAssumption == Config \subseteq [Addr -> Kinds \cup {Unknown}]

Logs == 1..N

VARIABLES
  stream,      \* the chain's logs, in block order
  processed,   \* clear_processed_events
  contracts,   \* clear_contracts
  applied,     \* how many times the writes of a log were committed
  route,       \* the kind under which a log's transaction was committed
  offset,      \* logs delivered and answered without error (host, volatile)
  saved,       \* the host's durable cursor
  phase,       \* "down", "seeding" or "up"
  config,      \* the configuration of this start
  toSeed,      \* configured addresses seedContracts has not reached
  registry,    \* clearExporter.registry
  stage,       \* progress of the transaction in NewLogEvent
  kind,        \* the kind it resolved
  txContracts, \* clear_contracts as the transaction sees it
  faults       \* faults so far

durable == <<processed, contracts, applied, route>>
host    == <<offset, saved>>
tx      == <<stage, kind, txContracts>>
memory  == <<phase, config, toSeed, registry>>
vars    == <<stream, durable, host, memory, tx, faults>>

\* The log being delivered.
current == offset + 1
Delivering == phase = "up" /\ offset < N

Init ==
  /\ stream \in [Logs -> LogRecord]
  /\ processed = {}
  /\ contracts = [a \in Addr |-> NoRow]
  /\ applied = [l \in Logs |-> 0]
  /\ route = [l \in Logs |-> Absent]
  /\ offset = 0 /\ saved = 0
  /\ phase = "down"
  /\ config = [a \in Addr |-> Unknown]
  /\ toSeed = {}
  /\ registry = [a \in Addr |-> Absent]
  /\ stage = "none" /\ kind = Unknown
  /\ txContracts = [a \in Addr |-> NoRow]
  /\ faults = 0

-----------------------------------------------------------------------------
(* Init: seed clear_contracts from the configuration, then load it.        *)

\* The plausible bugs the runs are tested with are the operators named Bug...;
\* each stands just before the definition it would replace.

BugRecognisedAll(c) == Addr

\* The entries seedContracts writes: those with a kind it recognises.
Recognised(c) == {a \in Addr : c[a] # Unknown}

Start ==
  /\ phase = "down"
  /\ phase' = "seeding"
  /\ \E c \in Config :
       /\ config' = c
       /\ toSeed' = Recognised(c)
  /\ registry' = [a \in Addr |-> Absent]
  /\ UNCHANGED <<stream, durable, host, tx, faults>>

\* One upsert of seedContracts; each commits on its own.
Seed(a) ==
  /\ phase = "seeding"
  /\ a \in toSeed
  /\ toSeed' = toSeed \ {a}
  /\ contracts' = [contracts EXCEPT ![a] = [kind |-> config[a], source |-> "config"]]
  /\ UNCHANGED <<stream, processed, applied, route, host, phase, config,
                 registry, tx, faults>>

BugLoadedConfigOnly ==
  [a \in Addr |-> IF contracts[a].source = "config" THEN contracts[a].kind
                                                    ELSE Absent]

\* The registry that clear_contracts describes.
Loaded == [a \in Addr |-> contracts[a].kind]

LoadRegistry ==
  /\ phase = "seeding"
  /\ toSeed = {}
  /\ phase' = "up"
  /\ registry' = Loaded
  /\ UNCHANGED <<stream, durable, host, config, toSeed, tx, faults>>

-----------------------------------------------------------------------------
(* NewLogEvent                                                             *)

BugNeverProcessed(l) == FALSE

\* The INSERT ... ON CONFLICT DO NOTHING of the claim inserts no row.
AlreadyProcessed(l) == l \in processed

BugRedeliveredFails ==
  /\ Delivering /\ stage = "none"
  /\ AlreadyProcessed(current)
  /\ UNCHANGED vars

\* A redelivered log: nothing is written, and the delivery is answered.
Redelivered ==
  /\ Delivering /\ stage = "none"
  /\ AlreadyProcessed(current)
  /\ offset' = current
  /\ UNCHANGED <<stream, durable, saved, memory, tx, faults>>

Claim ==
  /\ Delivering /\ stage = "none"
  /\ ~ AlreadyProcessed(current)
  /\ stage' = "claimed"
  /\ txContracts' = contracts
  /\ UNCHANGED <<stream, durable, host, memory, kind, faults>>

\* classify: the first rule that matches a name, in the order of the switch.
Classify(name) ==
  IF "oracle" \in name THEN "oracle"
  ELSE IF "factory" \in name /\ name \cap {"curve", "stableswap"} # {} THEN "curve_factory"
  ELSE IF "deployer" \in name THEN "curve_deployer"
  ELSE IF {"factory", "reserve"} \subseteq name THEN "factory"
  ELSE IF {"meta", "reserve"} \subseteq name THEN "meta_reserve"
  ELSE IF "reserve" \in name THEN "base_reserve"
  ELSE IF "iou" \in name THEN "iou"
  ELSE IF name \cap {"curve", "stableswap", "pool"} # {} THEN "curve"
  ELSE Unknown

BugRememberOnce(a, k) ==
  IF registry[a] = Absent THEN [registry EXCEPT ![a] = k] ELSE registry

\* rememberKind.
Remember(a, k) == [registry EXCEPT ![a] = k]

BugPersistOverwrites(a, k) ==
  [txContracts EXCEPT ![a] = [kind |-> k, source |-> "dynamic"]]

\* persistContract: the first writer's row is kept.
Persist(a, k) ==
  IF txContracts[a] = NoRow
  THEN [txContracts EXCEPT ![a] = [kind |-> k, source |-> "dynamic"]]
  ELSE txContracts

\* resolveKind finds the address in the registry.
ResolveKnown ==
  /\ Delivering /\ stage = "claimed"
  /\ registry[stream[current].addr] # Absent
  /\ kind' = registry[stream[current].addr]
  /\ stage' = "resolved"
  /\ UNCHANGED <<stream, durable, host, memory, txContracts, faults>>

\* resolveKind on first sight: the contract name decides, the answer is cached,
\* and a known kind is persisted within the transaction.
ResolveFirstSight ==
  LET a == stream[current].addr
      k == Classify(stream[current].name)
  IN /\ Delivering /\ stage = "claimed"
     /\ registry[a] = Absent
     /\ kind' = k
     /\ stage' = "resolved"
     /\ registry' = Remember(a, k)
     /\ txContracts' = IF k = Unknown THEN txContracts ELSE Persist(a, k)
     /\ UNCHANGED <<stream, durable, host, phase, config, toSeed, faults>>

\* dispatchReserve: an added asset announces its IOU.
AnnouncesIou(k, log) == k \in {"base_reserve", "meta_reserve"} /\ log.event = "AssetAdded"

\* The kinds a log registers its subject under when it is dispatched as k: the
\* factories and the deployer announce reserves and pools (dispatchFactory,
\* dispatchCurveDeployer, dispatchCurveFactory).
AnnouncedAs(k, log) ==
  {x \in Kinds :
     \/ x = "iou" /\ AnnouncesIou(k, log)
     \/ x = log.subjectKind /\ k = "factory" /\ log.event = "NewClearReserve"
     \/ x = "curve" /\ k = "curve_deployer" /\ log.event = "PoolDeployed"
     \/ x = "curve" /\ k = "curve_factory" /\ log.event = "CurvePoolDeployed"}

BugRejectsNothing(k, log) == FALSE

\* handleNewClearReserve refuses an announcement it cannot read: a reserveType it
\* does not recognise or a token list it cannot split.
Rejected(k, log) ==
  /\ k = "factory" /\ log.event = "NewClearReserve"
  /\ log.subject # NoAddr
  /\ log.subjectKind = Unknown

\* dispatch, for a handler that calls trackContract.
DispatchAnnouncement ==
  LET log == stream[current]
  IN /\ Delivering /\ stage = "resolved" /\ kind # Unknown
     /\ log.subject # NoAddr
     /\ \E x \in AnnouncedAs(kind, log) :
          /\ registry' = Remember(log.subject, x)
          /\ txContracts' = Persist(log.subject, x)
     /\ stage' = "dispatched"
     /\ UNCHANGED <<stream, durable, host, phase, config, toSeed, kind, faults>>

\* dispatch, for every other event.  A Curve factory deployment whose pool
\* cannot be resolved is consumed without registering anything.
DispatchPlain ==
  LET log == stream[current]
  IN /\ Delivering /\ stage = "resolved" /\ kind # Unknown
     /\ ~ Rejected(kind, log)
     /\ log.subject = NoAddr \/ AnnouncedAs(kind, log) = {} \/ kind = "curve_factory"
     /\ stage' = "dispatched"
     /\ UNCHANGED <<stream, durable, host, memory, kind, txContracts, faults>>

EndTx ==
  /\ stage' = "none"
  /\ kind' = Unknown
  /\ txContracts' = [a \in Addr |-> NoRow]

BugUnknownUnclaimed ==
  /\ Delivering
  /\ stage = "dispatched" \/ (stage = "resolved" /\ kind = Unknown)
  /\ processed' = IF kind = Unknown THEN processed ELSE processed \cup {current}
  /\ contracts' = txContracts
  /\ applied' = IF kind = Unknown THEN applied
                ELSE [applied EXCEPT ![current] = @ + 1]
  /\ route' = [route EXCEPT ![current] = kind]
  /\ EndTx

\* tx.Commit takes effect: the claim, the handler's writes and the registry
\* rows become durable together.  An unknown contract's log commits its claim.
CommitTx ==
  /\ Delivering
  /\ stage = "dispatched" \/ (stage = "resolved" /\ kind = Unknown)
  /\ processed' = processed \cup {current}
  /\ contracts' = txContracts
  /\ applied' = IF kind = Unknown THEN applied
                ELSE [applied EXCEPT ![current] = @ + 1]
  /\ route' = [route EXCEPT ![current] = kind]
  /\ EndTx

CommitAcked ==
  /\ CommitTx
  /\ offset' = current
  /\ UNCHANGED <<stream, saved, memory, faults>>

-----------------------------------------------------------------------------
(* Failures and the host                                                   *)

\* An error answer: the host delivers again, from this log or from an earlier
\* one of the block that its durable cursor has not passed.
Redeliver == offset' \in saved..offset

\* The commit took effect but its acknowledgement was lost, so NewLogEvent
\* returns an error for a log that is processed.
CommitAckLost ==
  /\ faults < MaxFaults
  /\ faults' = faults + 1
  /\ CommitTx
  /\ Redeliver
  /\ UNCHANGED <<stream, saved, memory>>

BugFailSwallowed ==
  /\ Delivering /\ faults < MaxFaults
  /\ faults' = faults + 1
  /\ EndTx
  /\ offset' = current
  /\ UNCHANGED <<stream, durable, saved, memory>>

\* Any statement, RPC call or host call of NewLogEvent fails: the transaction
\* is rolled back and the error returned.  The registry keeps what it learnt.
Fail ==
  /\ Delivering /\ faults < MaxFaults
  /\ faults' = faults + 1
  /\ EndTx
  /\ Redeliver
  /\ UNCHANGED <<stream, durable, saved, memory>>

\* The same for a log that its handler refuses: every delivery of it fails.
Reject ==
  /\ Delivering /\ stage = "resolved"
  /\ Rejected(kind, stream[current])
  /\ EndTx
  /\ Redeliver
  /\ UNCHANGED <<stream, durable, saved, memory, faults>>

\* The process stops, at any point: memory and the open transaction are gone
\* and the host restarts from its durable cursor.
Crash ==
  /\ phase # "down" /\ faults < MaxFaults
  /\ faults' = faults + 1
  /\ phase' = "down"
  /\ toSeed' = {}
  /\ registry' = [a \in Addr |-> Absent]
  /\ EndTx
  /\ offset' = saved
  /\ UNCHANGED <<stream, durable, saved, config>>

\* The host makes its cursor durable.
Save ==
  /\ saved < offset
  /\ saved' = offset
  /\ UNCHANGED <<stream, durable, offset, memory, tx, faults>>

-----------------------------------------------------------------------------
Progress ==
  \/ Start
  \/ \E a \in Addr : Seed(a)
  \/ LoadRegistry
  \/ Redelivered
  \/ Claim
  \/ ResolveKnown
  \/ ResolveFirstSight
  \/ DispatchAnnouncement
  \/ DispatchPlain
  \/ CommitAcked

Next ==
  \/ Progress
  \/ CommitAckLost
  \/ Fail
  \/ Reject
  \/ Crash
  \/ Save

Spec == Init /\ [][Next]_vars

\* The host keeps delivering to a plugin that runs and restarts one that does
\* not, so the exporter takes its next step unless a fault comes first.
FairSpec == Spec /\ WF_vars(Progress)

-----------------------------------------------------------------------------
(* Properties                                                              *)

\* The values the state ranges over (clearExporter's fields, the two tables
\* and the host's cursors).
TypeOK ==
  /\ stream \in [Logs -> LogRecord]
  /\ processed \subseteq Logs
  /\ contracts \in [Addr -> Row]
  /\ applied \in [Logs -> Nat]
  /\ route \in [Logs -> Kinds \cup {Unknown, Absent}]
  /\ offset \in 0..N /\ saved \in 0..N
  /\ phase \in {"down", "seeding", "up"}
  /\ config \in [Addr -> Kinds \cup {Unknown}]
  /\ toSeed \subseteq {a \in Addr : config[a] # Unknown}
  /\ registry \in [Addr -> Kinds \cup {Unknown, Absent}]
  /\ stage \in {"none", "claimed", "resolved", "dispatched"}
  /\ kind \in Kinds \cup {Unknown}
  /\ txContracts \in [Addr -> Row]
  /\ faults \in 0..MaxFaults

\* Exactly once (main.go:241-244): whatever is redelivered, lost or crashed, a
\* log's writes are in the database once if its id is in the ledger under a
\* known kind, and not at all otherwise.
ExactlyOnce ==
  \A l \in Logs :
    applied[l] = IF l \in processed /\ route[l] \in Kinds THEN 1 ELSE 0

\* No log is lost or overtaken: all logs the host believes delivered, and all
\* logs before a processed one, are in the ledger (NewLogEvent answers nil only
\* after its commit or when the claim was already there).
NoGap ==
  \A l \in Logs : l <= offset \/ l \in processed => 1..l \subseteq processed

\* A log its handler refuses is never marked processed, so it holds back every
\* later log instead of being skipped (NewClearReserve with an unknown type).
RefusedStaysPending ==
  \A l \in processed :
    ~ /\ route[l] = "factory"
      /\ stream[l].event = "NewClearReserve"
      /\ stream[l].subject # NoAddr
      /\ stream[l].subjectKind = Unknown

\* While the exporter runs, each contract in clear_contracts has a kind in the
\* in-memory registry: a tracked contract is never treated as unknown, whichever
\* of trackContract, a cached unknown or a rollback came last.
MemoryCoversTable ==
  phase = "up" => \A a \in Addr : contracts[a] # NoRow => registry[a] \in Kinds

\* What processing an event may do to clear_contracts: add rows.  Only seeding
\* replaces one (persistContract is ON CONFLICT DO NOTHING).
EventsKeepRows ==
  [][\A a \in Addr :
       contracts[a] # NoRow =>
         IF phase = "seeding" THEN contracts'[a] # NoRow
                              ELSE contracts'[a] = contracts[a]]_vars

\* clear_contracts is the source of truth for routing (registry.go:10-13): a log
\* that is committed while its contract has a row was routed by that row's kind.
RoutedAsTabled ==
  [][\A l \in processed' \ processed :
       LET row == contracts[stream[l].addr]
       IN row # NoRow => route'[l] = row.kind]_vars

\* Every log is consumed, if no handler refuses one: faults are finitely many,
\* a rolled-back log is delivered again and a processed one is answered.
EventuallyConsumed ==
  (\A l \in Logs : stream[l].event # "NewClearReserve" \/ stream[l].subjectKind # Unknown)
    ~> (processed = Logs /\ offset = N)

\* registry.go:115-119 and main.go:26-29 say of a contract seen for the first
\* time that a known kind is persisted: a log materialised under a kind has its
\* contract in clear_contracts.
DiscoveredIsPersisted ==
  \A l \in processed : route[l] \in Kinds => contracts[stream[l].addr] # NoRow

\* registry.go:160-161: "config seeding ... wins over dynamic discovery".  The
\* kind a running exporter routes a configured contract by, between two events,
\* is the configured one.
ConfigWins ==
  phase = "up" /\ stage = "none" =>
    \A a \in Addr : contracts[a].source = "config" => registry[a] = contracts[a].kind

\* The outcome each log has for an observer of the database.
Outcome ==
  [l \in Logs |->
     IF l \notin processed THEN "pending"
     ELSE IF applied[l] = 0 THEN "skipped"
     ELSE IF applied[l] = 1 THEN "applied" ELSE "corrupt"]

Abstract == INSTANCE LogConsumption WITH outcome <- Outcome

\* The event loop implements in-order, exactly-once consumption.
ImplementsLogConsumption == Abstract!Spec

-----------------------------------------------------------------------------
(* The inductive invariant behind the properties (see ClearExporterProofs). *)

\* A transaction is open only for a log that is delivered to a running
\* exporter and is not in the ledger; a dispatched one was not refused.
TxInv ==
  /\ saved <= offset
  /\ stage # "none" => phase = "up" /\ offset < N /\ current \notin processed
  /\ stage = "dispatched" => kind # Unknown /\ ~ Rejected(kind, stream[current])

\* The transaction sees every committed row, and the memory of a running
\* exporter knows every contract with a row, committed or about to be.
RegistryInv ==
  /\ MemoryCoversTable
  /\ stage # "none" =>
       \A a \in Addr :
         /\ contracts[a] # NoRow => txContracts[a] = contracts[a]
         /\ txContracts[a] # NoRow => registry[a] \in Kinds

\* Each contract has one true kind, and names, configurations and announcements
\* that say something of it say that.
OneKind(truth) ==
  /\ truth \in [Addr -> Kinds]
  /\ \A cfg \in Config : \A a \in Addr : cfg[a] \in {Unknown, truth[a]}
  /\ \A log \in LogRecord :
       /\ Classify(log.name) \in {Unknown, truth[log.addr]}
       /\ log.subject # NoAddr =>
            AnnouncedAs(truth[log.addr], log) \subseteq {truth[log.subject]}

\* The invariant that makes RoutedAsTabled hold for such a stream.
TruthInv(truth) ==
  /\ \A a \in Addr : /\ contracts[a] # NoRow => contracts[a].kind = truth[a]
                     /\ txContracts[a] # NoRow => txContracts[a].kind = truth[a]
                     /\ registry[a] \in {Absent, Unknown, truth[a]}
                     /\ a \in toSeed => config[a] = truth[a]
  /\ stage \in {"resolved", "dispatched"} =>
       LET a == stream[current].addr
       IN /\ kind \in {Unknown, truth[a]}
          /\ contracts[a] # NoRow => kind # Unknown

IInv == TypeOK /\ TxInv /\ ExactlyOnce /\ NoGap /\ RefusedStaysPending /\ RegistryInv
=============================================================================
