---------------------------- MODULE SettingsProofs ----------------------------
(***************************************************************************)
(* For any contracts, values and number of logs, the configuration rows    *)
(* hold the latest value of every parameter and clear_reserves identifies  *)
(* every reserve.                                                          *)
(***************************************************************************)
EXTENDS Settings, TLAPS

-----------------------------------------------------------------------------
(* No two events write the same column.                                    *)

\* No two setters of a contract write one column.
LEMMA ReserveColumns ==
  \A e1, e2 \in DOMAIN ReserveSetters :
    \A k \in DOMAIN ReserveSetters[e1] \cap DOMAIN ReserveSetters[e2] : e1 = e2
BY DEF ReserveSetters

LEMMA FactoryColumns ==
  \A e1, e2 \in DOMAIN FactorySetters :
    \A k \in DOMAIN FactorySetters[e1] \cap DOMAIN FactorySetters[e2] : e1 = e2
BY DEF FactorySetters

LEMMA DeployerColumns ==
  \A e1, e2 \in DOMAIN DeployerSetters :
    \A k \in DOMAIN DeployerSetters[e1] \cap DOMAIN DeployerSetters[e2] : e1 = e2
BY DEF DeployerSetters

LEMMA OneSetterPerColumn ==
  \A c \in Contracts : \A e1, e2 \in DOMAIN SettersOf(c) :
    \A k \in DOMAIN SettersOf(c)[e1] \cap DOMAIN SettersOf(c)[e2] : e1 = e2
BY ReserveColumns, FactoryColumns, DeployerColumns DEF SettersOf

\* The setters of each kind of contract.
LEMMA SettersByKind ==
  /\ \A c \in Reserves : SettersOf(c) = ReserveSetters
  /\ \A c \in Factories : SettersOf(c) = FactorySetters
  /\ \A c \in Deployers : SettersOf(c) = DeployerSetters
BY ContractAssumption DEF SettersOf

\* A reserve's announcement is no setter.
LEMMA NotASetter ==
  \A c \in Contracts : "NewClearReserve" \notin DOMAIN SettersOf(c)
BY DEF SettersOf, ReserveSetters, FactorySetters, DeployerSetters

\* What a log can be.
LEMMA LogShape ==
  ASSUME NEW l \in LogType
  PROVE  \/ /\ l.addr \in Contracts /\ l.reserve = Null /\ l.event \in DOMAIN SettersOf(l.addr)
            /\ l.args \in [ArgsOf(l.addr, l.event) -> Values]
         \/ /\ l.addr \in Factories /\ l.reserve \in Reserves /\ l.event = "NewClearReserve"
            /\ l.args = [implementation |-> l.args.implementation]
            /\ l.args.implementation \in Values
<1>0. (\E c \in Contracts : l \in SetterLogs(c)) \/ l \in Announcements
  BY DEF LogType
<1>1. CASE \E c \in Contracts : l \in SetterLogs(c)
  <2>1. PICK c \in Contracts : l \in SetterLogs(c)
    BY <1>1
  <2>2. PICK e \in Offers(c) :
          l \in [addr : {c}, event : {e}, reserve : {Null}, args : [ArgsOf(c, e) -> Values]]
    BY <2>1 DEF SetterLogs
  <2> QED
    BY <2>2 DEF Offers
<1>2. CASE l \in Announcements
  BY <1>2 DEF Announcements, Announcement
<1> QED
  BY <1>0, <1>1, <1>2

\* The logs of a longer sequence.
LEMMA AppendLogs ==
  ASSUME NEW s \in Seq(LogType), NEW l \in LogType
  PROVE  /\ Append(s, l) \in Seq(LogType)
         /\ Len(s) \in Nat /\ Len(Append(s, l)) = Len(s) + 1
         /\ \A n \in 1..Len(s) : Append(s, l)[n] = s[n]
OBVIOUS

-----------------------------------------------------------------------------
(* Emitting a log changes nothing the tables are about.                    *)

\* Emitting a log, and each handler, keep the invariant.
LEMMA EmitKeeps ==
  ASSUME IInv, NEW l \in LogType, Emit(l)
  PROVE  IInv'
<1>0. logs \in Seq(LogType) /\ next \in 1..Len(logs) + 1 /\ Len(logs) \in Nat
  BY DEF IInv, TypeOK
<1>1. /\ logs' = Append(logs, l) /\ Len(logs') = Len(logs) + 1 /\ logs' \in Seq(LogType)
      /\ UNCHANGED <<next, config, reserves>>
  BY <1>0, AppendLogs DEF Emit
<1>2. Consumed' = Consumed /\ \A n \in Consumed : logs'[n] = logs[n]
  BY <1>0, <1>1, AppendLogs DEF Consumed
<1>3. TypeOK'
  <2>1. Len(logs') <= MaxLogs
    BY <1>0, <1>1, BoundAssumption DEF Emit
  <2>2. \A c \in Contracts : config'[c] \in RowType(c)'
    BY <1>0, <1>1 DEF IInv, TypeOK, RowType
  <2> QED
    BY <1>0, <1>1, <2>1, <2>2 DEF IInv, TypeOK
<1>4. ColumnsAreLatest'
  <2> SUFFICES ASSUME NEW c \in Contracts, NEW e \in DOMAIN SettersOf(c),
                      NEW k \in DOMAIN SettersOf(c)[e]
               PROVE  Latest(c, e, k)'
    BY DEF ColumnsAreLatest
  <2>1. Latest(c, e, k)
    BY DEF IInv, ColumnsAreLatest
  <2>2. \A n \in Consumed : Sets(n, c, e)' <=> Sets(n, c, e)
    BY <1>2 DEF Sets
  <2> QED
    BY <1>1, <1>2, <2>1, <2>2 DEF Latest
<1>5. ReserveIsIdentified'
  <2> SUFFICES ASSUME NEW r \in Reserves PROVE Identified(r)'
    BY DEF ReserveIsIdentified
  <2>1. Identified(r)
    BY DEF IInv, ReserveIsIdentified
  <2>2. AnnouncedBy(r)' = AnnouncedBy(r)
    BY <1>2 DEF AnnouncedBy
  <2>3. (\E n \in Consumed : r \in {logs[n].addr, logs[n].reserve})'
          <=> \E n \in Consumed : r \in {logs[n].addr, logs[n].reserve}
    BY <1>2
  <2>4. AnnouncedBy(r) \subseteq Consumed
    BY DEF AnnouncedBy
  <2> QED
    BY <1>1, <1>2, <2>1, <2>2, <2>3, <2>4 DEF Identified
<1> QED
  BY <1>3, <1>4, <1>5 DEF IInv

-----------------------------------------------------------------------------
(* Consuming a log.                                                        *)

\* The last log consumed is the one that was next.
LEMMA OneMore ==
  ASSUME next \in Nat \ {0}, next' = next + 1
  PROVE  Consumed' = Consumed \cup {next} /\ \A n \in Consumed : n \in Nat /\ n < next
BY DEF Consumed

\* If the step writes the columns of the log it consumes and no other, every
\* column stays the latest.
LEMMA LatestStep ==
  ASSUME ColumnsAreLatest, next \in Nat \ {0}, next' = next + 1, logs' = logs,
         \A c \in Contracts : \A e \in DOMAIN SettersOf(c) : \A k \in DOMAIN SettersOf(c)[e] :
           config'[c].col[k] = IF Sets(next, c, e) THEN log.args[SettersOf(c)[e][k]]
                                                   ELSE config[c].col[k]
  PROVE  ColumnsAreLatest'
<1> SUFFICES ASSUME NEW c \in Contracts, NEW e \in DOMAIN SettersOf(c),
                    NEW k \in DOMAIN SettersOf(c)[e]
             PROVE  Latest(c, e, k)'
  BY DEF ColumnsAreLatest
<1>1. Consumed' = Consumed \cup {next} /\ \A n \in Consumed : n \in Nat /\ n < next
  BY OneMore
<1>2. \A n : Sets(n, c, e)' <=> Sets(n, c, e)
  BY DEF Sets
<1>3. Latest(c, e, k)
  BY DEF ColumnsAreLatest
<1>4. CASE Sets(next, c, e)
  <2>1. config'[c].col[k] = logs'[next].args[SettersOf(c)[e][k]]
    BY <1>4 DEF log
  <2>2. \A n \in Consumed' : ~ (n > next)
    BY <1>1
  <2> QED
    BY <1>1, <1>2, <1>4, <2>1, <2>2 DEF Latest
<1>5. CASE ~ Sets(next, c, e)
  <2>1. config'[c].col[k] = config[c].col[k]
    BY <1>5
  <2> QED
    BY <1>1, <1>2, <1>3, <1>5, <2>1 DEF Latest
<1> QED
  BY <1>4, <1>5

\* A log that is upserted writes its own columns only.
LEMMA UpsertWrites ==
  ASSUME TypeOK, next <= Len(logs), log.addr \in Contracts, log.event \in DOMAIN SettersOf(log.addr),
         log.event \in ImplementationSetters => log.args.implementation # ZeroAddr,
         NEW kind, config' = Upserted(kind),
         NEW c \in Contracts, NEW e \in DOMAIN SettersOf(c), NEW k \in DOMAIN SettersOf(c)[e]
  PROVE  config'[c].col[k] = IF Sets(next, c, e) THEN log.args[SettersOf(c)[e][k]]
                                                 ELSE config[c].col[k]
<1>1. DOMAIN config = Contracts /\ DOMAIN config[c].col = Columns(c) /\ k \in Columns(c)
  BY DEF TypeOK, RowType, Columns
<1>2. CASE c # log.addr
  BY <1>1, <1>2 DEF Upserted, Sets, log
<1>3. CASE c = log.addr
  <2>1. config'[c].col[k] = IF k \in DOMAIN SettersOf(c)[log.event]
                            THEN log.args[SettersOf(c)[log.event][k]] ELSE config[c].col[k]
    BY <1>1, <1>3 DEF Upserted, Patched
  <2>2. k \in DOMAIN SettersOf(c)[log.event] <=> e = log.event
    BY <1>3, OneSetterPerColumn
  <2>3. Sets(next, c, e) <=> e = log.event
    BY <1>3 DEF Sets, log
  <2> QED
    BY <2>1, <2>2, <2>3
<1> QED
  BY <1>2, <1>3

\* The upserted row is a row.
LEMMA UpsertTyped ==
  ASSUME TypeOK, next <= Len(logs), log.addr \in Contracts, log.event \in DOMAIN SettersOf(log.addr),
         log.args \in [ArgsOf(log.addr, log.event) -> Values],
         NEW kind \in IF log.addr \in Reserves THEN {KindOf(log.addr), Null} ELSE {Null},
         config' = Upserted(kind), logs' = logs
  PROVE  DOMAIN config' = Contracts /\ \A c \in Contracts : config'[c] \in RowType(c)'
<1> DEFINE a == log.addr
           sets == SettersOf(a)[log.event]
<1>1. DOMAIN config = Contracts /\ \A c \in Contracts : config[c] \in RowType(c)
  BY DEF TypeOK
<1>2. \A c \in Contracts : RowType(c)' = RowType(c)
  BY DEF RowType
<1>3. \A k \in DOMAIN sets : log.args[sets[k]] \in Values
  BY DEF ArgsOf
<1>4. next \in 0..Len(logs)
  BY DEF TypeOK
<1>5. Patched(config[a], kind, sets) \in RowType(a)
  BY <1>1, <1>3, <1>4 DEF Patched, RowType
<1> QED
  BY <1>1, <1>2, <1>5 DEF Upserted

\* What the log that is consumed can be.
LEMMA NextLog ==
  ASSUME TypeOK, next <= Len(logs)
  PROVE  /\ next \in Nat \ {0} /\ next \in 1..Len(logs) /\ next + 1 \in 1..Len(logs) + 1
         /\ Len(logs) \in Nat /\ log \in LogType
BY DEF TypeOK, log

\* A log that is not ignored is upserted; reserves is dealt with separately.
LEMMA UpsertKeeps ==
  ASSUME IInv, NEW cs, NEW es, Consume(cs, es), log.reserve = Null,
         log.event \in DOMAIN SettersOf(log.addr),
         log.event \in ImplementationSetters => log.args.implementation # ZeroAddr,
         NEW kind \in IF log.addr \in Reserves THEN {KindOf(log.addr), Null} ELSE {Null},
         config' = Upserted(kind)
  PROVE  /\ DOMAIN config' = Contracts /\ \A c \in Contracts : config'[c] \in RowType(c)'
         /\ ColumnsAreLatest'
<1>0. TypeOK /\ ColumnsAreLatest /\ next <= Len(logs) /\ next' = next + 1 /\ logs' = logs
  BY DEF IInv, Consume
<1>1. log \in LogType /\ next \in Nat \ {0}
  BY <1>0, NextLog
<1>2. /\ log.addr \in Contracts /\ log.event \in DOMAIN SettersOf(log.addr)
      /\ log.args \in [ArgsOf(log.addr, log.event) -> Values]
  BY <1>1, LogShape, ValueAssumption
<1>3. \A c \in Contracts : \A e \in DOMAIN SettersOf(c) : \A k \in DOMAIN SettersOf(c)[e] :
        config'[c].col[k] = IF Sets(next, c, e) THEN log.args[SettersOf(c)[e][k]]
                                                ELSE config[c].col[k]
  BY <1>0, <1>2, UpsertWrites
<1>4. ColumnsAreLatest'
  BY <1>0, <1>1, <1>3, LatestStep
<1> QED
  BY <1>0, <1>2, <1>4, UpsertTyped

\* Consuming a log that sets no column of the tables of settings.
LEMMA SkipKeeps ==
  ASSUME IInv, NEW cs, NEW es, Consume(cs, es), UNCHANGED config,
         \A c \in Contracts : \A e \in DOMAIN SettersOf(c) : ~ Sets(next, c, e)
  PROVE  /\ DOMAIN config' = Contracts /\ \A c \in Contracts : config'[c] \in RowType(c)'
         /\ ColumnsAreLatest'
<1>0. TypeOK /\ ColumnsAreLatest /\ next <= Len(logs) /\ next' = next + 1 /\ logs' = logs
  BY DEF IInv, Consume
<1>1. ColumnsAreLatest'
  BY <1>0, NextLog, LatestStep
<1> QED
  BY <1>0, <1>1 DEF TypeOK, RowType

\* A reserve's rows stay as they were announced if the step leaves them alone.
LEMMA IdentifiedStays ==
  ASSUME IInv, NEW r \in Reserves, next <= Len(logs), next' = next + 1, logs' = logs,
         log.addr # r, log.reserve # r, reserves'[r] = reserves[r], config'[r] = config[r]
  PROVE  Identified(r)'
<1>0. Identified(r) /\ next \in Nat \ {0}
  BY NextLog DEF IInv, ReserveIsIdentified
<1>1. Consumed' = Consumed \cup {next}
  BY <1>0, OneMore
<1>2. AnnouncedBy(r)' = AnnouncedBy(r)
  BY <1>1 DEF AnnouncedBy, log
<1>3. (\E n \in Consumed : r \in {logs[n].addr, logs[n].reserve})'
        <=> \E n \in Consumed : r \in {logs[n].addr, logs[n].reserve}
  BY <1>1 DEF log
<1> QED
  BY <1>0, <1>2, <1>3 DEF Identified

\* The kinds of the rows are never NULL once written.
LEMMA KindIsNotNull == \A r \in Reserves : KindOf(r) \in {"base", "meta"} /\ KindOf(r) # Null
BY ValueAssumption DEF KindOf

-----------------------------------------------------------------------------
(* The invariant.                                                          *)

\* The invariant holds at first and after every step.
LEMMA InitIInv == Init => IInv
<1> SUFFICES ASSUME Init PROVE IInv
  OBVIOUS
<1>1. TypeOK
  BY BoundAssumption DEF Init, TypeOK, NoRow, Unknown, RowType, EntryType
<1>2. Consumed = {}
  BY DEF Init, Consumed
<1>3. ColumnsAreLatest
  BY <1>2 DEF Init, ColumnsAreLatest, Latest, NoRow, Columns
<1>4. ReserveIsIdentified
  BY <1>2, KindIsNotNull DEF Init, ReserveIsIdentified, Identified, AnnouncedBy, Unknown, NoRow, Contracts
<1> QED
  BY <1>1, <1>3, <1>4 DEF IInv

\* Consuming a log of a factory or a deployer that announces no reserve.
LEMMA OtherContractKeeps ==
  ASSUME IInv, NEW cs, NEW es, Consume(cs, es), UNCHANGED reserves,
         log.addr \notin Reserves, log.reserve = Null,
         \A r \in Reserves : config'[r] = config[r],
         DOMAIN config' = Contracts /\ \A c \in Contracts : config'[c] \in RowType(c)',
         ColumnsAreLatest'
  PROVE  IInv'
<1>0. next <= Len(logs) /\ next' = next + 1 /\ logs' = logs /\ TypeOK
  BY DEF Consume, IInv
<1>1. TypeOK'
  BY <1>0, NextLog DEF TypeOK
<1>2. ReserveIsIdentified'
  <2> SUFFICES ASSUME NEW r \in Reserves PROVE Identified(r)'
    BY DEF ReserveIsIdentified
  <2>1. log.addr # r /\ log.reserve # r
    BY ValueAssumption
  <2> QED
    BY <1>0, <2>1, IdentifiedStays
<1> QED
  BY <1>1, <1>2 DEF IInv

LEMMA SettingsKeeps ==
  ASSUME IInv, handleReserveSettings
  PROVE  IInv'
<1> DEFINE r0 == log.addr
<1>0. /\ next <= Len(logs) /\ next' = next + 1 /\ logs' = logs /\ TypeOK
      /\ r0 \in Reserves /\ log.event \in DOMAIN ReserveSetters
  BY DEF handleReserveSettings, Consume, IInv
<1>1. r0 \in Contracts /\ log.event \in DOMAIN SettersOf(r0) /\ log.reserve = Null
  BY <1>0, NextLog, LogShape, SettersByKind, NotASetter DEF Contracts
<1>2. log.event \notin ImplementationSetters
  BY <1>0 DEF ImplementationSetters, ReserveSetters
<1>3. /\ DOMAIN config' = Contracts /\ \A c \in Contracts : config'[c] \in RowType(c)'
      /\ ColumnsAreLatest'
  <2>1. KindOf(r0) \in IF r0 \in Reserves THEN {KindOf(r0), Null} ELSE {Null}
    BY <1>0
  <2>2. Consume(Reserves, DOMAIN ReserveSetters) /\ config' = Upserted(KindOf(r0))
    BY DEF handleReserveSettings
  <2> QED
    BY <1>1, <1>2, <2>1, <2>2, UpsertKeeps
<1>4. /\ DOMAIN reserves' = Reserves
      /\ \A r \in Reserves \ {r0} : reserves'[r] = reserves[r]
      /\ reserves'[r0] = [reserves[r0] EXCEPT !.kind = KindOf(r0)]
  BY <1>0 DEF handleReserveSettings, EnsureReserve, TypeOK, EntryType
<1>5. TypeOK'
  <2>1. \A r \in Reserves : reserves'[r] \in EntryType(r)
    BY <1>0, <1>4 DEF TypeOK, EntryType
  <2>2. \A r \in Reserves : EntryType(r)' = EntryType(r)
    BY DEF EntryType
  <2> QED
    BY <1>0, <1>3, <1>4, <2>1, <2>2, NextLog DEF TypeOK
<1>6. ReserveIsIdentified'
  <2> SUFFICES ASSUME NEW r \in Reserves PROVE Identified(r)'
    BY DEF ReserveIsIdentified
  <2>1. CASE r # r0
    <3>1. config'[r] = config[r]
      BY <1>0, <2>1 DEF handleReserveSettings, Upserted, TypeOK, Contracts
    <3>2. log.reserve # r
      BY <1>1, ValueAssumption
    <3> QED
      BY <1>0, <1>4, <2>1, <3>1, <3>2, IdentifiedStays
  <2>2. CASE r = r0
    <3>0. Identified(r) /\ next \in Nat \ {0}
      BY <1>0, NextLog DEF IInv, ReserveIsIdentified
    <3>1. Consumed' = Consumed \cup {next}
      BY <1>0, <3>0, OneMore
    <3>2. AnnouncedBy(r)' = AnnouncedBy(r)
      BY <1>0, <1>1, <3>1, ValueAssumption DEF AnnouncedBy, log
    <3>3. config'[r].kind = KindOf(r)
      BY <1>0, <1>1, <2>2, <3>0 DEF handleReserveSettings, Upserted, Patched, TypeOK, Identified
    <3>4. \E n \in Consumed' : r \in {logs'[n].addr, logs'[n].reserve}
      BY <1>0, <2>2, <3>1 DEF log
    <3>5. /\ reserves'[r].kind = KindOf(r) /\ reserves'[r].factory = reserves[r].factory
          /\ reserves'[r].implementation = reserves[r].implementation
      BY <1>0, <1>4, <2>2 DEF TypeOK, EntryType
    <3> QED
      BY <1>0, <3>0, <3>2, <3>3, <3>4, <3>5 DEF Identified
  <2> QED
    BY <2>1, <2>2
<1> QED
  BY <1>3, <1>5, <1>6 DEF IInv

\* A log of a factory's setter or of a deployer's.
LEMMA OtherSetter ==
  ASSUME IInv, NEW cs \in {Factories, Deployers}, NEW es,
         es \subseteq DOMAIN FactorySetters \/ es \subseteq DOMAIN DeployerSetters,
         Consume(cs, es)
  PROVE  /\ log.addr \in Contracts /\ log.addr \notin Reserves /\ log.reserve = Null
         /\ log.event \in DOMAIN SettersOf(log.addr)
<1>1. next <= Len(logs) /\ log.addr \in cs /\ log.event \in es /\ TypeOK
  BY DEF Consume, IInv
<1>2. log.event # "NewClearReserve"
  BY <1>1 DEF FactorySetters, DeployerSetters
<1> QED
  BY <1>1, <1>2, NextLog, LogShape, ContractAssumption DEF Contracts

LEMMA FactoryConfigKeeps ==
  ASSUME IInv, handleFactoryConfig PROVE IInv'
<1> DEFINE es == DOMAIN FactorySetters \ ImplementationSetters
<1>1. Consume(Factories, es) /\ config' = Upserted(Null) /\ UNCHANGED reserves
  BY DEF handleFactoryConfig
<1>2. /\ log.addr \in Contracts /\ log.addr \notin Reserves /\ log.reserve = Null
      /\ log.event \in DOMAIN SettersOf(log.addr)
  BY <1>1, OtherSetter
<1>3. log.event \notin ImplementationSetters
  BY <1>1 DEF Consume
<1>4. Null \in IF log.addr \in Reserves THEN {KindOf(log.addr), Null} ELSE {Null}
  BY <1>2
<1>5. /\ DOMAIN config' = Contracts /\ \A c \in Contracts : config'[c] \in RowType(c)'
      /\ ColumnsAreLatest'
  <2> HIDE DEF es
  <2> QED BY <1>1, <1>2, <1>3, <1>4, UpsertKeeps
<1>6. \A r \in Reserves : config'[r] = config[r]
  BY <1>1, <1>2 DEF Upserted, IInv, TypeOK, Contracts
<1> QED
  <2> HIDE DEF es
  <2> QED BY <1>1, <1>2, <1>5, <1>6, OtherContractKeeps

LEMMA FactoryImplementationKeeps ==
  ASSUME IInv, handleFactoryImplementation PROVE IInv'
<1>1. Consume(Factories, ImplementationSetters) /\ UNCHANGED reserves
  BY DEF handleFactoryImplementation
<1>2. /\ log.addr \in Contracts /\ log.addr \notin Reserves /\ log.reserve = Null
      /\ log.event \in DOMAIN SettersOf(log.addr)
  BY <1>1, OtherSetter DEF ImplementationSetters, FactorySetters
<1>3. Null \in IF log.addr \in Reserves THEN {KindOf(log.addr), Null} ELSE {Null}
  BY <1>2
<1>4. /\ DOMAIN config' = Contracts /\ \A c \in Contracts : config'[c] \in RowType(c)'
      /\ ColumnsAreLatest' /\ \A r \in Reserves : config'[r] = config[r]
  <2>1. CASE log.args.implementation = ZeroAddr
    <3>1. UNCHANGED config
      BY <2>1 DEF handleFactoryImplementation
    <3>2. \A c \in Contracts : \A e \in DOMAIN SettersOf(c) : ~ Sets(next, c, e)
      BY <1>1, <2>1 DEF Sets, Consume, log
    <3> QED
      BY <1>1, <3>1, <3>2, SkipKeeps
  <2>2. CASE log.args.implementation # ZeroAddr
    <3>1. config' = Upserted(Null)
      BY <2>2 DEF handleFactoryImplementation
    <3>2. \A r \in Reserves : config'[r] = config[r]
      BY <1>2, <3>1 DEF Upserted, IInv, TypeOK, Contracts
    <3> QED
      BY <1>1, <1>2, <1>3, <2>2, <3>1, <3>2, UpsertKeeps
  <2> QED
    BY <2>1, <2>2
<1> QED
  BY <1>1, <1>2, <1>4, OtherContractKeeps

LEMMA DeployerConfigKeeps ==
  ASSUME IInv, handleCurveDeployerConfig PROVE IInv'
<1> DEFINE es == DOMAIN DeployerSetters
<1>1. Consume(Deployers, es) /\ config' = Upserted(Null) /\ UNCHANGED reserves
  BY DEF handleCurveDeployerConfig
<1>2. /\ log.addr \in Contracts /\ log.addr \notin Reserves /\ log.reserve = Null
      /\ log.event \in DOMAIN SettersOf(log.addr)
  BY <1>1, OtherSetter
<1>3. log.event \notin ImplementationSetters
  BY <1>1 DEF Consume, DeployerSetters, ImplementationSetters
<1>4. Null \in IF log.addr \in Reserves THEN {KindOf(log.addr), Null} ELSE {Null}
  BY <1>2
<1>5. /\ DOMAIN config' = Contracts /\ \A c \in Contracts : config'[c] \in RowType(c)'
      /\ ColumnsAreLatest'
  <2> HIDE DEF es
  <2> QED BY <1>1, <1>2, <1>3, <1>4, UpsertKeeps
<1>6. \A r \in Reserves : config'[r] = config[r]
  BY <1>1, <1>2 DEF Upserted, IInv, TypeOK, Contracts
<1> QED
  <2> HIDE DEF es
  <2> QED BY <1>1, <1>2, <1>5, <1>6, OtherContractKeeps

LEMMA NewReserveKeeps ==
  ASSUME IInv, handleNewClearReserve PROVE IInv'
<1> DEFINE r0 == log.reserve
<1>0. /\ next <= Len(logs) /\ next' = next + 1 /\ logs' = logs /\ TypeOK /\ UNCHANGED config
      /\ log.addr \in Factories /\ log.event = "NewClearReserve"
      /\ Consume(Factories, {"NewClearReserve"})
  BY DEF handleNewClearReserve, Consume, IInv
<1>1. r0 \in Reserves /\ log.args.implementation \in Values /\ log.addr \notin Reserves
  BY <1>0, NextLog, LogShape, NotASetter, ContractAssumption
<1>2. /\ DOMAIN config' = Contracts /\ \A c \in Contracts : config'[c] \in RowType(c)'
      /\ ColumnsAreLatest'
  <2>1. \A c \in Contracts : \A e \in DOMAIN SettersOf(c) : ~ Sets(next, c, e)
    BY <1>0, NotASetter DEF Sets, log
  <2> QED
    BY <1>0, <2>1, SkipKeeps
<1>3. /\ DOMAIN reserves' = Reserves
      /\ \A r \in Reserves \ {r0} : reserves'[r] = reserves[r]
      /\ reserves'[r0] = [kind |-> KindOf(r0), factory |-> log.addr,
                          implementation |-> log.args.implementation]
  BY <1>0, <1>1 DEF handleNewClearReserve, Announced, EnsureReserve, TypeOK, EntryType
<1>4. TypeOK'
  <2>1. \A r \in Reserves : reserves'[r] \in EntryType(r)
    BY <1>0, <1>1, <1>3 DEF TypeOK, EntryType
  <2>2. \A r \in Reserves : EntryType(r)' = EntryType(r)
    BY DEF EntryType
  <2> QED
    BY <1>0, <1>2, <1>3, <2>1, <2>2, NextLog DEF TypeOK
<1>5. ReserveIsIdentified'
  <2> SUFFICES ASSUME NEW r \in Reserves PROVE Identified(r)'
    BY DEF ReserveIsIdentified
  <2>1. CASE r # r0
    BY <1>0, <1>1, <1>3, <2>1, IdentifiedStays
  <2>2. CASE r = r0
    <3>0. next \in Nat \ {0} /\ Identified(r)
      BY <1>0, NextLog DEF IInv, ReserveIsIdentified
    <3>1. Consumed' = Consumed \cup {next}
      BY <1>0, <3>0, OneMore
    <3>2. next \in AnnouncedBy(r)'
      BY <1>0, <2>2, <3>1 DEF AnnouncedBy, log
    <3>3. \E n \in Consumed' : r \in {logs'[n].addr, logs'[n].reserve}
      BY <1>0, <2>2, <3>1 DEF log
    <3>4. logs'[next].addr = log.addr /\ logs'[next].args.implementation = log.args.implementation
      BY <1>0 DEF log
    <3> QED
      BY <1>0, <1>3, <2>2, <3>0, <3>2, <3>3, <3>4 DEF Identified
  <2> QED
    BY <2>1, <2>2
<1> QED
  BY <1>2, <1>4, <1>5 DEF IInv

LEMMA StepIInv == IInv /\ [Next]_vars => IInv'
<1> SUFFICES ASSUME IInv, [Next]_vars PROVE IInv'
  OBVIOUS
<1>1. ASSUME NEW c \in Contracts, Set(c) PROVE IInv'
  <2>1. PICK l \in SetterLogs(c) : Emit(l)
    BY <1>1 DEF Set
  <2> QED
    BY <2>1, EmitKeeps DEF LogType
<1>2. ASSUME NEW f \in Factories, NEW r \in Reserves, NEW impl \in Values \ {ZeroAddr},
             Create(f, r, impl)
      PROVE  IInv'
  <2>1. Announcement(f, r, impl) \in LogType
    BY DEF LogType, Announcements
  <2> QED
    BY <1>2, <2>1, EmitKeeps DEF Create
<1>3. CASE UNCHANGED vars
  <2>1. TypeOK'
    BY <1>3 DEF vars, IInv, TypeOK, RowType, EntryType
  <2>2. ColumnsAreLatest'
    BY <1>3 DEF vars, IInv, ColumnsAreLatest, Latest, Sets, Consumed
  <2>3. ReserveIsIdentified'
    BY <1>3 DEF vars, IInv, ReserveIsIdentified, Identified, AnnouncedBy, Consumed
  <2> QED
    BY <2>1, <2>2, <2>3 DEF IInv
<1> QED
  BY <1>1, <1>2, <1>3, SettingsKeeps, FactoryConfigKeeps, FactoryImplementationKeeps,
     DeployerConfigKeeps, NewReserveKeeps DEF Next, ContractCall

LEMMA IInvHolds == Spec => []IInv
BY InitIInv, StepIInv, PTL DEF Spec

\* The settings, protocol-config and deployer-config rows are well formed.
THEOREM TypeHolds == Spec => []TypeOK
<1>1. IInv => TypeOK
  BY DEF IInv
<1> QED
  BY IInvHolds, <1>1, PTL

\* Every column of every configuration row (upsertPatch, handleFactoryConfig,
\* handleFactoryImplementation) has the latest value of its parameter, whatever
\* the setters, their order and their number.
THEOREM ColumnsHold == Spec => []ColumnsAreLatest
<1>1. IInv => ColumnsAreLatest
  BY DEF IInv
<1> QED
  BY IInvHolds, <1>1, PTL

\* A reserve's rows agree on its kind and carry its announcement
\* (handleNewClearReserve), whichever log comes first.
THEOREM IdentifiedHolds == Spec => []ReserveIsIdentified
<1>1. IInv => ReserveIsIdentified
  BY DEF IInv
<1> QED
  BY IInvHolds, <1>1, PTL
=============================================================================
