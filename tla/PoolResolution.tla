---------------------------- MODULE PoolResolution ----------------------------
(***************************************************************************)
(* resolveDeployedPool (curve.go): neither PlainPoolDeployed nor           *)
(* MetaPoolDeployed names the pool it announces, so its address is found   *)
(* in the receipt of the deployment's transaction.                         *)
(*                                                                         *)
(* The transaction is external: it deploys pools one after the other, each *)
(* with its constructor's Transfer(0x0, factory, 0) and then the factory's *)
(* event, with other logs anywhere.  The receipt is read when the          *)
(* transaction is over, so an event is resolved with all logs in sight.    *)
(***************************************************************************)
EXTENDS Integers, Sequences, FiniteSetsExt

CONSTANTS
  Pools,      \* pools a transaction may deploy
  Factory,    \* the Curve factory
  Others,     \* other holders and token contracts
  Zero,       \* the zero address
  NoPool,     \* the empty answer
  FirstIndex, \* block-wide index of the transaction's first log
  MaxLogs     \* bound on the logs of the transaction

ASSUME IndexAssumption == FirstIndex \in Nat /\ MaxLogs \in Nat

\* The factory is neither a pool, nor another holder, nor the zero address.
ASSUME AddressAssumption ==
  /\ Factory \notin Pools \cup Others /\ Factory # Zero
  /\ Zero \notin Others /\ NoPool \notin Pools

VARIABLES
  receipt,  \* the logs of the transaction so far
  building  \* the pool constructed and not yet announced, or NoPool

vars == <<receipt, building>>

\* A log's index counts over the whole block.
IndexOf(i) == FirstIndex + i - 1

TransferLog(addr, from, to, value) ==
  [event |-> "Transfer", addr |-> addr, from |-> from, to |-> to, value |-> value,
   pool |-> NoPool]

ConstructorLog(p) == TransferLog(p, Zero, Factory, 0)

\* `pool' is what the event announces: known to the chain, not in the log.
DeployLog(p) ==
  [event |-> "PoolDeployed", addr |-> Factory, from |-> Zero, to |-> Zero, value |-> 0,
   pool |-> p]

\* The other logs of the transaction: each lacks one feature of a constructor's
\* Transfer.  That no contract but a pool under construction emits one with all of
\* them is what curve.go:27-32 relies on.
OtherLogs ==
  {TransferLog(a, Zero, Factory, 1) : a \in Pools \cup Others}       \* a mint of something
    \cup {TransferLog(a, Zero, h, 0) : a \in Pools, h \in Others}    \* to another holder
    \cup {TransferLog(a, h, Factory, 0) : a \in Others, h \in Others}  \* not a mint
    \cup {TransferLog(Factory, Zero, Factory, 0)}                    \* by the factory

-----------------------------------------------------------------------------
BugCandidateAnyValue(l) ==
  /\ l.event = "Transfer"
  /\ l.addr # Factory
  /\ l.from = Zero /\ l.to = Factory

\* The shape of a StableSwap-NG constructor's Transfer.
Candidate(l) ==
  /\ l.event = "Transfer"
  /\ l.addr # Factory
  /\ l.from = Zero /\ l.to = Factory /\ l.value = 0

\* The emitter of the last candidate before the event, if there is one.
Resolve(logs, deployIndex) ==
  LET found == {i \in DOMAIN logs : IndexOf(i) < deployIndex /\ Candidate(logs[i])}
  IN IF found = {} THEN NoPool ELSE logs[Max(found)].addr

-----------------------------------------------------------------------------
Init == receipt = <<>> /\ building = NoPool

Emit(l) == Len(receipt) < MaxLogs /\ receipt' = Append(receipt, l)

Construct(p) ==
  /\ building = NoPool
  /\ \A i \in DOMAIN receipt : receipt[i].addr # p
  /\ Emit(ConstructorLog(p))
  /\ building' = p

Announce ==
  /\ building # NoPool
  /\ Emit(DeployLog(building))
  /\ building' = NoPool

EmitOther ==
  /\ \E l \in OtherLogs : Emit(l)
  /\ UNCHANGED building

Next == (\E p \in Pools : Construct(p)) \/ Announce \/ EmitOther

Spec == Init /\ [][Next]_vars

-----------------------------------------------------------------------------
\* Every deployment event resolves to the pool it announces, also when the
\* transaction deploys several (curve.go:36-39) and logs, anywhere in between,
\* Transfers that resemble a constructor's in all but one feature.
ResolvesToItsPool ==
  \A i \in DOMAIN receipt :
    receipt[i].pool # NoPool => Resolve(receipt, IndexOf(i)) = receipt[i].pool

-----------------------------------------------------------------------------
(* The inductive invariant behind ResolvesToItsPool.                       *)

\* p's constructor log is the last candidate among the first n logs.
LastBuilt(logs, p, n) ==
  \E i \in DOMAIN logs :
    /\ i <= n /\ Candidate(logs[i]) /\ logs[i].addr = p
    /\ \A j \in DOMAIN logs : i < j /\ j <= n => ~ Candidate(logs[j])

LogType ==
  [event : {"Transfer", "PoolDeployed"}, addr : Pools \cup Others \cup {Factory},
   from : Others \cup {Zero}, to : Others \cup {Zero, Factory}, value : {0, 1},
   pool : Pools \cup {NoPool}]

\* Each announced pool was the last one built.
AnnouncedBuilt(logs) ==
  \A i \in DOMAIN logs : logs[i].pool # NoPool => LastBuilt(logs, logs[i].pool, i - 1)

\* The pool under construction is the last one built, too.
IInv ==
  /\ receipt \in Seq(LogType) /\ building \in Pools \cup {NoPool}
  /\ building # NoPool => LastBuilt(receipt, building, Len(receipt))
  /\ AnnouncedBuilt(receipt)
=============================================================================
