------------------------- MODULE ClearExporterProofs -------------------------
(***************************************************************************)
(* Proofs about ClearExporter, for every stream length, set of contracts,  *)
(* configuration and number of faults.  IInv, the inductive invariant, is  *)
(* defined in ClearExporter and checked there by TLC.                      *)
(***************************************************************************)
EXTENDS ClearExporter, TLAPS

-----------------------------------------------------------------------------
(* The operators the actions are built from.                               *)

\* Adding a row to clear_contracts, or keeping the one that is there, yields a
\* table again (persistContract).
LEMMA PersistType ==
  ASSUME NEW a \in Addr, NEW k \in Kinds, txContracts \in [Addr -> Row]
  PROVE  Persist(a, k) \in [Addr -> Row]
BY DEF Persist, Row

\* A name is classified as a kind or as unknown (classify).
LEMMA ClassifyType ==
  ASSUME NEW name
  PROVE  Classify(name) \in Kinds \cup {Unknown}
BY DEF Classify, Kinds

\* Every row of the table has a kind the exporter routes by.
LEMMA RowKind ==
  ASSUME NEW row \in Row, row # NoRow
  PROVE  row.kind \in Kinds
BY DEF Row

\* An unknown or missing kind is none of the kinds.
LEMMA NotKinds == Unknown \notin Kinds /\ Absent \notin Kinds /\ Unknown # Absent
BY DEF Unknown, Absent, Kinds

-----------------------------------------------------------------------------
(* Type correctness.                                                       *)

\* Types hold at first and after every step.
LEMMA InitType == Init => TypeOK
<1> SUFFICES ASSUME Init PROVE TypeOK
  OBVIOUS
<1> USE StreamAssumption
<1>1. contracts \in [Addr -> Row] /\ txContracts \in [Addr -> Row]
  BY DEF Init, Row
<1> QED
  BY <1>1 DEF Init, TypeOK, Logs

LEMMA StepType == TypeOK /\ [Next]_vars => TypeOK'
<1> SUFFICES ASSUME TypeOK, [Next]_vars PROVE TypeOK'
  OBVIOUS
<1> USE StreamAssumption DEF TypeOK, Logs, durable, host, tx, memory, current, Delivering
<1>E. ASSUME EndTx PROVE stage' = "none" /\ kind' = Unknown /\ txContracts' \in [Addr -> Row]
  BY <1>E DEF EndTx, Row
<1>R. ASSUME Redeliver PROVE offset' \in 0..N
  BY <1>R DEF Redeliver
<1>1. CASE Start
  BY <1>1, ConfigAssumption DEF Start, Recognised
<1>2. ASSUME NEW a \in Addr, Seed(a) PROVE TypeOK'
  <2>1. [kind |-> config[a], source |-> "config"] \in Row
    BY <1>2 DEF Seed, Row
  <2> QED
    BY <1>2, <2>1 DEF Seed
<1>3. CASE LoadRegistry
  <2>1. \A a \in Addr : contracts[a].kind \in Kinds \cup {Unknown, Absent}
    BY DEF Row, NoRow
  <2> QED
    BY <1>3, <2>1 DEF LoadRegistry, Loaded
<1>4. CASE Redelivered
  BY <1>4 DEF Redelivered
<1>5. CASE Claim
  BY <1>5 DEF Claim
<1>6. CASE ResolveKnown
  <2>1. current \in Logs /\ stream[current].addr \in Addr
    BY <1>6, RecordAssumption DEF ResolveKnown
  <2> QED
    BY <1>6, <2>1 DEF ResolveKnown
<1>7. CASE ResolveFirstSight
  <2> DEFINE a == stream[current].addr
             k == Classify(stream[current].name)
  <2>1. a \in Addr
    BY <1>7, RecordAssumption DEF ResolveFirstSight
  <2>2. k \in Kinds \cup {Unknown}
    BY ClassifyType
  <2>3. k # Unknown => Persist(a, k) \in [Addr -> Row]
    BY <2>1, <2>2, PersistType
  <2> QED
    BY <1>7, <2>1, <2>2, <2>3 DEF ResolveFirstSight, Remember
<1>8. CASE DispatchAnnouncement
  <2> DEFINE s == stream[current].subject
  <2>1. s \in Addr
    BY <1>8, RecordAssumption DEF DispatchAnnouncement
  <2>2. PICK x \in AnnouncedAs(kind, stream[current]) :
           registry' = Remember(s, x) /\ txContracts' = Persist(s, x)
    BY <1>8 DEF DispatchAnnouncement
  <2>3. x \in Kinds
    BY <2>2 DEF AnnouncedAs
  <2>4. txContracts' \in [Addr -> Row]
    BY <2>1, <2>2, <2>3, PersistType
  <2>5. registry' \in [Addr -> Kinds \cup {Unknown, Absent}]
    BY <2>1, <2>2, <2>3 DEF Remember
  <2> QED
    BY <1>8, <2>4, <2>5 DEF DispatchAnnouncement
<1>9. CASE DispatchPlain
  BY <1>9 DEF DispatchPlain
<1>10. ASSUME CommitTx PROVE /\ processed' \subseteq Logs
                             /\ contracts' \in [Addr -> Row]
                             /\ applied' \in [Logs -> Nat]
                             /\ route' \in [Logs -> Kinds \cup {Unknown, Absent}]
  BY <1>10 DEF CommitTx
<1>11. CASE CommitAcked
  <2>1. CommitTx /\ EndTx
    BY <1>11 DEF CommitAcked, CommitTx
  <2>2. offset' \in 0..N
    BY <1>11 DEF CommitAcked, CommitTx
  <2> QED
    BY <1>11, <1>E, <1>10, <2>1, <2>2 DEF CommitAcked
<1>12. CASE CommitAckLost
  <2>1. CommitTx /\ EndTx /\ Redeliver
    BY <1>12 DEF CommitAckLost, CommitTx
  <2> QED
    BY <1>12, <1>E, <1>R, <1>10, <2>1 DEF CommitAckLost
<1>13. CASE Fail
  BY <1>13, <1>E, <1>R DEF Fail
<1>14. CASE Reject
  BY <1>14, <1>E, <1>R DEF Reject
<1>15. CASE Crash
  BY <1>15, <1>E DEF Crash
<1>16. CASE Save
  BY <1>16 DEF Save
<1>17. CASE UNCHANGED vars
  BY <1>17 DEF vars
<1> QED
  BY <1>1, <1>2, <1>3, <1>4, <1>5, <1>6, <1>7, <1>8, <1>9, <1>11, <1>12,
     <1>13, <1>14, <1>15, <1>16, <1>17 DEF Next, Progress

\* The state ranges over its declared values (the fields of clearExporter, the
\* two tables and the host's cursors), in every run of the exporter.
THEOREM TypeCorrect == Spec => []TypeOK
<1> QED
  BY InitType, StepType, PTL DEF Spec

-----------------------------------------------------------------------------
(* The inductive invariant.                                                *)

\* persistContract keeps every row there is and leaves the contract with one.
LEMMA PersistKeeps ==
  ASSUME NEW a \in Addr, NEW k \in Kinds, txContracts \in [Addr -> Row],
         NEW b \in Addr
  PROVE  /\ txContracts[b] # NoRow => Persist(a, k)[b] = txContracts[b]
         /\ b # a => Persist(a, k)[b] = txContracts[b]
BY DEF Persist, Row

\* The invariant holds at first; its parts are kept by every step.
LEMMA InitIInv == Init => IInv
<1> SUFFICES ASSUME Init PROVE IInv
  OBVIOUS
<1>1. TypeOK
  BY InitType
<1>2. TxInv
  BY DEF Init, TxInv
<1>3. ExactlyOnce
  BY DEF Init, ExactlyOnce
<1>4. NoGap
  BY DEF Init, NoGap, Logs
<1>5. RefusedStaysPending
  BY DEF Init, RefusedStaysPending
<1>6. RegistryInv
  BY DEF Init, RegistryInv, MemoryCoversTable
<1> QED
  BY <1>1, <1>2, <1>3, <1>4, <1>5, <1>6 DEF IInv

\* The parts of IInv that say what the ledger means are disturbed by a commit
\* alone, and the parts about offset by an answer.
LEMMA StepTxInv == IInv /\ [Next]_vars => TxInv'
<1> SUFFICES ASSUME IInv, [Next]_vars PROVE TxInv'
  OBVIOUS
<1> USE StreamAssumption DEF IInv, TypeOK, Logs, TxInv, durable, host, tx, memory, current, Delivering
<1>1. CASE Start
  BY <1>1 DEF Start
<1>2. ASSUME NEW a \in Addr, Seed(a) PROVE TxInv'
  BY <1>2 DEF Seed
<1>3. CASE LoadRegistry
  BY <1>3 DEF LoadRegistry
<1>4. CASE Redelivered
  BY <1>4 DEF Redelivered
<1>5. CASE Claim
  BY <1>5 DEF Claim, AlreadyProcessed
<1>6. CASE ResolveKnown
  BY <1>6 DEF ResolveKnown
<1>7. CASE ResolveFirstSight
  BY <1>7 DEF ResolveFirstSight
<1>8. CASE DispatchAnnouncement
  <2>1. ~ Rejected(kind, stream[current])
    BY <1>8 DEF DispatchAnnouncement, Rejected, AnnouncedAs, AnnouncesIou, Kinds, Unknown
  <2> QED
    BY <1>8, <2>1 DEF DispatchAnnouncement, Rejected
<1>9. CASE DispatchPlain
  BY <1>9 DEF DispatchPlain, Rejected
<1>10. CASE CommitAcked
  BY <1>10 DEF CommitAcked, CommitTx, EndTx
<1>11. CASE CommitAckLost
  BY <1>11 DEF CommitAckLost, CommitTx, EndTx, Redeliver
<1>12. CASE Fail
  BY <1>12 DEF Fail, EndTx, Redeliver
<1>13. CASE Reject
  BY <1>13 DEF Reject, EndTx, Redeliver
<1>14. CASE Crash
  BY <1>14 DEF Crash, EndTx
<1>15. CASE Save
  BY <1>15 DEF Save
<1>16. CASE UNCHANGED vars
  BY <1>16 DEF vars, Rejected
<1> QED
  BY <1>1, <1>2, <1>3, <1>4, <1>5, <1>6, <1>7, <1>8, <1>9, <1>10, <1>11, <1>12,
     <1>13, <1>14, <1>15, <1>16 DEF Next, Progress

\* What any step does to the ledger and to the log's writes: a commit of the
\* open transaction, or nothing.
LEMMA LedgerStep ==
  ASSUME [Next]_vars
  PROVE  CommitTx \/ UNCHANGED <<processed, applied, route>>
BY DEF Next, Progress, vars, durable, Start, Seed, LoadRegistry, Redelivered, Claim,
       ResolveKnown, ResolveFirstSight, DispatchAnnouncement, DispatchPlain,
       CommitAcked, CommitAckLost, Fail, Reject, Crash, Save

LEMMA StepExactlyOnce == IInv /\ [Next]_vars => ExactlyOnce'
<1> SUFFICES ASSUME IInv, [Next]_vars PROVE ExactlyOnce'
  OBVIOUS
<1>1. CASE CommitTx
  <2> SUFFICES ASSUME NEW l \in Logs
               PROVE  applied'[l] = IF l \in processed' /\ route'[l] \in Kinds THEN 1 ELSE 0
    BY DEF ExactlyOnce
  <2> USE DEF IInv, TypeOK
  <2>1. /\ processed' = processed \cup {current}
        /\ route' = [route EXCEPT ![current] = kind]
        /\ applied' = IF kind = Unknown THEN applied
                      ELSE [applied EXCEPT ![current] = @ + 1]
    BY <1>1 DEF CommitTx
  <2>2. applied[l] = IF l \in processed /\ route[l] \in Kinds THEN 1 ELSE 0
    BY DEF ExactlyOnce
  <2>3. CASE l = current
    <3>1. l \notin processed
      BY <1>1, <2>3 DEF CommitTx, TxInv
    <3>2. applied[l] = 0
      BY <2>2, <3>1
    <3>3. route'[l] = kind /\ l \in processed'
      BY <2>1, <2>3
    <3>4. kind = Unknown <=> kind \notin Kinds
      BY NotKinds
    <3>5. applied'[l] = IF kind = Unknown THEN 0 ELSE 1
      BY <2>1, <2>3, <3>2
    <3> QED
      BY <3>3, <3>4, <3>5
  <2>4. CASE l # current
    BY <2>1, <2>2, <2>4
  <2> QED
    BY <2>3, <2>4
<1>2. CASE UNCHANGED <<processed, applied, route>>
  BY <1>2 DEF IInv, ExactlyOnce
<1> QED
  BY <1>1, <1>2, LedgerStep

LEMMA StepNoGap == IInv /\ [Next]_vars => NoGap'
<1> SUFFICES ASSUME IInv, [Next]_vars,
                    NEW l \in Logs, l <= offset' \/ l \in processed'
             PROVE  1..l \subseteq processed'
  BY DEF NoGap
<1> USE StreamAssumption DEF IInv, TypeOK, Logs, TxInv, NoGap, current, Delivering
<1>1. CASE CommitTx
  <2>1. /\ processed' = processed \cup {current}
        /\ current \in Logs
        /\ 1..offset \subseteq processed
    <3>1. offset \in 1..N \/ offset = 0
      OBVIOUS
    <3>2. 1..offset \subseteq processed
      BY <3>1
    <3> QED
      BY <1>1, <3>2 DEF CommitTx
  <2>2. offset' <= current
    BY <1>1 DEF Next, Progress, vars, host, durable, CommitAcked, CommitAckLost, Redeliver,
                Start, Seed, LoadRegistry, Redelivered, Claim, ResolveKnown,
                ResolveFirstSight, DispatchAnnouncement, DispatchPlain, CommitTx,
                Fail, Reject, Crash, Save
  <2>3. CASE l <= offset \/ l \in processed
    BY <2>1, <2>3
  <2>4. CASE ~ (l <= offset \/ l \in processed)
    <3>1. offset' \in Nat
      BY StepType
    <3>2. l = current
      BY <2>1, <2>2, <2>4, <3>1
    <3> QED
      BY <2>1, <3>2
  <2> QED
    BY <2>3, <2>4
<1>2. CASE ~ CommitTx
  <2>1. processed' = processed
    BY <1>2, LedgerStep
  <2>2. offset' <= offset \/ (offset' = current /\ current \in processed)
    BY <1>2 DEF Next, Progress, vars, host, durable, AlreadyProcessed, CommitAcked,
                CommitAckLost, Redeliver, Start, Seed, LoadRegistry, Redelivered, Claim,
                ResolveKnown, ResolveFirstSight, DispatchAnnouncement, DispatchPlain,
                Fail, Reject, Crash, Save
  <2>3. offset' \in Nat
    BY StepType
  <2>4. CASE offset' <= offset
    BY <2>1, <2>3, <2>4
  <2>5. CASE offset' = current /\ current \in processed
    BY <2>1, <2>5
  <2> QED
    BY <2>2, <2>4, <2>5
<1> QED
  BY <1>1, <1>2

LEMMA StepRefused == IInv /\ [Next]_vars => RefusedStaysPending'
<1> SUFFICES ASSUME IInv, [Next]_vars PROVE RefusedStaysPending'
  OBVIOUS
<1>0. stream' = stream
  BY DEF Next, Progress, vars, Start, Seed, LoadRegistry, Redelivered, Claim,
         ResolveKnown, ResolveFirstSight, DispatchAnnouncement, DispatchPlain,
         CommitAcked, CommitAckLost, Fail, Reject, Crash, Save
<1>1. CASE CommitTx
  <2>1. kind # Unknown => ~ Rejected(kind, stream[current])
    BY <1>1 DEF CommitTx, IInv, TxInv
  <2>2. ~ Rejected(kind, stream[current])
    BY <2>1 DEF Rejected, Unknown
  <2>3. processed' = processed \cup {current} /\ route' = [route EXCEPT ![current] = kind]
    BY <1>1 DEF CommitTx
  <2>4. \A l \in Logs : route'[l] = IF l = current THEN kind ELSE route[l]
    BY <2>3 DEF IInv, TypeOK
  <2>5. processed \subseteq Logs /\ current \in Logs
    BY <1>1, StreamAssumption DEF CommitTx, Delivering, current, Logs, IInv, TypeOK
  <2>6. \A l \in processed : ~ Rejected(route[l], stream[l])
    BY DEF IInv, RefusedStaysPending, Rejected
  <2>7. \A l \in processed' : ~ Rejected(route'[l], stream'[l])
    BY <1>0, <2>2, <2>3, <2>4, <2>5, <2>6
  <2> QED
    BY <2>7 DEF RefusedStaysPending, Rejected
<1>2. CASE UNCHANGED <<processed, applied, route>>
  BY <1>0, <1>2 DEF IInv, RefusedStaysPending
<1> QED
  BY <1>1, <1>2, LedgerStep

\* Remembering a kind, with or without its row, keeps memory ahead of the table.
LEMMA RememberKeeps ==
  ASSUME RegistryInv, txContracts \in [Addr -> Row], registry \in [Addr -> Kinds \cup {Unknown, Absent}],
         NEW k \in Kinds, NEW a \in Addr, stage # "none", phase = "up",
         registry' = Remember(a, k),
         txContracts' = Persist(a, k) \/ txContracts' = txContracts,
         UNCHANGED <<contracts, phase>>
  PROVE  RegistryInv'
<1>1. \A b \in Addr : registry'[b] = IF b = a THEN k ELSE registry[b]
  BY DEF Remember
<1>2. ASSUME NEW b \in Addr
      PROVE  /\ txContracts[b] # NoRow => txContracts'[b] = txContracts[b]
             /\ b # a => txContracts'[b] = txContracts[b]
  BY PersistKeeps
<1>3. ASSUME NEW b \in Addr
      PROVE  /\ contracts[b] # NoRow => txContracts[b] = contracts[b]
             /\ contracts[b] # NoRow \/ txContracts[b] # NoRow => registry[b] \in Kinds
             /\ contracts'[b] = contracts[b]
  BY DEF RegistryInv, MemoryCoversTable
<1>4. ASSUME NEW b \in Addr
      PROVE  /\ contracts'[b] # NoRow => txContracts'[b] = contracts'[b]
             /\ contracts'[b] # NoRow \/ txContracts'[b] # NoRow => registry'[b] \in Kinds
  BY <1>1, <1>2, <1>3
<1> QED
  BY <1>4 DEF RegistryInv, MemoryCoversTable

LEMMA StepRegistry == IInv /\ [Next]_vars => RegistryInv'
<1> SUFFICES ASSUME IInv, [Next]_vars PROVE RegistryInv'
  OBVIOUS
<1> USE StreamAssumption DEF IInv, TypeOK, Logs, RegistryInv, MemoryCoversTable, durable, host, tx, memory,
        current, Delivering
<1>0. ASSUME NEW k \in Kinds, NEW a \in Addr, stage # "none", phase = "up",
             registry' = Remember(a, k),
             txContracts' = Persist(a, k) \/ txContracts' = txContracts,
             UNCHANGED <<contracts, phase>>
      PROVE  RegistryInv'
  BY <1>0, RememberKeeps
<1>1. CASE Start
  BY <1>1 DEF Start, TxInv
<1>2. ASSUME NEW a \in Addr, Seed(a) PROVE RegistryInv'
  BY <1>2 DEF Seed, TxInv
<1>3. CASE LoadRegistry
  <2>1. \A a \in Addr : contracts[a] # NoRow => Loaded[a] \in Kinds
    BY RowKind DEF Loaded
  <2> QED
    BY <1>3, <2>1 DEF LoadRegistry, TxInv
<1>4. CASE Redelivered
  BY <1>4 DEF Redelivered
<1>5. CASE Claim
  BY <1>5 DEF Claim
<1>6. CASE ResolveKnown
  BY <1>6 DEF ResolveKnown
<1>7. CASE ResolveFirstSight
  <2> DEFINE a == stream[current].addr
             k == Classify(stream[current].name)
  <2>1. /\ a \in Addr /\ registry[a] = Absent /\ stage # "none" /\ phase = "up"
        /\ registry' = Remember(a, k) /\ UNCHANGED <<contracts, phase>>
        /\ txContracts' = IF k = Unknown THEN txContracts ELSE Persist(a, k)
    BY <1>7, RecordAssumption DEF ResolveFirstSight
  <2>2. CASE k \in Kinds
    <3> HIDE DEF a, k
    <3>1. k # Unknown
      BY <2>2, NotKinds
    <3> QED
      BY <1>0, <2>1, <2>2, <3>1
  <2>3. CASE k = Unknown
    <3>1. txContracts[a] = NoRow /\ contracts[a] = NoRow
      BY <2>1, NotKinds
    <3>2. \A b \in Addr : b # a => registry'[b] = registry[b]
      BY <2>1 DEF Remember
    <3>3. txContracts' = txContracts
      BY <2>1, <2>3
    <3>4. stage' # "none" /\ phase' = "up"
      BY <1>7 DEF ResolveFirstSight
    <3> QED
      BY <2>1, <3>1, <3>2, <3>3, <3>4
  <2> QED
    BY <2>2, <2>3, ClassifyType
<1>8. CASE DispatchAnnouncement
  <2> DEFINE s == stream[current].subject
  <2>1. s \in Addr
    BY <1>8, RecordAssumption DEF DispatchAnnouncement
  <2>2. PICK x \in AnnouncedAs(kind, stream[current]) :
           registry' = Remember(s, x) /\ txContracts' = Persist(s, x)
    BY <1>8 DEF DispatchAnnouncement
  <2>3. x \in Kinds
    BY <2>2 DEF AnnouncedAs
  <2>4. stage # "none" /\ phase = "up" /\ UNCHANGED <<contracts, phase>>
    BY <1>8 DEF DispatchAnnouncement
  <2> QED
    BY <1>0, <2>1, <2>2, <2>3, <2>4
<1>9. CASE DispatchPlain
  BY <1>9 DEF DispatchPlain
<1>10. CASE CommitAcked
  BY <1>10 DEF CommitAcked, CommitTx, EndTx
<1>11. CASE CommitAckLost
  BY <1>11 DEF CommitAckLost, CommitTx, EndTx
<1>12. CASE Fail
  BY <1>12 DEF Fail, EndTx
<1>13. CASE Reject
  BY <1>13 DEF Reject, EndTx
<1>14. CASE Crash
  BY <1>14 DEF Crash, EndTx
<1>15. CASE Save
  BY <1>15 DEF Save
<1>16. CASE UNCHANGED vars
  BY <1>16 DEF vars
<1> QED
  BY <1>1, <1>2, <1>3, <1>4, <1>5, <1>6, <1>7, <1>8, <1>9, <1>10, <1>11, <1>12,
     <1>13, <1>14, <1>15, <1>16 DEF Next, Progress

\* IInv holds throughout every run of the exporter.
THEOREM Invariance == Spec => []IInv
<1>1. IInv /\ [Next]_vars => IInv'
  BY StepType, StepTxInv, StepExactlyOnce, StepNoGap, StepRefused, StepRegistry DEF IInv
<1> QED
  BY InitIInv, <1>1, PTL DEF Spec

\* Each log's writes are committed exactly once if the ledger has its id under a
\* known kind and never otherwise (NewLogEvent's claim inside the transaction).
THEOREM ExactlyOnceHolds == Spec => []ExactlyOnce
<1>1. IInv => ExactlyOnce
  BY DEF IInv
<1> QED
  BY Invariance, <1>1, PTL

\* No log before a delivered or processed one is missing from the ledger
\* (NewLogEvent answers nil only when the log is in it).
THEOREM NoGapHolds == Spec => []NoGap
<1>1. IInv => NoGap
  BY DEF IInv
<1> QED
  BY Invariance, <1>1, PTL

\* A log its handler refuses never enters the ledger (dispatch's error path).
THEOREM RefusedHolds == Spec => []RefusedStaysPending
<1>1. IInv => RefusedStaysPending
  BY DEF IInv
<1> QED
  BY Invariance, <1>1, PTL

\* A running exporter's memory has a kind for every contract in the table
\* (loadRegistry, resolveKind and trackContract together).
THEOREM MemoryCoversHolds == Spec => []MemoryCoversTable
<1>1. IInv => MemoryCoversTable
  BY DEF IInv, RegistryInv
<1> QED
  BY Invariance, <1>1, PTL

-----------------------------------------------------------------------------
(* What a step may do.                                                     *)

\* Processing an event never changes or removes a row of clear_contracts
\* (persistContract keeps the first writer's row).
THEOREM EventsKeepRowsHolds == Spec => EventsKeepRows
<1> DEFINE Kept == \A a \in Addr :
                     contracts[a] # NoRow =>
                       IF phase = "seeding" THEN contracts'[a] # NoRow
                                            ELSE contracts'[a] = contracts[a]
<1>1. IInv /\ [Next]_vars => [Kept]_vars
  <2> SUFFICES ASSUME IInv, [Next]_vars, NEW a \in Addr, contracts[a] # NoRow
               PROVE  IF phase = "seeding" THEN contracts'[a] # NoRow
                                           ELSE contracts'[a] = contracts[a]
    OBVIOUS
  <2>1. CASE CommitTx
    BY <2>1 DEF CommitTx, Delivering, IInv, RegistryInv
  <2>2. ASSUME NEW b \in Addr, Seed(b)
        PROVE  phase = "seeding" /\ contracts'[a] # NoRow
    <3>1. config[b] # Absent
      BY <2>2, NotKinds DEF Seed, IInv, TypeOK
    <3>2. [kind |-> config[b], source |-> "config"] # NoRow
      BY <3>1 DEF NoRow
    <3> QED
      BY <2>2, <3>2 DEF Seed, IInv, TypeOK
  <2>3. CASE contracts' = contracts
    BY <2>3
  <2> QED
    BY <2>1, <2>2, <2>3 DEF Next, Progress, vars, durable, Start, LoadRegistry, Redelivered,
       Claim, ResolveKnown, ResolveFirstSight, DispatchAnnouncement, DispatchPlain,
       CommitAcked, CommitAckLost, Fail, Reject, Crash, Save
<1> QED
  BY Invariance, <1>1, PTL DEF Spec, EventsKeepRows

\* The event loop implements in-order, exactly-once consumption of the stream:
\* a commit is one step of LogConsumption, and every other step changes nothing
\* that an observer of the database sees.
THEOREM Refinement == Spec => ImplementsLogConsumption
<1>1. Init => Abstract!Init
  BY DEF Init, Abstract!Init, Outcome, Logs
<1>2. IInv /\ [Next]_vars => [Abstract!Next]_Outcome
  <2> SUFFICES ASSUME IInv, [Next]_vars, Outcome' # Outcome
               PROVE  Abstract!Next
    OBVIOUS
  <2> USE StreamAssumption DEF Logs
  <2>1. CommitTx
    BY LedgerStep DEF Outcome
  <2>2. /\ current \in Logs /\ current \notin processed /\ offset \in Nat
        /\ current = offset + 1
        /\ \A m \in Logs : m < current => m \in processed
    BY <2>1 DEF CommitTx, Delivering, current, IInv, TypeOK, TxInv, NoGap
  <2>3. /\ processed' = processed \cup {current}
        /\ \A l \in Logs : l # current => applied'[l] = applied[l]
        /\ \A l \in Logs : applied[l] \in {0, 1}
        /\ applied'[current] \in {0, 1}
    <3>1. applied[current] = 0
      BY <2>2 DEF IInv, ExactlyOnce
    <3> QED
      BY <2>1, <2>2, <3>1 DEF CommitTx, IInv, TypeOK, ExactlyOnce
  <2> DEFINE o == IF applied'[current] = 0 THEN "skipped" ELSE "applied"
  <2>4. Outcome[current] = "pending"
    BY <2>2 DEF Outcome
  <2>5. \A m \in 1..N : m < current => Outcome[m] # "pending"
    BY <2>2, <2>3 DEF Outcome
  <2>6. Outcome' = [Outcome EXCEPT ![current] = o]
    BY <2>2, <2>3 DEF Outcome
  <2>7. Abstract!Consume(current)
    <3> HIDE DEF o
    <3>1. o \in {"applied", "skipped"}
      BY DEF o
    <3> QED
      BY <2>4, <2>5, <2>6, <3>1 DEF Abstract!Consume
  <2> QED
    BY <2>2, <2>7 DEF Abstract!Next
<1> QED
  BY Invariance, <1>1, <1>2, PTL DEF Spec, ImplementsLogConsumption, Abstract!Spec

-----------------------------------------------------------------------------
(* Routing, where each contract has one kind.                              *)

\* Tables and memory hold the true kind, at first and after every step.
LEMMA InitTruth ==
  ASSUME NEW CONSTANT truth, OneKind(truth)
  PROVE  Init => TruthInv(truth)
BY DEF Init, TruthInv

LEMMA StepTruth ==
  ASSUME NEW CONSTANT truth, OneKind(truth), IInv, TruthInv(truth), [Next]_vars
  PROVE  TruthInv(truth)'
<1> USE StreamAssumption DEF IInv, TypeOK, Logs, TruthInv, durable, host, tx, memory, current, Delivering
<1>0. ASSUME NEW a \in Addr, registry' = Remember(a, truth[a]),
             txContracts' = Persist(a, truth[a])
      PROVE  \A b \in Addr :
               /\ txContracts'[b] # NoRow => txContracts'[b].kind = truth[b]
               /\ registry'[b] \in {Absent, Unknown, truth[b]}
  <2>1. truth[a] \in Kinds
    BY DEF OneKind
  <2>2. \A b \in Addr : b # a => txContracts'[b] = txContracts[b]
    BY <1>0, <2>1, PersistKeeps
  <2>3. txContracts'[a].kind = truth[a]
    BY <1>0 DEF Persist
  <2> QED
    BY <1>0, <2>2, <2>3 DEF Remember
<1>1. CASE Start
  BY <1>1 DEF Start, TxInv, Recognised, OneKind
<1>2. ASSUME NEW a \in Addr, Seed(a) PROVE TruthInv(truth)'
  BY <1>2 DEF Seed, TxInv
<1>3. CASE LoadRegistry
  BY <1>3 DEF LoadRegistry, Loaded, TxInv, NoRow
<1>4. CASE Redelivered
  BY <1>4 DEF Redelivered
<1>5. CASE Claim
  BY <1>5 DEF Claim
<1>6. CASE ResolveKnown
  <2>1. stream[current].addr \in Addr
    BY <1>6, RecordAssumption DEF ResolveKnown
  <2>2. contracts[stream[current].addr] # NoRow => kind' # Unknown
    BY <1>6, <2>1, NotKinds DEF ResolveKnown, RegistryInv, MemoryCoversTable
  <2> QED
    BY <1>6, <2>1, <2>2 DEF ResolveKnown
<1>7. CASE ResolveFirstSight
  <2> DEFINE a == stream[current].addr
             k == Classify(stream[current].name)
  <2>1. a \in Addr /\ k \in {Unknown, truth[a]}
    BY <1>7, RecordAssumption DEF ResolveFirstSight, OneKind
  <2>2. contracts[a] = NoRow
    BY <1>7, <2>1, NotKinds DEF ResolveFirstSight, RegistryInv, MemoryCoversTable
  <2>3. truth[a] # Unknown
    BY <2>1, NotKinds DEF OneKind
  <2>4. /\ registry' = Remember(a, k) /\ kind' = k
        /\ txContracts' = IF k = Unknown THEN txContracts ELSE Persist(a, k)
        /\ UNCHANGED <<stream, contracts, config, toSeed, offset>>
    BY <1>7 DEF ResolveFirstSight
  <2> HIDE DEF a, k
  <2>5. \A b \in Addr :
          /\ txContracts'[b] # NoRow => txContracts'[b].kind = truth[b]
          /\ registry'[b] \in {Absent, Unknown, truth[b]}
    <3>1. CASE k = Unknown
      BY <2>1, <2>4, <3>1 DEF Remember
    <3>2. CASE k = truth[a]
      BY <1>0, <2>1, <2>3, <2>4, <3>2
    <3> QED
      BY <2>1, <3>1, <3>2
  <2> QED
    BY <2>1, <2>2, <2>4, <2>5 DEF a
<1>8. CASE DispatchAnnouncement
  <2> DEFINE log == stream[current]
  <2>1. log \in LogRecord /\ log.addr \in Addr /\ log.subject \in Addr /\ kind # Unknown
    BY <1>8, RecordAssumption DEF DispatchAnnouncement
  <2>2. PICK x \in AnnouncedAs(kind, log) :
           registry' = Remember(log.subject, x) /\ txContracts' = Persist(log.subject, x)
    BY <1>8 DEF DispatchAnnouncement
  <2>3. kind = truth[log.addr]
    BY <1>8, <2>1 DEF DispatchAnnouncement
  <2>4. x = truth[log.subject]
    <3> HIDE DEF log
    <3> QED
      BY <2>1, <2>2, <2>3, AddrAssumption DEF OneKind
  <2>5. \A b \in Addr :
          /\ txContracts'[b] # NoRow => txContracts'[b].kind = truth[b]
          /\ registry'[b] \in {Absent, Unknown, truth[b]}
    BY <1>0, <2>1, <2>2, <2>4
  <2> QED
    BY <1>8, <2>5 DEF DispatchAnnouncement
<1>9. CASE DispatchPlain
  BY <1>9 DEF DispatchPlain
<1>10. CASE CommitAcked
  BY <1>10 DEF CommitAcked, CommitTx, EndTx
<1>11. CASE CommitAckLost
  BY <1>11 DEF CommitAckLost, CommitTx, EndTx
<1>12. CASE Fail
  BY <1>12 DEF Fail, EndTx
<1>13. CASE Reject
  BY <1>13 DEF Reject, EndTx
<1>14. CASE Crash
  BY <1>14 DEF Crash, EndTx
<1>15. CASE Save
  BY <1>15 DEF Save
<1>16. CASE UNCHANGED vars
  BY <1>16 DEF vars
<1> QED
  BY <1>1, <1>2, <1>3, <1>4, <1>5, <1>6, <1>7, <1>8, <1>9, <1>10, <1>11, <1>12,
     <1>13, <1>14, <1>15, <1>16 DEF Next, Progress

\* Where names, configuration and announcements agree on what each contract is,
\* every log of a contract in clear_contracts is routed by its row, whatever was
\* rolled back, restarted or cached as unknown before (registry.go:10-13).
THEOREM RoutedAsTabledHolds ==
  ASSUME NEW CONSTANT truth, OneKind(truth)
  PROVE  Spec => RoutedAsTabled
<1> DEFINE Routed == \A l \in processed' \ processed :
                       LET row == contracts[stream[l].addr]
                       IN row # NoRow => route'[l] = row.kind
<1>1. Init => TruthInv(truth)
  BY InitTruth
<1>2. IInv /\ TruthInv(truth) /\ [Next]_vars => TruthInv(truth)'
  BY StepTruth
<1>3. IInv /\ TruthInv(truth) /\ [Next]_vars => [Routed]_vars
  <2> SUFFICES ASSUME IInv, TruthInv(truth), [Next]_vars,
                      NEW l \in processed' \ processed,
                      contracts[stream[l].addr] # NoRow
               PROVE  route'[l] = contracts[stream[l].addr].kind
    OBVIOUS
  <2>1. CommitTx
    BY LedgerStep
  <2>2. l = current /\ l \in Logs
    BY <2>1, StreamAssumption DEF CommitTx, Delivering, current, IInv, TypeOK, Logs
  <2>3. route'[l] = kind
    BY <2>1, <2>2 DEF CommitTx, IInv, TypeOK
  <2>4. stream[l].addr \in Addr
    BY <2>2, RecordAssumption DEF IInv, TypeOK
  <2>5. stage \in {"resolved", "dispatched"}
    BY <2>1 DEF CommitTx
  <2> QED
    BY <2>2, <2>3, <2>4, <2>5 DEF TruthInv
<1> QED
  BY Invariance, <1>1, <1>2, <1>3, PTL DEF Spec, RoutedAsTabled
=============================================================================
