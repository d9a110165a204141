------------------------- MODULE PoolResolutionProofs -------------------------
(***************************************************************************)
(* For any pools, factory and transaction, of any length, a deployment     *)
(* event resolves to the pool it announces.                                *)
(***************************************************************************)
EXTENDS PoolResolution, TLAPS

\* The greatest of a set of integers is Max of it.
LEMMA MaxIs ==
  ASSUME NEW S, S \subseteq Int, NEW m \in S, \A n \in S : m >= n
  PROVE  Max(S) = m
<1> DEFINE Greatest(x) == \A y \in S : x >= y
<1>1. Greatest(m)
  OBVIOUS
<1>2. Max(S) = CHOOSE x \in S : Greatest(x)
  BY DEF Max
<1>3. Max(S) \in S /\ Greatest(Max(S))
  <2> HIDE DEF Greatest
  <2> QED BY <1>1, <1>2, Zenon
<1>4. m \in Int /\ Max(S) \in Int /\ m >= Max(S) /\ Max(S) >= m
  BY <1>3
<1> QED
  BY <1>4

\* An event resolves to the emitter of the last candidate before it.
LEMMA LastBuiltResolves ==
  ASSUME NEW logs \in Seq(LogType), NEW p, NEW n \in DOMAIN logs, LastBuilt(logs, p, n - 1)
  PROVE  Resolve(logs, IndexOf(n)) = p
<1> DEFINE found == {i \in DOMAIN logs : IndexOf(i) < IndexOf(n) /\ Candidate(logs[i])}
<1>1. PICK i \in DOMAIN logs :
        /\ i <= n - 1 /\ Candidate(logs[i]) /\ logs[i].addr = p
        /\ \A j \in DOMAIN logs : i < j /\ j <= n - 1 => ~ Candidate(logs[j])
  BY DEF LastBuilt
<1>2. \A j \in DOMAIN logs : j \in Int /\ (IndexOf(j) < IndexOf(n) <=> j <= n - 1)
  BY IndexAssumption DEF IndexOf
<1>3. i \in found /\ found \subseteq Int /\ \A j \in found : i >= j
  BY <1>1, <1>2
<1>4. Max(found) = i
  <2> HIDE DEF found
  <2> QED BY <1>3, MaxIs
<1> QED
  BY <1>1, <1>3, <1>4 DEF Resolve

\* None of the other logs looks like a constructor's.
LEMMA OthersAreNoCandidates ==
  \A l \in OtherLogs : l \in LogType /\ ~ Candidate(l) /\ l.pool = NoPool
BY AddressAssumption DEF OtherLogs, LogType, Candidate, TransferLog

\* The logs of a longer receipt.
LEMMA AppendLogs ==
  ASSUME NEW logs \in Seq(LogType), NEW l \in LogType
  PROVE  /\ Append(logs, l) \in Seq(LogType)
         /\ Len(logs) \in Nat /\ Len(Append(logs, l)) = Len(logs) + 1
         /\ DOMAIN Append(logs, l) = DOMAIN logs \cup {Len(logs) + 1}
         /\ DOMAIN logs = 1..Len(logs)
         /\ \A j \in DOMAIN logs : Append(logs, l)[j] = logs[j]
         /\ Append(logs, l)[Len(logs) + 1] = l
OBVIOUS

\* The last pool built by the n-th log stays it when a log follows,
LEMMA LastBuiltStays ==
  ASSUME NEW logs \in Seq(LogType), NEW l \in LogType,
         NEW p, NEW n \in Nat, n <= Len(logs), LastBuilt(logs, p, n)
  PROVE  LastBuilt(Append(logs, l), p, n)
BY AppendLogs DEF LastBuilt

\* and the last one by now does if that log is no candidate.
LEMMA LastBuiltExtends ==
  ASSUME NEW logs \in Seq(LogType), NEW l \in LogType, ~ Candidate(l),
         NEW p, LastBuilt(logs, p, Len(logs))
  PROVE  LastBuilt(Append(logs, l), p, Len(logs) + 1)
BY AppendLogs DEF LastBuilt

\* A log that announces nothing, or the last pool built, may follow.
LEMMA AnnouncedStay ==
  ASSUME NEW logs \in Seq(LogType), AnnouncedBuilt(logs), NEW l \in LogType,
         l.pool # NoPool => LastBuilt(logs, l.pool, Len(logs))
  PROVE  AnnouncedBuilt(Append(logs, l))
<1> DEFINE more == Append(logs, l)
<1> SUFFICES ASSUME NEW i \in DOMAIN more, more[i].pool # NoPool
             PROVE  LastBuilt(more, more[i].pool, i - 1)
  BY DEF AnnouncedBuilt
<1>1. i - 1 \in Nat /\ i - 1 <= Len(logs) /\ LastBuilt(logs, more[i].pool, i - 1)
  <2>1. CASE i \in DOMAIN logs
    BY <2>1, AppendLogs DEF AnnouncedBuilt
  <2>2. CASE i = Len(logs) + 1
    <3>1. more[i] = l /\ i - 1 = Len(logs) /\ Len(logs) \in Nat
      BY <2>2, AppendLogs
    <3> HIDE DEF more
    <3> QED
      BY <3>1
  <2> QED
    BY <2>1, <2>2, AppendLogs
<1> QED
  BY <1>1, LastBuiltStays

\* The invariant holds at first and after every step.
LEMMA InitIInv == Init => IInv
BY DEF Init, IInv, AnnouncedBuilt

LEMMA StepIInv == IInv /\ [Next]_vars => IInv'
<1> SUFFICES ASSUME IInv, [Next]_vars PROVE IInv'
  OBVIOUS
<1>0. receipt \in Seq(LogType) /\ building \in Pools \cup {NoPool} /\ AnnouncedBuilt(receipt)
  BY DEF IInv
<1>1. ASSUME NEW p \in Pools, Construct(p) PROVE IInv'
  <2> DEFINE l == ConstructorLog(p)
  <2>1. l \in LogType /\ Candidate(l) /\ l.addr = p /\ l.pool = NoPool
    BY AddressAssumption DEF ConstructorLog, TransferLog, LogType, Candidate
  <2>2. receipt' = Append(receipt, l) /\ building' = p
    BY <1>1 DEF Construct, Emit
  <2> HIDE DEF l
  <2>3. LastBuilt(receipt', p, Len(receipt'))
    BY <1>0, <2>1, <2>2, AppendLogs DEF LastBuilt
  <2>4. AnnouncedBuilt(receipt')
    BY <1>0, <2>1, <2>2, AnnouncedStay
  <2> QED
    BY <1>0, <2>1, <2>2, <2>3, <2>4, AppendLogs DEF IInv
<1>2. ASSUME Announce PROVE IInv'
  <2> DEFINE l == DeployLog(building)
  <2>1. building \in Pools /\ LastBuilt(receipt, building, Len(receipt))
    BY <1>2 DEF IInv, Announce
  <2>2. l \in LogType /\ l.pool = building
    BY <2>1 DEF DeployLog, LogType
  <2>3. receipt' = Append(receipt, l) /\ building' = NoPool
    BY <1>2 DEF Announce, Emit
  <2> HIDE DEF l
  <2>4. AnnouncedBuilt(receipt')
    BY <1>0, <2>1, <2>2, <2>3, AnnouncedStay
  <2> QED
    BY <1>0, <2>2, <2>3, <2>4, AppendLogs DEF IInv
<1>3. ASSUME EmitOther PROVE IInv'
  <2>1. PICK l \in OtherLogs : receipt' = Append(receipt, l) /\ building' = building
    BY <1>3 DEF EmitOther, Emit
  <2>2. l \in LogType /\ ~ Candidate(l) /\ l.pool = NoPool
    BY <2>1, OthersAreNoCandidates
  <2>3. building # NoPool => LastBuilt(receipt', building, Len(receipt'))
    BY <1>0, <2>1, <2>2, LastBuiltExtends, AppendLogs DEF IInv
  <2>4. AnnouncedBuilt(receipt')
    BY <1>0, <2>1, <2>2, AnnouncedStay
  <2> QED
    BY <1>0, <2>1, <2>2, <2>3, <2>4, AppendLogs DEF IInv
<1>4. CASE UNCHANGED vars
  BY <1>4 DEF vars, IInv
<1> QED
  BY <1>1, <1>2, <1>3, <1>4 DEF Next

\* Every deployment event resolves to its own pool (resolveDeployedPool), however
\* many pools the transaction deploys and wherever its other logs stand; none of
\* them is a constructor's Transfer (OtherLogs).
THEOREM ResolvesHolds == Spec => []ResolvesToItsPool
<1>1. IInv => ResolvesToItsPool
  BY LastBuiltResolves DEF IInv, AnnouncedBuilt, ResolvesToItsPool
<1> QED
  BY InitIInv, StepIInv, <1>1, PTL DEF Spec
=============================================================================
