-------------------------- MODULE QueryThreadProofs --------------------------
(***************************************************************************)
(* Safety of QueryThread for every table size, limit, number of sockets,   *)
(* batch size, timeout and input.                                          *)
(***************************************************************************)
EXTENDS QueryThreadSteps, ListLemmas, FiniteSetTheorems

-----------------------------------------------------------------------------
(* The lists, the queries in flight and the ledger *)

\* query_move keeps the partition, whichever list the query was on.
LEMMA MoveLemma ==
  ASSUME ListsPartition, NEW q \in Qids
  PROVE  /\ PrependUnused(q) \/ AppendUnused(q) =>
              ListsPartition' /\ Range(outstanding') = Range(outstanding) \ {q}
         /\ PrependOutstanding(q) =>
              ListsPartition' /\ Range(outstanding') = Range(outstanding) \cup {q}
<1> DEFINE u == Without(unused, q)
           o == Without(outstanding, q)
<1>1. /\ u \in List(Qids) /\ Range(u) = Range(unused) \ {q}
      /\ o \in List(Qids) /\ Range(o) = Range(outstanding) \ {q}
  BY WithoutLemma DEF ListsPartition
<1> HIDE DEF u, o
<1>2. /\ <<q>> \o u \in List(Qids) /\ Range(<<q>> \o u) = (Range(unused) \ {q}) \cup {q}
      /\ Append(u, q) \in List(Qids) /\ Range(Append(u, q)) = (Range(unused) \ {q}) \cup {q}
      /\ <<q>> \o o \in List(Qids) /\ Range(<<q>> \o o) = (Range(outstanding) \ {q}) \cup {q}
  BY <1>1, LinkLemma
<1>3. /\ Range(unused) \cap Range(outstanding) = {}
      /\ Range(unused) \cup Range(outstanding) = Qids
  BY DEF ListsPartition
<1>4. ASSUME PrependUnused(q)
      PROVE  ListsPartition' /\ Range(outstanding') = Range(outstanding) \ {q}
  <2>1. unused' = <<q>> \o u /\ outstanding' = o
    BY <1>4 DEF PrependUnused, u, o
  <2> QED BY <2>1, <1>1, <1>2, <1>3 DEF ListsPartition
<1>5. ASSUME AppendUnused(q)
      PROVE  ListsPartition' /\ Range(outstanding') = Range(outstanding) \ {q}
  <2>1. unused' = Append(u, q) /\ outstanding' = o
    BY <1>5 DEF AppendUnused, u, o
  <2> QED BY <2>1, <1>1, <1>2, <1>3 DEF ListsPartition
<1>6. ASSUME PrependOutstanding(q)
      PROVE  ListsPartition' /\ Range(outstanding') = Range(outstanding) \cup {q}
  <2>1. unused' = u /\ outstanding' = <<q>> \o o
    BY <1>6 DEF PrependOutstanding, u, o
  <2> QED BY <2>1, <1>1, <1>2, <1>3 DEF ListsPartition
<1> QED BY <1>4, <1>5, <1>6

LEMMA QidsFinite == IsFiniteSet(Qids) /\ Cardinality(Qids) = NQIDS
<1>1. NQIDS \in Nat \ {0} /\ 0 \in Int /\ NQIDS - 1 \in Int
  BY ConstantsAssumption
<1> QED BY <1>1, FS_Interval DEF Qids

LEMMA InFlightFinite ==
  ASSUME ListsPartition
  PROVE  InFlight \subseteq Qids /\ IsFiniteSet(InFlight) /\ Cardinality(InFlight) \in Nat
<1>1. InFlight \subseteq Qids
  BY DEF InFlight, ListsPartition
<1> QED BY <1>1, QidsFinite, FS_Subset, FS_CardinalityType

-----------------------------------------------------------------------------
(* The lists, the ledger and the limit *)

\* do_send reserves a query: there is a place for it.
LEMMA ReserveLedger ==
  ASSUME IndInv, SenderFrame, SendReserve
  PROVE  ListsPartition' /\ Conservation' /\ Limit'
<1> DEFINE q == Head(unused)
<1>1. q \in Range(unused) /\ q \in Qids /\ q \notin Range(outstanding)
  BY HeadTailLemma, RangeType DEF SendReserve, IndInv, ListsPartition
<1>2. /\ s_q' = q /\ s_pc = "lock" /\ s_pc' = "stamp" /\ BelowLimit
      /\ PrependOutstanding(q)
      /\ UNCHANGED <<timestamp, num_sent, num_completed, num_timedout, num_interrupted,
                     r_accepted, early>>
  BY DEF SendReserve, SenderFrame, stamps, results, rLocals, At, Goto
<1> HIDE DEF q
<1>3. ListsPartition' /\ Range(outstanding') = Range(outstanding) \cup {q}
  BY <1>1, <1>2, MoveLemma DEF IndInv
<1>4. Unsent = {} /\ Unsent' = {q} /\ Counting = 0 /\ Counting' = 0 /\ Charged' = 0
  BY <1>2, <1>3 DEF Unsent, Holding, Counting, Charged
<1>5. InFlight' = InFlight
  BY <1>1, <1>2, <1>3, <1>4 DEF InFlight
<1>6. Conservation'
  BY <1>2, <1>4, <1>5 DEF IndInv, Conservation
<1>7. Cardinality(InFlight) + 1 <= MaxOutstanding + early
  <2>1. Cardinality(InFlight) \in Nat
    BY InFlightFinite DEF IndInv
  <2>2. /\ num_sent \in Nat /\ num_completed \in Nat /\ num_timedout \in Nat
        /\ num_interrupted \in Nat /\ r_accepted \in Nat /\ early \in Nat
        /\ MaxOutstanding \in Nat \ {0}
    BY ConstantsAssumption, CounterTypes
  <2>3. num_sent + early = num_completed + r_accepted + num_timedout + num_interrupted
                             + Cardinality(InFlight)
    BY <1>4, <2>2 DEF IndInv, Conservation
  <2> QED BY <1>2, <2>1, <2>2, <2>3 DEF BelowLimit, NumOutstanding
<1>8. Limit'
  <2>1. early \in Nat /\ MaxOutstanding \in Nat /\ Cardinality(InFlight) \in Nat
    BY ConstantsAssumption, CounterTypes, InFlightFinite DEF IndInv
  <2> QED BY <1>2, <1>4, <1>5, <1>7, <2>1 DEF Limit, InFlightBound
<1> QED BY <1>3, <1>6, <1>8

\* The held query is given back, or left behind at the end of the input.
LEMMA GiveBackLedger ==
  ASSUME IndInv, SenderFrame, SendNotReady \/ SendGiveBack \/ SendNextLine
  PROVE  ListsPartition' /\ Conservation' /\ Limit'
<1>1. /\ UNCHANGED <<timestamp, num_sent, num_completed, num_timedout, num_interrupted,
                     r_accepted, early>>
      /\ Counting = 0 /\ Counting' = 0 /\ Holding
  <2>1. UNCHANGED <<num_completed, num_timedout, num_interrupted, r_accepted>>
    BY DEF SenderFrame, results, rLocals
  <2>2. /\ UNCHANGED <<timestamp, num_sent, early>>
        /\ s_pc \in {"picked", "unbuilt", "unsent", "input"} /\ s_pc' # "count"
    BY DEF SendNotReady, SendGiveBack, SendNextLine, stamps, At, Goto
  <2> QED BY <2>1, <2>2 DEF Counting, Holding
<1>2. s_q \in Qids /\ Unsent = {s_q}
  BY <1>1 DEF IndInv, Locals, Unsent
<1>3. CASE SendNotReady \/ SendGiveBack
  <2>1. PrependUnused(s_q) /\ ~Holding' /\ Unsent' = {}
    BY <1>3 DEF SendNotReady, SendGiveBack, Holding, Unsent, Goto
  <2>2. ListsPartition' /\ Range(outstanding') = Range(outstanding) \ {s_q}
    BY <1>2, <2>1, MoveLemma DEF IndInv
  <2>3. InFlight' = InFlight
    BY <1>1, <1>2, <2>1, <2>2 DEF InFlight
  <2> QED BY <1>1, <2>1, <2>2, <2>3, LedgerKept
<1>4. CASE SendNextLine
  <2>1. UNCHANGED <<unused, outstanding, s_q>> /\ timestamp[s_q] = Unstamped
    BY <1>4 DEF SendNextLine, IndInv, Locals, lists, At
  <2>2. Unsent' = {} \/ Unsent' = Unsent
    BY <1>2, <2>1, Holding' \/ ~Holding' DEF Unsent
  <2>3. InFlight' = InFlight
    BY <1>1, <1>2, <2>1, <2>2 DEF InFlight
  <2>4. Holding' => Holding /\ Charged' = Charged
    BY <1>1, <1>2, <2>1 DEF Charged, Unsent
  <2>5. ListsPartition'
    BY <2>1 DEF IndInv, ListsPartition
  <2> QED BY <1>1, <2>3, <2>4, <2>5, LedgerKept
<1> QED BY <1>3, <1>4

\* perf_net_sendto, and the count of what it sent.
LEMMA SendLedger ==
  ASSUME IndInv, SenderFrame, SendTo \/ SendCount
  PROVE  ListsPartition' /\ Conservation' /\ Limit'
<1>1. UNCHANGED <<unused, outstanding, timestamp, num_completed, num_timedout, num_interrupted,
                  r_accepted>>
  <2>1. UNCHANGED <<lists, stamps>>
    BY DEF SendTo, SendCount
  <2> QED BY <2>1 DEF lists, stamps, SenderFrame, results, rLocals
<1>2. ListsPartition'
  BY <1>1 DEF IndInv, ListsPartition
<1>3. /\ num_sent \in Nat /\ num_completed \in Nat /\ num_timedout \in Nat
      /\ num_interrupted \in Nat /\ r_accepted \in Nat /\ early \in Nat
      /\ MaxOutstanding \in Nat \ {0}
      /\ InFlight \subseteq Qids /\ IsFiniteSet(InFlight) /\ Cardinality(InFlight) \in Nat
  BY ConstantsAssumption, CounterTypes, InFlightFinite DEF IndInv
<1>4. CASE SendCount
  <2>1. /\ num_sent' = num_sent + 1 /\ UNCHANGED early
        /\ Counting = 1 /\ Counting' = 0 /\ Unsent = {} /\ Unsent' = {} /\ ~Holding'
    BY <1>4 DEF SendCount, Counting, Unsent, Holding, At, Goto
  <2>2. InFlight' = InFlight /\ Charged' = 0
    BY <1>1, <2>1 DEF InFlight, Charged
  <2> QED BY <1>1, <1>2, <1>3, <2>1, <2>2 DEF IndInv, Conservation, Limit, InFlightBound
<1>5. CASE SendTo /\ s_pc' = "unsent"
  <2>0. UNCHANGED <<num_sent, s_q, early>> /\ s_pc = "send" /\ s_pc' = "unsent"
    BY <1>5 DEF SendTo, At, Goto
  <2>1. Counting' = Counting /\ Holding' = Holding /\ Unsent' = Unsent
    BY <2>0 DEF Counting, Holding, Unsent
  <2>2. InFlight' = InFlight /\ Charged' = Charged
    BY <1>1, <2>1 DEF InFlight, Charged
  <2> QED BY <1>1, <1>2, <2>0, <2>1, <2>2, LedgerKept
<1>6. CASE SendTo /\ s_pc' # "unsent"
  <2>1. /\ UNCHANGED num_sent /\ Taken(s_q) /\ s_pc = "send" /\ s_pc' = "count"
    BY <1>6 DEF SendTo, At, Goto
  <2>2. /\ Counting = 0 /\ Counting' = 1 /\ ~Holding' /\ Unsent = {s_q} /\ Unsent' = {}
        /\ Charged' = 0 /\ timestamp[s_q] # Unstamped
        /\ s_q \in Qids
    BY <2>1 DEF Counting, Holding, Unsent, Charged, IndInv, Locals
  <2>3. s_q \notin InFlight
    BY <2>2 DEF InFlight
  <2>4. CASE s_q \in Range(outstanding)
    <3>1. InFlight' = InFlight \cup {s_q} /\ UNCHANGED early /\ Charged = 0
      BY <1>1, <2>1, <2>2, <2>4 DEF InFlight, Taken, Charged
    <3>2. Cardinality(InFlight') = Cardinality(InFlight) + 1
      BY <1>3, <2>3, <3>1, FS_AddElement
    <3>3. Cardinality(InFlight) + 1 <= MaxOutstanding + early
      BY <1>3, <2>1, <3>1 DEF IndInv, Limit, Holding
    <3> QED BY <1>1, <1>2, <1>3, <2>1, <2>2, <3>1, <3>2, <3>3
            DEF IndInv, Conservation, Limit, InFlightBound
  <2>5. CASE s_q \notin Range(outstanding)
    <3>1. InFlight' = InFlight /\ early' = early - 1 /\ Charged = 1
      BY <1>1, <2>1, <2>2, <2>5 DEF InFlight, Taken, Charged
    <3>2. Cardinality(InFlight) + 2 <= MaxOutstanding + early /\ 1 <= early
      BY <1>3, <2>1, <3>1 DEF IndInv, Limit, Holding
    <3> QED BY <1>1, <1>2, <1>3, <2>1, <2>2, <3>1, <3>2
            DEF IndInv, Conservation, Limit, InFlightBound
  <2> QED BY <2>4, <2>5
<1> QED BY <1>4, <1>5, <1>6

\* A result is charged to query q, which leaves the outstanding list.
LEMMA ChargeLedger ==
  ASSUME IndInv, NEW q \in Qids, AppendUnused(q), Charge(q),
         UNCHANGED <<timestamp, s_pc, s_q, num_sent, num_interrupted>>,
         num_completed' + r_accepted' + num_timedout'
           = num_completed + r_accepted + num_timedout + 1,
         num_completed' \in Nat, r_accepted' \in Nat, num_timedout' \in Nat
  PROVE  ListsPartition' /\ Conservation' /\ Limit'
<1>1. ListsPartition' /\ Range(outstanding') = Range(outstanding) \ {q}
  BY MoveLemma DEF IndInv
<1>2. Holding' = Holding /\ Unsent' = Unsent /\ Counting' = Counting /\ Counting \in Nat
  BY DEF Holding, Unsent, Counting
<1>3. /\ num_sent \in Nat /\ num_completed \in Nat /\ num_timedout \in Nat
      /\ num_interrupted \in Nat /\ r_accepted \in Nat /\ early \in Nat
      /\ MaxOutstanding \in Nat \ {0}
      /\ InFlight \subseteq Qids /\ IsFiniteSet(InFlight) /\ Cardinality(InFlight) \in Nat
  BY ConstantsAssumption, CounterTypes, InFlightFinite DEF IndInv
<1>4. InFlight' = InFlight \ {q}
  BY <1>1, <1>2 DEF InFlight
<1>5. Charged \in {0, 1} /\ Charged' \in {0, 1}
  BY DEF Charged
<1>8. /\ num_sent + Counting + early
           = num_completed + r_accepted + num_timedout + num_interrupted + Cardinality(InFlight)
      /\ num_sent' = num_sent /\ num_interrupted' = num_interrupted
  BY DEF IndInv, Conservation
<1> DEFINE R == num_completed + r_accepted + num_timedout
           K == Cardinality(InFlight)
<1>9. R \in Nat /\ R' = R + 1 /\ num_sent + Counting + early = R + num_interrupted + K
  <2>1. R \in Nat
    BY <1>3
  <2>2. R' = R + 1
    BY Zenon
  <2>3. num_sent + Counting + early = R + num_interrupted + K
    BY <1>8, Zenon
  <2> QED BY <2>1, <2>2, <2>3, Zenon
<1>10. num_sent' + Counting' + early' = R' + num_interrupted' + K' => Conservation'
  BY Zenon DEF Conservation
<1> HIDE DEF R
<1>6. CASE q \in InFlight
  <2>1. UNCHANGED early /\ Cardinality(InFlight') = Cardinality(InFlight) - 1
    BY <1>3, <1>4, <1>6, FS_RemoveElement DEF Charge
  <2>2. q \notin Unsent
    BY <1>6 DEF InFlight
  <2>3. Charged' = Charged
    BY <1>1, <1>2, <2>2 DEF Charged
  <2>4. Conservation'
    BY <1>2, <1>3, <1>8, <1>9, <1>10, <2>1
  <2>5. Limit'
    BY <1>2, <1>3, <1>5, <2>1, <2>3 DEF IndInv, Limit, InFlightBound
  <2> QED BY <1>1, <2>4, <2>5
<1>7. CASE q \notin InFlight
  <2>1. early' = early + 1 /\ InFlight' = InFlight
    BY <1>4, <1>7 DEF Charge
  <2>2. Conservation'
    BY <1>2, <1>3, <1>8, <1>9, <1>10, <2>1
  <2>3. Charged' <= Charged + 1
    BY <1>5
  <2>4. Limit'
    BY <1>2, <1>3, <1>5, <2>1, <2>3 DEF IndInv, Limit, InFlightBound
  <2> QED BY <1>1, <2>2, <2>4
<1> QED BY <1>6, <1>7

LEMMA ReceiverLedger ==
  ASSUME IndInv, ReceiverFrame, ReceiverLocks \/ ReceiverSteps
  PROVE  ListsPartition' /\ Conservation' /\ Limit'
<1>0. /\ num_completed \in Nat /\ num_timedout \in Nat /\ r_accepted \in Nat
  BY CounterTypes
<1>f. UNCHANGED <<timestamp, s_q, num_sent, num_interrupted>>
  BY DEF ReceiverFrame
<1>1. CASE RecvTimeout
  <2>1. r_q \in Qids /\ AppendUnused(r_q) /\ Charge(r_q) /\ num_timedout' = num_timedout + 1
        /\ UNCHANGED <<timestamp, s_pc, s_q, num_sent, num_interrupted, num_completed,
                       r_accepted>>
    BY <1>1, <1>f DEF RecvTimeout, IndInv, Locals
  <2> QED BY <2>1, <1>0, ChargeLedger
<1>2. CASE RecvMatch /\ Expected(Head(recvd))
  <2> DEFINE q == Head(recvd).qid
  <2>1. q \in Qids
    BY <1>2 DEF Expected, IndInv, ListsPartition
  <2>2. AppendUnused(q) /\ ChargeListed(q) /\ r_accepted' = r_accepted + 1
        /\ UNCHANGED <<timestamp, s_pc, s_q, num_sent, num_interrupted, num_completed,
                       num_timedout>>
    BY <1>2, <1>f DEF RecvMatch
  <2>3. Charge(q)
    BY <1>2, <2>2 DEF Expected, Charge, ChargeListed
  <2> HIDE DEF q
  <2> QED BY <2>1, <2>2, <2>3, <1>0, ChargeLedger
<1>3. CASE RecvCount
  <2>1. /\ num_completed' = num_completed + 1 /\ r_accepted' = r_accepted - 1
        /\ UNCHANGED <<unused, outstanding, timestamp, s_pc, s_q, num_sent, num_timedout,
                       num_interrupted, early>>
    BY <1>3, <1>f DEF RecvCount, lists
  <2>2. InFlight' = InFlight /\ Counting' = Counting /\ Charged' = Charged /\ Holding' = Holding
    BY <2>1 DEF InFlight, Counting, Charged, Unsent, Holding
  <2>3. ListsPartition'
    BY <2>1 DEF IndInv, ListsPartition
  <2>4. Conservation'
    BY <2>1, <2>2, <1>0 DEF IndInv, Conservation
  <2>5. Limit'
    BY <2>1, <2>2 DEF IndInv, Limit, InFlightBound
  <2> QED BY <2>3, <2>4, <2>5
<1>4. CASE ~(RecvTimeout \/ RecvCount \/ (RecvMatch /\ Expected(Head(recvd))))
  <2> DEFINE Quiet == /\ UNCHANGED <<lists, r_accepted, num_completed, num_timedout, early>>
                      /\ SignalSender \/ UNCHANGED s_pc
  <2>1. Quiet
    <3> USE DEF rLocals
    <3>2. CASE RecvStart
      BY <3>2 DEF RecvStart
    <3>3. CASE RecvTop
      BY <3>3 DEF RecvTop
    <3>4. CASE RecvTimeoutLock
      BY <3>4 DEF RecvTimeoutLock
    <3>5. CASE RecvCheck
      BY <3>5 DEF RecvCheck
    <3>6. CASE RecvOne
      BY <3>6 DEF RecvOne
    <3>7. CASE RecvNone
      BY <3>7 DEF RecvNone
    <3>8. CASE RecvLock
      BY <3>8 DEF RecvLock
    <3>9. CASE RecvNext
      BY <3>9 DEF RecvNext
    <3>10. CASE RecvWaited
      BY <3>10 DEF RecvWaited
    <3>11. CASE RecvUnlock
      BY <3>11 DEF RecvUnlock
    <3>12. CASE RecvMatch
      BY <3>12, <1>4 DEF RecvMatch
    <3> HIDE DEF Quiet
    <3> QED BY <1>4, <3>2, <3>3, <3>4, <3>5, <3>6, <3>7, <3>8, <3>9, <3>10, <3>11, <3>12,
           Zenon DEF ReceiverLocks, ReceiverSteps
  <2>2. (Holding' => Holding) /\ Counting' = Counting /\ Unsent' = Unsent
    BY <1>f, <2>1, SignalQuiet
  <2>3. InFlight' = InFlight /\ Charged' = Charged
    BY <1>f, <2>1, <2>2, SameInFlight
  <2>4. ListsPartition'
    BY <2>1 DEF IndInv, ListsPartition, lists
  <2>5. Conservation' /\ Limit'
    BY <1>f, <2>1, <2>2, <2>3, LedgerKept
  <2> QED BY <2>4, <2>5
<1> QED BY <1>1, <1>2, <1>3, <1>4

LEMMA InterruptedType ==
  ASSUME IndInv, MainStart \/ MainWait \/ MainSignal \/ MainJoin \/ MainCleanup
  PROVE  num_interrupted' \in Nat
<1>0. num_interrupted \in Nat
  BY CounterTypes
<1>1. Cardinality(Stamped(Range(outstanding))) \in Nat
  <2>1. Stamped(Range(outstanding)) \subseteq Qids
    BY DEF IndInv, Stamped, ListsPartition
  <2> QED BY <2>1, QidsFinite, FS_Subset, FS_CardinalityType
<1>2. CASE MainCleanup
  BY <1>0, <1>1, <1>2 DEF MainCleanup, CancelQueries, lists, results
<1>3. CASE MainStart \/ MainWait \/ MainSignal \/ MainJoin
  BY <1>0, <1>3 DEF MainStart, MainWait, MainSignal, MainJoin, results
<1> QED BY <1>2, <1>3

LEMMA MainLedger ==
  ASSUME IndInv, MainFrame, MainStart \/ MainWait \/ MainSignal \/ MainJoin \/ MainCleanup
  PROVE  ListsPartition' /\ Conservation' /\ Limit'
<1>0. UNCHANGED <<timestamp, s_q, num_sent, num_completed, num_timedout, r_accepted, early>>
  BY DEF MainFrame, stamps, rLocals
<1>1. CASE MainCleanup /\ interrupted
  <2>1. /\ CancelQueries
        /\ UNCHANGED <<timestamp, s_pc, s_q, num_sent, num_completed, num_timedout, r_accepted,
                       early>>
    BY <1>0, <1>1 DEF MainCleanup
  <2>2. s_pc = "done"
    BY <1>1 DEF MainCleanup, IndInv, Ends
  <2>3. /\ Unsent = {} /\ Unsent' = {} /\ Counting = 0 /\ Counting' = 0 /\ ~Holding'
        /\ Charged' = 0
    BY <2>1, <2>2 DEF Unsent, Holding, Counting, Charged
  <2>4. InFlight = Stamped(Range(outstanding))
    BY <2>3 DEF InFlight, Stamped
  <2>5. /\ unused \in List(Qids) /\ outstanding \in List(Qids)
        /\ Range(unused) \cap Range(outstanding) = {}
        /\ Range(unused) \cup Range(outstanding) = Qids
    BY DEF IndInv, ListsPartition
  <2>6. /\ FromTail(outstanding) \in List(Qids)
        /\ Range(FromTail(outstanding)) = Range(outstanding)
    BY <2>5, ReverseLemma
  <2>7. /\ unused' \in List(Qids) /\ Range(unused') = Qids
        /\ outstanding' \in List(Qids) /\ Range(outstanding') = {}
    <3>1. unused' = unused \o FromTail(outstanding) /\ outstanding' = <<>>
      BY <2>1 DEF CancelQueries
    <3>2. /\ unused \o FromTail(outstanding) \in List(Qids)
          /\ Range(unused \o FromTail(outstanding))
               = Range(unused) \cup Range(FromTail(outstanding))
      BY <2>5, <2>6, ConcatLemma
    <3>3. <<>> \in List(Qids) /\ Range(<<>>) = {}
      BY EmptyList
    <3> HIDE DEF Qids
    <3> QED BY <2>5, <2>6, <3>1, <3>2, <3>3
  <2>8. ListsPartition'
    BY <2>7 DEF ListsPartition
  <2>9. InFlight' = {} /\ Cardinality(InFlight') = 0
    BY <2>7, FS_EmptySet DEF InFlight
  <2>10. /\ num_sent \in Nat /\ num_completed \in Nat /\ num_timedout \in Nat
         /\ num_interrupted \in Nat /\ r_accepted \in Nat /\ early \in Nat
         /\ MaxOutstanding \in Nat \ {0} /\ Cardinality(InFlight) \in Nat
    <3>1. Cardinality(InFlight) \in Nat
      BY InFlightFinite DEF IndInv
    <3> QED BY ConstantsAssumption, CounterTypes, <3>1
  <2>11. Conservation'
    <3>1. num_interrupted' = num_interrupted + Cardinality(InFlight)
      BY <2>1, <2>4 DEF CancelQueries
    <3>2. Conservation
      BY DEF IndInv
    <3> QED BY <2>1, <2>3, <2>9, <2>10, <3>1, <3>2 DEF Conservation
  <2>12. Limit'
    BY <2>1, <2>3, <2>9, <2>10 DEF Limit, InFlightBound
  <2> QED BY <2>8, <2>11, <2>12
<1>2. CASE ~(MainCleanup /\ interrupted)
  <2>1. UNCHANGED <<lists, num_interrupted>>
    <3>1. CASE MainStart \/ MainWait
      BY <3>1 DEF MainStart, MainWait
    <3>2. CASE MainSignal
      BY <3>2 DEF MainSignal
    <3>3. CASE MainJoin
      BY <3>3 DEF MainJoin
    <3>4. CASE MainCleanup
      BY <1>2, <3>4 DEF MainCleanup
    <3> QED BY <3>1, <3>2, <3>3, <3>4
  <2>2. (Holding' => Holding) /\ Counting' = Counting /\ Unsent' = Unsent
    <3>1. CASE MainSignal
      BY <1>0, <3>1, SignalQuiet DEF MainSignal
    <3>2. CASE ~MainSignal
      <4>1. UNCHANGED s_pc
        BY <3>2 DEF MainStart, MainWait, MainJoin, MainCleanup
      <4> QED BY <1>0, <4>1, SignalQuiet
    <3> QED BY <3>1, <3>2
  <2>3. InFlight' = InFlight /\ Charged' = Charged
    BY <1>0, <2>1, <2>2, SameInFlight
  <2>4. ListsPartition'
    BY <2>1 DEF IndInv, ListsPartition, lists
  <2>5. Conservation' /\ Limit'
    BY <1>0, <2>1, <2>2, <2>3, LedgerKept
  <2> QED BY <2>4, <2>5
<1> QED BY <1>1, <1>2

-----------------------------------------------------------------------------
(* Queries without a timestamp *)

LEMMA ReceiverUnstamped ==
  ASSUME IndInv, ReceiverFrame, ReceiverLocks \/ ReceiverSteps
  PROVE  OnlyHeldUnstamped'
<1>1. Range(outstanding') \subseteq Range(outstanding)
  <2>1. CASE RecvTimeout
    <3>1. r_q \in Qids /\ AppendUnused(r_q)
      BY <2>1 DEF RecvTimeout, IndInv, Locals
    <3> QED BY <3>1, MoveLemma DEF IndInv
  <2>2. CASE RecvMatch /\ Expected(Head(recvd))
    <3> DEFINE q == Head(recvd).qid
    <3>1. q \in Qids /\ AppendUnused(q)
      BY <2>2, Zenon DEF RecvMatch, Expected, IndInv, ListsPartition
    <3> HIDE DEF q
    <3> QED BY <3>1, MoveLemma DEF IndInv
  <2>3. CASE ~RecvTimeout /\ ~(RecvMatch /\ Expected(Head(recvd)))
    <3>1. UNCHANGED outstanding
      BY <2>3, ReceiverControl
    <3> QED BY <3>1
  <2> QED BY <2>1, <2>2, <2>3
<1>2. (s_pc' = s_pc \/ s_pc = "wait") /\ UNCHANGED <<s_q, timestamp>>
  BY ReceiverControl DEF ReceiverFrame
<1> QED BY <1>1, <1>2 DEF IndInv, OnlyHeldUnstamped

-----------------------------------------------------------------------------
(* The invariant is inductive *)

\* The state threadinfo_init leaves.
LEMMA InitIndInv == Init => IndInv
<1> SUFFICES ASSUME Init PROVE IndInv
  OBVIOUS
<1>1. unused \in List(Qids) /\ Range(unused) = Qids
  <2> DEFINE u == [i \in 1 .. NQIDS |-> i - 1]
  <2>1. NQIDS \in Nat \ {0}
    BY ConstantsAssumption
  <2>2. u \in Seq(Qids) /\ DOMAIN u = 1 .. NQIDS /\ \A i \in 1 .. NQIDS : u[i] = i - 1
    BY <2>1 DEF Qids
  <2> HIDE DEF u
  <2>3. IsInjective(u)
    BY <2>1, <2>2 DEF IsInjective
  <2>4. u \in List(Qids)
    BY <2>2, <2>3 DEF List
  <2>5. ASSUME NEW q \in Qids PROVE q \in Range(u)
    <3>1. q + 1 \in 1 .. NQIDS /\ (q + 1) - 1 = q
      BY <2>1, <2>5 DEF Qids
    <3> QED BY <2>2, <3>1 DEF Range
  <2>6. Range(u) \subseteq Qids
    BY <2>4, RangeType
  <2>7. unused = u
    BY DEF Init, u
  <2> QED BY <2>4, <2>5, <2>6, <2>7, Zenon
<1>2. outstanding \in List(Qids) /\ Range(outstanding) = {}
  BY EmptyList DEF Init
<1>3. ListsPartition
  BY <1>1, <1>2, Zenon DEF ListsPartition
<1>4. TypeOK
  <2>1. /\ 0 \in Socks /\ Timeout \in Ages /\ 0 \in 0 .. 2 * NSocks /\ MaxLines \in 0 .. MaxLines
    BY ConstantsAssumption DEF Socks, Ages
  <2>2. unused \in Seq(Qids) /\ outstanding \in Seq(Qids) /\ recvd \in Seq(Packets)
    BY <1>1, <1>2 DEF Init, List
  <2> QED BY <2>1, <2>2 DEF Init, TypeOK, SenderPcs, ReceiverPcs, MainPcs
<1>5. InFlight = {} /\ Cardinality(InFlight) = 0 /\ Counting = 0 /\ ~Holding /\ Charged = 0
  <2>1. s_pc = "start"
    BY DEF Init
  <2>2. InFlight = {} /\ Counting = 0 /\ ~Holding /\ Charged = 0
    BY <1>2, <2>1 DEF InFlight, Counting, Holding, Charged, Unsent
  <2> QED BY <2>2, FS_EmptySet
<1>6. Locals /\ OnlyHeldUnstamped /\ Ends
  BY <1>2, <1>5 DEF Init, Locals, OnlyHeldUnstamped, Ends
<1>7. Conservation /\ Limit
  BY <1>5, ConstantsAssumption DEF Init, Conservation, Limit, InFlightBound
<1> QED BY <1>3, <1>4, <1>6, <1>7 DEF IndInv

LEMMA NextIndInv == IndInv /\ [Next]_vars => IndInv'
<1> SUFFICES ASSUME IndInv, [Next]_vars PROVE IndInv'
  OBVIOUS
<1>1. CASE BySender(SenderLocks \/ SenderSteps \/ SendWaitEnds)
  <2>1. SenderFrame /\ (SenderLocks \/ SenderSteps \/ SendWaitEnds)
    BY <1>1 DEF BySender
  <2>2. ListsPartition' /\ Conservation' /\ Limit'
    BY <2>1, SenderKinds, SenderLedgerQuiet, ReserveLedger, GiveBackLedger, SendLedger, Zenon
       DEF Touching
  <2>3. Moves
    BY MoveLemma DEF IndInv, Moves
  <2> QED BY <2>1, <2>2, <2>3, SenderTypes, SenderLocals, SenderUnstamped, SenderEnds DEF IndInv
<1>2. CASE ByReceiver(ReceiverLocks \/ ReceiverSteps)
  BY <1>2, ReceiverLedger, ReceiverTypes, ReceiverLocals, ReceiverUnstamped, ReceiverEnds
     DEF ByReceiver, IndInv
<1>3. CASE ByMain(MainStart \/ MainWait \/ MainSignal \/ MainJoin \/ MainCleanup)
  BY <1>3, MainLedger, InterruptedType, MainTypes, MainLabels DEF ByMain, IndInv
<1>4. CASE ByWorld(Sigint \/ StopTime \/ Tick)
  BY <1>4, WorldLedger, WorldTypes, WorldLabels DEF ByWorld, IndInv
<1>5. CASE UNCHANGED vars
  BY <1>5, StutterInv
<1> QED BY <1>1, <1>2, <1>3, <1>4, <1>5 DEF Next, Finished

\* In every reachable state the strengthened invariant holds.
THEOREM Inductive == Spec => []IndInv
BY InitIndInv, NextIndInv, PTL DEF Spec

-----------------------------------------------------------------------------
(* What follows from it *)

\* do_send takes the head of the unused list only if there is one.
LEMMA UnusedFollows == IndInv => UnusedAvailable
<1> SUFFICES ASSUME IndInv, s_pc = "lock", BelowLimit, early = 0, unused = <<>>
             PROVE  FALSE
  BY DEF UnusedAvailable
<1>1. Range(outstanding) = Qids
  <2>1. Range(unused) = {}
    BY EmptyList
  <2> QED BY <2>1, Zenon DEF IndInv, ListsPartition
<1>2. InFlight = Qids /\ Counting = 0
  <2>1. ~Holding /\ Unsent = {} /\ Counting = 0
    BY DEF Holding, Unsent, Counting
  <2>2. OnlyHeldUnstamped
    BY DEF IndInv
  <2> QED BY <1>1, <2>1, <2>2 DEF OnlyHeldUnstamped, InFlight
<1>3. Cardinality(InFlight) = NQIDS
  BY <1>2, QidsFinite
<1>4. /\ num_sent \in Nat /\ num_completed \in Nat /\ num_timedout \in Nat
      /\ num_interrupted \in Nat /\ r_accepted \in Nat
      /\ NQIDS \in Nat /\ MaxOutstanding \in Nat /\ MaxOutstanding <= NQIDS
  BY ConstantsAssumption, CounterTypes
<1>5. num_sent = num_completed + r_accepted + num_timedout + num_interrupted + NQIDS
  BY <1>2, <1>3, <1>4 DEF IndInv, Conservation
<1> QED BY <1>4, <1>5 DEF BelowLimit, NumOutstanding

\* main returns with balanced books.
LEMMA FinalFollows == IndInv => FinalLedger
<1> SUFFICES ASSUME IndInv, m_pc = "done", early = 0
             PROVE  /\ num_sent = num_completed + num_timedout + num_interrupted
                    /\ InFlight = {}
  BY DEF FinalLedger
<1>1. s_pc = "done" /\ r_pc = "done"
  BY DEF IndInv, Ends
<1>2. /\ num_sent \in Nat /\ num_completed \in Nat /\ num_timedout \in Nat
      /\ num_interrupted \in Nat /\ r_accepted \in Nat
      /\ IsFiniteSet(InFlight) /\ Cardinality(InFlight) \in Nat
  BY InFlightFinite, CounterTypes DEF IndInv
<1>3. r_accepted = 0 /\ Counting = 0
  <2>1. Locals
    BY DEF IndInv
  <2>2. ~(r_accepted > 0)
    BY <1>1, <2>1 DEF Locals
  <2> QED BY <1>1, <1>2, <2>2 DEF Counting
<1>4. num_sent = num_completed + num_timedout + num_interrupted + Cardinality(InFlight)
  BY <1>2, <1>3 DEF IndInv, Conservation
<1>5. CASE interrupted
  <2>1. InFlight = {}
    BY <1>5, EmptyList DEF IndInv, Ends, InFlight
  <2> QED BY <1>2, <1>4, <2>1, FS_EmptySet
<1>6. CASE ~interrupted
  <2>1. num_sent <= num_completed + num_timedout
    BY <1>1, <1>6 DEF IndInv, Ends
  <2>2. Cardinality(InFlight) = 0
    BY <1>2, <1>4, <2>1
  <2> QED BY <1>2, <1>4, <2>2, FS_EmptySet
<1> QED BY <1>5, <1>6

\* Every variable keeps its type, and query_move, called by three parties and on a
\* choice made without the lock, never loses or doubles a query.
THEOREM PartitionKept == Spec => []TableSound
<1>1. IndInv => TableSound
  BY DEF IndInv, TableSound
<1> QED BY <1>1, Inductive, PTL

\* The counters of do_send, do_recv, process_timeouts and cancel_queries always
\* balance with the queries in flight.
THEOREM LedgerBalances == Spec => []Conservation
<1>1. IndInv => Conservation
  BY DEF IndInv
<1> QED BY <1>1, Inductive, PTL

\* do_send keeps to -q, up to the results charged too early.
THEOREM LimitKept == Spec => []InFlightBound
<1>1. IndInv => InFlightBound
  BY DEF IndInv, Limit
<1> QED BY <1>1, Inductive, PTL

\* do_send finds a query when num_outstanding lets it send.
THEOREM UnusedFound == Spec => []UnusedAvailable
BY UnusedFollows, Inductive, PTL

\* main reports every query that was sent, once.
THEOREM FinalBalance == Spec => []FinalLedger
BY FinalFollows, Inductive, PTL

\* do_send sends nothing once do_recv has left by itself.
THEOREM ReceiverLeavesLast == Spec => NothingSentUnheard
<1>1. IndInv /\ [Next]_vars =>
        [r_pc = "done" /\ ~interrupted =>
           num_sent' = num_sent /\ InFlight' \subseteq InFlight]_vars
  BY UnheardStep
<1> QED BY <1>1, Inductive, PTL DEF Spec, NothingSentUnheard

\* do_send never gives a socket a second query while the first is in its buffer.
THEOREM OneAtATime == Spec => []OneInProgress
<1>1. Init => PickedFree
  BY DEF Init, PickedFree
<1>2. IndInv /\ PickedFree /\ [Next]_vars => PickedFree'
  BY PickedFreeStep
<1>3. IndInv /\ PickedFree => OneInProgress
  BY DEF IndInv, Locals, PickedFree, OneInProgress
<1> QED BY <1>1, <1>2, <1>3, Inductive, PTL DEF Spec

\* do_recv accepts a packet only from a server that was asked its query on the
\* socket the query uses now.
THEOREM AcceptsWhatWasAsked == Spec => AnsweredWhereAsked
<1> DEFINE q == Head(recvd).qid
<1>1. Init => HeardAsked
  BY DEF Init, HeardAsked
<1>2. IndInv /\ HeardAsked /\ [Next]_vars => HeardAsked'
  BY HeardAskedStep
<1>3. IndInv /\ HeardAsked /\ [Next]_vars =>
        [r_accepted' > r_accepted => <<qsock[q], q>> \in asked]_vars
  <2> SUFFICES ASSUME IndInv, HeardAsked, [Next]_vars, r_accepted' > r_accepted
               PROVE  <<qsock[q], q>> \in asked
    OBVIOUS
  <2>0. r_accepted \in Nat /\ recvd \in Seq(Packets) /\ ListsPartition
    BY TypesMeet DEF IndInv, LocalsOK
  <2>1. RecvMatch
    BY <2>0, PacketSteps
  <2>2. recvd # <<>> /\ Expected(Head(recvd))
    BY <2>0, <2>1 DEF RecvMatch
  <2>3. Head(recvd) = recvd[1] /\ 1 \in 1 .. Len(recvd)
    BY <2>0, <2>2
  <2>4. q \in Qids /\ qsock[q] = Head(recvd).sock
    BY <2>0, <2>2 DEF Expected, ListsPartition
  <2>5. q # None
    BY <2>4, ConstantsAssumption DEF Qids
  <2> QED BY <2>3, <2>4, <2>5 DEF HeardAsked
<1> QED BY <1>1, <1>2, <1>3, Inductive, PTL DEF Spec, AnsweredWhereAsked
=============================================================================
