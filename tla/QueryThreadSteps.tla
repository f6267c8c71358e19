-------------------------- MODULE QueryThreadSteps --------------------------
(***************************************************************************)
(* Lemmas of the proof that IndInv is inductive that follow step by step   *)
(* from the actions: types, what the labels say of the local variables,    *)
(* how the threads end; and that the steps that move no query between the  *)
(* lists keep the partition, the ledger and the limit.                     *)
(***************************************************************************)
EXTENDS QueryThreadInv, TLAPS

-----------------------------------------------------------------------------
(* Types. A step keeps them if it keeps the lists. *)

LEMMA EndsType ==
  ASSUME NEW S, NEW l \in List(S), l # <<>>
  PROVE  Head(l) \in S /\ ListTail(l) \in S
<1>1. l \in Seq(S) /\ Len(l) \in Nat /\ Len(l) # 0
  BY DEF List
<1>2. 1 \in 1 .. Len(l) /\ Len(l) \in 1 .. Len(l)
  BY <1>1
<1> QED BY <1>1, <1>2 DEF ListTail

\* The types of the variables, by the tuples that the actions name.
ListsOK   == unused \in Seq(Qids) /\ outstanding \in Seq(Qids)
StampsOK  == timestamp \in [Qids -> Ages \cup {Unstamped}] /\ r_expired \subseteq Qids
PicksOK   == /\ qsock \in [Qids -> Socks \cup {None}] /\ current_sock \in Socks
             /\ s_tries \in 0 .. 2 * NSocks /\ s_all_fail \in BOOLEAN
FlushesOK == s_i \in Socks /\ any_inprogress \in BOOLEAN /\ socketbits \subseteq Socks
NetOK     == /\ pend \in [Socks -> Qids \cup {None}] /\ asked \subseteq Socks \X Qids
             /\ s_callback \in Qids \cup {None}
SelfOK    == /\ s_pc \in SenderPcs /\ s_q \in Qids \cup {None}
             /\ s_late \in BOOLEAN /\ num_sent \in Nat
RestOK    == fatal \in BOOLEAN /\ lines_left \in 0 .. MaxLines /\ early \in Nat
ResultsOK == num_completed \in Nat /\ num_timedout \in Nat /\ num_interrupted \in Nat
LocalsOK  == /\ r_q \in Qids \cup {None} /\ r_errno \in {"none", "EAGAIN", "EINTR", "other"}
             /\ r_bits \subseteq Socks /\ r_last \in Socks
             /\ recvd \in Seq(Packets) /\ r_accepted \in Nat
MainOK    == m_pc \in MainPcs /\ interrupted \in BOOLEAN
WorldOK   == intrpipe \in BOOLEAN /\ time_up \in BOOLEAN

LEMMA TypesMeet ==
  /\ TypeOK => /\ ListsOK /\ StampsOK /\ PicksOK /\ FlushesOK /\ NetOK /\ SelfOK /\ RestOK
               /\ ResultsOK /\ r_pc \in ReceiverPcs /\ LocalsOK /\ MainOK /\ WorldOK
  /\ /\ ListsOK' /\ StampsOK' /\ PicksOK' /\ FlushesOK' /\ NetOK' /\ SelfOK' /\ RestOK'
     /\ ResultsOK' /\ r_pc' \in ReceiverPcs /\ LocalsOK' /\ MainOK' /\ WorldOK'
     => TypeOK'
BY Zenon DEF TypeOK, ListsOK, StampsOK, PicksOK, FlushesOK, NetOK, SelfOK, RestOK, ResultsOK,
  LocalsOK, MainOK, WorldOK

\* What is not changed keeps its type.
LEMMA SameTypes ==
  ASSUME TypeOK
  PROVE  /\ UNCHANGED lists => ListsOK'
         /\ UNCHANGED stamps => StampsOK'
         /\ UNCHANGED picks => PicksOK'
         /\ UNCHANGED flushes => FlushesOK'
         /\ UNCHANGED net => NetOK'
         /\ UNCHANGED <<fatal, lines_left, early>> => RestOK'
         /\ UNCHANGED results => ResultsOK'
         /\ UNCHANGED rLocals => LocalsOK'
         /\ UNCHANGED mainVars => MainOK'
         /\ UNCHANGED <<intrpipe, time_up>> => WorldOK'
<1> USE TypesMeet
<1>1. UNCHANGED lists => ListsOK'
  BY DEF lists, ListsOK
<1>2. UNCHANGED stamps => StampsOK'
  BY DEF stamps, StampsOK
<1>3. UNCHANGED picks => PicksOK'
  BY DEF picks, PicksOK
<1>4. UNCHANGED flushes => FlushesOK'
  BY DEF flushes, FlushesOK
<1>5. UNCHANGED net => NetOK'
  BY DEF net, NetOK
<1>6. UNCHANGED <<fatal, lines_left, early>> => RestOK'
  BY DEF RestOK
<1>7. UNCHANGED results => ResultsOK'
  BY DEF results, ResultsOK
<1>8. UNCHANGED rLocals => LocalsOK'
  BY DEF rLocals, LocalsOK
<1>9. UNCHANGED mainVars => MainOK'
  BY DEF mainVars, MainOK
<1>10. UNCHANGED <<intrpipe, time_up>> => WorldOK'
  BY DEF WorldOK
<1> QED BY <1>1, <1>2, <1>3, <1>4, <1>5, <1>6, <1>7, <1>8, <1>9, <1>10, Zenon

LEMMA CounterTypes ==
  ASSUME IndInv
  PROVE  /\ num_sent \in Nat /\ num_completed \in Nat /\ num_timedout \in Nat
         /\ num_interrupted \in Nat /\ r_accepted \in Nat /\ early \in Nat
BY TypesMeet DEF IndInv, SelfOK, ResultsOK, LocalsOK, RestOK

\* Every step of the sender keeps the types.
LEMMA SenderTypes ==
  ASSUME IndInv, SenderLocks \/ SenderSteps \/ SendWaitEnds, SenderFrame,
         ListsPartition'
  PROVE  TypeOK'
<1> DEFINE Done == StampsOK' /\ PicksOK' /\ FlushesOK' /\ NetOK' /\ SelfOK' /\ RestOK'
<1>0. TypeOK /\ Locals /\ ListsOK'
  BY DEF IndInv, ListsPartition, List, ListsOK
<1>1. /\ StampsOK /\ PicksOK /\ FlushesOK /\ NetOK /\ SelfOK /\ RestOK
      /\ time_up \in BOOLEAN /\ NSocks \in Nat \ {0}
  BY <1>0, TypesMeet, ConstantsAssumption DEF WorldOK
<1>2. /\ UNCHANGED stamps => StampsOK'
      /\ UNCHANGED picks => PicksOK'
      /\ UNCHANGED flushes => FlushesOK'
      /\ UNCHANGED net => NetOK'
      /\ UNCHANGED <<fatal, lines_left, early>> => RestOK'
  BY <1>0, SameTypes, Zenon
<1>3. ResultsOK' /\ r_pc' \in ReceiverPcs /\ LocalsOK' /\ MainOK' /\ WorldOK'
  BY <1>0, SameTypes, TypesMeet DEF SenderFrame
<1> SUFFICES Done
  BY <1>0, <1>3, TypesMeet
<1>4. \A s \in Socks : (s + 1) % NSocks \in Socks
  BY <1>1 DEF Socks
<1>5. \A q \in Qids, a \in {0, Unstamped} : Stamp(q, a) => StampsOK'
  <2>1. 0 \in Ages
    BY ConstantsAssumption DEF Ages
  <2> QED BY <1>1, <2>1 DEF Stamp, StampsOK
<1>6. ASSUME NEW s \in Socks, NEW r, SockReady(s, r)
      PROVE  NetOK'
  BY <1>1, <1>6 DEF SockReady, net, NetOK
<1>7. fatal' \in BOOLEAN /\ UNCHANGED <<lines_left, early>> => RestOK'
  BY <1>1 DEF RestOK
<1>8. /\ s_pc' \in SenderPcs /\ s_q' \in {s_q, None} /\ s_late' \in {s_late, time_up}
      /\ UNCHANGED num_sent
      => SelfOK'
  BY <1>1 DEF SelfOK
<1>9. Holding => s_q \in Qids
  BY <1>0 DEF Locals
<1>10. CASE SentCallback
  <2>1. StampsOK'
    BY <1>1, <1>2, <1>5, <1>10 DEF SentCallback, NetOK
  <2>2. NetOK'
    BY <1>1, <1>10 DEF SentCallback, NetOK
  <2>3. SelfOK'
    BY <1>1, <1>10 DEF SentCallback, SelfOK
  <2> QED BY <1>2, <2>1, <2>2, <2>3, <1>10 DEF SentCallback
<1>11. CASE SendStart
  BY <1>2, <1>7, <1>8, <1>11 DEF SendStart, Goto, SenderPcs
<1>12. CASE SendLoop
  <2>1. FlushesOK'
    BY <1>1, <1>12, Zenon DEF SendLoop, FlushesOK
  <2>2. s_pc' \in SenderPcs /\ s_late' \in {s_late, time_up}
    BY <1>12, Zenon DEF SendLoop, Goto, SenderPcs
  <2> QED BY <1>2, <1>8, <2>1, <2>2, <1>12 DEF SendLoop
<1>13. CASE SendLoopEnd
  BY <1>2, <1>7, <1>8, <1>13 DEF SendLoopEnd, Goto, SenderPcs
<1>14. CASE SendFlush
  <2>1. s_i \in Socks /\ s_i' \in Socks
    BY <1>1, <1>4, <1>14 DEF SendFlush, FlushesOK
  <2>2. any_inprogress' \in BOOLEAN /\ socketbits' \subseteq Socks
    BY <1>1, <1>14, Zenon DEF SendFlush, FlushesOK
  <2>3. NetOK'
    BY <1>2, <1>6, <2>1, <1>14 DEF SendFlush
  <2>4. SelfOK'
    BY <1>8, <1>14 DEF SendFlush, Goto, SenderPcs
  <2> QED BY <1>2, <2>1, <2>2, <2>3, <2>4, <1>14 DEF SendFlush, FlushesOK
<1>15. CASE SendLimit
  BY <1>2, <1>7, <1>8, <1>15 DEF SendLimit, Goto, SenderPcs
<1>16. CASE SendWaitEnds
  BY <1>2, <1>7, <1>8, <1>16 DEF SendWaitEnds, Goto, SenderPcs
<1>17. CASE SendWoken
  BY <1>2, <1>7, <1>8, <1>17 DEF SendWoken, Goto, SenderPcs
<1>18. CASE SendReserve
  <2>1. Head(unused) \in Qids
    BY EndsType, <1>18 DEF IndInv, ListsPartition, SendReserve
  <2>2. SelfOK'
    BY <1>1, <2>1, <1>18 DEF SendReserve, Goto, SenderPcs, SelfOK
  <2> QED BY <1>2, <2>2, <1>18 DEF SendReserve
<1>19. CASE SendReserveNull
  BY <1>2, <1>7, <1>8, <1>1, <1>19 DEF SendReserveNull, SelfOK
<1>20. CASE SendUnstamp
  <2>1. StampsOK'
    BY <1>5, <1>9, <1>20 DEF SendUnstamp, At, Holding
  <2>2. PicksOK'
    BY <1>1, <1>20 DEF SendUnstamp, PicksOK
  <2>3. SelfOK'
    BY <1>8, <1>20 DEF SendUnstamp, Goto, SenderPcs
  <2> QED BY <1>2, <2>1, <2>2, <2>3, <1>20 DEF SendUnstamp
<1>21. CASE SendPick
  <2>1. s_tries \in 1 .. 2 * NSocks /\ current_sock \in Socks
    BY <1>0, <1>1, <1>21 DEF SendPick, At, Locals, PicksOK
  <2>2. s_tries' \in 0 .. 2 * NSocks
    BY <1>1, <2>1, <1>21 DEF SendPick
  <2>3. qsock' \in [Qids -> Socks \cup {None}] /\ s_all_fail' \in BOOLEAN
    BY <1>1, <2>1, <1>21, Zenon DEF SendPick, PicksOK
  <2>4. current_sock' \in Socks
    BY <1>4, <2>1, <1>21 DEF SendPick, NextSock
  <2>5. NetOK'
    BY <1>6, <2>1, <1>21 DEF SendPick
  <2>6. SelfOK'
    BY <1>8, <1>21 DEF SendPick, Goto, SenderPcs
  <2> QED BY <1>2, <2>2, <2>3, <2>4, <2>5, <2>6, <1>21 DEF SendPick, PicksOK
<1>22. CASE SendAllFail
  BY <1>2, <1>7, <1>8, <1>1, <1>22 DEF SendAllFail, SelfOK
<1>23. CASE SendNotReady
  BY <1>2, <1>7, <1>8, <1>23 DEF SendNotReady, Goto, SenderPcs
<1>24. CASE SendReady
  BY <1>2, <1>7, <1>8, <1>24 DEF SendReady, Goto, SenderPcs
<1>25. CASE SendNextLine
  <2>1. RestOK'
    <3>1. fatal' \in BOOLEAN
      BY <1>1, <1>25, Zenon DEF SendNextLine, RestOK
    <3>2. lines_left' \in 0 .. MaxLines
      BY <1>1, ConstantsAssumption, <1>25 DEF SendNextLine, RestOK
    <3> QED BY <1>1, <3>1, <3>2, <1>25 DEF SendNextLine, RestOK
  <2>2. s_pc \in SenderPcs
    BY <1>1 DEF SelfOK
  <2>3. s_pc' \in SenderPcs
    BY <2>2, <1>25, Zenon DEF SendNextLine, Goto, SenderPcs
  <2>4. SelfOK'
    BY <1>8, <2>3, <1>25 DEF SendNextLine
  <2> QED BY <1>2, <2>1, <2>4, <1>25 DEF SendNextLine
<1>26. CASE SendBuild
  <2>1. StampsOK'
    BY <1>2, <1>5, <1>9, <1>26 DEF SendBuild, At, Holding
  <2>2. SelfOK'
    BY <1>8, <1>26 DEF SendBuild, Goto, SenderPcs
  <2> QED BY <1>2, <2>1, <2>2, <1>26 DEF SendBuild
<1>27. CASE SendTo
  <2>1. s_q \in Qids /\ qsock[s_q] \in Socks
    BY <1>0, <1>1, <1>9, <1>27 DEF SendTo, At, Locals, Holding, PicksOK
  <2>2. FlushesOK'
    <3>1. any_inprogress' \in BOOLEAN /\ socketbits' \subseteq Socks
      BY <1>1, <2>1, <1>27, Zenon DEF SendTo, FlushesOK
    <3> QED BY <1>1, <3>1, <1>27 DEF SendTo, FlushesOK
  <2>3. NetOK'
    BY <1>1, <2>1, <1>27 DEF SendTo, NetOK
  <2>4. early' \in Nat
    BY <1>0, <1>1, <2>1, <1>27 DEF SendTo, At, Taken, IndInv, Limit, Charged, Unsent, Holding, RestOK
  <2>5. SelfOK'
    BY <1>8, <1>27 DEF SendTo, Goto, SenderPcs
  <2>6. RestOK'
    BY <1>1, <2>4, <1>27 DEF SendTo, RestOK
  <2> QED BY <1>2, <2>2, <2>3, <2>5, <2>6, <1>27 DEF SendTo
<1>28. CASE SendCount
  <2>1. SelfOK'
    BY <1>1, <1>28 DEF SendCount, Goto, SenderPcs, SelfOK
  <2> QED BY <1>2, <2>1, <1>28 DEF SendCount
<1>29. CASE SendGiveBack
  BY <1>2, <1>7, <1>8, <1>29 DEF SendGiveBack, Goto, SenderPcs
<1>30. CASE SendDrain
  <2>1. FlushesOK'
    BY <1>1, <1>30, Zenon DEF SendDrain, FlushesOK
  <2> QED BY <1>2, <1>8, <2>1, <1>30 DEF SendDrain, Goto, SenderPcs
<1>31. CASE SendDrainSock
  <2>1. s_i \in Socks /\ s_i' \in Socks
    BY <1>1, <1>4, <1>31 DEF SendDrainSock, FlushesOK
  <2>2. any_inprogress' \in BOOLEAN
    BY <1>1, <1>31, Zenon DEF SendDrainSock, FlushesOK
  <2>3. FlushesOK'
    BY <1>1, <2>1, <2>2, <1>31 DEF SendDrainSock, FlushesOK
  <2>4. NetOK'
    BY <1>6, <2>1, <1>31 DEF SendDrainSock
  <2> QED BY <1>2, <1>8, <2>3, <2>4, <1>31 DEF SendDrainSock, Goto, SenderPcs
<1>32. CASE SendDone
  BY <1>2, <1>7, <1>8, <1>32 DEF SendDone, Goto, SenderPcs
<1> QED
  BY <1>10, <1>11, <1>12, <1>13, <1>14, <1>15, <1>16, <1>17, <1>18, <1>19, <1>20, <1>21,
    <1>22, <1>23, <1>24, <1>25, <1>26, <1>27, <1>28, <1>29, <1>30, <1>31, <1>32, Zenon
  DEF SenderLocks, SenderSteps, SendWaitTimesOut

\* Every step of the receiver keeps the types.
LEMMA ReceiverTypes ==
  ASSUME IndInv, ReceiverLocks \/ ReceiverSteps, ReceiverFrame, ListsPartition'
  PROVE  TypeOK'
<1> DEFINE Mine == /\ r_expired' \subseteq Qids /\ s_pc' \in SenderPcs /\ num_completed' \in Nat
                   /\ num_timedout' \in Nat /\ r_pc' \in ReceiverPcs /\ fatal' \in BOOLEAN
                   /\ early' \in Nat
           Done == Mine /\ LocalsOK'
<1>0. TypeOK /\ ListsOK' /\ Expired \subseteq Qids
  BY DEF IndInv, ListsPartition, List, ListsOK, Expired
<1>1. /\ StampsOK /\ SelfOK /\ RestOK /\ ResultsOK /\ LocalsOK /\ r_pc \in ReceiverPcs
  BY <1>0, TypesMeet
<1>2. PicksOK' /\ FlushesOK' /\ NetOK' /\ MainOK' /\ WorldOK'
  BY <1>0, SameTypes DEF ReceiverFrame
<1> SUFFICES Done
  <2>1. StampsOK' /\ SelfOK' /\ RestOK' /\ ResultsOK'
    BY <1>1 DEF ReceiverFrame, StampsOK, SelfOK, RestOK, ResultsOK
  <2> QED BY <1>0, <1>2, <2>1, TypesMeet
<1>3. /\ r_expired \subseteq Qids /\ s_pc \in SenderPcs /\ num_completed \in Nat
      /\ num_timedout \in Nat /\ r_pc \in ReceiverPcs /\ fatal \in BOOLEAN /\ early \in Nat
  BY <1>1 DEF StampsOK, SelfOK, RestOK, ResultsOK
<1>4. UNCHANGED rLocals => LocalsOK'
  BY <1>0, SameTypes
<1>5. /\ outstanding # <<>> => ListTail(outstanding) \in Qids
      /\ outstanding' # <<>> => ListTail(outstanding') \in Qids
  BY EndsType DEF IndInv, ListsPartition
<1>6. CASE RecvStart
  BY <1>0, <1>3, <1>4, <1>6 DEF RecvStart, ReceiverPcs
<1>7. CASE RecvTop
  <2>1. r_pc' \in ReceiverPcs /\ r_q' \in Qids \cup {None}
    BY <1>1, <1>5, <1>7 DEF RecvTop, ReceiverPcs, LocalsOK
  <2>2. LocalsOK'
    BY <1>1, <2>1, <1>7 DEF RecvTop, LocalsOK
  <2> QED BY <1>3, <2>1, <2>2, <1>7 DEF RecvTop
<1>8. CASE RecvTimeoutLock
  BY <1>0, <1>3, <1>4, <1>8 DEF RecvTimeoutLock, ReceiverPcs
<1>9. CASE RecvTimeout
  <2>1. r_pc' \in ReceiverPcs /\ r_q' \in Qids \cup {None}
    BY <1>3, <1>5, <1>9 DEF RecvTimeout, ReceiverPcs
  <2>2. LocalsOK'
    BY <1>1, <2>1, <1>9 DEF RecvTimeout, LocalsOK
  <2>3. num_timedout' \in Nat /\ early' \in Nat
    BY <1>3, <1>9 DEF RecvTimeout, Charge
  <2> QED BY <1>3, <2>1, <2>2, <2>3, <1>9 DEF RecvTimeout
<1>10. CASE RecvCheck
  BY <1>0, <1>3, <1>4, <1>10 DEF RecvCheck, ReceiverPcs
<1>11. CASE RecvOne
  <2>1. \A s \in Socks : (s + 1) % NSocks \in Socks
    BY ConstantsAssumption DEF Socks
  <2>2. /\ r_pc' \in ReceiverPcs
        /\ r_errno' \in {"none", "EAGAIN", "EINTR", "other"}
        /\ r_bits' \subseteq Socks
    BY <1>1, <1>11 DEF RecvOne, ReceiverPcs, LocalsOK
  <2>3. r_last' \in Socks
    BY <2>1, <1>11 DEF RecvOne
  <2>4. recvd' \in Seq(Packets)
    BY <1>1, <1>11 DEF RecvOne, Packets, LocalsOK
  <2>5. LocalsOK'
    BY <1>1, <2>2, <2>3, <2>4, <1>11 DEF RecvOne, LocalsOK
  <2> QED BY <1>3, <2>2, <2>5, <1>11 DEF RecvOne
<1>12. CASE RecvNone
  <2>1. r_pc' \in ReceiverPcs /\ r_bits' \subseteq Socks
    BY <1>1, <1>12 DEF RecvNone, ReceiverPcs, LocalsOK
  <2>2. r_errno' \in {"none", "EAGAIN", "EINTR", "other"}
    BY <1>1, ConstantsAssumption, <1>12, Zenon DEF RecvNone, LocalsOK
  <2>3. LocalsOK'
    BY <1>1, <2>1, <2>2, <1>12 DEF RecvNone, LocalsOK
  <2> QED BY <1>3, <2>1, <2>3, <1>12 DEF RecvNone
<1>13. CASE RecvLock
  BY <1>0, <1>3, <1>4, <1>13 DEF RecvLock, ReceiverPcs
<1>14. CASE RecvMatch
  <2>1. recvd' \in Seq(Packets)
    BY <1>1, <1>14 DEF RecvMatch, LocalsOK
  <2>2. r_accepted' \in Nat /\ early' \in Nat
    BY <1>1, <1>3, <1>14 DEF RecvMatch, ChargeListed, LocalsOK
  <2>3. LocalsOK'
    BY <1>1, <2>1, <2>2, <1>14 DEF RecvMatch, LocalsOK
  <2> QED BY <1>3, <2>2, <2>3, <1>14 DEF RecvMatch
<1>15. CASE RecvUnlock
  <2>1. s_pc' \in SenderPcs
    BY <1>3, <1>15 DEF RecvUnlock, SignalSender, SenderPcs
  <2> QED BY <1>3, <1>4, <2>1, <1>15 DEF RecvUnlock, ReceiverPcs
<1>16. CASE RecvCount
  <2>1. LocalsOK'
    BY <1>1, <1>16 DEF RecvCount, LocalsOK
  <2> QED BY <1>3, <2>1, <1>16 DEF RecvCount
<1>17. CASE RecvNext
  <2>1. r_pc' \in ReceiverPcs /\ fatal' \in BOOLEAN
    BY <1>3, <1>17, Zenon DEF RecvNext, ReceiverPcs
  <2>2. LocalsOK'
    BY <1>1, <1>17 DEF RecvNext, LocalsOK
  <2> QED BY <1>3, <2>1, <2>2, <1>17 DEF RecvNext
<1>18. CASE RecvWaited
  BY <1>0, <1>3, <1>4, <1>18 DEF RecvWaited, ReceiverPcs
<1> QED
  BY <1>6, <1>7, <1>8, <1>9, <1>10, <1>11, <1>12, <1>13, <1>14, <1>15, <1>16, <1>17, <1>18, Zenon
  DEF ReceiverLocks, ReceiverSteps

\* Every step of the world keeps the types.
LEMMA WorldTypes ==
  ASSUME IndInv, Sigint \/ StopTime \/ Tick, WorldFrame
  PROVE  TypeOK'
<1>0. TypeOK
  BY DEF IndInv
<1>1. StampsOK /\ SelfOK /\ WorldOK /\ r_pc \in ReceiverPcs
  BY <1>0, TypesMeet
<1>2. /\ ListsOK' /\ PicksOK' /\ FlushesOK' /\ NetOK' /\ RestOK' /\ ResultsOK' /\ LocalsOK'
      /\ MainOK' /\ r_pc' \in ReceiverPcs
  BY <1>0, <1>1, SameTypes DEF WorldFrame
<1>3. SelfOK'
  BY <1>1 DEF SelfOK, WorldFrame
<1> SUFFICES timestamp' \in [Qids -> Ages \cup {Unstamped}] /\ WorldOK'
  <2>1. StampsOK'
    BY <1>1 DEF StampsOK, WorldFrame
  <2> QED BY <1>2, <1>3, <2>1, TypesMeet
<1>4. CASE Sigint
  BY <1>1, <1>4 DEF Sigint, StampsOK, WorldOK
<1>5. CASE StopTime
  BY <1>1, <1>5 DEF StopTime, StampsOK, WorldOK
<1>6. CASE Tick
  <2>1. \A a \in Ages : Older(a) \in Ages
    BY ConstantsAssumption DEF Ages, Older
  <2> QED BY <1>1, <1>6, <2>1 DEF Tick, StampsOK, WorldOK
<1> QED BY <1>4, <1>5, <1>6, Zenon

\* Every step of main keeps the types.
LEMMA MainTypes ==
  ASSUME IndInv, MainStart \/ MainWait \/ MainSignal \/ MainJoin \/ MainCleanup, MainFrame,
         ListsPartition', num_interrupted' \in Nat
  PROVE  TypeOK'
<1>0. TypeOK /\ ListsOK'
  BY DEF IndInv, ListsPartition, List, ListsOK
<1>1. SelfOK /\ ResultsOK /\ MainOK /\ WorldOK /\ r_pc \in ReceiverPcs
  BY <1>0, TypesMeet
<1>2. /\ StampsOK' /\ PicksOK' /\ FlushesOK' /\ NetOK' /\ RestOK' /\ LocalsOK' /\ WorldOK'
      /\ r_pc' \in ReceiverPcs
  BY <1>0, <1>1, SameTypes DEF MainFrame
<1>3. ResultsOK'
  BY <1>1 DEF ResultsOK, MainFrame
<1> SUFFICES s_pc' \in SenderPcs /\ MainOK'
  <2>1. SelfOK'
    BY <1>1 DEF SelfOK, MainFrame
  <2> QED BY <1>0, <1>2, <1>3, <2>1, TypesMeet
<1>4. s_pc \in SenderPcs /\ interrupted \in BOOLEAN /\ intrpipe \in BOOLEAN
  BY <1>1 DEF SelfOK, MainOK, WorldOK
<1>5. CASE MainStart
  BY <1>4, <1>5 DEF MainStart, MainOK, MainPcs
<1>6. CASE MainWait
  BY <1>4, <1>6 DEF MainWait, MainOK, MainPcs
<1>7. CASE MainSignal
  <2>1. s_pc' \in SenderPcs
    BY <1>4, <1>7 DEF MainSignal, SignalSender, SenderPcs
  <2> QED BY <1>4, <1>7, <2>1 DEF MainSignal, MainOK, MainPcs
<1>8. CASE MainJoin
  BY <1>4, <1>8 DEF MainJoin, MainOK, MainPcs
<1>9. CASE MainCleanup
  BY <1>4, <1>9 DEF MainCleanup, MainOK, MainPcs
<1> QED BY <1>5, <1>6, <1>7, <1>8, <1>9, Zenon

-----------------------------------------------------------------------------
(* What the labels say *)

\* A step writes at most one timestamp.
LEMMA StampLemma ==
  ASSUME TypeOK, NEW q \in Qids, NEW t, Stamp(q, t)
  PROVE  timestamp'[q] = t /\ \A p \in Qids \ {q} : timestamp'[p] = timestamp[p]
BY TypesMeet DEF Stamp, StampsOK

\* Where the sender holds no query, and has none to count.
FreePcs == {"start", "top", "flush", "lock", "wait", "woken", "drain", "drain_sock", "finish",
            "notify", "done"}
DrainPcs == {"drain", "drain_sock", "finish", "notify", "done"}

\* A step of the sender that touches no query.
Idle ==
  /\ UNCHANGED <<lists, stamps, qsock, s_tries, s_q, num_sent, early>>
  /\ \/ s_pc' = s_pc
     \/ /\ s_pc \in FreePcs \ {"done"} /\ s_pc' \in FreePcs
        /\ s_pc \in DrainPcs => s_pc' \in DrainPcs
        /\ s_pc = "notify" => s_pc' = "done"

Touching ==
  \/ SentCallback \/ SendReserve \/ SendUnstamp \/ SendPick \/ SendNotReady \/ SendReady
  \/ SendNextLine \/ SendBuild \/ SendTo \/ SendCount \/ SendGiveBack

LEMMA SenderKinds ==
  ASSUME SenderLocks \/ SenderSteps \/ SendWaitEnds
  PROVE  Idle \/ Touching
<1> USE DEF At, Goto
<1>1. SendStart => Idle
  BY DEF SendStart, Idle, picks, FreePcs, DrainPcs
<1>2. SendLoop => Idle
  BY DEF SendLoop, Idle, picks, FreePcs, DrainPcs
<1>3. SendLoopEnd => Idle
  BY DEF SendLoopEnd, Idle, picks, FreePcs, DrainPcs
<1>4. SendFlush => Idle
  BY DEF SendFlush, Idle, picks, FreePcs, DrainPcs
<1>5. SendLimit => Idle
  BY DEF SendLimit, Idle, picks, FreePcs, DrainPcs
<1>6. SendWaitEnds => Idle
  BY DEF SendWaitEnds, Idle, picks, FreePcs, DrainPcs
<1>7. SendWoken => Idle
  BY DEF SendWoken, Idle, picks, FreePcs, DrainPcs
<1>8. SendReserveNull => Idle
  BY DEF SendReserveNull, Idle, picks
<1>9. SendAllFail => Idle
  BY DEF SendAllFail, Idle, picks
<1>10. SendDrain => Idle
  BY DEF SendDrain, Idle, picks, FreePcs, DrainPcs
<1>11. SendDrainSock => Idle
  BY DEF SendDrainSock, Idle, picks, FreePcs, DrainPcs
<1>12. SendDone => Idle
  BY DEF SendDone, Idle, picks, FreePcs, DrainPcs
<1> HIDE DEF At, Goto
<1> QED
  BY <1>1, <1>2, <1>3, <1>4, <1>5, <1>6, <1>7, <1>8, <1>9, <1>10, <1>11, <1>12, Zenon
  DEF SenderLocks, SenderSteps, SendWaitTimesOut, Touching

LEMMA SenderLocals ==
  ASSUME IndInv, SenderFrame, SenderLocks \/ SenderSteps \/ SendWaitEnds
  PROVE  Locals'
<1>0. /\ Locals /\ NSocks \in Nat \ {0} /\ s_tries \in Nat /\ 0 # Unstamped
      /\ qsock \in [Qids -> Socks \cup {None}] /\ None \notin Socks /\ TypeOK
  BY ConstantsAssumption, TypesMeet DEF IndInv, PicksOK, Socks
<1>r. UNCHANGED <<r_pc, r_q, r_accepted>>
  BY DEF SenderFrame, rLocals
<1> USE DEF Locals, Holding, At, Goto
<1>1. CASE SentCallback
  <2>1. s_callback \in Qids /\ UNCHANGED <<s_pc, s_q, qsock, s_tries>>
    BY <1>0, <1>1, TypesMeet DEF SentCallback, NetOK, picks
  <2>2. CASE timestamp[s_callback] = Unstamped
    BY <1>0, <1>r, <1>1, <2>1, <2>2 DEF SentCallback, stamps
  <2>3. CASE timestamp[s_callback] # Unstamped
    <3>1. /\ timestamp'[s_callback] = 0
          /\ \A p \in Qids \ {s_callback} : timestamp'[p] = timestamp[p]
      BY <1>0, <1>1, <2>1, <2>3, StampLemma DEF SentCallback
    <3>2. Holding => timestamp'[s_q] = Unstamped <=> timestamp[s_q] = Unstamped
      BY <1>0, <2>1, <2>3, <3>1, Zenon
    <3> QED BY <1>0, <1>r, <2>1, <3>2, Zenon
  <2> QED BY <2>2, <2>3, Zenon
<1>2. CASE Idle
  BY <1>0, <1>r, <1>2 DEF Idle, FreePcs, stamps
<1>3. CASE SendReserve
  <2>1. Head(unused) \in Qids
    BY <1>3, EndsType DEF SendReserve, IndInv, ListsPartition
  <2> QED BY <1>0, <1>r, <1>3, <2>1 DEF SendReserve
<1>4. CASE SendUnstamp
  <2>1. timestamp'[s_q] = Unstamped
    BY <1>0, <1>4, StampLemma DEF SendUnstamp
  <2>2. s_tries' >= 1
    BY <1>0, <1>4 DEF SendUnstamp
  <2> QED BY <1>0, <1>r, <1>4, <2>1, <2>2, Zenon DEF SendUnstamp
<1>5. CASE SendPick
  <2>1. s_pc' = "picked" \/ (s_pc' = "pick" /\ s_tries' >= 1)
    <3>1. s_tries >= 1 /\ s_tries \in Nat
      BY <1>0, <1>5 DEF SendPick
    <3>2. s_pc' = "picked" \/ (s_pc' = "pick" /\ s_tries' = s_tries - 1 /\ s_tries # 1)
      BY <1>5 DEF SendPick
    <3> QED BY <3>1, <3>2
  <2>2. UNCHANGED <<timestamp, s_q>> /\ s_pc = "pick"
    <3>1. UNCHANGED <<stamps, s_q>> /\ s_pc = "pick"
      BY <1>5 DEF SendPick
    <3> QED BY <3>1 DEF stamps
  <2> QED BY <1>0, <1>r, <2>1, <2>2
<1>6. CASE SendNotReady
  BY <1>0, <1>r, <1>6 DEF SendNotReady
<1>7. CASE SendReady
  BY <1>0, <1>r, <1>7 DEF SendReady, stamps, picks
<1>8. CASE SendNextLine
  BY <1>0, <1>r, <1>8 DEF SendNextLine, stamps, picks
<1>9. CASE SendBuild
  <2>1. Stamp(s_q, 0) => timestamp'[s_q] = 0
    BY <1>0, <1>9, StampLemma DEF SendBuild
  <2> QED BY <1>0, <1>r, <1>9, <2>1 DEF SendBuild, stamps, picks
<1>10. CASE SendTo
  BY <1>0, <1>r, <1>10 DEF SendTo
<1>11. CASE SendCount
  BY <1>0, <1>r, <1>11 DEF SendCount
<1>12. CASE SendGiveBack
  BY <1>0, <1>r, <1>12 DEF SendGiveBack
<1> HIDE DEF Locals, Holding, At, Goto
<1> QED
  BY SenderKinds, <1>1, <1>2, <1>3, <1>4, <1>5, <1>6, <1>7, <1>8, <1>9, <1>10, <1>11, <1>12, Zenon
  DEF Touching

\* Where the receiver goes, and what it may do to the lists and the sender.
LEMMA ReceiverControl ==
  ASSUME ReceiverLocks \/ ReceiverSteps
  PROVE  /\ r_pc # "done"
         /\ s_pc' = s_pc \/ (s_pc = "wait" /\ s_pc' = "woken")
         /\ r_pc' = "done" /\ ~interrupted => RecvCheck
         /\ \/ UNCHANGED outstanding
            \/ RecvTimeout
            \/ RecvMatch /\ Expected(Head(recvd))
<1> USE DEF lists
<1> DEFINE Goal == /\ r_pc # "done"
                   /\ s_pc' = s_pc \/ (s_pc = "wait" /\ s_pc' = "woken")
                   /\ r_pc' = "done" /\ ~interrupted => RecvCheck
                   /\ \/ UNCHANGED outstanding
                      \/ RecvTimeout
                      \/ RecvMatch /\ Expected(Head(recvd))
<1>1. RecvStart => Goal
  BY DEF RecvStart
<1>2. RecvTop => Goal
  BY DEF RecvTop
<1>3. RecvTimeoutLock => Goal
  BY DEF RecvTimeoutLock
<1>4. RecvTimeout => Goal
  BY DEF RecvTimeout
<1>5. RecvCheck => Goal
  BY DEF RecvCheck
<1>6. RecvOne => Goal
  BY DEF RecvOne
<1>7. RecvNone => Goal
  BY DEF RecvNone
<1>8. RecvLock => Goal
  BY DEF RecvLock
<1>9. RecvMatch => Goal
  BY DEF RecvMatch
<1>10. RecvUnlock => Goal
  BY DEF RecvUnlock, SignalSender
<1>11. RecvCount => Goal
  BY DEF RecvCount
<1>12. RecvNext => Goal
  BY DEF RecvNext
<1>13. RecvWaited => Goal
  BY DEF RecvWaited
<1>14. Goal
  <2> HIDE DEF Goal
  <2> QED
    BY <1>1, <1>2, <1>3, <1>4, <1>5, <1>6, <1>7, <1>8, <1>9, <1>10, <1>11, <1>12, <1>13
       DEF ReceiverLocks, ReceiverSteps
<1> QED BY <1>14

LEMMA ReceiverLocals ==
  ASSUME IndInv, ReceiverFrame, ReceiverLocks \/ ReceiverSteps, ListsPartition'
  PROVE  Locals'
<1> DEFINE Mine == /\ r_pc \in {"tlock", "timeout"} => r_q \in Qids
                   /\ r_accepted > 0 => r_pc \in {"match", "stats"}
<1>0. Mine /\ r_accepted \in Nat
  BY TypesMeet DEF IndInv, LocalsOK, Locals
<1>1. UNCHANGED <<s_q, qsock, s_tries, timestamp>>
  BY DEF ReceiverFrame, picks
<1> SUFFICES Mine'
  <2>1. s_pc' = s_pc \/ (s_pc = "wait" /\ s_pc' = "woken")
    BY ReceiverControl
  <2>2. CASE s_pc' = s_pc
    BY <1>1, <2>2, Zenon DEF IndInv, Locals, Holding
  <2>3. CASE s_pc' = "woken"
    BY <2>3 DEF Locals, Holding
  <2> QED BY <2>1, <2>2, <2>3
<1>2. CASE RecvTop
  <2>1. outstanding # <<>> => ListTail(outstanding) \in Qids
    BY EndsType, Zenon DEF IndInv, ListsPartition
  <2> QED BY <1>0, <1>2, <2>1, Zenon DEF RecvTop
<1>3. CASE RecvTimeoutLock
  BY <1>0, <1>3 DEF RecvTimeoutLock, rLocals
<1>4. CASE RecvTimeout
  <2>1. outstanding' # <<>> => ListTail(outstanding') \in Qids
    BY EndsType DEF ListsPartition
  <2> QED BY <1>0, <1>4, <2>1 DEF RecvTimeout
<1>5. CASE RecvStart \/ RecvCheck \/ RecvWaited
  BY <1>0, <1>5 DEF RecvStart, RecvCheck, RecvWaited, rLocals
<1>6. CASE RecvOne
  BY <1>0, <1>6 DEF RecvOne
<1>7. CASE RecvNone
  BY <1>0, <1>7, Zenon DEF RecvNone
<1>8. CASE RecvLock
  BY <1>8 DEF RecvLock
<1>9. CASE RecvMatch
  BY <1>9 DEF RecvMatch
<1>10. CASE RecvUnlock
  BY <1>10 DEF RecvUnlock
<1>11. CASE RecvCount
  BY <1>0, <1>11 DEF RecvCount
<1>12. CASE RecvNext
  BY <1>0, <1>12 DEF RecvNext
<1> HIDE DEF Mine
<1> QED
  BY <1>2, <1>3, <1>4, <1>5, <1>6, <1>7, <1>8, <1>9, <1>10, <1>11, <1>12, Zenon
  DEF ReceiverLocks, ReceiverSteps

-----------------------------------------------------------------------------
(* How the threads end *)

\* Once it has said that it is done, the sender touches no query any more,
\* except for a callback that is still due.
LEMMA SenderStays ==
  ASSUME SenderLocks \/ SenderSteps \/ SendWaitEnds, done_sending
  PROVE  /\ done_sending' /\ UNCHANGED <<outstanding, num_sent>>
         /\ s_pc = "done" => s_pc' = "done"
         /\ SentCallback \/ UNCHANGED stamps
<1> USE DEF done_sending
<1>1. Touching => SentCallback
  <2> USE DEF At
  <2>1. ~(SendReserve \/ SendUnstamp \/ SendPick \/ SendNotReady)
    BY DEF SendReserve, SendUnstamp, SendPick, SendNotReady
  <2>2. ~(SendReady \/ SendNextLine \/ SendBuild)
    BY DEF SendReady, SendNextLine, SendBuild
  <2>3. ~(SendTo \/ SendCount \/ SendGiveBack)
    BY DEF SendTo, SendCount, SendGiveBack
  <2> QED BY <2>1, <2>2, <2>3, Zenon DEF Touching
<1>2. CASE SentCallback
  BY <1>2 DEF SentCallback, lists
<1>3. CASE Idle
  BY <1>3 DEF Idle, lists
<1> QED BY SenderKinds, <1>1, <1>2, <1>3

LEMMA SenderEnds ==
  ASSUME IndInv, SenderFrame, SenderLocks \/ SenderSteps \/ SendWaitEnds
  PROVE  Ends'
<1>1. \/ ~done_sending
      \/ /\ done_sending' /\ UNCHANGED <<outstanding, num_sent>>
         /\ s_pc = "done" => s_pc' = "done"
  BY SenderStays
<1>2. UNCHANGED <<num_completed, num_timedout, r_pc, m_pc, interrupted>>
  BY DEF SenderFrame, results, mainVars
<1> QED BY <1>1, <1>2 DEF IndInv, Ends, done_sending

LEMMA ReceiverEnds ==
  ASSUME IndInv, ReceiverFrame, ReceiverLocks \/ ReceiverSteps
  PROVE  Ends'
<1>1. r_pc # "done" /\ UNCHANGED <<m_pc, interrupted, num_sent>>
  BY ReceiverControl DEF ReceiverFrame, mainVars
<1>2. s_pc' = s_pc \/ (s_pc = "wait" /\ s_pc' = "woken")
  BY ReceiverControl
<1>3. r_pc' = "done" /\ ~interrupted => RecvCheck
  BY ReceiverControl
<1>4. ASSUME RecvCheck, r_pc' = "done"
      PROVE  done_sending' /\ num_sent' <= num_completed' + num_timedout'
  <2>1. AllReceived /\ UNCHANGED <<s_pc, num_completed, num_timedout, num_sent>>
    BY <1>1, <1>4 DEF RecvCheck
  <2>2. num_sent \in Nat /\ num_completed \in Nat /\ num_timedout \in Nat
    BY TypesMeet DEF IndInv, SelfOK, ResultsOK
  <2> QED BY <2>1, <2>2 DEF AllReceived, NumOutstanding, done_sending
<1>5. m_pc \notin {"cleanup", "done"}
  BY <1>1 DEF IndInv, Ends
<1> QED BY <1>1, <1>2, <1>3, <1>4, <1>5 DEF IndInv, Ends


-----------------------------------------------------------------------------
(* Steps that move no query *)

\* A step that leaves the counters and the queries in flight alone keeps the
\* ledger and the limit.
LEMMA LedgerKept ==
  ASSUME IndInv, InFlight' = InFlight, Counting' = Counting,
         UNCHANGED <<num_sent, num_completed, num_timedout, num_interrupted, r_accepted, early>>,
         Holding' => Holding /\ Charged' = Charged
  PROVE  Conservation' /\ Limit'
<1>1. Conservation'
  BY DEF IndInv, Conservation
<1>2. ~Holding' => Charged' = 0
  BY DEF Charged, Unsent
<1>3. Charged' <= early' /\ InFlightBound'
  BY <1>2, CounterTypes DEF IndInv, Limit, InFlightBound
<1>4. Holding' => Cardinality(InFlight') + 1 + Charged' <= MaxOutstanding + early'
  BY DEF IndInv, Limit
<1> QED BY <1>1, <1>3, <1>4 DEF Limit

\* A step that only changes which queries are stamped among those not in
\* flight, or changes nothing, keeps the queries in flight.
LEMMA SameInFlight ==
  ASSUME UNCHANGED lists, Unsent' = Unsent,
         \A q \in Range(outstanding) \ Unsent :
            timestamp'[q] = Unstamped <=> timestamp[q] = Unstamped
  PROVE  InFlight' = InFlight /\ Charged' = Charged
BY DEF InFlight, Charged, lists

\* Steps of the sender that move no query and send none.
LEMMA SenderLedgerQuiet ==
  ASSUME IndInv, SenderFrame,
         Idle \/ SentCallback \/ SendUnstamp \/ SendPick \/ SendReady \/ SendBuild
  PROVE  ListsPartition' /\ Conservation' /\ Limit'
<1> DEFINE Held == {"stamp", "pick", "picked", "input", "build", "send", "unbuilt"}
           Quiet == /\ UNCHANGED <<lists, num_sent, early, s_q>>
                    /\ \/ s_pc' = s_pc
                       \/ s_pc \in FreePcs /\ s_pc' \in FreePcs
                       \/ s_pc \in Held /\ s_pc' \in Held
                    /\ UNCHANGED timestamp \/ SentCallback \/ SendUnstamp \/ SendBuild
<1>1. Quiet
  <2> USE DEF At, Goto
  <2>1. CASE SentCallback
    BY <2>1 DEF SentCallback
  <2>2. CASE Idle
    BY <2>2 DEF Idle, stamps
  <2>3. CASE SendUnstamp
    BY <2>3 DEF SendUnstamp
  <2>4. CASE SendPick
    BY <2>4 DEF SendPick, stamps
  <2>5. CASE SendReady
    BY <2>5 DEF SendReady, stamps
  <2>6. CASE SendBuild
    BY <2>6 DEF SendBuild
  <2> HIDE DEF Quiet, At, Goto
  <2> QED BY <2>1, <2>2, <2>3, <2>4, <2>5, <2>6, Zenon
<1>2. (Holding' => Holding) /\ Counting' = Counting /\ Unsent' = Unsent
  <2>1. CASE s_pc' = s_pc
    BY <1>1, <2>1 DEF Holding, Counting, Unsent
  <2>2. CASE s_pc \in FreePcs /\ s_pc' \in FreePcs
    <3>1. ~Holding /\ ~Holding' /\ s_pc # "count" /\ s_pc' # "count"
      BY <2>2 DEF Holding, FreePcs
    <3>2. Counting = 0 /\ Counting' = 0 /\ Unsent = {} /\ Unsent' = {}
      BY <3>1 DEF Counting, Unsent
    <3> QED BY <3>1, <3>2
  <2>3. CASE s_pc \in Held /\ s_pc' \in Held
    <3>1. Holding /\ Holding' /\ s_pc # "count" /\ s_pc' # "count"
      BY <2>3 DEF Holding
    <3>2. Counting = 0 /\ Counting' = 0 /\ Unsent = {s_q} /\ Unsent' = {s_q'}
      BY <3>1 DEF Counting, Unsent
    <3> QED BY <1>1, <3>1, <3>2
  <2> QED BY <1>1, <2>1, <2>2, <2>3
<1>3. \A q \in Range(outstanding) \ Unsent :
        timestamp'[q] = Unstamped <=> timestamp[q] = Unstamped
  <2>1. Range(outstanding) \subseteq Qids
    BY DEF IndInv, ListsPartition
  <2>2. 0 # Unstamped
    BY ConstantsAssumption
  <2>3. ASSUME NEW p \in Qids, NEW a, Stamp(p, a)
        PROVE  /\ timestamp' = [timestamp EXCEPT ![p] = a]
               /\ timestamp \in [Qids -> Ages \cup {Unstamped}]
    BY <2>3, TypesMeet DEF Stamp, IndInv, StampsOK
  <2>4. CASE SentCallback
    <3>1. CASE timestamp[s_callback] = Unstamped
      BY <2>4, <3>1 DEF SentCallback, stamps
    <3>2. CASE timestamp[s_callback] # Unstamped
      <4>1. s_callback \in Qids
        BY <2>4, TypesMeet DEF SentCallback, IndInv, NetOK
      <4> QED BY <2>1, <2>2, <2>3, <2>4, <3>2, <4>1 DEF SentCallback
    <3> QED BY <3>1, <3>2
  <2>5. CASE SendUnstamp \/ SendBuild
    <3>1. s_q \in Qids /\ s_q \in Unsent
      BY <2>5 DEF SendUnstamp, SendBuild, IndInv, Locals, Holding, Unsent, At
    <3> QED BY <2>1, <2>3, <2>5, <3>1 DEF SendUnstamp, SendBuild, stamps
  <2>6. CASE UNCHANGED timestamp
    BY <2>6
  <2> QED BY <1>1, <2>4, <2>5, <2>6
<1>4. InFlight' = InFlight /\ Charged' = Charged
  BY <1>1, <1>2, <1>3, SameInFlight
<1>5. ListsPartition'
  BY <1>1 DEF IndInv, ListsPartition, lists
<1>6. Conservation' /\ Limit'
  <2>1. UNCHANGED <<num_sent, num_completed, num_timedout, num_interrupted, r_accepted, early>>
    BY <1>1 DEF SenderFrame, results, rLocals
  <2> QED BY <1>2, <1>4, <2>1, LedgerKept
<1> QED BY <1>5, <1>6

LEMMA WorldLedger ==
  ASSUME IndInv, WorldFrame, Sigint \/ StopTime \/ Tick
  PROVE  /\ ListsPartition' /\ Conservation' /\ Limit'
         /\ \A q \in Qids : timestamp'[q] = Unstamped <=> timestamp[q] = Unstamped
<1>1. UNCHANGED <<lists, s_pc, s_q, num_sent, early>>
  BY DEF WorldFrame
<1>2. \A q \in Qids : timestamp'[q] = Unstamped <=> timestamp[q] = Unstamped
  <2>1. CASE Tick
    <3>1. \A a \in Ages : Older(a) # Unstamped
      BY ConstantsAssumption DEF Ages, Older
    <3>2. \A q \in Qids : timestamp[q] \in Ages \cup {Unstamped}
      BY TypesMeet DEF IndInv, StampsOK
    <3> QED BY <2>1, <3>1, <3>2 DEF Tick
  <2>2. CASE Sigint \/ StopTime
    BY <2>2 DEF Sigint, StopTime
  <2> QED BY <2>1, <2>2
<1>3. (Holding' => Holding) /\ Counting' = Counting /\ Unsent' = Unsent
  BY <1>1 DEF Holding, Counting, Unsent
<1>4. InFlight' = InFlight /\ Charged' = Charged
  <2>1. Range(outstanding) \subseteq Qids
    BY DEF IndInv, ListsPartition
  <2> QED BY <1>1, <1>2, <1>3, <2>1, SameInFlight, Zenon
<1>5. ListsPartition'
  BY <1>1 DEF IndInv, ListsPartition, lists
<1>6. Conservation' /\ Limit'
  <2>1. UNCHANGED <<num_completed, num_timedout, num_interrupted, r_accepted>>
    BY DEF WorldFrame, results, rLocals
  <2> QED BY <1>1, <1>3, <1>4, <2>1, LedgerKept
<1> QED BY <1>2, <1>5, <1>6

LEMMA WorldLabels ==
  ASSUME IndInv, WorldFrame, Sigint \/ StopTime \/ Tick
  PROVE  Locals' /\ OnlyHeldUnstamped' /\ Ends'
<1>1. \A q \in Qids : timestamp'[q] = Unstamped <=> timestamp[q] = Unstamped
  BY WorldLedger
<1>2. UNCHANGED <<s_pc, s_q, r_pc, num_sent, outstanding>>
  BY DEF WorldFrame, lists
<1>3. UNCHANGED <<qsock, s_tries, r_q, r_accepted, m_pc, interrupted>>
  BY DEF WorldFrame, picks, rLocals, mainVars
<1>4. UNCHANGED <<num_completed, num_timedout>>
  BY DEF WorldFrame, results
<1>5. Locals'
  BY <1>1, <1>2, <1>3 DEF IndInv, Locals, Holding
<1>6. OnlyHeldUnstamped'
  BY <1>1, <1>2 DEF IndInv, OnlyHeldUnstamped, ListsPartition
<1>7. Ends'
  BY <1>2, <1>3, <1>4, Zenon DEF IndInv, Ends, done_sending
<1> QED BY <1>5, <1>6, <1>7

\* main changes no local variable of the threads.
LEMMA MainLabels ==
  ASSUME IndInv, MainFrame, MainStart \/ MainWait \/ MainSignal \/ MainJoin \/ MainCleanup
  PROVE  Locals' /\ OnlyHeldUnstamped' /\ Ends'
<1>0. /\ UNCHANGED <<s_q, r_pc, num_sent, num_completed, num_timedout>>
      /\ UNCHANGED <<timestamp, qsock, s_tries, r_q, r_accepted>>
  BY DEF MainFrame, stamps, picks, rLocals
<1>1. s_pc' = s_pc \/ (s_pc = "wait" /\ s_pc' = "woken")
  BY DEF MainStart, MainWait, MainSignal, MainJoin, MainCleanup, SignalSender
<1>2. Locals'
  BY <1>0, <1>1 DEF IndInv, Locals, Holding
<1>3. Range(outstanding') \subseteq Range(outstanding)
  <2>1. CASE MainCleanup /\ interrupted
    <3>1. outstanding' = <<>>
      BY <2>1 DEF MainCleanup, CancelQueries
    <3> QED BY <3>1 DEF Range
  <2>2. CASE ~(MainCleanup /\ interrupted)
    BY <2>2 DEF MainStart, MainWait, MainSignal, MainJoin, MainCleanup, lists
  <2> QED BY <2>1, <2>2
<1>4. OnlyHeldUnstamped'
  BY <1>0, <1>1, <1>3 DEF IndInv, OnlyHeldUnstamped
<1>5. Ends'
  <2> USE DEF Ends, done_sending
  <2>0. Ends
    BY Zenon DEF IndInv
  <2>1. CASE MainStart
    BY <1>0, <2>0, <2>1 DEF MainStart
  <2>2. CASE MainWait
    BY <1>0, <2>0, <2>2 DEF MainWait
  <2>3. CASE MainSignal
    BY <1>0, <2>0, <2>3 DEF MainSignal, SignalSender
  <2>4. CASE MainJoin
    BY <1>0, <2>0, <2>4 DEF MainJoin
  <2>5. CASE MainCleanup
    BY <1>0, <2>0, <2>5 DEF MainCleanup, CancelQueries
  <2> HIDE DEF Ends, done_sending
  <2> QED BY <2>1, <2>2, <2>3, <2>4, <2>5
<1> QED BY <1>2, <1>4, <1>5

LEMMA SenderUnstamped ==
  ASSUME IndInv, Moves, SenderLocks \/ SenderSteps \/ SendWaitEnds
  PROVE  OnlyHeldUnstamped'
<1>0. /\ OnlyHeldUnstamped /\ Locals /\ 0 # Unstamped /\ TypeOK
      /\ Range(outstanding) \subseteq Qids
  BY ConstantsAssumption DEF IndInv, ListsPartition
<1>s. ASSUME NEW p \in Qids, NEW a, Stamp(p, a)
      PROVE  /\ timestamp'[p] = a
             /\ \A r \in Qids \ {p} : timestamp'[r] = timestamp[r]
  BY <1>0, <1>s, StampLemma
<1>q. Holding => s_q \in Qids
  BY <1>0 DEF Locals
<1> USE DEF OnlyHeldUnstamped, At, Goto
<1>1. CASE SentCallback
  <2>1. s_callback \in Qids /\ UNCHANGED <<s_pc, s_q, outstanding>>
    BY <1>0, <1>1, TypesMeet DEF SentCallback, NetOK, lists
  <2>2. CASE timestamp[s_callback] = Unstamped
    BY <1>0, <1>1, <2>1, <2>2 DEF SentCallback, stamps
  <2>3. CASE timestamp[s_callback] # Unstamped
    <3>1. /\ timestamp'[s_callback] = 0
          /\ \A p \in Qids \ {s_callback} : timestamp'[p] = timestamp[p]
      BY <1>1, <2>1, <2>3, <1>s DEF SentCallback
    <3> QED BY <1>0, <2>1, <3>1
  <2> QED BY <2>2, <2>3
<1>2. CASE Idle
  BY <1>0, <1>2 DEF Idle, FreePcs, DrainPcs, lists, stamps
<1>3. CASE SendReserve
  <2>1. Head(unused) \in Qids
    BY <1>3 DEF SendReserve, IndInv, ListsPartition, List
  <2>2. Range(outstanding') = Range(outstanding) \cup {Head(unused)}
    BY <1>3, <2>1 DEF Moves, SendReserve
  <2> QED BY <1>0, <1>3, <2>2 DEF SendReserve, stamps
<1>4. CASE SendUnstamp
  <2>1. s_q \in Qids
    BY <1>q, <1>4 DEF SendUnstamp, Holding
  <2>2. \A p \in Qids \ {s_q} : timestamp'[p] = timestamp[p]
    BY <1>4, <2>1, <1>s, Zenon DEF SendUnstamp
  <2> QED BY <1>0, <1>4, <2>2 DEF SendUnstamp, lists
<1>5. CASE SendPick
  BY <1>0, <1>5 DEF SendPick, lists, stamps
<1>6. CASE SendNotReady
  <2>1. s_q \in Qids
    BY <1>q, <1>6 DEF SendNotReady, Holding
  <2>2. Range(outstanding') = Range(outstanding) \ {s_q}
    BY <1>6, <2>1 DEF Moves, SendNotReady
  <2> QED BY <1>0, <1>6, <2>2 DEF SendNotReady, stamps
<1>7. CASE SendReady
  BY <1>0, <1>7 DEF SendReady, lists, stamps
<1>8. CASE SendNextLine
  BY <1>0, <1>8 DEF SendNextLine, lists, stamps
<1>9. CASE SendBuild
  <2>1. s_q \in Qids
    BY <1>q, <1>9 DEF SendBuild, Holding
  <2>2. Stamp(s_q, 0) => /\ timestamp'[s_q] = 0
                         /\ \A p \in Qids \ {s_q} : timestamp'[p] = timestamp[p]
    BY <2>1, <1>s
  <2> QED BY <1>0, <1>9, <2>2 DEF SendBuild, lists, stamps
<1>10. CASE SendTo
  BY <1>0, <1>10 DEF SendTo, lists, stamps
<1>11. CASE SendCount
  BY <1>0, <1>11 DEF SendCount, lists, stamps
<1>12. CASE SendGiveBack
  <2>1. s_q \in Qids
    BY <1>q, <1>12 DEF SendGiveBack, Holding
  <2>2. Range(outstanding') = Range(outstanding) \ {s_q}
    BY <1>12, <2>1 DEF Moves, SendGiveBack
  <2> QED BY <1>0, <1>12, <2>2 DEF SendGiveBack, stamps
<1> HIDE DEF OnlyHeldUnstamped, At, Goto
<1> QED
  BY SenderKinds, <1>1, <1>2, <1>3, <1>4, <1>5, <1>6, <1>7, <1>8, <1>9, <1>10, <1>11, <1>12, Zenon
  DEF Touching

\* A thread that wakes the sender, or leaves it alone, moves no query.
LEMMA SignalQuiet ==
  ASSUME SignalSender \/ UNCHANGED s_pc, UNCHANGED s_q
  PROVE  (Holding' => Holding) /\ Counting' = Counting /\ Unsent' = Unsent
<1>1. CASE s_pc' = s_pc
  BY <1>1 DEF Holding, Counting, Unsent
<1>2. CASE s_pc = "wait" /\ s_pc' = "woken"
  <2>1. ~Holding /\ ~Holding' /\ s_pc # "count" /\ s_pc' # "count"
    BY <1>2 DEF Holding
  <2>2. Counting = 0 /\ Counting' = 0 /\ Unsent = {} /\ Unsent' = {}
    BY <2>1 DEF Counting, Unsent
  <2> QED BY <2>1, <2>2
<1> QED BY <1>1, <1>2 DEF SignalSender

LEMMA StutterInv ==
  ASSUME IndInv, UNCHANGED vars
  PROVE  IndInv'
<1>1. TypeOK /\ SelfOK /\ r_pc \in ReceiverPcs
  BY TypesMeet DEF IndInv
<1>2. /\ UNCHANGED <<lists, stamps, picks, flushes, net, s_pc, s_q, s_late, num_sent, results>>
      /\ UNCHANGED <<r_pc, rLocals, mainVars, intrpipe, time_up, fatal, lines_left, early>>
  BY DEF vars
<1>3. TypeOK'
  <2>1. SelfOK'
    BY <1>1, <1>2 DEF SelfOK
  <2> QED BY <1>1, <1>2, <2>1, SameTypes, TypesMeet
<1>4. UNCHANGED <<outstanding, unused, timestamp, qsock, s_tries>>
  BY <1>2 DEF lists, stamps, picks
<1>5. UNCHANGED <<num_completed, num_timedout, num_interrupted>>
  BY <1>2 DEF results
<1>6. UNCHANGED <<r_q, r_accepted, m_pc, interrupted>>
  BY <1>2 DEF rLocals, mainVars
<1>7. ListsPartition'
  BY <1>4 DEF IndInv, ListsPartition
<1>8. Locals'
  BY <1>2, <1>4, <1>6, Zenon DEF IndInv, Locals, Holding
<1>9. InFlight' = InFlight /\ Charged' = Charged /\ Counting' = Counting /\ (Holding' => Holding)
  BY <1>2, <1>4 DEF InFlight, Charged, Counting, Unsent, Holding
<1>10. Conservation' /\ Limit'
  BY <1>2, <1>5, <1>6, <1>9, LedgerKept
<1>11. OnlyHeldUnstamped'
  BY <1>2, <1>4, Zenon DEF IndInv, OnlyHeldUnstamped
<1>12. Ends'
  BY <1>2, <1>4, <1>5, <1>6, Zenon DEF IndInv, Ends, done_sending
<1> QED BY <1>3, <1>7, <1>8, <1>10, <1>11, <1>12 DEF IndInv

-----------------------------------------------------------------------------
(* After the receiver; sockets and packets *)

\* Once the receiver has left, nothing is sent.
LEMMA UnheardStep ==
  ASSUME IndInv, Next, r_pc = "done", ~interrupted
  PROVE  num_sent' = num_sent /\ InFlight' \subseteq InFlight
<1>1. s_pc \in {"notify", "done"} /\ Range(outstanding) \subseteq Qids
  BY DEF IndInv, Ends, done_sending, ListsPartition
<1> SUFFICES /\ num_sent' = num_sent
             /\ s_pc' \in {"notify", "done"} /\ UNCHANGED outstanding
             /\ \A q \in Qids : timestamp'[q] = Unstamped <=> timestamp[q] = Unstamped
  BY <1>1 DEF InFlight, Unsent, Holding
<1>2. CASE BySender(SenderLocks \/ SenderSteps \/ SendWaitEnds)
  <2>1. /\ done_sending' /\ UNCHANGED <<outstanding, num_sent>>
        /\ SentCallback \/ UNCHANGED stamps
    BY <1>1, <1>2, SenderStays, Zenon DEF BySender, done_sending
  <2>2. CASE UNCHANGED timestamp
    BY <2>1, <2>2 DEF done_sending
  <2>3. CASE SentCallback /\ timestamp[s_callback] # Unstamped
    <3>1. s_callback \in Qids /\ TypeOK /\ 0 # Unstamped
      <4>1. TypeOK /\ NetOK
        BY TypesMeet, Zenon DEF IndInv
      <4>2. 0 # Unstamped
        BY ConstantsAssumption
      <4> QED BY <2>3, <4>1, <4>2 DEF SentCallback, NetOK
    <3>2. /\ timestamp'[s_callback] = 0
          /\ \A p \in Qids \ {s_callback} : timestamp'[p] = timestamp[p]
      BY <2>3, <3>1, StampLemma DEF SentCallback
    <3>3. \A q \in Qids : timestamp'[q] = Unstamped <=> timestamp[q] = Unstamped
      BY <2>3, <3>1, <3>2
    <3> QED BY <2>1, <3>3 DEF done_sending
  <2> QED BY <2>1, <2>2, <2>3 DEF SentCallback, stamps
<1>3. CASE ByReceiver(ReceiverLocks \/ ReceiverSteps)
  BY <1>1, <1>3, ReceiverControl DEF ByReceiver, ReceiverFrame
<1>4. CASE ByMain(MainStart \/ MainWait \/ MainSignal \/ MainJoin \/ MainCleanup)
  <2>1. UNCHANGED <<num_sent, timestamp>> /\ s_pc # "wait"
    BY <1>1, <1>4 DEF ByMain, MainFrame, stamps
  <2>2. UNCHANGED <<s_pc, outstanding>>
    BY <1>4, <2>1 DEF ByMain, MainStart, MainWait, MainSignal, MainJoin, MainCleanup, SignalSender,
      lists
  <2> QED BY <1>1, <2>1, <2>2
<1>5. CASE ByWorld(Sigint \/ StopTime \/ Tick)
  <2>1. UNCHANGED <<num_sent, s_pc, outstanding>>
    BY <1>5 DEF ByWorld, WorldFrame, lists
  <2> QED BY <1>1, <1>5, <2>1, WorldLedger, Zenon DEF ByWorld
<1>6. CASE Finished
  BY <1>1, <1>6 DEF Finished, vars, lists, stamps
<1> QED BY <1>2, <1>3, <1>4, <1>5, <1>6, Zenon DEF Next

\* A socket stays free from the moment it is picked until the query is sent.
PickedFree ==
  s_pc \in {"picked", "input", "build", "send"} /\ qsock[s_q] # None =>
    pend[qsock[s_q]] = None

\* Only SendPick chooses a socket, and nobody but the sender puts a query into one.
LEMMA PickedFreeStep ==
  ASSUME IndInv, PickedFree, [Next]_vars
  PROVE  PickedFree'
<1> DEFINE From == {"picked", "input", "build", "send"}
<1>0. \/ ~(s_pc' \in From)
      \/ s_pc \in From /\ UNCHANGED <<qsock, s_q, pend>>
      \/ SendPick
  <2> USE DEF picks, net
  <2>1. CASE BySender(SenderLocks \/ SenderSteps \/ SendWaitEnds)
    <3> USE DEF At, Goto
    <3>1. CASE SendStart \/ SendLoop \/ SendLoopEnd \/ SendFlush \/ SendLimit \/ SendWaitEnds \/
               SendWoken \/ SendReserve
      BY <3>1, Zenon DEF SendStart, SendLoop, SendLoopEnd, SendFlush, SendLimit, SendWaitEnds,
        SendWoken, SendReserve
    <3>2. CASE SendReserveNull \/ SendUnstamp \/ SendNotReady \/ SendTo \/ SendCount \/ SendGiveBack
      BY <3>2, Zenon DEF SendReserveNull, SendUnstamp, SendNotReady, SendTo, SendCount, SendGiveBack
    <3>3. CASE SendDrain \/ SendDrainSock \/ SendDone
      BY <3>3 DEF SendDrain, SendDrainSock, SendDone
    <3>4. CASE SentCallback
      BY <3>4 DEF SentCallback
    <3>5. CASE SendAllFail \/ SendReady \/ SendNextLine \/ SendBuild
      BY <3>5, Zenon DEF SendAllFail, SendReady, SendNextLine, SendBuild
    <3> QED BY <2>1, <3>1, <3>2, <3>3, <3>4, <3>5, ZenonT(30)
            DEF BySender, SenderLocks, SenderSteps, SendWaitTimesOut
  <2>2. CASE ByReceiver(ReceiverLocks \/ ReceiverSteps)
    <3>1. s_pc' = s_pc \/ s_pc' = "woken"
      BY <2>2, ReceiverControl, Zenon DEF ByReceiver
    <3> QED BY <2>2, <3>1 DEF ByReceiver, ReceiverFrame
  <2>3. CASE ByMain(MainStart \/ MainWait \/ MainSignal \/ MainJoin \/ MainCleanup)
    BY <2>3 DEF ByMain, MainFrame, MainStart, MainWait, MainSignal, MainJoin, MainCleanup,
      SignalSender
  <2>4. CASE ByWorld(Sigint \/ StopTime \/ Tick)
    BY <2>4 DEF ByWorld, WorldFrame
  <2>5. CASE Finished \/ UNCHANGED vars
    BY <2>5 DEF Finished, vars
  <2> QED BY <2>1, <2>2, <2>3, <2>4, <2>5, Zenon DEF Next
<1>1. CASE ~(s_pc' \in From)
  BY <1>1 DEF PickedFree
<1>2. CASE s_pc \in From /\ UNCHANGED <<qsock, s_q, pend>>
  BY <1>2 DEF PickedFree
<1>3. CASE SendPick
  <2>1. /\ s_q \in Qids /\ qsock \in [Qids -> Socks \cup {None}]
        /\ current_sock \in Socks /\ pend \in [Socks -> Qids \cup {None}]
    BY <1>3, TypesMeet DEF SendPick, At, IndInv, PicksOK, NetOK, Locals, Holding
  <2>2. PICK r \in {-1, 0, 1} :
          /\ SockReady(current_sock, r)
          /\ qsock' = [qsock EXCEPT ![s_q] = IF Usable(r) THEN current_sock ELSE None]
    BY <1>3, Zenon DEF SendPick
  <2>3. s_q' = s_q
    BY <1>3 DEF SendPick
  <2>4. r = 1 => pend'[current_sock] = None
    <3>1. r = 1 => (pend[current_sock] = None /\ pend' = pend) \/ pend' = [pend EXCEPT ![current_sock] = None]
      BY <2>2 DEF SockReady, net
    <3> QED BY <2>1, <3>1
  <2>5. qsock'[s_q] # None => r = 1 /\ qsock'[s_q] = current_sock
    BY <2>1, <2>2 DEF Usable
  <2> QED BY <2>3, <2>4, <2>5 DEF PickedFree
<1> QED BY <1>0, <1>1, <1>2, <1>3

\* A packet with an id that was received answers what its server was asked.
HeardAsked ==
  \A i \in 1 .. Len(recvd) : recvd[i].qid # None => <<recvd[i].sock, recvd[i].qid>> \in asked

\* What a step does to the packets received and to those accepted.
LEMMA PacketSteps ==
  ASSUME IndInv, [Next]_vars
  PROVE  /\ asked \subseteq asked'
         /\ \/ recvd' = recvd /\ ~(r_accepted' > r_accepted)
            \/ RecvOne /\ UNCHANGED r_accepted
            \/ RecvMatch /\ UNCHANGED <<asked, qsock>>
<1>0. r_accepted \in Nat
  BY TypesMeet DEF IndInv, LocalsOK
<1>1. CASE BySender(SenderLocks \/ SenderSteps \/ SendWaitEnds)
  <2>1. UNCHANGED <<recvd, r_accepted>>
    BY <1>1 DEF BySender, SenderFrame, rLocals
  <2>2. asked \subseteq asked'
    <3> USE DEF net
    <3>1. CASE SendFlush \/ SendPick \/ SendDrainSock
      BY <3>1, Zenon DEF SendFlush, SendPick, SendDrainSock, SockReady
    <3>2. CASE SentCallback \/ SendTo
      BY <3>2 DEF SentCallback, SendTo
    <3>3. CASE SendStart \/ SendLoop \/ SendLoopEnd \/ SendLimit \/ SendWaitEnds \/ SendWoken \/
               SendReserve \/ SendReserveNull \/ SendUnstamp \/ SendAllFail
      BY <3>3 DEF SendStart, SendLoop, SendLoopEnd, SendLimit, SendWaitEnds, SendWoken,
        SendReserve, SendReserveNull, SendUnstamp, SendAllFail
    <3>4. CASE SendNotReady \/ SendReady \/ SendNextLine \/ SendBuild \/ SendCount \/
               SendGiveBack \/ SendDrain \/ SendDone
      BY <3>4, Zenon DEF SendNotReady, SendReady, SendNextLine, SendBuild, SendCount, SendGiveBack,
        SendDrain, SendDone
    <3> QED BY <1>1, <3>1, <3>2, <3>3, <3>4, Zenon
            DEF BySender, SenderLocks, SenderSteps, SendWaitTimesOut
  <2> QED BY <1>0, <2>1, <2>2
<1>2. CASE ByReceiver(ReceiverLocks \/ ReceiverSteps)
  <2>1. UNCHANGED <<asked, qsock>>
    BY <1>2 DEF ByReceiver, ReceiverFrame, picks, net
  <2>2. CASE RecvOne
    <3>1. UNCHANGED r_accepted
      BY <2>2 DEF RecvOne
    <3> QED BY <2>1, <2>2, <3>1
  <2>3. CASE RecvMatch
    BY <2>1, <2>3
  <2>4. CASE ~RecvOne /\ ~RecvMatch
    <3>1. \/ RecvTimeoutLock \/ RecvLock \/ RecvStart \/ RecvTop \/ RecvTimeout \/ RecvCheck
          \/ RecvNone \/ RecvUnlock \/ RecvCount \/ RecvNext \/ RecvWaited
      BY <1>2, <2>4, ZenonT(30) DEF ByReceiver, ReceiverLocks, ReceiverSteps
    <3>2. recvd' = recvd /\ (r_accepted' = r_accepted \/ r_accepted' = r_accepted - 1)
      BY <3>1, Zenon DEF RecvTimeoutLock, RecvLock, RecvStart, RecvTop, RecvTimeout, RecvCheck,
        RecvNone, RecvUnlock, RecvCount, RecvNext, RecvWaited, rLocals
    <3> QED BY <1>0, <2>1, <3>2
  <2> QED BY <2>2, <2>3, <2>4
<1>3. CASE ByMain(MainStart \/ MainWait \/ MainSignal \/ MainJoin \/ MainCleanup)
  <2>1. UNCHANGED <<asked, recvd, r_accepted>>
    BY <1>3 DEF ByMain, MainFrame, net, rLocals
  <2> QED BY <1>0, <2>1
<1>4. CASE ByWorld(Sigint \/ StopTime \/ Tick)
  <2>1. UNCHANGED <<asked, recvd, r_accepted>>
    BY <1>4 DEF ByWorld, WorldFrame, net, rLocals
  <2> QED BY <1>0, <2>1
<1>5. CASE Finished \/ UNCHANGED vars
  <2>1. UNCHANGED <<asked, recvd, r_accepted>>
    BY <1>5 DEF Finished, vars, net, rLocals
  <2> QED BY <1>0, <2>1
<1> QED BY <1>1, <1>2, <1>3, <1>4, <1>5, Zenon DEF Next

\* recv_one hears only what was asked, and nothing asked is taken back.
LEMMA HeardAskedStep ==
  ASSUME IndInv, HeardAsked, [Next]_vars
  PROVE  HeardAsked'
<1>0. recvd \in Seq(Packets)
  BY TypesMeet DEF IndInv, LocalsOK
<1>a. asked \subseteq asked'
  BY PacketSteps
<1>1. CASE recvd' = recvd
  BY <1>a, <1>1 DEF HeardAsked
<1>2. CASE RecvOne
  <2>1. PICK s \in Socks, q \in Qids \cup {None} :
          /\ q = None \/ <<s, q>> \in asked
          /\ recvd' = Append(recvd, [sock |-> s, qid |-> q])
    BY <1>2, Zenon DEF RecvOne
  <2>2. PICK p \in Packets : p = [sock |-> s, qid |-> q]
    BY Zenon DEF Packets
  <2>3. recvd' = Append(recvd, p)
    BY <2>1, <2>2
  <2>4. /\ Len(recvd') = Len(recvd) + 1 /\ Len(recvd) \in Nat /\ recvd'[Len(recvd) + 1] = p
        /\ \A i \in 1 .. Len(recvd) : recvd'[i] = recvd[i]
    <3>1. Len(recvd') = Len(recvd) + 1 /\ Len(recvd) \in Nat
      BY <1>0, <2>3
    <3>2. recvd'[Len(recvd) + 1] = p
      BY <1>0, <2>3
    <3>3. \A i \in 1 .. Len(recvd) : recvd'[i] = recvd[i]
      BY <1>0, <2>3
    <3> QED BY <3>1, <3>2, <3>3
  <2> SUFFICES ASSUME NEW i \in 1 .. Len(recvd'), recvd'[i].qid # None
               PROVE  <<recvd'[i].sock, recvd'[i].qid>> \in asked'
    BY DEF HeardAsked
  <2>5. CASE i = Len(recvd) + 1
    <3>1. recvd'[i] = p
      BY <2>4, <2>5
    <3>2. p.sock = s /\ p.qid = q
      BY <2>2
    <3>3. <<s, q>> \in asked'
      BY <1>a, <2>1, <3>1, <3>2
    <3> QED BY <3>1, <3>2, <3>3
  <2>6. CASE i # Len(recvd) + 1
    <3>1. i \in 1 .. Len(recvd)
      <4>1. \A n \in Nat : \A j \in 1 .. n + 1 : j # n + 1 => j \in 1 .. n
        OBVIOUS
      <4> QED BY <2>4, <2>6, <4>1
    <3>2. recvd'[i] = recvd[i]
      BY <2>4, <3>1
    <3>3. recvd[i].qid # None => <<recvd[i].sock, recvd[i].qid>> \in asked
      BY <3>1, Zenon DEF HeardAsked
    <3> QED BY <1>a, <3>2, <3>3
  <2> QED BY <2>5, <2>6
<1>3. CASE RecvMatch
  <2>1. recvd # <<>> /\ recvd' = Tail(recvd)
    BY <1>3 DEF RecvMatch
  <2>2. Len(recvd') = Len(recvd) - 1 /\ \A i \in 1 .. Len(recvd') : recvd'[i] = recvd[i + 1]
    BY <1>0, <2>1
  <2>3. \A i \in 1 .. Len(recvd') : i + 1 \in 1 .. Len(recvd)
    BY <1>0, <2>2
  <2> QED BY <1>a, <2>2, <2>3 DEF HeardAsked
<1> QED BY <1>1, <1>2, <1>3, PacketSteps

=============================================================================
