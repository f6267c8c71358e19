---------------------------- MODULE NetDohProofs ----------------------------
(***************************************************************************)
(* A DoH socket is used only while its descriptor is open and only by one  *)
(* query at a time, no connection takes more queries than its limit, and   *)
(* recv makes nothing of the frames but the answers, for every number of   *)
(* connections and queries, limit of queries per connection and size of a  *)
(* message.                                                                *)
(***************************************************************************)
EXTENDS NetDoh, TLAPS

Types ==
  /\ is_sending \in BOOLEAN /\ is_ready \in BOOLEAN /\ qid \in 0 .. MaxQueries
  /\ reported \subseteq Queries

\* A closed descriptor is replaced before it is used: do_connect stays set until
\* sockready has a new one, and RT cannot drop that one while ST holds the mutex.
Opened ==
  /\ ~fd_open => do_connect /\ ~is_ready /\ ~is_conn_ready
  /\ s_pc = "held" => fd_open

\* A query in progress needs a ready session, so that none is left when a new
\* connection becomes ready.
Pending ==
  /\ \A q \in reported : q <= qid
  /\ is_sending => is_ready /\ qid # 0 /\ qid \notin reported
  /\ s_pc = "send" => ~is_sending
  /\ s_pc # "fatal"

\* The inductive invariant
DohInv == Types /\ Opened /\ Pending

LEMMA InitHolds == Init => DohInv
<1>1. 0 \in 0 .. MaxQueries
  BY DohAssumption
<1>2. Init => /\ s_pc = "idle" /\ is_sending = FALSE /\ is_ready = FALSE /\ qid = 0 /\ reported = {}
              /\ fd_open = TRUE
  BY DEF Init
<1> QED BY <1>1, <1>2, Zenon DEF DohInv, Types, Opened, Pending

-----------------------------------------------------------------------------
(* What a step does to the descriptor *)

\* Nothing but to drop the connection, to make a new one, or to note in sockready
\* that it is there.
Same == UNCHANGED <<fd_open, do_connect, is_conn_ready>> /\ is_ready' = is_ready
Shaken == InReady /\ UNCHANGED <<fd_open, do_connect>>
Descriptor ==
  \/ Same /\ s_pc' # "held"
  \/ Same /\ s_pc' = s_pc
  \/ Drop /\ s_pc' # "held"
  \/ Drop /\ s_pc' = s_pc /\ s_pc # "held"
  \/ Shaken /\ s_pc' # "held"
  \/ fd_open' = TRUE

LEMMA DescriptorStep ==
  ASSUME Next
  PROVE  Descriptor
<1>1. CASE ReadyConnect
  BY <1>1 DEF ReadyConnect, Descriptor
<1>2. CASE Flush \/ SendLost \/ SendTo \/ SendNothing
  <2>1. Same /\ s_pc' # "held"
    BY <1>2 DEF Flush, SendLost, SendTo, SendNothing, session, link, Same
  <2> QED BY <2>1 DEF Descriptor
<1>3. CASE FlushFail \/ SendFail
  <2>1. s_pc' = "idle" /\ (Drop \/ Same)
    BY <1>3 DEF FlushFail, SendFail, SendsFail, link, Same
  <2> QED BY <2>1 DEF Descriptor
<1>4. CASE ShakeWant \/ ShakeFail \/ ShakeDone
  <2>1. Shaken /\ s_pc' # "held"
    BY <1>4, Zenon DEF ShakeWant, ShakeFail, ShakeDone, Shaking, link, Shaken
  <2> QED BY <2>1 DEF Descriptor
<1>5. CASE Recv
  <2>1. (Drop \/ NoDrop) /\ Recving /\ s_pc' = s_pc
    BY <1>5 DEF Recv, RTFrame
  <2>2. s_pc # "held"
    BY <2>1 DEF Recving, LockFree
  <2> QED BY <2>1, <2>2 DEF Descriptor, NoDrop, Same
<1>6. CASE RecvDrop
  <2>1. Drop /\ Recving /\ s_pc' = s_pc
    BY <1>6 DEF RecvDrop, RTFrame
  <2>2. s_pc # "held"
    BY <2>1 DEF Recving, LockFree
  <2> QED BY <2>1, <2>2 DEF Descriptor
<1>7. CASE RecvFatal \/ RecvCount
  BY <1>7 DEF RecvFatal, RecvCount, NoDrop, RTFrame, Descriptor, Same
<1>8. CASE Accept \/ Respond \/ Lose \/ Late
  <2>1. PeerFrame
    BY <1>8 DEF Accept, Respond, Answer, Lose, Late
  <2> QED BY <2>1 DEF PeerFrame, session, link, Descriptor, Same
<1> QED BY <1>1, <1>2, <1>3, <1>4, <1>5, <1>6, <1>7, <1>8 DEF Next

LEMMA OpenedKept ==
  ASSUME Opened, Next
  PROVE  Opened'
<1>1. Descriptor
  BY DescriptorStep
<1>2. CASE Same
  BY <1>1, <1>2 DEF Descriptor, Same, Opened, Drop, Shaken
<1>3. CASE Drop
  BY <1>1, <1>3, Zenon DEF Descriptor, Same, Opened, Drop, DropFlags, Shaken
<1>4. CASE Shaken /\ s_pc' # "held"
  <2>1. fd_open
    BY <1>4 DEF Shaken, InReady, Opened
  <2> QED BY <1>4, <2>1 DEF Shaken, Opened
<1>5. CASE fd_open' = TRUE
  BY <1>5 DEF Opened
<1> QED BY <1>1, <1>2, <1>3, <1>4, <1>5, Zenon DEF Descriptor

-----------------------------------------------------------------------------
(* What a step does to the queries *)

Handed == s_pc = "send" /\ s_pc' = "idle" /\ qid' = qid + 1 /\ qid' \in Queries
Nothing ==
  /\ reported' = reported /\ is_sending' = is_sending /\ (qid' = qid \/ Handed)
  /\ is_ready' = is_ready \/ ~is_sending
Dropped == reported' = reported /\ is_sending' = FALSE /\ (qid' = qid \/ Handed)
Reported == is_sending /\ is_sending' = FALSE /\ qid' = qid /\ reported' = reported \union {qid}
Taken == Handed /\ is_sending' = FALSE /\ reported' = reported \union {qid'}
Kept == Handed /\ is_sending' = TRUE /\ is_ready' /\ reported' = reported

QueryStep ==
  /\ Nothing \/ Dropped \/ Reported \/ Taken \/ Kept
  /\ is_ready' \in BOOLEAN
  /\ s_pc' = "send" => s_pc = "send" \/ ~is_sending'
  /\ s_pc' # "fatal"

\* sockready flushes the session: the query in progress is reported or stays.
LEMMA FlushStep ==
  ASSUME DohInv, Flush
  PROVE  QueryStep
<1>1. is_sending \in BOOLEAN /\ is_ready \in BOOLEAN /\ s_pc # "fatal"
  BY DEF DohInv, Types, Pending
<1> DEFINE sent == is_sending /\ ~Unsent(outq')
<1>2. /\ is_sending' = (is_sending /\ ~sent) /\ qid' = qid /\ is_ready' = is_ready
      /\ reported' = IF sent THEN reported \union {qid} ELSE reported
      /\ s_pc' \in {"idle", "send"} /\ (s_pc' = "send" => ~(is_sending /\ ~sent))
  BY DEF Flush, SendingAfter
<1>3. CASE sent
  BY <1>1, <1>2, <1>3, Zenon DEF QueryStep, Reported
<1>4. CASE ~sent
  <2>1. is_sending' = is_sending
    BY <1>1, <1>2, <1>4, Zenon
  <2> QED BY <1>1, <1>2, <1>4, <2>1 DEF QueryStep, Nothing
<1> QED BY <1>3, <1>4

\* sendto: nothing is in progress, the query leaves at once or is kept.
LEMMA SendToStep ==
  ASSUME DohInv, SendTo
  PROVE  QueryStep
<1>1. /\ is_ready \in BOOLEAN /\ s_pc = "send" /\ is_ready /\ is_ready' = is_ready
      /\ qid \in 0 .. MaxQueries /\ qid < MaxQueries /\ MaxQueries \in Nat
  BY DohAssumption DEF DohInv, Types, SendTo, InSend, session
<1>2. ~is_sending
  BY <1>1 DEF DohInv, Pending
<1>3. /\ qid' = qid + 1 /\ s_pc' = "idle" /\ is_sending' = Unsent(outq')
      /\ reported' = IF ~is_sending' THEN reported \union {qid'} ELSE reported
  BY <1>2 DEF SendTo, Submit
<1>4. qid' \in Queries
  BY <1>1, <1>3 DEF Queries
<1>5. is_sending' = TRUE \/ is_sending' = FALSE
  BY <1>3 DEF Unsent
<1> QED BY <1>1, <1>3, <1>4, <1>5 DEF QueryStep, Handed, Taken, Kept

LEMMA EveryStep ==
  ASSUME DohInv, Next
  PROVE  QueryStep
<1>1. /\ is_sending \in BOOLEAN /\ is_ready \in BOOLEAN /\ qid \in 0 .. MaxQueries /\ MaxQueries \in Nat
      /\ s_pc # "fatal" /\ (is_sending => is_ready)
  BY DohAssumption DEF DohInv, Types, Pending
<1>2. CASE ReadyConnect
  <2>1. reported' = reported /\ qid' = qid /\ s_pc' = "held"
    BY <1>2 DEF ReadyConnect
  <2>2. \/ is_ready' = FALSE /\ is_sending' = FALSE
        \/ is_ready' = is_ready /\ is_sending' = is_sending
    BY <1>2 DEF ReadyConnect, DropFlags
  <2> QED BY <1>1, <2>1, <2>2, Zenon DEF QueryStep, Nothing, Dropped
<1>3. CASE Flush
  BY <1>3, FlushStep
<1>4. CASE FlushFail
  <2>1. reported' = reported /\ qid' = qid /\ s_pc' = "idle"
    BY <1>4 DEF FlushFail, SendsFail
  <2>2. \/ is_ready' = FALSE /\ is_sending' = FALSE
        \/ is_ready' = is_ready /\ is_sending' = is_sending
    BY <1>4, Zenon DEF FlushFail, SendsFail, Drop, DropFlags
  <2> QED BY <1>1, <2>1, <2>2, Zenon DEF QueryStep, Nothing, Dropped
<1>5. CASE ShakeWant \/ ShakeFail \/ ShakeDone
  <2>1. /\ reported' = reported /\ qid' = qid /\ is_sending' = is_sending /\ ~is_ready
        /\ is_ready' \in BOOLEAN /\ s_pc' \in {"idle", "send"}
    BY <1>1, <1>5, Zenon DEF ShakeWant, ShakeFail, ShakeDone, Shaking, query
  <2> QED BY <1>1, <2>1 DEF QueryStep, Nothing
<1>6. CASE SendLost \/ SendNothing
  BY <1>1, <1>6 DEF SendLost, SendNothing, query, session, QueryStep, Nothing
<1>7. CASE SendTo
  BY <1>7, SendToStep
<1>8. CASE SendFail
  <2>1. reported' = reported /\ qid' = qid + 1 /\ qid < MaxQueries /\ s_pc = "send" /\ s_pc' = "idle"
    BY <1>8 DEF SendFail, SendsFail, InSend, Submit
  <2>2. \/ is_ready' = FALSE /\ is_sending' = FALSE
        \/ is_ready' = is_ready /\ is_sending' = is_sending
    BY <1>8, Zenon DEF SendFail, SendsFail, Drop, DropFlags
  <2>3. qid' \in Queries
    BY <1>1, <2>1 DEF Queries
  <2> QED BY <1>1, <2>1, <2>2, <2>3, Zenon DEF QueryStep, Nothing, Dropped, Handed
<1>9. CASE Recv \/ RecvDrop \/ RecvFatal \/ RecvCount
  <2>1. (Drop \/ NoDrop) /\ RTFrame
    BY <1>9 DEF Recv, RecvDrop, RecvFatal, RecvCount
  <2>2. \/ is_ready' = FALSE /\ is_sending' = FALSE
        \/ is_ready' = is_ready /\ is_sending' = is_sending
    BY <2>1 DEF Drop, DropFlags, NoDrop
  <2>3. reported' = reported /\ qid' = qid /\ s_pc' = s_pc
    BY <2>1 DEF RTFrame
  <2> QED BY <1>1, <2>2, <2>3, Zenon DEF QueryStep, Nothing, Dropped
<1>10. CASE Accept \/ Respond \/ Lose \/ Late
  <2>1. PeerFrame
    BY <1>10 DEF Accept, Respond, Answer, Lose, Late
  <2> QED BY <1>1, <2>1 DEF PeerFrame, query, session, QueryStep, Nothing
<1> QED BY <1>2, <1>3, <1>4, <1>5, <1>6, <1>7, <1>8, <1>9, <1>10 DEF Next

LEMMA NextKept == DohInv /\ [Next]_vars => DohInv'
<1> SUFFICES ASSUME DohInv, [Next]_vars PROVE DohInv'
  OBVIOUS
<1>1. CASE UNCHANGED vars
  BY <1>1 DEF vars, query, session, link, DohInv, Types, Opened, Pending
<1>2. CASE Next
  <2>1. QueryStep
    BY <1>2, EveryStep
  <2>2. Opened'
    BY <1>2, OpenedKept DEF DohInv
  <2>3. /\ is_sending \in BOOLEAN /\ qid \in 0 .. MaxQueries /\ MaxQueries \in Nat /\ reported \subseteq Queries
        /\ \A q \in reported : q <= qid /\ q \in Nat
        /\ is_sending => is_ready /\ qid # 0 /\ qid \notin reported
        /\ s_pc = "send" => ~is_sending
    BY DohAssumption DEF DohInv, Types, Pending, Queries
  <2>4. /\ is_ready' \in BOOLEAN /\ s_pc' # "fatal"
        /\ s_pc' = "send" => s_pc = "send" \/ ~is_sending'
    BY <2>1 DEF QueryStep
  <2>5. Handed => /\ qid' \in 0 .. MaxQueries /\ qid' # 0 /\ qid' \notin reported
                  /\ \A q \in reported : q <= qid'
    BY <2>3 DEF Handed, Queries
  <2>6. CASE Nothing
    BY <2>2, <2>3, <2>4, <2>5, <2>6 DEF Nothing, Handed, DohInv, Types, Pending
  <2>7. CASE Dropped
    BY <2>2, <2>3, <2>4, <2>5, <2>7, Zenon DEF Dropped, DohInv, Types, Pending
  <2>8. CASE Reported
    <3>1. reported' \subseteq Queries /\ \A q \in reported' : q <= qid'
      BY <2>3, <2>8 DEF Reported, Queries
    <3> QED BY <2>2, <2>3, <2>4, <2>8, <3>1, Zenon DEF Reported, DohInv, Types, Pending
  <2>9. CASE Taken
    <3>1. reported' \subseteq Queries /\ \A q \in reported' : q <= qid'
      BY <2>3, <2>9 DEF Taken, Handed, Queries
    <3> QED BY <2>2, <2>3, <2>4, <2>5, <2>9, <3>1, Zenon DEF Taken, DohInv, Types, Pending
  <2>10. CASE Kept
    BY <2>2, <2>3, <2>4, <2>5, <2>10 DEF Kept, Handed, DohInv, Types, Pending
  <2> QED BY <2>1, <2>6, <2>7, <2>8, <2>9, <2>10 DEF QueryStep
<1> QED BY <1>1, <1>2

LEMMA Inductive == Spec => []DohInv
<1> QED BY InitHolds, NextKept, PTL DEF Spec

-----------------------------------------------------------------------------
(* What a step does to the number of requests *)

\* A request is counted when it has left, so that all of them but the one in
\* progress are counted; not when sending has failed, but then the connection is
\* replaced before the next one (l.625).  A connection on its way has none.
Balance == requests = nqpc_sent + (IF is_sending THEN 1 ELSE 0)
Fresh == requests = 0 /\ nqpc_sent = 0
Counted ==
  /\ requests \in Nat /\ nqpc_sent \in Nat
  /\ do_connect => ~is_ready
  /\ s_pc = "held" => ~is_ready /\ ~do_connect /\ ~do_reconnect
  /\ s_pc = "send" => ~do_reconnect /\ ~LimitReached(nqpc_sent)
  /\ ~is_ready /\ ~do_connect /\ ~do_reconnect => Fresh
  /\ is_ready /\ ~do_reconnect => Balance
  /\ PerConnKept

LEMMA CountedInit == Init => Counted
<1> SUFFICES ASSUME Init PROVE Counted
  OBVIOUS
<1>1. requests = 0 /\ nqpc_sent = 0 /\ is_ready = FALSE /\ do_connect = FALSE /\ s_pc = "idle"
  BY DEF Init
<1>2. PerConnKept
  BY <1>1, DohAssumption DEF PerConnKept
<1> QED BY <1>1, <1>2 DEF Counted, Fresh

\* sockready has a socket that is ready: ST does not hold the mutex any more.
LEMMA FlushCounts ==
  ASSUME DohInv, Counted, Flush
  PROVE  Counted'
<1>1. is_ready /\ ~do_reconnect /\ ~do_connect /\ Balance
  BY DEF Flush, InReady, Counted
<1>2. /\ requests \in Nat /\ nqpc_sent \in Nat /\ is_sending \in BOOLEAN /\ PerConnKept
  BY DEF Counted, DohInv, Types
<1> DEFINE sent == is_sending /\ ~Unsent(outq')
           n == IF sent THEN nqpc_sent + 1 ELSE nqpc_sent
<1>3. /\ is_sending' = (is_sending /\ ~sent) /\ nqpc_sent' = n /\ requests' = requests
      /\ is_ready' = is_ready /\ do_connect' = do_connect /\ s_pc' \in {"idle", "send"}
  BY DEF Flush, SendingAfter
<1>4. s_pc' = "send" => do_reconnect' = FALSE /\ ~LimitReached(n)
  BY Zenon DEF Flush
<1>5. Balance' /\ nqpc_sent' \in Nat
  <2>1. CASE sent
    <3>1. is_sending /\ ~is_sending' /\ nqpc_sent' = nqpc_sent + 1
      BY <1>3, <2>1, Zenon
    <3> QED BY <1>1, <1>2, <1>3, <3>1 DEF Balance
  <2>2. CASE ~sent
    <3>1. (is_sending' <=> is_sending) /\ nqpc_sent' = nqpc_sent
      BY <1>3, <2>2, Zenon
    <3> QED BY <1>1, <1>2, <1>3, <3>1 DEF Balance
  <2> QED BY <2>1, <2>2
<1>6. PerConnKept' /\ requests' \in Nat
  BY <1>2, <1>3 DEF PerConnKept
<1>7. s_pc' = "send" => ~do_reconnect' /\ ~LimitReached(nqpc_sent)'
  BY <1>3, <1>4 DEF LimitReached
<1> QED BY <1>1, <1>3, <1>5, <1>6, <1>7 DEF Counted

\* sendto submits one request, and the limit was not reached: nothing is in
\* progress, so that all requests before it are counted.
LEMMA SendCounts ==
  ASSUME DohInv, Counted, SendTo \/ SendFail
  PROVE  Counted'
<1>1. s_pc = "send" /\ is_ready
  BY DEF SendTo, SendFail, InSend
<1>2. /\ ~is_sending /\ ~do_reconnect /\ ~do_connect /\ requests = nqpc_sent
      /\ requests \in Nat /\ nqpc_sent \in Nat /\ PerConn \in Nat /\ ~LimitReached(nqpc_sent)
  BY <1>1, DohAssumption DEF Counted, DohInv, Pending, Balance
<1>3. requests' = requests + 1 /\ s_pc' = "idle"
  BY <1>2 DEF SendTo, SendFail, Submit
<1>4. PerConnKept' /\ requests' \in Nat
  BY <1>2, <1>3 DEF PerConnKept, LimitReached
<1>5. CASE SendTo
  <2>1. /\ is_ready' = is_ready /\ do_connect' = do_connect /\ do_reconnect' = do_reconnect
        /\ nqpc_sent' = IF ~is_sending' THEN nqpc_sent + 1 ELSE nqpc_sent
    BY <1>2, <1>5 DEF SendTo, session
  <2>2. CASE is_sending'
    BY <1>1, <1>2, <1>3, <1>4, <2>1, <2>2 DEF Counted, Balance
  <2>3. CASE ~is_sending'
    BY <1>1, <1>2, <1>3, <1>4, <2>1, <2>3 DEF Counted, Balance
  <2> QED BY <2>2, <2>3
<1>6. CASE SendFail
  <2>1. do_reconnect' = TRUE /\ nqpc_sent' = nqpc_sent
    BY <1>6 DEF SendFail, SendsFail, counts
  <2>2. do_connect' => ~is_ready'
    BY <1>2, <1>6, Zenon DEF SendFail, SendsFail, Drop, DropFlags
  <2> QED BY <1>2, <1>3, <1>4, <2>1, <2>2 DEF Counted
<1> QED BY <1>5, <1>6

\* RT: the counts of the sender stay, and a connection it drops is replaced.
LEMMA ReceiverCounts ==
  ASSUME Counted, NoDrop \/ (Drop /\ s_pc # "held"), RTFrame
  PROVE  Counted'
<1>1. /\ s_pc' = s_pc /\ requests' = requests /\ nqpc_sent' = nqpc_sent
      /\ do_reconnect' = do_reconnect
  BY DEF RTFrame, counts
<1>2. PerConnKept' /\ (LimitReached(nqpc_sent)' <=> LimitReached(nqpc_sent))
  BY <1>1 DEF Counted, PerConnKept, LimitReached
<1>3. CASE NoDrop
  BY <1>1, <1>2, <1>3 DEF NoDrop, Counted, Fresh, Balance
<1>4. CASE Drop /\ s_pc # "held"
  BY <1>1, <1>2, <1>4 DEF Drop, DropFlags, Counted
<1> QED BY <1>3, <1>4

LEMMA CountedKept ==
  ASSUME DohInv, Counted, [Next]_vars
  PROVE  Counted'
<1>1. CASE UNCHANGED vars
  BY <1>1 DEF vars, query, counts, session, Counted, Fresh, Balance, PerConnKept, LimitReached
<1>2. CASE ReadyConnect
  <2>1. /\ s_pc' = "held" /\ do_connect' = FALSE /\ do_reconnect' = FALSE
        /\ requests' = 0 /\ nqpc_sent' = 0
    BY <1>2 DEF ReadyConnect
  <2>2. ~is_ready'
    BY <1>2 DEF ReadyConnect, DropFlags, Counted
  <2>3. PerConnKept'
    BY <2>1, DohAssumption DEF PerConnKept
  <2> QED BY <2>1, <2>2, <2>3 DEF Counted, Fresh
<1>3. CASE Flush
  BY <1>3, FlushCounts
<1>4. CASE SendTo \/ SendFail
  BY <1>4, SendCounts
<1>5. CASE FlushFail
  <2>1. /\ s_pc' = "idle" /\ do_reconnect' = TRUE
        /\ requests' = requests /\ nqpc_sent' = nqpc_sent
    BY <1>5 DEF FlushFail, SendsFail, counts
  <2>2. do_connect' => ~is_ready'
    BY <1>5, Zenon DEF FlushFail, SendsFail, Drop, DropFlags, Counted
  <2> QED BY <2>1, <2>2 DEF Counted, PerConnKept
<1>6. CASE ShakeWant \/ ShakeFail \/ ShakeDone
  <2>1. /\ ~is_ready /\ ~do_connect /\ ~do_reconnect /\ requests = 0 /\ nqpc_sent = 0
        /\ is_sending \in BOOLEAN /\ ~is_sending
    BY <1>6, Zenon DEF ShakeWant, ShakeFail, ShakeDone, Shaking, InReady, Counted, Fresh, DohInv, Types, Pending
  <2>2. /\ requests' = requests /\ nqpc_sent' = nqpc_sent /\ is_sending' = is_sending
        /\ do_connect' = do_connect
    BY <1>6, Zenon DEF ShakeWant, ShakeFail, ShakeDone, query, counts
  <2>3. \/ s_pc' = "idle" /\ is_ready' = is_ready
        \/ s_pc' = "send" /\ do_reconnect' = do_reconnect
    BY <1>6, Zenon DEF ShakeWant, ShakeFail, ShakeDone
  <2>4. PerConnKept' /\ ~LimitReached(nqpc_sent)'
    BY <2>1, <2>2, DohAssumption DEF PerConnKept, LimitReached
  <2>5. Fresh' /\ Balance'
    BY <2>1, <2>2 DEF Fresh, Balance
  <2> QED BY <2>1, <2>2, <2>3, <2>4, <2>5 DEF Counted
<1>7. CASE SendLost \/ SendNothing
  BY <1>7 DEF SendLost, SendNothing, query, counts, session, Counted, Fresh, Balance, PerConnKept
<1>8. CASE Recv \/ RecvDrop \/ RecvFatal \/ RecvCount
  <2>1. (NoDrop \/ (Drop /\ s_pc # "held")) /\ RTFrame
    BY <1>8 DEF Recv, RecvDrop, RecvFatal, RecvCount, Recving, LockFree
  <2> QED BY <2>1, ReceiverCounts
<1>9. CASE Accept \/ Respond \/ Lose \/ Late
  <2>1. PeerFrame
    BY <1>9 DEF Accept, Respond, Answer, Lose, Late
  <2> QED BY <2>1 DEF PeerFrame, query, session, Counted, Fresh, Balance, PerConnKept, LimitReached
<1> QED BY <1>1, <1>2, <1>3, <1>4, <1>5, <1>6, <1>7, <1>8, <1>9 DEF Next

LEMMA AlwaysCounted == Spec => []Counted
<1>1. DohInv /\ Counted /\ [Next]_vars => Counted'
  BY CountedKept
<1> QED BY <1>1, CountedInit, Inductive, PTL DEF Spec

-----------------------------------------------------------------------------
(* The frames of a read *)

MsgStates ==
  [msg : Seq(Queries), done : BOOLEAN, code : {NoCode, "200", "404"}, dns : BOOLEAN,
   end : {"no", "paused", "error", "exited"}, drops : Nat, used : Nat]
Fitting(m) == m \in MsgStates /\ Len(m.msg) <= MsgMax

\* What the callbacks make of a frame: nghttp2 stops, or it goes on with headers or
\* the end of a stream, with a chunk, or after a reset.
Stops(m, f, k) ==
  \E e \in {"paused", "error", "exited"} :
    /\ k = [m EXCEPT !.end = e]
    /\ e = "error" => f.c # conn \/ ~m.done
    /\ f.c # conn => e = "error"
    /\ e = "exited" => f.t = "E" /\ m.done /\ f.c = conn
Notes(m, f, k) ==
  /\ k.msg = m.msg /\ k.drops = m.drops
  /\ k.dns = m.dns \/ (f.t = "H" /\ f.v = "dns")
Adds(m, f, k) == k.msg = Append(m.msg, f.q) /\ k.dns = m.dns /\ k.drops = m.drops
Resets(m, f, k) == f.t = "R" /\ k.msg = <<>> /\ k.dns = FALSE
Goes(m, f, k) ==
  /\ k.end = "no" /\ k.used = m.used + 1 /\ f.c = conn
  /\ Notes(m, f, k) \/ Adds(m, f, k) \/ Resets(m, f, k)

LEMMA ChunkTaken ==
  ASSUME NEW m, Fitting(m), NEW q \in Queries, Len(m.msg) # MsgMax
  PROVE  Append(m.msg, q) \in Seq(Queries) /\ Len(Append(m.msg, q)) <= MsgMax
<1>1. m.msg \in Seq(Queries) /\ Len(m.msg) \in Nat /\ Len(m.msg) <= MsgMax
  BY DEF Fitting, MsgStates
<1>2. Append(m.msg, q) \in Seq(Queries) /\ Len(Append(m.msg, q)) = Len(m.msg) + 1
  BY <1>1
<1> QED BY <1>1, <1>2, DohAssumption

\* The fields of a state that differs from another in some of them
Advanced(c, k) == k = [c EXCEPT !.used = @ + 1]
Completed(c, k) == k = [c EXCEPT !.done = TRUE]

LEMMA FrameUsed ==
  ASSUME NEW c \in MsgStates, NEW k, Advanced(c, k)
  PROVE  /\ k \in MsgStates /\ k.msg = c.msg /\ k.dns = c.dns /\ k.end = c.end /\ k.drops = c.drops
         /\ k.used = c.used + 1
<1>1. /\ c.msg \in Seq(Queries) /\ c.done \in BOOLEAN /\ c.code \in {NoCode, "200", "404"}
      /\ c.dns \in BOOLEAN /\ c.end \in {"no", "paused", "error", "exited"} /\ c.drops \in Nat
      /\ c.used \in Nat
  BY DEF MsgStates
<1>2. k = [msg |-> c.msg, done |-> c.done, code |-> c.code, dns |-> c.dns, end |-> c.end,
           drops |-> c.drops, used |-> c.used + 1]
  BY DEF MsgStates, Advanced
<1>3. c.used + 1 \in Nat
  BY <1>1
<1> QED BY <1>1, <1>2, <1>3, Zenon DEF MsgStates

LEMMA HeaderFields ==
  ASSUME NEW m \in MsgStates, NEW f, NEW k, k = Header(m, f)
  PROVE  /\ k \in MsgStates /\ k.msg = m.msg /\ k.dns = (m.dns \/ f.v = "dns") /\ k.end = m.end
         /\ k.drops = m.drops /\ k.used = m.used
<1>1. /\ m.msg \in Seq(Queries) /\ m.done \in BOOLEAN
      /\ m.dns \in BOOLEAN /\ m.end \in {"no", "paused", "error", "exited"} /\ m.drops \in Nat
      /\ m.used \in Nat
  BY DEF MsgStates
<1>2. PICK code \in {NoCode, "200", "404"} : code = IF f.v = "error" THEN "404" ELSE "200"
  BY Zenon
<1>3. PICK dns \in BOOLEAN : dns = (m.dns \/ f.v = "dns")
  BY Zenon
<1>4. k = [msg |-> m.msg, done |-> m.done, code |-> code, dns |-> dns, end |-> m.end,
           drops |-> m.drops, used |-> m.used]
  BY <1>2, <1>3, Zenon DEF MsgStates, Header
<1>5. k \in MsgStates
  BY <1>1, <1>4 DEF MsgStates
<1> QED BY <1>3, <1>4, <1>5

LEMMA StreamEnded ==
  ASSUME NEW c \in MsgStates, NEW k, Completed(c, k)
  PROVE  /\ k \in MsgStates /\ k.msg = c.msg /\ k.dns = c.dns /\ k.end = c.end /\ k.drops = c.drops
         /\ k.used = c.used
<1>1. /\ c.msg \in Seq(Queries) /\ c.code \in {NoCode, "200", "404"}
      /\ c.dns \in BOOLEAN /\ c.end \in {"no", "paused", "error", "exited"} /\ c.drops \in Nat
      /\ c.used \in Nat
  BY DEF MsgStates
<1>2. k = [msg |-> c.msg, done |-> TRUE, code |-> c.code, dns |-> c.dns, end |-> c.end,
           drops |-> c.drops, used |-> c.used]
  BY Zenon DEF MsgStates, Completed
<1> QED BY <1>1, <1>2, Zenon DEF MsgStates

LEMMA ResetFields ==
  ASSUME NEW m \in MsgStates, NEW k, k = Reset(m)
  PROVE  k \in MsgStates /\ k.msg = <<>> /\ k.dns = FALSE /\ k.end = m.end /\ k.used = m.used
<1>1. m.end \in {"no", "paused", "error", "exited"} /\ m.drops \in Nat /\ m.used \in Nat
  BY DEF MsgStates
<1>2. PICK none \in Seq(Queries), drops \in Nat, no \in BOOLEAN :
        none = <<>> /\ drops = m.drops + 1 /\ no = FALSE
  <2>1. m.drops + 1 \in Nat /\ <<>> \in Seq(Queries)
    BY <1>1
  <2> QED BY <2>1, Zenon
<1>3. k = [msg |-> none, done |-> no, code |-> NoCode, dns |-> no, end |-> m.end,
           drops |-> drops, used |-> m.used]
  BY <1>2, Zenon DEF MsgStates, Reset, Cleared
<1>4. k \in MsgStates
  BY <1>1, <1>3 DEF MsgStates
<1> QED BY <1>2, <1>3, <1>4

LEMMA FrameOutcome ==
  ASSUME NEW m, Fitting(m), Go(m), NEW f \in Frames, NEW k, k = OnFrame(m, f)
  PROVE  Fitting(k) /\ (Stops(m, f, k) \/ Goes(m, f, k))
<1>1. /\ m \in MsgStates /\ m.end = "no" /\ m.used \in Nat /\ m.drops \in Nat /\ Len(m.msg) <= MsgMax
      /\ m.done \in BOOLEAN /\ m.dns \in BOOLEAN /\ f.q \in Queries
  BY DEF Fitting, MsgStates, Go, Frames
<1>2. ASSUME NEW e \in {"paused", "error", "exited"}
      PROVE  Fitting([m EXCEPT !.end = e]) /\ ~Go([m EXCEPT !.end = e])
  BY <1>1 DEF MsgStates, Go, Fitting
<1>3. CASE f.c # conn
  <2>1. k = [m EXCEPT !.end = "error"]
    BY <1>2, <1>3 DEF OnFrame
  <2> QED BY <1>2, <1>3, <2>1 DEF Stops
<1>4. CASE f.c = conn /\ f.t = "H"
  <2>1. k = [Header(m, f) EXCEPT !.used = @ + 1]
    BY <1>1, <1>4, Zenon DEF OnFrame, Header, Go, MsgStates
  <2>2. /\ k \in MsgStates /\ k.msg = m.msg /\ k.drops = m.drops /\ k.end = "no" /\ k.used = m.used + 1
        /\ k.dns = (m.dns \/ f.v = "dns")
    <3>1. PICK h : h = Header(m, f)
      OBVIOUS
    <3>2. /\ h \in MsgStates /\ h.msg = m.msg /\ h.dns = (m.dns \/ f.v = "dns")
          /\ h.end = m.end /\ h.drops = m.drops /\ h.used = m.used
      BY <1>1, <3>1, HeaderFields, Zenon
    <3>3. Advanced(h, k)
      BY <2>1, <3>1, Zenon DEF Advanced
    <3>4. /\ k \in MsgStates /\ k.msg = h.msg /\ k.dns = h.dns /\ k.end = h.end /\ k.drops = h.drops
          /\ k.used = h.used + 1
      BY <3>2, <3>3, FrameUsed, Zenon
    <3> QED BY <1>1, <3>2, <3>4, Zenon
  <2>3. k.dns = m.dns \/ f.v = "dns"
    BY <1>1, <2>2
  <2> QED BY <1>1, <1>4, <2>2, <2>3 DEF Fitting, Goes, Notes
<1>5. CASE f.c = conn /\ f.t \in {"d", "D"} /\ m.done
  <2>1. Chunk(m, f) = [m EXCEPT !.end = "paused"]
    BY <1>5 DEF Chunk
  <2>2. k = [m EXCEPT !.end = "paused"]
    BY <1>2, <1>5, <2>1 DEF OnFrame
  <2> QED BY <1>2, <1>5, <2>2 DEF Stops
<1>6. CASE f.c = conn /\ f.t \in {"d", "D"} /\ ~m.done /\ Len(m.msg) = MsgMax
  <2>1. Chunk(m, f) = [m EXCEPT !.end = "error"]
    BY <1>6 DEF Chunk
  <2>2. k = [m EXCEPT !.end = "error"]
    BY <1>2, <1>6, <2>1 DEF OnFrame
  <2> QED BY <1>2, <1>6, <2>2 DEF Stops
<1>7. CASE f.c = conn /\ f.t \in {"d", "D"} /\ ~m.done /\ Len(m.msg) # MsgMax
  <2>1. Append(m.msg, f.q) \in Seq(Queries) /\ Len(Append(m.msg, f.q)) <= MsgMax
    BY <1>1, <1>7, ChunkTaken
  <2> DEFINE c == [m EXCEPT !.msg = Append(m.msg, f.q)]
  <2>2. Chunk(m, f) = c
    BY <1>7 DEF Chunk
  <2>3. /\ c \in MsgStates /\ c.msg = Append(m.msg, f.q) /\ c.dns = m.dns /\ c.drops = m.drops
        /\ c.end = "no" /\ c.used = m.used /\ c.done = m.done
    BY <1>1, <2>1 DEF MsgStates
  <2> HIDE DEF c
  <2>4. CASE f.t = "d"
    <3>1. Advanced(c, k)
      BY <1>7, <2>2, <2>3, <2>4, <1>1 DEF OnFrame, Go, Advanced
    <3>2. /\ k \in MsgStates /\ k.msg = c.msg /\ k.dns = c.dns /\ k.drops = c.drops
          /\ k.end = "no" /\ k.used = m.used + 1
      BY <2>3, <3>1, FrameUsed, Zenon
    <3> QED BY <1>7, <2>1, <2>3, <3>2 DEF Fitting, Goes, Adds
  <2>5. CASE f.t = "D"
    <3>1. EndStream(c) = [c EXCEPT !.done = TRUE]
      BY <1>7, <2>3 DEF EndStream
    <3>2. PICK h \in MsgStates : /\ h = [c EXCEPT !.done = TRUE] /\ h.msg = c.msg /\ h.dns = c.dns
                                 /\ h.end = "no" /\ h.drops = c.drops /\ h.used = c.used
      <4>1. PICK h : Completed(c, h)
        BY Zenon DEF Completed
      <4> QED BY <2>3, <4>1, StreamEnded DEF Completed
    <3>3. Advanced(h, k)
      BY <1>1, <1>7, <2>2, <2>3, <2>5, <3>1, <3>2, Zenon DEF OnFrame, Go, Advanced
    <3>4. /\ k \in MsgStates /\ k.msg = c.msg /\ k.dns = c.dns /\ k.drops = c.drops
          /\ k.end = "no" /\ k.used = m.used + 1
      <4>1. /\ k \in MsgStates /\ k.msg = h.msg /\ k.dns = h.dns /\ k.end = h.end /\ k.drops = h.drops
            /\ k.used = h.used + 1
        BY <3>3, FrameUsed, Zenon
      <4> QED BY <2>3, <3>2, <4>1, Zenon
    <3> QED BY <1>7, <2>1, <2>3, <3>4 DEF Fitting, Goes, Adds
  <2> QED BY <1>7, <2>4, <2>5
<1>8. CASE f.c = conn /\ f.t = "E" /\ m.done
  <2>1. EndStream(m) = [m EXCEPT !.end = "exited"]
    BY <1>8 DEF EndStream
  <2>2. k = [m EXCEPT !.end = "exited"]
    BY <1>2, <1>8, <2>1 DEF OnFrame
  <2> QED BY <1>2, <1>8, <2>2 DEF Stops
<1>9. CASE f.c = conn /\ f.t = "E" /\ ~m.done
  <2>1. EndStream(m) = [m EXCEPT !.done = TRUE]
    BY <1>9 DEF EndStream
  <2>2. PICK h \in MsgStates : /\ h = [m EXCEPT !.done = TRUE] /\ h.msg = m.msg /\ h.dns = m.dns
                               /\ h.end = "no" /\ h.drops = m.drops /\ h.used = m.used
    <3>1. PICK h : Completed(m, h)
      BY Zenon DEF Completed
    <3> QED BY <1>1, <3>1, StreamEnded DEF Completed
  <2>3. Advanced(h, k)
    BY <1>1, <1>9, <2>1, <2>2, Zenon DEF OnFrame, Go, Advanced
  <2>4. /\ k \in MsgStates /\ k.msg = m.msg /\ k.dns = m.dns /\ k.drops = m.drops
        /\ k.end = "no" /\ k.used = m.used + 1
    BY <2>2, <2>3, FrameUsed, ZenonT(30)
  <2> QED BY <1>1, <1>9, <2>4 DEF Fitting, Goes, Notes
<1>10. CASE f.c = conn /\ f.t = "R"
  <2>1. /\ Reset(m) \in MsgStates /\ Reset(m).end = "no" /\ Reset(m).msg = <<>> /\ Reset(m).dns = FALSE
        /\ Reset(m).used = m.used
    BY <1>1, ResetFields, Zenon
  <2>2. Advanced(Reset(m), k)
    BY <1>1, <1>10, <2>1 DEF OnFrame, Go, Advanced
  <2>3. k \in MsgStates /\ k.end = "no" /\ k.msg = <<>> /\ k.dns = FALSE /\ k.used = m.used + 1
    BY <2>1, <2>2, FrameUsed, Zenon
  <2>4. Len(k.msg) <= MsgMax
    BY <2>3, DohAssumption
  <2> QED BY <1>10, <2>3, <2>4 DEF Fitting, Goes, Resets
<1>11. f.t \in {"H", "d", "D", "E", "R"}
  BY DEF Frames
<1> QED BY <1>1, <1>3, <1>4, <1>5, <1>6, <1>7, <1>8, <1>9, <1>10, <1>11

\* The answers to a query: whether there are any, and whether they have begun
Headed(q) == stage[q] \notin {"unasked", "asked"}

\* A frame of the connection in use, the i-th to be read: it answers a query that
\* was asked, headers are those that were sent, and only an answer without data ends
\* with a frame of its own, but for one that is left of a chunk (Rest).
Ours(f, i) ==
  /\ f.c = conn /\ stage[f.q] # "unasked"
  /\ f.t = "H" => Headed(f.q) /\ f.v = said[f.q]
  /\ f.t = "E" => bare \/ i = 1

AllOurs(frames) == \A i \in 1 .. Len(frames) : Ours(frames[i], i)
Stale(frames) == Len(frames) > 0 /\ frames[1].c # conn

\* What is read: frames of an earlier connection come first, and are refused.
Readable(frames) ==
  /\ frames \in Seq(Frames)
  /\ Stale(frames) \/ AllOurs(frames)

\* The chunks are of queries that were asked, and a DNS message was announced.
Answers(msg, dns) ==
  /\ \A i \in 1 .. Len(msg) : stage[msg[i]] # "unasked"
  /\ dns => \E q \in Queries : Headed(q) /\ said[q] = "dns"

\* After n frames: how far nghttp2 is, why it has stopped, what a reset leaves of
\* the message, and what the message consists of.
Progress(m, n) == Fitting(m) /\ m.used <= n /\ (Go(m) => m.used = n) /\ (~Go(m) => m.used < n)
Stopped(m, n, frames) ==
  /\ m.end = "exited" => bare
  /\ m.end = "error" => ~m.done
  /\ n = 0 => ~m.done
  /\ n > 0 /\ frames[1].c # conn => m.end = "error"
ResetLast(m, frames) ==
  m.drops > 0 => \E i \in 1 .. m.used : frames[i].t = "R" /\ (i = m.used => m.msg = <<>> /\ ~m.dns)
Made(m) == Answers(dnsmsg, http2_is_dns) => Answers(m.msg, m.dns)
Handled(m, n, frames) == Progress(m, n) /\ Stopped(m, n, frames) /\ ResetLast(m, frames) /\ Made(m)

LEMMA StopFields ==
  ASSUME NEW m, Fitting(m), NEW e \in {"paused", "error", "exited"}, NEW k, k = [m EXCEPT !.end = e]
  PROVE  /\ k.msg = m.msg /\ k.done = m.done /\ k.dns = m.dns /\ k.drops = m.drops /\ k.used = m.used
         /\ k.end = e /\ ~Go(k)
<1> QED BY DEF Fitting, MsgStates, Go

\* The frame that nghttp2 takes is of the connection in use.
LEMMA TakenIsOurs ==
  ASSUME NEW frames, Readable(frames), NEW n \in 1 .. Len(frames), frames[n].c = conn,
         n # 1 => frames[1].c = conn
  PROVE  Ours(frames[n], n)
<1>1. CASE AllOurs(frames)
  BY <1>1 DEF AllOurs
<1>2. CASE Stale(frames)
  BY <1>2 DEF Stale
<1> QED BY <1>1, <1>2 DEF Readable

LEMMA MadeByFrame ==
  ASSUME NEW m, Fitting(m), NEW f \in Frames, NEW k, NEW n, Ours(f, n), Goes(m, f, k),
         Answers(m.msg, m.dns)
  PROVE  Answers(k.msg, k.dns)
<1>1. m.msg \in Seq(Queries) /\ f.q \in Queries
  BY DEF Fitting, MsgStates, Frames
<1>2. CASE Notes(m, f, k)
  <2>1. k.dns = m.dns \/ (Headed(f.q) /\ said[f.q] = "dns")
    BY <1>2 DEF Notes, Ours
  <2>2. k.msg = m.msg
    BY <1>2 DEF Notes
  <2> QED BY <1>1, <2>1, <2>2, Zenon DEF Answers
<1>3. CASE Adds(m, f, k)
  <2>1. k.msg = Append(m.msg, f.q) /\ k.dns = m.dns /\ stage[f.q] # "unasked"
    BY <1>3 DEF Adds, Ours
  <2>2. ASSUME NEW i \in 1 .. Len(k.msg) PROVE stage[k.msg[i]] # "unasked"
    <3>1. Len(k.msg) = Len(m.msg) + 1 /\ Len(m.msg) \in Nat
      BY <1>1, <2>1
    <3>2. CASE i = Len(m.msg) + 1
      BY <1>1, <2>1, <3>2
    <3>3. CASE i \in 1 .. Len(m.msg)
      <4>1. k.msg[i] = m.msg[i]
        BY <1>1, <2>1, <3>3
      <4> QED BY <3>3, <4>1 DEF Answers
    <3> QED BY <3>1, <3>2, <3>3
  <2> QED BY <2>1, <2>2 DEF Answers
<1>4. CASE Resets(m, f, k)
  <2>1. k.msg = <<>> /\ k.dns = FALSE
    BY <1>4 DEF Resets
  <2> QED BY <2>1 DEF Answers
<1> QED BY <1>2, <1>3, <1>4 DEF Goes

LEMMA FrameHandled ==
  ASSUME NEW frames, Readable(frames), NEW n \in 1 .. Len(frames), NEW m, Handled(m, n - 1, frames),
         NEW k, k = OnFrame(m, frames[n])
  PROVE  Handled(k, n, frames)
<1>1. /\ Fitting(m) /\ m.used \in Nat /\ m.used <= n - 1 /\ n \in Nat /\ n >= 1
      /\ Len(frames) \in Nat
  BY DEF Handled, Progress, Fitting, MsgStates, Readable
<1>2. CASE ~Go(m)
  <2>1. k = m
    BY <1>2 DEF OnFrame
  <2>2. Progress(k, n)
    BY <1>1, <1>2, <2>1 DEF Handled, Progress
  <2>3. n - 1 # 0
    BY <1>1, <1>2 DEF Handled, Progress
  <2>4. Stopped(k, n, frames)
    BY <1>1, <2>1, <2>3 DEF Handled, Stopped
  <2> QED BY <2>1, <2>2, <2>4 DEF Handled
<1>3. CASE Go(m)
  <2> DEFINE f == frames[n]
  <2>1. f \in Frames /\ m.used = n - 1
    BY <1>3 DEF Readable, Handled, Progress
  <2>2. Fitting(k) /\ (Stops(m, f, k) \/ Goes(m, f, k))
    BY <1>1, <1>3, <2>1, FrameOutcome
  <2>3. n # 1 => frames[1].c = conn
    <3>1. m.end = "no"
      BY <1>3 DEF Go
    <3> QED BY <1>1, <3>1 DEF Handled, Stopped
  <2>4. f.c = conn => Ours(f, n)
    BY <2>3, TakenIsOurs
  <2>5. n = 1 => ~m.done
    BY <1>1 DEF Handled, Stopped
  <2> HIDE DEF f
  <2>6. CASE Stops(m, f, k)
    <3>1. PICK e \in {"paused", "error", "exited"} :
            /\ k = [m EXCEPT !.end = e]
            /\ e = "error" => f.c # conn \/ ~m.done
            /\ f.c # conn => e = "error"
            /\ e = "exited" => f.t = "E" /\ m.done /\ f.c = conn
      BY <2>6 DEF Stops
    <3>2. /\ k.msg = m.msg /\ k.done = m.done /\ k.dns = m.dns /\ k.drops = m.drops /\ k.used = m.used
          /\ k.end = e /\ ~Go(k)
      BY <1>1, <3>1, StopFields, Zenon
    <3>3. Progress(k, n)
      BY <1>1, <2>1, <2>2, <3>2 DEF Progress
    <3>4. e = "exited" => bare
      BY <2>4, <2>5, <3>1 DEF Ours
    <3>5. f.c # conn => n = 1
      <4>1. CASE AllOurs(frames)
        BY <4>1 DEF AllOurs, Ours, f
      <4>2. CASE Stale(frames)
        BY <2>3, <4>2 DEF Stale
      <4> QED BY <4>1, <4>2 DEF Readable
    <3>6. e = "error" => ~k.done
      BY <2>5, <3>1, <3>2, <3>5
    <3>7. frames[1].c # conn => e = "error"
      BY <1>1, <2>3, <3>1 DEF f
    <3>8. Stopped(k, n, frames)
      BY <1>1, <3>2, <3>4, <3>6, <3>7 DEF Stopped
    <3>9. ResetLast(k, frames) /\ Made(k)
      BY <3>2, Zenon DEF Handled, ResetLast, Made
    <3> QED BY <3>3, <3>8, <3>9 DEF Handled
  <2>7. CASE Goes(m, f, k)
    <3>1. k.end = "no" /\ k.used = n /\ f.c = conn /\ Ours(f, n)
      BY <1>1, <2>1, <2>4, <2>7 DEF Goes
    <3>2. Progress(k, n)
      BY <1>1, <2>2, <3>1 DEF Progress, Go
    <3>3. Stopped(k, n, frames)
      BY <1>1, <2>3, <3>1 DEF Stopped, f
    <3>4. Made(k)
      BY <1>1, <2>1, <2>7, <3>1, MadeByFrame DEF Handled, Made
    <3>5. ResetLast(k, frames)
      <4>1. CASE Resets(m, f, k)
        BY <1>1, <3>1, <4>1 DEF Resets, ResetLast, f
      <4>2. CASE k.drops = m.drops
        <5>1. m.drops > 0 => \E i \in 1 .. m.used : frames[i].t = "R"
          BY DEF Handled, ResetLast
        <5> QED BY <1>1, <2>1, <3>1, <4>2, <5>1 DEF ResetLast
      <4> QED BY <2>7, <4>1, <4>2 DEF Goes, Notes, Adds
    <3> QED BY <3>2, <3>3, <3>4, <3>5 DEF Handled
  <2> QED BY <2>2, <2>6, <2>7
<1> QED BY <1>2, <1>3

-----------------------------------------------------------------------------
(* What a step does to the types *)

Control ==
  /\ s_pc \in {"idle", "held", "send", "fatal"} /\ r_pc \in {"idle", "count", "fatal", "exited"}
  /\ got \in {"nothing", "own", "foreign", "any"}
Linked ==
  /\ is_conn_ready \in BOOLEAN /\ is_ssl_ready \in BOOLEAN /\ do_reconnect \in BOOLEAN
  /\ do_connect \in BOOLEAN /\ fd_open \in BOOLEAN /\ carried \in BOOLEAN /\ conn \in Conns
Timed == nqpc_recv \in Nat /\ nqpc_ts \in BOOLEAN /\ late \in BOOLEAN /\ outq \in 0 .. Parts
Buffered == recvbuf \in Seq(Frames) /\ down \in Seq(Frames)
Composed ==
  /\ dnsmsg \in Seq(Queries) /\ Len(dnsmsg) <= MsgMax
  /\ dnsmsg_completed \in BOOLEAN /\ http2_is_dns \in BOOLEAN
  /\ http2_code \in {NoCode, "200", "404"}
Peered ==
  /\ state \in {"connecting", "tcp", "up", "lost"} /\ stage \in [Queries -> Stages]
  /\ said \in [Queries -> Says \union {NoCode}] /\ bare \in BOOLEAN

LEMMA Typed ==
  ASSUME Types, nqpc_sent \in Nat, requests \in Nat, Control, Linked, Timed, Buffered, Composed, Peered
  PROVE  TypeOK
<1> QED BY Zenon DEF Types, Control, Linked, Timed, Buffered, Composed, Peered, TypeOK

LEMMA TypesSplit ==
  ASSUME TypeOK
  PROVE  Control /\ Linked /\ Timed /\ Buffered /\ Composed /\ Peered
<1> QED BY Zenon DEF Control, Linked, Timed, Buffered, Composed, Peered, TypeOK

LEMMA ConnNat ==
  ASSUME TypeOK
  PROVE  conn \in Nat
<1>1. conn \in Conns
  BY TypesSplit, Zenon DEF Linked
<1> QED BY <1>1, DohAssumption DEF Conns

LEMMA TypedInit ==
  ASSUME Init
  PROVE  TypeOK
<1>1. Types /\ nqpc_sent \in Nat /\ requests \in Nat
  BY InitHolds, CountedInit DEF DohInv, Counted
<1>2. Control /\ Linked
  <2>1. conn \in Conns
    BY DohAssumption DEF Init, Conns
  <2> QED BY <2>1, Zenon DEF Init, Control, Linked
<1>3. Timed
  <2>1. 0 \in Nat /\ 0 \in 0 .. Parts
    BY DEF Parts
  <2> QED BY <2>1, Zenon DEF Init, Timed
<1>4. Buffered /\ Composed
  <2>1. recvbuf \in Seq(Frames) /\ down \in Seq(Frames) /\ dnsmsg \in Seq(Queries) /\ Len(dnsmsg) <= MsgMax
    BY DohAssumption DEF Init
  <2> QED BY <2>1, Zenon DEF Init, Buffered, Composed
<1>5. Peered
  <2>1. state \in {"connecting", "tcp", "up", "lost"} /\ bare \in BOOLEAN
    BY Zenon DEF Init
  <2>2. stage \in [Queries -> Stages] /\ said \in [Queries -> Says \union {NoCode}]
    BY DEF Init, Stages
  <2> QED BY <2>1, <2>2 DEF Peered
<1> QED BY <1>1, <1>2, <1>3, <1>4, <1>5, Typed

LEMMA LinkedKept ==
  ASSUME Linked, Next
  PROVE  Linked'
<1>1. CASE ReadyConnect
  <2>1. conn' \in Conns
    <3>1. conn \in 1 .. MaxConns /\ conn < MaxConns /\ conn' = conn + 1
      BY <1>1 DEF ReadyConnect, Linked, Conns
    <3> QED BY <3>1, DohAssumption DEF Conns
  <2>2. is_ssl_ready' \in BOOLEAN
    BY <1>1, Zenon DEF ReadyConnect, Linked
  <2>3. /\ is_conn_ready' \in BOOLEAN /\ do_reconnect' = FALSE /\ do_connect' = FALSE
        /\ fd_open' = TRUE /\ carried' \in BOOLEAN
    BY <1>1 DEF ReadyConnect
  <2> QED BY <2>1, <2>2, <2>3, Zenon DEF Linked
<1>2. CASE Flush
  <2>1. do_reconnect' \in BOOLEAN
    BY <1>2, Zenon DEF Flush, Linked
  <2> QED BY <1>2, <2>1, Zenon DEF Flush, link, Linked
<1>3. CASE FlushFail \/ SendFail
  <2>1. SendsFail
    BY <1>3 DEF FlushFail, SendFail
  <2> QED BY <2>1, Zenon DEF SendsFail, Drop, link, Linked
<1>4. CASE ShakeWant \/ ShakeFail \/ ShakeDone
  <2>1. is_conn_ready' \in BOOLEAN /\ is_ssl_ready' \in BOOLEAN /\ do_reconnect' \in BOOLEAN
    BY <1>4, Zenon DEF ShakeWant, ShakeFail, ShakeDone, Linked
  <2>2. do_connect' = do_connect /\ UNCHANGED link
    BY <1>4, Zenon DEF ShakeWant, ShakeFail, ShakeDone
  <2> QED BY <2>1, <2>2, Zenon DEF link, Linked
<1>5. CASE SendLost \/ SendTo \/ SendNothing
  <2>1. UNCHANGED <<session, link>>
    BY <1>5 DEF SendLost, SendTo, SendNothing
  <2> QED BY <2>1 DEF session, link, Linked
<1>6. CASE Recv \/ RecvDrop \/ RecvFatal \/ RecvCount
  <2>1. carried' \in BOOLEAN
    BY <1>6, Zenon DEF Recv, RecvDrop, RecvFatal, RecvCount, Linked
  <2>2. do_reconnect' = do_reconnect /\ (Drop \/ NoDrop)
    BY <1>6, Zenon DEF Recv, RecvDrop, RecvFatal, RecvCount, RTFrame
  <2> QED BY <2>1, <2>2, Zenon DEF Drop, NoDrop, Linked
<1>7. CASE Accept \/ Respond \/ Lose \/ Late
  <2>1. PeerFrame
    BY <1>7 DEF Accept, Respond, Answer, Lose, Late
  <2> QED BY <2>1 DEF PeerFrame, session, link, Linked
<1> QED BY <1>1, <1>2, <1>3, <1>4, <1>5, <1>6, <1>7 DEF Next

LEMMA TimedKept ==
  ASSUME Timed, Next
  PROVE  Timed'
<1>1. CASE ReadyConnect
  <2>1. 0 \in Nat /\ 0 \in 0 .. Parts
    BY DEF Parts
  <2>2. nqpc_recv' = 0 /\ nqpc_ts' = FALSE /\ late' = FALSE /\ outq' = 0
    BY <1>1 DEF ReadyConnect
  <2> QED BY <2>1, <2>2, Zenon DEF Timed
<1>2. CASE Flush
  <2>1. nqpc_recv' = nqpc_recv /\ late' = late
    BY <1>2 DEF Flush, STFrame
  <2>2. nqpc_ts' \in BOOLEAN
    BY <1>2, Zenon DEF Flush, Timed
  <2>3. PICK left \in 0 .. outq : outq' = left
    BY <1>2 DEF Flush, Sends
  <2>4. outq' \in 0 .. Parts
    BY <2>3 DEF Timed, Parts
  <2> QED BY <2>1, <2>2, <2>4 DEF Timed
<1>3. CASE SendTo
  <2>1. nqpc_recv' = nqpc_recv /\ late' = late /\ nqpc_ts' = nqpc_ts
    BY <1>3 DEF SendTo, STFrame
  <2>2. outq' = outq \/ outq' \in 0 .. Parts
    BY <1>3, Zenon DEF SendTo, Sends, query
  <2> QED BY <2>1, <2>2 DEF Timed
<1>4. CASE FlushFail \/ SendFail
  <2>1. nqpc_recv' = nqpc_recv /\ UNCHANGED counts
    BY <1>4 DEF FlushFail, SendFail, SendsFail, STFrame
  <2>2. outq' = outq \/ outq' = Parts
    BY <1>4 DEF FlushFail, SendFail
  <2>3. Parts \in 0 .. Parts
    BY DEF Parts
  <2> QED BY <2>1, <2>2, <2>3, Zenon DEF counts, Timed
<1>5. CASE ShakeWant \/ ShakeFail \/ ShakeDone \/ SendLost \/ SendNothing
  <2>1. UNCHANGED <<query, counts>> /\ STFrame
    BY <1>5, Zenon DEF ShakeWant, ShakeFail, ShakeDone, SendLost, SendNothing
  <2> QED BY <2>1 DEF query, counts, STFrame, Timed
<1>6. CASE Recv \/ RecvDrop \/ RecvFatal \/ RecvCount
  <2>1. RTFrame
    BY <1>6, Zenon DEF Recv, RecvDrop, RecvFatal, RecvCount
  <2>2. nqpc_recv' = nqpc_recv \/ nqpc_recv' = nqpc_recv + 1
    BY <1>6 DEF Recv, RecvDrop, RecvFatal, RecvCount
  <2> QED BY <2>1, <2>2 DEF RTFrame, counts, Timed
<1>7. CASE Accept \/ Respond \/ Lose \/ Late
  <2>1. PeerFrame /\ (late' = late \/ late' = TRUE)
    BY <1>7 DEF Accept, Respond, Answer, Lose, Late
  <2> QED BY <2>1, Zenon DEF PeerFrame, query, Timed
<1> QED BY <1>1, <1>2, <1>3, <1>4, <1>5, <1>6, <1>7 DEF Next

\* The message is left alone, cleared, or read.
LEMMA MessageStep ==
  ASSUME Next, ~Recv
  PROVE  \/ UNCHANGED message
         \/ dnsmsg' = <<>> /\ dnsmsg_completed' = FALSE /\ http2_code' = NoCode /\ http2_is_dns' = FALSE
<1>1. ASSUME SetMessage(Cleared(Message))
      PROVE  dnsmsg' = <<>> /\ dnsmsg_completed' = FALSE /\ http2_code' = NoCode /\ http2_is_dns' = FALSE
  BY <1>1 DEF SetMessage, Cleared, Message
<1>2. CASE ReadyConnect
  BY <1>1, <1>2, Zenon DEF ReadyConnect
<1>3. CASE Flush \/ ShakeWant \/ ShakeFail \/ ShakeDone \/ SendLost \/ SendTo \/ SendNothing
  BY <1>3, Zenon DEF Flush, ShakeWant, ShakeFail, ShakeDone, SendLost, SendTo, SendNothing
<1>4. CASE FlushFail \/ SendFail
  BY <1>1, <1>4, Zenon DEF FlushFail, SendFail, SendsFail
<1>5. CASE RecvDrop \/ RecvFatal \/ RecvCount
  BY <1>1, <1>5, Zenon DEF RecvDrop, RecvFatal, RecvCount
<1>6. CASE Accept \/ Respond \/ Lose \/ Late
  <2>1. PeerFrame
    BY <1>6 DEF Accept, Respond, Answer, Lose, Late
  <2> QED BY <2>1, Zenon DEF PeerFrame
<1> QED BY <1>2, <1>3, <1>4, <1>5, <1>6, Zenon DEF Next

LEMMA ComposedKept ==
  ASSUME Composed, Next, ~Recv
  PROVE  Composed'
<1>1. CASE UNCHANGED message
  BY <1>1, Zenon DEF message, Composed
<1>2. CASE dnsmsg' = <<>> /\ dnsmsg_completed' = FALSE /\ http2_code' = NoCode /\ http2_is_dns' = FALSE
  <2>1. dnsmsg' \in Seq(Queries) /\ Len(dnsmsg') <= MsgMax
    BY <1>2, DohAssumption
  <2> QED BY <1>2, <2>1, Zenon DEF Composed
<1> QED BY <1>1, <1>2, MessageStep, Zenon

LEMMA ControlKept ==
  ASSUME Control, Next
  PROVE  Control'
<1>1. CASE ReadyConnect \/ SendTo \/ SendFail \/ FlushFail
  <2>1. UNCHANGED <<r_pc, got>> /\ s_pc' \in {"idle", "held", "fatal"}
    BY <1>1 DEF ReadyConnect, SendTo, SendFail, FlushFail, STFrame
  <2> QED BY <2>1 DEF Control
<1>2. CASE Flush \/ ShakeWant \/ ShakeFail \/ ShakeDone \/ SendLost \/ SendNothing
  <2>1. UNCHANGED <<r_pc, got>> /\ s_pc' \in {"idle", "send"}
    BY <1>2, Zenon DEF Flush, ShakeWant, ShakeFail, ShakeDone, SendLost, SendNothing, STFrame
  <2> QED BY <2>1 DEF Control
<1>3. CASE Recv
  <2>1. s_pc' = s_pc /\ r_pc' \in {"idle", "count", "fatal", "exited"}
    BY <1>3 DEF Recv, RTFrame
  <2>2. got' = got \/ \E msg : got' = Whose(msg)
    BY <1>3, Zenon DEF Recv
  <2>3. ASSUME NEW msg PROVE Whose(msg) \in {"own", "foreign", "any"}
    BY DEF Whose
  <2> QED BY <2>1, <2>2, <2>3 DEF Control
<1>4. CASE RecvDrop \/ RecvFatal \/ RecvCount
  <2>1. UNCHANGED <<s_pc, got>> /\ (r_pc' = r_pc \/ r_pc' \in {"idle", "fatal"})
    BY <1>4 DEF RecvDrop, RecvFatal, RecvCount, RTFrame
  <2> QED BY <2>1 DEF Control
<1>5. CASE Accept \/ Respond \/ Lose \/ Late
  <2>1. PeerFrame
    BY <1>5 DEF Accept, Respond, Answer, Lose, Late
  <2> QED BY <2>1 DEF PeerFrame, Control
<1> QED BY <1>1, <1>2, <1>3, <1>4, <1>5 DEF Next

-----------------------------------------------------------------------------
(* What a step does to the answers of the peer *)

\* The queries asked on a connection are the last ones submitted, and not the one
\* that is being written.
Asked ==
  /\ \A q \in Queries : stage[q] # "unasked" => q <= qid /\ q > qid - requests
  /\ outq > 0 => requests > 0 /\ (qid \in Queries => stage[qid] = "unasked")

Kinds == {"H", "d", "D", "E", "R"}

\* Nothing, a new connection, the end of a request, or a frame of an answer
Still == UNCHANGED <<conn, stage, said, bare>>
Begun ==
  /\ ReadyConnect
  /\ conn' = conn + 1 /\ outq' = 0 /\ down' = <<>> /\ bare' = FALSE
  /\ stage' = [q \in Queries |-> "unasked"] /\ said' = [q \in Queries |-> NoCode]
Arrived(q) ==
  /\ UNCHANGED <<conn, said, bare>>
  /\ stage[q] = "unasked" /\ stage' = [stage EXCEPT ![q] = "asked"]
Replied(q, t, v, to) ==
  /\ conn' = conn /\ t \in Kinds /\ to \in {"headed", "body", "answered"}
  /\ stage[q] # "unasked" /\ stage' = [stage EXCEPT ![q] = to]
  /\ t = "H" => stage[q] = "asked"
  /\ down' = Append(down, Frame(q, t, v))
  /\ said' = IF t = "H" THEN [said EXCEPT ![q] = v] ELSE said
  /\ bare' = (bare \/ t = "E")
StageStep ==
  \/ Still \/ Begun
  \/ \E q \in Queries : Arrived(q)
  \/ \E q \in Queries, v \in Says, t \in Kinds, to \in Stages : Replied(q, t, v, to)

LEMMA SendsStage ==
  ASSUME NEW q, NEW from, NEW left, Sends(q, from, left)
  PROVE  /\ UNCHANGED <<said, bare>>
         /\ \/ stage' = stage
            \/ q \in Queries /\ from > 0 /\ outq' = 0 /\ stage' = [stage EXCEPT ![q] = "asked"]
<1> QED BY DEF Sends

\* sendto submits the next query, which no one has asked yet.
LEMMA NextUnasked ==
  ASSUME TypeOK, Asked, InSend, Submit
  PROVE  qid' \in Queries /\ stage[qid'] = "unasked"
<1>1. qid \in 0 .. MaxQueries /\ qid < MaxQueries /\ qid' = qid + 1
  BY DEF TypeOK, InSend, Submit
<1>2. qid' \in Queries /\ ~(qid' <= qid)
  BY <1>1, DohAssumption DEF Queries
<1> QED BY <1>2 DEF Asked

LEMMA ReplyStep ==
  ASSUME Respond
  PROVE  \E q \in Queries, v \in Says, t \in Kinds, to \in Stages : Replied(q, t, v, to)
<1>1. PICK q \in Queries, v \in Says :
        \/ Answer(q, {"asked"}, "H", v, "headed")
        \/ v = "dns" /\ \/ Answer(q, {"headed"}, "d", v, "body")
                        \/ Answer(q, {"headed", "body"}, "D", v, "answered")
                        \/ Answer(q, {"headed", "body"}, "E", v, "answered")
                        \/ Answer(q, {"asked", "headed", "body"}, "R", v, "answered")
  BY DEF Respond
<1>2. ASSUME NEW from, NEW t \in Kinds, NEW to \in {"headed", "body", "answered"},
             Answer(q, from, t, v, to), "unasked" \notin from, t = "H" => from = {"asked"}
      PROVE  Replied(q, t, v, to) /\ t \in Kinds /\ to \in Stages
  <2>1. conn' = conn
    BY <1>2 DEF Answer, PeerFrame, link
  <2>2. stage[q] # "unasked" /\ (t = "H" => stage[q] = "asked")
    BY <1>2 DEF Answer
  <2>3. Replied(q, t, v, to)
    BY <1>2, <2>1, <2>2, Zenon DEF Answer, Replied
  <2> QED BY <2>3 DEF Stages
<1>3. CASE Answer(q, {"asked"}, "H", v, "headed")
  <2>1. Replied(q, "H", v, "headed") /\ "H" \in Kinds /\ "headed" \in Stages
    BY <1>2, <1>3 DEF Kinds
  <2> QED BY <2>1
<1>4. CASE Answer(q, {"headed"}, "d", v, "body")
  <2>1. Replied(q, "d", v, "body") /\ "d" \in Kinds /\ "body" \in Stages
    BY <1>2, <1>4 DEF Kinds
  <2> QED BY <2>1
<1>5. CASE Answer(q, {"headed", "body"}, "D", v, "answered")
  <2>1. Replied(q, "D", v, "answered") /\ "D" \in Kinds /\ "answered" \in Stages
    BY <1>2, <1>5 DEF Kinds
  <2> QED BY <2>1
<1>6. CASE Answer(q, {"headed", "body"}, "E", v, "answered")
  <2>1. Replied(q, "E", v, "answered") /\ "E" \in Kinds /\ "answered" \in Stages
    BY <1>2, <1>6 DEF Kinds
  <2> QED BY <2>1
<1>7. CASE Answer(q, {"asked", "headed", "body"}, "R", v, "answered")
  <2>1. Replied(q, "R", v, "answered") /\ "R" \in Kinds /\ "answered" \in Stages
    BY <1>2, <1>7 DEF Kinds
  <2> QED BY <2>1
<1> QED BY <1>1, <1>3, <1>4, <1>5, <1>6, <1>7

LEMMA StageStepped ==
  ASSUME TypeOK, Asked, Next
  PROVE  StageStep
<1>1. CASE ReadyConnect
  BY <1>1 DEF ReadyConnect, StageStep, Begun
<1>2. CASE Flush
  <2>1. conn' = conn
    BY <1>2 DEF Flush, link
  <2>2. PICK left \in 0 .. outq : Sends(qid, outq, left)
    BY <1>2 DEF Flush
  <2>3. /\ UNCHANGED <<said, bare>>
        /\ \/ stage' = stage
           \/ qid \in Queries /\ outq > 0 /\ stage' = [stage EXCEPT ![qid] = "asked"]
    BY <2>2, SendsStage, Zenon
  <2>4. Still \/ (qid \in Queries /\ Arrived(qid))
    BY <2>1, <2>3 DEF Still, Arrived, Asked
  <2> QED BY <2>4 DEF StageStep
<1>3. CASE SendTo
  <2>1. conn' = conn
    BY <1>3 DEF SendTo, link
  <2>2. CASE is_sending
    <3>1. UNCHANGED <<stage, said, bare>>
      BY <1>3, <2>2 DEF SendTo, peer
    <3> QED BY <2>1, <3>1 DEF Still, StageStep
  <2>3. CASE ~is_sending
    <3>1. PICK left \in 0 .. Parts : Sends(qid', Parts, left)
      BY <1>3, <2>3 DEF SendTo
    <3>2. qid' \in Queries /\ stage[qid'] = "unasked"
      BY <1>3, <2>3, NextUnasked DEF SendTo
    <3>3. UNCHANGED <<said, bare>> /\ (stage' = stage \/ stage' = [stage EXCEPT ![qid'] = "asked"])
      BY <3>1 DEF Sends
    <3>4. PICK q \in Queries : q = qid'
      BY <3>2
    <3>5. Still \/ Arrived(q)
      BY <2>1, <3>2, <3>3, <3>4 DEF Still, Arrived
    <3> QED BY <3>5 DEF StageStep
  <2> QED BY <2>2, <2>3
<1>4. CASE FlushFail \/ SendFail
  <2>1. SendsFail
    BY <1>4 DEF FlushFail, SendFail
  <2>2. Still
    BY <2>1, Zenon DEF SendsFail, Drop, link, peer, Still
  <2> QED BY <2>2 DEF StageStep
<1>5. CASE ShakeWant \/ ShakeFail \/ ShakeDone \/ SendLost \/ SendNothing
  <2>1. UNCHANGED link /\ UNCHANGED <<stage, said, bare>>
    BY <1>5, Zenon DEF ShakeWant, ShakeFail, ShakeDone, SendLost, SendNothing, peer
  <2> QED BY <2>1 DEF link, Still, StageStep
<1>6. CASE Recv \/ RecvDrop \/ RecvFatal \/ RecvCount
  <2>1. RTFrame /\ (Drop \/ NoDrop)
    BY <1>6, Zenon DEF Recv, RecvDrop, RecvFatal, RecvCount
  <2>2. Still
    BY <2>1, Zenon DEF RTFrame, Drop, NoDrop, Still
  <2> QED BY <2>2 DEF StageStep
<1>7. CASE Respond
  BY <1>7, ReplyStep DEF StageStep
<1>8. CASE Accept \/ Lose \/ Late
  <2>1. PeerFrame /\ UNCHANGED <<stage, said, bare>>
    BY <1>8 DEF Accept, Lose, Late, peer
  <2> QED BY <2>1 DEF PeerFrame, link, Still, StageStep
<1> QED BY <1>1, <1>2, <1>3, <1>4, <1>5, <1>6, <1>7, <1>8 DEF Next

LEMMA PeeredKept ==
  ASSUME TypeOK, Asked, Next
  PROVE  Peered'
<1>1. Peered
  BY TypesSplit
<1>2. state' \in {"connecting", "tcp", "up", "lost"}
  <2>1. CASE ReadyConnect \/ ShakeDone \/ Accept \/ Lose
    BY <2>1 DEF ReadyConnect, ShakeDone, Accept, Lose
  <2>2. CASE Flush \/ FlushFail \/ SendTo \/ SendFail
    <3>1. state' = state
      BY <2>2, Zenon DEF Flush, FlushFail, SendTo, SendFail, SendsFail, Sends, peer
    <3> QED BY <1>1, <3>1 DEF Peered
  <2>3. CASE ShakeWant \/ ShakeFail \/ SendLost \/ SendNothing \/ Respond \/ Late
    <3>1. state' = state
      BY <2>3, Zenon DEF ShakeWant, ShakeFail, SendLost, SendNothing, Respond, Answer, Late, peer
    <3> QED BY <1>1, <3>1 DEF Peered
  <2>4. CASE Recv \/ RecvDrop \/ RecvFatal \/ RecvCount
    <3>1. state' = state
      BY <2>4 DEF Recv, RecvDrop, RecvFatal, RecvCount, RTFrame
    <3> QED BY <1>1, <3>1 DEF Peered
  <2> QED BY <2>1, <2>2, <2>3, <2>4 DEF Next
<1>3. CASE Still
  BY <1>1, <1>2, <1>3, Zenon DEF Still, Peered
<1>4. CASE Begun
  <2>1. stage' \in [Queries -> Stages] /\ said' \in [Queries -> Says \union {NoCode}]
    BY <1>4 DEF Begun, Stages
  <2>2. bare' \in BOOLEAN
    BY <1>4, Zenon DEF Begun
  <2> QED BY <1>2, <2>1, <2>2 DEF Peered
<1>5. ASSUME NEW q \in Queries, Arrived(q) PROVE Peered'
  <2>1. stage' \in [Queries -> Stages]
    BY <1>1, <1>5 DEF Arrived, Peered, Stages
  <2> QED BY <1>1, <1>2, <1>5, <2>1, Zenon DEF Arrived, Peered
<1>6. ASSUME NEW q \in Queries, NEW v \in Says, NEW t \in Kinds, NEW to \in Stages, Replied(q, t, v, to)
      PROVE  Peered'
  <2>1. stage' \in [Queries -> Stages]
    BY <1>1, <1>6 DEF Replied, Peered
  <2>2. said' \in [Queries -> Says \union {NoCode}]
    BY <1>1, <1>6 DEF Replied, Peered
  <2>3. bare' \in BOOLEAN
    BY <1>6 DEF Replied
  <2> QED BY <1>2, <2>1, <2>2, <2>3 DEF Peered
<1> QED BY <1>3, <1>4, <1>5, <1>6, StageStepped DEF StageStep

\* One more request, the last, is submitted; it may have arrived.
LEMMA AskedOneMore ==
  ASSUME TypeOK, Asked, InSend, Submit, outq' \in Nat,
         \/ stage' = stage
         \/ outq' = 0 /\ stage' = [stage EXCEPT ![qid'] = "asked"]
  PROVE  Asked'
<1>1. /\ qid \in Nat /\ requests \in Nat /\ qid' = qid + 1 /\ requests' = requests + 1
      /\ stage \in [Queries -> Stages] /\ \A q \in Queries : q \in Nat
  BY DohAssumption DEF TypeOK, Submit, Queries
<1>2. stage[qid'] = "unasked" /\ qid' \in Queries
  BY NextUnasked
<1>3. ASSUME NEW q \in Queries, stage'[q] # "unasked" PROVE q <= qid' /\ q > qid' - requests'
  <2>1. CASE q = qid'
    BY <1>1, <2>1
  <2>2. CASE q # qid'
    <3>1. stage[q] # "unasked"
      BY <1>1, <1>2, <1>3, <2>2
    <3>2. q <= qid /\ q > qid - requests
      BY <3>1 DEF Asked
    <3> QED BY <1>1, <3>2
  <2> QED BY <2>1, <2>2
<1>4. outq' > 0 => requests' > 0 /\ stage'[qid'] = "unasked"
  BY <1>1, <1>2
<1> QED BY <1>3, <1>4 DEF Asked

\* The submitted requests are the same: one of them arrives, or an answer goes on.
LEMMA AskedSame ==
  ASSUME TypeOK, Asked, UNCHANGED <<qid, requests>>,
         \/ UNCHANGED <<stage, outq>>
         \/ stage' = stage /\ outq > 0
         \/ outq > 0 /\ outq' = 0 /\ stage' = [stage EXCEPT ![qid] = "asked"]
         \/ outq' = outq /\ \E q \in Queries : /\ stage[q] # "unasked"
                                               /\ \A r \in Queries : r # q => stage'[r] = stage[r]
  PROVE  Asked'
<1>1. qid \in Nat /\ requests \in Nat /\ stage \in [Queries -> Stages] /\ outq \in Nat
  BY DEF TypeOK, Parts
<1>2. CASE stage' = stage /\ (outq' = outq \/ outq > 0)
  BY <1>2 DEF Asked
<1>3. CASE outq > 0 /\ outq' = 0 /\ stage' = [stage EXCEPT ![qid] = "asked"]
  <2>1. ASSUME NEW q \in Queries, stage'[q] # "unasked" PROVE q <= qid /\ q > qid - requests
    <3>1. CASE q = qid
      BY <1>1, <1>3, <3>1 DEF Asked
    <3>2. CASE q # qid
      BY <1>1, <1>3, <2>1, <3>2 DEF Asked
    <3> QED BY <3>1, <3>2
  <2>2. ~(outq' > 0)
    BY <1>3
  <2> QED BY <2>1, <2>2 DEF Asked
<1>4. ASSUME NEW q \in Queries, stage[q] # "unasked", outq' = outq,
             \A r \in Queries : r # q => stage'[r] = stage[r]
      PROVE  Asked'
  <2>1. ASSUME NEW r \in Queries, stage'[r] # "unasked" PROVE r <= qid /\ r > qid - requests
    BY <1>4, <2>1 DEF Asked
  <2>2. outq > 0 => requests > 0 /\ (qid \in Queries => stage'[qid] = "unasked")
    BY <1>4 DEF Asked
  <2> QED BY <1>4, <2>1, <2>2 DEF Asked
<1> QED BY <1>2, <1>3, <1>4

LEMMA AskedKept ==
  ASSUME TypeOK, Asked, Next
  PROVE  Asked'
<1>1. CASE ReadyConnect
  <2>1. stage' = [q \in Queries |-> "unasked"] /\ outq' = 0
    BY <1>1 DEF ReadyConnect
  <2> QED BY <2>1 DEF Asked
<1>2. CASE Flush
  <2>1. UNCHANGED <<qid, requests>>
    BY <1>2 DEF Flush
  <2>2. PICK left \in 0 .. outq : Sends(qid, outq, left)
    BY <1>2 DEF Flush
  <2>3. \/ stage' = stage
        \/ outq > 0 /\ outq' = 0 /\ stage' = [stage EXCEPT ![qid] = "asked"]
    BY <2>2, SendsStage, Zenon
  <2>4. outq > 0 \/ outq' = outq
    BY <2>2 DEF Sends, TypeOK, Parts
  <2>5. \/ UNCHANGED <<stage, outq>>
        \/ stage' = stage /\ outq > 0
        \/ outq > 0 /\ outq' = 0 /\ stage' = [stage EXCEPT ![qid] = "asked"]
    BY <2>3, <2>4
  <2> QED BY <2>1, <2>5, AskedSame
<1>3. CASE SendTo /\ ~is_sending
  <2>1. PICK left \in 0 .. Parts : Sends(qid', Parts, left)
    BY <1>3 DEF SendTo
  <2>2. outq' \in Nat
    BY <2>1 DEF Sends, Parts
  <2>3. stage' = stage \/ (outq' = 0 /\ stage' = [stage EXCEPT ![qid'] = "asked"])
    BY <2>1 DEF Sends, Parts
  <2> QED BY <1>3, <2>2, <2>3, AskedOneMore DEF SendTo
<1>4. CASE SendFail
  <2>1. outq' \in Nat /\ stage' = stage
    BY <1>4 DEF SendFail, SendsFail, peer, Parts
  <2> QED BY <1>4, <2>1, AskedOneMore DEF SendFail
<1>5. CASE FlushFail \/ (SendTo /\ is_sending)
  <2>1. UNCHANGED <<qid, requests, stage, outq>>
    BY <1>5 DEF FlushFail, SendTo, SendsFail, peer, query
  <2> QED BY <2>1, AskedSame
<1>6. CASE ShakeWant \/ ShakeFail \/ ShakeDone \/ SendLost \/ SendNothing
  <2>1. UNCHANGED query /\ stage' = stage
    BY <1>6, Zenon DEF ShakeWant, ShakeFail, ShakeDone, SendLost, SendNothing, peer
  <2> QED BY <2>1, AskedSame DEF query
<1>7. CASE Recv \/ RecvDrop \/ RecvFatal \/ RecvCount
  <2>1. RTFrame
    BY <1>7, Zenon DEF Recv, RecvDrop, RecvFatal, RecvCount
  <2> QED BY <2>1, AskedSame DEF RTFrame
<1>8. CASE Respond
  <2>1. UNCHANGED query
    BY <1>8 DEF Respond, Answer, PeerFrame
  <2>2. PICK q \in Queries, v \in Says, t \in Kinds, to \in Stages : Replied(q, t, v, to)
    BY <1>8, ReplyStep
  <2>3. stage[q] # "unasked" /\ \A r \in Queries : r # q => stage'[r] = stage[r]
    BY <2>2 DEF Replied, TypeOK
  <2> QED BY <2>1, <2>3, AskedSame DEF query
<1>9. CASE Accept \/ Lose \/ Late
  <2>1. UNCHANGED query /\ stage' = stage
    BY <1>9 DEF Accept, Lose, Late, PeerFrame, peer
  <2> QED BY <2>1, AskedSame DEF query
<1> QED BY <1>1, <1>2, <1>3, <1>4, <1>5, <1>6, <1>7, <1>8, <1>9 DEF Next

\* The frames that answer a query of the connection in use: the first to be read may
\* be the end left of a chunk, the others may not.
First == {f \in Frames : Ours(f, 1)}
Later == {f \in Frames : Ours(f, 2)}

\* A step that makes no new connection takes nothing back.
Grown ==
  /\ conn' = conn /\ (bare => bare')
  /\ \A q \in Queries : stage[q] # "unasked" => stage'[q] # "unasked"
  /\ \A q \in Queries : Headed(q) => stage'[q] \notin {"unasked", "asked"} /\ said'[q] = said[q]

LEMMA BegunOrGrown ==
  ASSUME TypeOK, Asked, Next
  PROVE  Begun \/ Grown
<1>1. stage \in [Queries -> Stages] /\ said \in [Queries -> Says \union {NoCode}] /\ bare \in BOOLEAN
  BY DEF TypeOK
<1>2. CASE Still
  BY <1>2 DEF Still, Grown, Headed
<1>3. ASSUME NEW q \in Queries, Arrived(q) PROVE Grown
  <2>1. conn' = conn /\ (bare => bare')
    BY <1>3 DEF Arrived
  <2>2. ASSUME NEW r \in Queries, stage[r] # "unasked" PROVE stage'[r] = stage[r] /\ said'[r] = said[r]
    BY <1>1, <1>3, <2>2 DEF Arrived
  <2> QED BY <2>1, <2>2 DEF Grown, Headed
<1>4. ASSUME NEW q \in Queries, NEW v \in Says, NEW t \in Kinds, NEW to \in Stages, Replied(q, t, v, to)
      PROVE  Grown
  <2>1. conn' = conn /\ (bare => bare')
    BY <1>4, Zenon DEF Replied
  <2>2. ASSUME NEW r \in Queries, stage[r] # "unasked"
        PROVE  stage'[r] # "unasked" /\ (stage[r] # "asked" => stage'[r] # "asked")
    BY <1>1, <1>4, <2>2 DEF Replied
  <2>3. ASSUME NEW r \in Queries, Headed(r) PROVE said'[r] = said[r]
    <3>1. CASE t # "H"
      BY <1>4, <3>1 DEF Replied
    <3>2. CASE t = "H"
      <4>1. stage[q] = "asked" /\ said' = [said EXCEPT ![q] = v]
        BY <1>4, <3>2 DEF Replied
      <4> QED BY <1>1, <2>3, <4>1 DEF Headed
    <3> QED BY <3>1, <3>2
  <2> QED BY <2>1, <2>2, <2>3 DEF Grown, Headed
<1> QED BY <1>2, <1>3, <1>4, StageStepped DEF StageStep

LEMMA OursGrow ==
  ASSUME Grown
  PROVE  First \subseteq First' /\ Later \subseteq Later'
<1>1. ASSUME NEW f \in Frames PROVE f.q \in Queries
  BY DEF Frames
<1>2. ASSUME NEW f \in First PROVE f \in First'
  BY <1>1, <1>2 DEF First, Ours, Grown, Headed
<1>3. ASSUME NEW f \in Later PROVE f \in Later'
  BY <1>1, <1>3 DEF Later, Ours, Grown, Headed
<1> QED BY <1>2, <1>3

\* Every frame on its way is of this connection; what was read and not used yet is
\* too, or it begins with what an earlier connection has left.
Usable(frames) == \A i \in 1 .. Len(frames) : frames[i] \in First /\ (i # 1 => frames[i] \in Later)
Coming == \A i \in 1 .. Len(down) : down[i] \in Later
Held ==
  /\ \A i \in 1 .. Len(recvbuf) : recvbuf[i].c <= conn
  /\ Usable(recvbuf) \/ (carried /\ Stale(recvbuf))

LEMMA FrameKinds ==
  Later \subseteq First /\ \A f \in First : f \in Frames /\ f.c = conn
<1> QED BY DEF First, Later, Ours

LEMMA UsableOurs ==
  ASSUME NEW frames \in Seq(Frames)
  PROVE  Usable(frames) <=> AllOurs(frames)
<1>1. ASSUME NEW i \in 1 .. Len(frames)
      PROVE  Ours(frames[i], i) <=> (frames[i] \in First /\ (i # 1 => frames[i] \in Later))
  <2>1. frames[i] \in Frames /\ i \in Nat
    OBVIOUS
  <2>2. 2 # 1
    OBVIOUS
  <2> QED BY <2>1, <2>2, Zenon DEF First, Later, Ours
<1> QED BY <1>1, Zenon DEF Usable, AllOurs

\* An element after a sequence, or before it
Added(S, s, x, l) ==
  l \in Seq(S) /\ \A i \in 1 .. Len(l) : l[i] = x \/ (i \in 1 .. Len(s) /\ l[i] = s[i])
Pushed(S, s, x, l) ==
  /\ l \in Seq(S) /\ l[1] = x
  /\ \A i \in 1 .. Len(l) : i # 1 => i - 1 \in 1 .. Len(s) /\ l[i] = s[i - 1]

LEMMA AddedLemma ==
  ASSUME NEW S, NEW s \in Seq(S), NEW x \in S, NEW l, l = Append(s, x)
  PROVE  Added(S, s, x, l)
<1>1. PICK n \in Nat : n = Len(s)
  OBVIOUS
<1>2. l \in Seq(S) /\ Len(l) = n + 1
  BY <1>1
<1>3. ASSUME NEW i \in 1 .. n + 1 PROVE l[i] = x \/ (i \in 1 .. n /\ l[i] = s[i])
  BY <1>1
<1> QED BY <1>1, <1>2, <1>3, Zenon DEF Added

LEMMA PushedLemma ==
  ASSUME NEW S, NEW s \in Seq(S), NEW x \in S, NEW l, l = <<x>> \o s
  PROVE  Pushed(S, s, x, l)
<1>1. PICK n \in Nat : n = Len(s)
  OBVIOUS
<1>2. l \in Seq(S) /\ Len(l) = n + 1 /\ l[1] = x
  BY <1>1
<1>3. ASSUME NEW i \in 1 .. n + 1, i # 1 PROVE i - 1 \in 1 .. n /\ l[i] = s[i - 1]
  BY <1>1, <1>3
<1> QED BY <1>1, <1>2, <1>3, Zenon DEF Pushed

LEMMA ComingReply ==
  ASSUME TypeOK, Coming, Grown,
         NEW q \in Queries, NEW v \in Says, NEW t \in Kinds, NEW to \in Stages, Replied(q, t, v, to)
  PROVE  Coming' /\ down' \in Seq(Frames)
<1>1. down' = Append(down, Frame(q, t, v)) /\ down \in Seq(Frames) /\ conn \in Conns
  BY DEF Replied, TypeOK
<1> DEFINE f == Frame(q, t, v)
<1>2. f \in Frames /\ f.c = conn /\ f.q = q /\ f.t = t /\ f.v = v
  BY <1>1 DEF Frame, Frames, Kinds
<1> HIDE DEF f
<1>3. f \in Later'
  <2>1. /\ conn' = conn /\ stage'[q] \notin {"unasked", "asked"}
        /\ t = "H" => said'[q] = v
        /\ t = "E" => bare'
    BY Zenon DEF Replied, TypeOK
  <2> QED BY <1>2, <2>1 DEF Later, Ours, Headed
<1>4. Added(Frames, down, f, down')
  <2>1. down' = Append(down, f)
    BY <1>1 DEF f
  <2> QED BY <1>1, <1>2, <2>1, AddedLemma, Zenon
<1>5. \A i \in 1 .. Len(down') : down'[i] \in Later'
  BY <1>3, <1>4, OursGrow, Zenon DEF Added, Coming
<1> QED BY <1>4, <1>5, Zenon DEF Added, Coming

LEMMA ComingSame ==
  ASSUME TypeOK, Coming, Grown, down' = down
  PROVE  Coming' /\ down' \in Seq(Frames)
<1>1. down' \in Seq(Frames)
  BY DEF TypeOK
<1> QED BY <1>1, OursGrow DEF Coming

LEMMA ComingKept ==
  ASSUME TypeOK, Asked, Coming, Next, ~Recv
  PROVE  Coming' /\ down' \in Seq(Frames)
<1>1. Begun \/ Grown
  BY BegunOrGrown
<1>2. CASE Begun
  BY <1>2 DEF Begun, Coming
<1>3. CASE Grown /\ Respond
  <2>1. PICK q \in Queries, v \in Says, t \in Kinds, to \in Stages : Replied(q, t, v, to)
    BY <1>3, ReplyStep
  <2> QED BY <1>3, <2>1, ComingReply
<1>4. CASE Grown /\ ~Begun /\ ~Respond
  <2>1. ~ReadyConnect
    <3>1. conn \in Nat /\ conn' = conn
      BY <1>4, ConnNat, Zenon DEF Grown
    <3>2. ReadyConnect => conn' = conn + 1
      BY Zenon DEF ReadyConnect
    <3> QED BY <3>1, <3>2
  <2>2. down' = down
    <3>1. CASE Flush \/ FlushFail \/ SendTo \/ SendFail
      BY <3>1, Zenon DEF Flush, FlushFail, SendTo, SendFail, SendsFail, Sends, peer
    <3>2. CASE ShakeWant \/ ShakeFail \/ ShakeDone \/ SendLost \/ SendNothing
      BY <3>2, Zenon DEF ShakeWant, ShakeFail, ShakeDone, SendLost, SendNothing, peer
    <3>3. CASE RecvDrop \/ RecvFatal \/ RecvCount \/ Accept \/ Lose \/ Late
      BY <3>3 DEF RecvDrop, RecvFatal, RecvCount, Accept, Lose, Late, peer
    <3> QED BY <1>4, <2>1, <3>1, <3>2, <3>3 DEF Next
  <2> QED BY <1>4, <2>2, ComingSame
<1> QED BY <1>1, <1>2, <1>3, <1>4

-----------------------------------------------------------------------------
(* What a step does to what has been read *)

\* The message that is being put together.  A connection that is dropped leaves
\* nothing of it.
Reading ==
  /\ dnsmsg_completed => r_pc = "exited"
  /\ ~carried => Answers(dnsmsg, http2_is_dns)
  /\ ~carried /\ do_connect => dnsmsg = <<>> /\ ~http2_is_dns

\* What AnswersKept says but for the types
Shown == (~carried => got # "foreign") /\ (r_pc = "exited" => bare)

\* A step that neither reads nor connects
Blank == dnsmsg = <<>> /\ ~dnsmsg_completed /\ ~http2_is_dns
Aside ==
  /\ recvbuf' = recvbuf /\ carried' = carried /\ got' = got
  /\ r_pc' = r_pc \/ (r_pc # "exited" /\ r_pc' # "exited")
  /\ Blank' \/ (UNCHANGED message /\ do_connect' = do_connect)

LEMMA AsideStep ==
  ASSUME Next, ~Recv, ~ReadyConnect
  PROVE  Aside
<1>1. ASSUME SetMessage(Cleared(Message)) PROVE Blank'
  BY <1>1 DEF SetMessage, Cleared, Message, Blank
<1>2. CASE FlushFail \/ SendFail
  <2>1. STFrame /\ SendsFail
    BY <1>2, Zenon DEF FlushFail, SendFail
  <2>2. carried' = carried /\ (Blank' \/ (UNCHANGED message /\ do_connect' = do_connect))
    BY <1>1, <2>1, Zenon DEF SendsFail, link
  <2> QED BY <2>1, <2>2 DEF STFrame, Aside
<1>3. CASE Flush \/ ShakeWant \/ ShakeFail \/ ShakeDone \/ SendLost \/ SendTo \/ SendNothing
  <2>1. STFrame /\ UNCHANGED <<link, message, do_connect>>
    BY <1>3, Zenon DEF Flush, ShakeWant, ShakeFail, ShakeDone, SendLost, SendTo, SendNothing, session
  <2> QED BY <2>1 DEF STFrame, link, Aside
<1>4. CASE RecvDrop
  BY <1>1, <1>4, Zenon DEF RecvDrop, Aside
<1>5. CASE RecvFatal \/ RecvCount
  <2>1. r_pc # "exited" /\ r_pc' # "exited"
    BY <1>5 DEF RecvFatal, RecvCount, Recving
  <2>2. NoDrop /\ UNCHANGED <<carried, message, recvbuf, got>>
    BY <1>5 DEF RecvFatal, RecvCount
  <2> QED BY <2>1, <2>2 DEF NoDrop, Aside
<1>6. CASE Accept \/ Respond \/ Lose \/ Late
  <2>1. PeerFrame
    BY <1>6 DEF Accept, Respond, Answer, Lose, Late
  <2> QED BY <2>1 DEF PeerFrame, session, link, Aside
<1> QED BY <1>2, <1>3, <1>4, <1>5, <1>6 DEF Next

LEMMA AnswersGrow ==
  ASSUME Composed, Grown, UNCHANGED message, Answers(dnsmsg, http2_is_dns)
  PROVE  Answers(dnsmsg, http2_is_dns)'
<1>1. dnsmsg' = dnsmsg /\ http2_is_dns' = http2_is_dns /\ \A i \in 1 .. Len(dnsmsg) : dnsmsg[i] \in Queries
  BY DEF message, Composed
<1>2. \A i \in 1 .. Len(dnsmsg') : stage'[dnsmsg'[i]] # "unasked"
  BY <1>1 DEF Answers, Grown
<1>3. ASSUME http2_is_dns PROVE \E q \in Queries : stage'[q] \notin {"unasked", "asked"} /\ said'[q] = "dns"
  <2>1. PICK q \in Queries : Headed(q) /\ said[q] = "dns"
    BY <1>3 DEF Answers
  <2>2. stage'[q] \notin {"unasked", "asked"} /\ said'[q] = "dns"
    BY <2>1 DEF Grown
  <2> QED BY <2>2
<1> QED BY <1>1, <1>2, <1>3 DEF Answers, Headed

LEMMA ReadingAside ==
  ASSUME TypeOK, Held, Reading, Shown, Grown, Aside
  PROVE  Held' /\ Reading' /\ Shown'
<1>1. Held'
  <2>1. recvbuf' = recvbuf /\ carried' = carried /\ conn' = conn
    BY DEF Aside, Grown
  <2> QED BY <2>1, OursGrow DEF Held, Usable, Stale
<1>2. CASE Blank'
  <2>1. Answers(dnsmsg, http2_is_dns)'
    BY <1>2 DEF Blank, Answers
  <2> QED BY <1>1, <1>2, <2>1 DEF Blank, Reading, Shown, Aside, Grown
<1>3. CASE UNCHANGED message /\ do_connect' = do_connect
  <2>1. Answers(dnsmsg, http2_is_dns) => Answers(dnsmsg, http2_is_dns)'
    BY <1>3, TypesSplit, AnswersGrow
  <2>2. Reading'
    BY <1>3, <2>1 DEF Reading, Aside, message
  <2> QED BY <1>1, <2>2 DEF Shown, Aside, Grown
<1> QED BY <1>2, <1>3 DEF Aside

LEMMA ReadingConnect ==
  ASSUME TypeOK, Held, Reading, Shown, ReadyConnect
  PROVE  Held' /\ Reading' /\ Shown'
<1>1. /\ recvbuf' = recvbuf /\ conn' = conn + 1 /\ conn \in Nat /\ got' = got /\ r_pc' = r_pc
      /\ r_pc # "exited" /\ carried' = (carried \/ recvbuf # <<>>) /\ do_connect' = FALSE
      /\ recvbuf \in Seq(Frames)
  <2>1. conn \in Nat /\ recvbuf \in Seq(Frames)
    BY TypesSplit, ConnNat, Zenon DEF Buffered
  <2> QED BY <2>1, Zenon DEF ReadyConnect, LockFree, Ended
<1>2. Held'
  <2>1. ASSUME NEW i \in 1 .. Len(recvbuf) PROVE recvbuf[i].c \in Nat /\ recvbuf[i].c <= conn
    <3>1. recvbuf[i] \in Frames /\ recvbuf[i].c <= conn
      BY <1>1 DEF Held
    <3>2. recvbuf[i].c \in 1 .. MaxConns
      BY <3>1 DEF Frames, Conns
    <3> QED BY <3>1, <3>2, DohAssumption
  <2>2. \A i \in 1 .. Len(recvbuf) : recvbuf[i].c <= conn + 1
    BY <1>1, <2>1
  <2>3. CASE recvbuf = <<>>
    BY <1>1, <2>3 DEF Held, Usable
  <2>4. CASE recvbuf # <<>>
    <3>1. Len(recvbuf) > 0 /\ 1 \in 1 .. Len(recvbuf)
      BY <1>1, <2>4
    <3>2. recvbuf[1].c # conn + 1
      BY <1>1, <2>1, <3>1
    <3>3. carried' /\ Stale(recvbuf)'
      BY <1>1, <2>4, <3>1, <3>2, Zenon DEF Stale
    <3> QED BY <1>1, <2>2, <3>3 DEF Held
  <2> QED BY <2>3, <2>4
<1>3. Shown'
  BY <1>1, Zenon DEF Shown
<1>4. ~dnsmsg_completed' /\ (~carried => dnsmsg' = <<>> /\ ~http2_is_dns')
  <2>1. CASE do_reconnect
    BY <2>1 DEF ReadyConnect, SetMessage, Cleared, Message
  <2>2. CASE ~do_reconnect
    <3>1. UNCHANGED message /\ do_connect
      BY <2>2 DEF ReadyConnect
    <3> QED BY <1>1, <3>1 DEF message, Reading
  <2> QED BY <2>1, <2>2
<1>5. dnsmsg' = <<>> /\ ~http2_is_dns' => Answers(dnsmsg, http2_is_dns)'
  BY DEF Answers
<1>6. Reading'
  BY <1>1, <1>4, <1>5, Zenon DEF Reading
<1> QED BY <1>2, <1>3, <1>6

\* What becomes of the message: it is kept or taken, not completed any more.
Judged(m, j) ==
  /\ ~j.m.done /\ j.m.done \in BOOLEAN /\ j.m.code \in {NoCode, "200", "404"}
  /\ j.m.msg = m.msg \/ j.m.msg = <<>>
  /\ j.m.dns = m.dns \/ j.m.dns = FALSE
  /\ j.returned => m.done /\ m.dns

LEMMA JudgeFields ==
  ASSUME NEW m, Fitting(m), NEW j, j = Judge(m)
  PROVE  Judged(m, j)
<1>1. m \in MsgStates /\ m.done \in BOOLEAN /\ m.dns \in BOOLEAN /\ m.code \in {NoCode, "200", "404"}
  BY DEF Fitting, MsgStates
<1>2. CASE ~m.done
  <2>1. j = [returned |-> FALSE, m |-> m]
    BY <1>2 DEF Judge
  <2>2. j.returned = FALSE /\ j.m = m
    BY <2>1
  <2> QED BY <1>1, <1>2, <2>2, Zenon DEF Judged
<1>3. CASE m.done /\ ~m.dns
  <2>1. j = [returned |-> FALSE,
             m |-> [[m EXCEPT !.msg = <<>>, !.done = FALSE] EXCEPT !.code = NoCode, !.dns = FALSE]]
    BY <1>3 DEF Judge
  <2>2. PICK k : k = [[m EXCEPT !.msg = <<>>, !.done = FALSE] EXCEPT !.code = NoCode, !.dns = FALSE]
    OBVIOUS
  <2>3. j.returned = FALSE /\ j.m = k
    BY <2>1, <2>2
  <2>4. k.msg = <<>> /\ k.done = FALSE /\ k.dns = FALSE /\ k.code = NoCode
    BY <1>1, <2>2 DEF MsgStates
  <2> QED BY <2>3, <2>4, Zenon DEF Judged
<1>4. CASE m.done /\ m.dns /\ m.code # "200"
  <2>1. j = [returned |-> FALSE, m |-> [[m EXCEPT !.msg = <<>>, !.done = FALSE] EXCEPT !.code = NoCode]]
    BY <1>4 DEF Judge
  <2>2. PICK k : k = [[m EXCEPT !.msg = <<>>, !.done = FALSE] EXCEPT !.code = NoCode]
    OBVIOUS
  <2>3. j.returned = FALSE /\ j.m = k
    BY <2>1, <2>2
  <2>4. k.msg = <<>> /\ k.done = FALSE /\ k.dns = m.dns /\ k.code = NoCode
    BY <1>1, <2>2 DEF MsgStates
  <2> QED BY <2>3, <2>4, Zenon DEF Judged
<1>5. CASE m.done /\ m.dns /\ m.code = "200"
  <2>1. j = [returned |-> TRUE, m |-> [m EXCEPT !.msg = <<>>, !.done = FALSE]]
    BY <1>5 DEF Judge
  <2>2. PICK k : k = [m EXCEPT !.msg = <<>>, !.done = FALSE]
    OBVIOUS
  <2>3. j.returned = TRUE /\ j.m = k
    BY <2>1, <2>2
  <2>4. k.msg = <<>> /\ k.done = FALSE /\ k.dns = m.dns /\ k.code = m.code
    BY <1>1, <2>2 DEF MsgStates
  <2> QED BY <1>1, <1>5, <2>3, <2>4, Zenon DEF Judged
<1> QED BY <1>2, <1>3, <1>4, <1>5

\* What recv hands to nghttp2 is as what it holds.
Fits(frames) ==
  /\ \A i \in 1 .. Len(frames) : frames[i].c <= conn
  /\ Usable(frames) \/ (carried /\ Stale(frames))

LEMMA ReadFrames ==
  ASSUME TypeOK, Held, Coming, NEW n \in 0 .. Len(down), NEW frames, frames = recvbuf \o SubSeq(down, 1, n)
  PROVE  frames \in Seq(Frames) /\ Fits(frames)
<1> DEFINE new == SubSeq(down, 1, n)
<1>0. recvbuf \in Seq(Frames) /\ down \in Seq(Frames) /\ conn \in Nat
  BY TypesSplit, ConnNat, Zenon DEF Buffered
<1>1. /\ recvbuf \in Seq(Frames) /\ new \in Seq(Frames) /\ Len(new) = n /\ Len(recvbuf) \in Nat /\ n \in Nat
      /\ conn \in Nat
  BY <1>0
<1>2. ASSUME NEW i \in 1 .. n PROVE new[i] \in Later /\ new[i] \in First /\ new[i].c <= conn
  <2>1. new[i] = down[i] /\ i \in 1 .. Len(down)
    BY <1>0
  <2>2. new[i] \in Later
    BY <2>1 DEF Coming
  <2>3. new[i] \in First /\ new[i].c = conn
    BY <2>2, FrameKinds
  <2> QED BY <1>1, <2>2, <2>3
<1>3. frames = recvbuf \o new
  OBVIOUS
<1> HIDE DEF new
<1>4. /\ frames \in Seq(Frames) /\ Len(frames) = Len(recvbuf) + n
      /\ \A i \in 1 .. Len(recvbuf) : frames[i] = recvbuf[i]
      /\ \A i \in 1 .. Len(frames) : i > Len(recvbuf) => frames[i] = new[i - Len(recvbuf)]
  <2>1. frames \in Seq(Frames) /\ Len(frames) = Len(recvbuf) + n
    BY <1>1, <1>3
  <2>2. ASSUME NEW i \in 1 .. Len(frames)
        PROVE  frames[i] = IF i <= Len(recvbuf) THEN recvbuf[i] ELSE new[i - Len(recvbuf)]
    BY <1>1, <1>3, <2>1
  <2>3. \A i \in 1 .. Len(recvbuf) : i \in 1 .. Len(frames) /\ i <= Len(recvbuf)
    BY <1>1, <2>1
  <2>4. \A i \in 1 .. Len(frames) : i > Len(recvbuf) => ~(i <= Len(recvbuf))
    BY <1>1, <2>1
  <2> QED BY <2>1, <2>2, <2>3, <2>4
<1>5. ASSUME NEW i \in 1 .. Len(frames), i > Len(recvbuf)
      PROVE  frames[i] \in Later /\ frames[i] \in First /\ frames[i].c <= conn
  <2>1. i - Len(recvbuf) \in 1 .. n
    BY <1>1, <1>4, <1>5
  <2> QED BY <1>2, <1>4, <1>5, <2>1, Zenon
<1>6. ASSUME NEW i \in 1 .. Len(frames), ~(i > Len(recvbuf)) PROVE i \in 1 .. Len(recvbuf)
  BY <1>1, <1>4, <1>6
<1>7. \A i \in 1 .. Len(frames) : frames[i].c <= conn
  BY <1>4, <1>5, <1>6 DEF Held
<1>8. CASE Usable(recvbuf)
  <2>1. Usable(frames)
    BY <1>4, <1>5, <1>6, <1>8 DEF Usable
  <2> QED BY <1>4, <1>7, <2>1, Zenon DEF Fits
<1>9. CASE carried /\ Stale(recvbuf)
  <2>1. Len(recvbuf) > 0 /\ 1 \in 1 .. Len(recvbuf) /\ recvbuf[1].c # conn
    BY <1>1, <1>9 DEF Stale
  <2>2. Len(frames) > 0 /\ frames[1].c # conn
    BY <1>1, <1>4, <2>1
  <2> QED BY <1>4, <1>7, <1>9, <2>2, Zenon DEF Stale, Fits
<1> QED BY <1>8, <1>9, Zenon DEF Held

\* What is left of a sequence after its first k elements
LEMMA SuffixLemma ==
  ASSUME NEW S, NEW s \in Seq(S), NEW k \in 0 .. Len(s)
  PROVE  /\ SubSeq(s, k + 1, Len(s)) \in Seq(S) /\ Len(SubSeq(s, k + 1, Len(s))) = Len(s) - k
         /\ \A i \in 1 .. Len(s) - k : SubSeq(s, k + 1, Len(s))[i] = s[k + i]
<1>1. PICK n \in Nat : n = Len(s) /\ \A i \in 1 .. n : s[i] \in S
  OBVIOUS
<1>2. PICK b : b = SubSeq(s, k + 1, n)
  BY Zenon
<1>3. b = [i \in 1 .. n - k |-> s[k + i]]
  <2>1. b = [i \in 1 .. 1 + n - (k + 1) |-> s[i + (k + 1) - 1]]
    BY <1>1, <1>2
  <2>2. 1 + n - (k + 1) = n - k /\ \A i \in 1 .. n - k : i + (k + 1) - 1 = k + i
    BY <1>1
  <2> QED BY <2>1, <2>2
<1>4. n - k \in Nat /\ \A i \in 1 .. n - k : k + i \in 1 .. n
  BY <1>1
<1>5. b \in Seq(S) /\ Len(b) = n - k /\ \A i \in 1 .. n - k : b[i] = s[k + i]
  BY <1>1, <1>3, <1>4
<1> QED BY <1>1, <1>2, <1>5

\* What recv keeps when nghttp2 has not refused it
LEMMA RestUsable ==
  ASSUME NEW frames \in Seq(Frames), Usable(frames), NEW m, Progress(m, Len(frames)),
         m.end \in {"no", "paused"}, NEW left, left \in Rest(frames, m)
  PROVE  left \in Seq(Frames) /\ Usable(left)
<1> DEFINE rest == SubSeq(frames, m.used + 1, Len(frames))
<1>1. /\ m.used \in Nat /\ m.used <= Len(frames) /\ Len(frames) \in Nat
      /\ m.end = "no" => m.used = Len(frames)
      /\ m.end = "paused" => m.used < Len(frames)
  BY DEF Progress, Fitting, MsgStates, Go
<1>2. CASE m.end = "no"
  <2>1. left = rest
    BY <1>2 DEF Rest
  <2>2. left = <<>>
    BY <1>1, <1>2, <2>1
  <2> QED BY <2>2 DEF Usable
<1>3. CASE m.end = "paused"
  <2>1. rest \in Seq(Frames) /\ Len(rest) = Len(frames) - m.used /\ Len(rest) >= 1
    BY <1>1, <1>3
  <2>2. ASSUME NEW i \in 1 .. Len(rest) PROVE rest[i] \in First /\ (i # 1 => rest[i] \in Later)
    <3>1. m.used + i \in 1 .. Len(frames) /\ (i # 1 => m.used + i # 1)
      BY <1>1, <2>1
    <3>2. rest[i] = frames[m.used + i]
      <4>1. m.used \in 0 .. Len(frames)
        BY <1>1
      <4>2. \A k \in 1 .. Len(frames) - m.used : SubSeq(frames, m.used + 1, Len(frames))[k] = frames[m.used + k]
        BY <4>1, SuffixLemma
      <4> QED BY <2>1, <4>2
    <3> QED BY <3>1, <3>2, Zenon DEF Usable
  <2> DEFINE x == [rest[1] EXCEPT !.t = "E"]
             tail == Tail(rest)
  <2>3. left \in {rest, (IF rest[1].t = "D" THEN <<x>> ELSE <<>>) \o tail}
    <3>1. Head(rest) = rest[1]
      BY <2>1
    <3>2. left \in {rest, (IF Head(rest).t = "D" THEN <<[Head(rest) EXCEPT !.t = "E"]>> ELSE <<>>)
                         \o Tail(rest)}
      BY <1>3, Zenon DEF Rest
    <3> QED BY <3>1, <3>2, Zenon
  <2> HIDE DEF rest
  <2>4. tail \in Seq(Frames) /\ \A i \in 1 .. Len(tail) : tail[i] \in Later /\ tail[i] \in First
    <3>1. tail \in Seq(Frames) /\ Len(tail) = Len(rest) - 1 /\ \A i \in 1 .. Len(tail) : tail[i] = rest[i + 1]
      BY <2>1
    <3>2. ASSUME NEW i \in 1 .. Len(tail) PROVE i + 1 \in 1 .. Len(rest) /\ i + 1 # 1
      BY <2>1, <3>1
    <3> QED BY <2>2, <3>1, <3>2
  <2>5. x \in Frames /\ x \in First
    <3>1. rest[1] \in First /\ rest[1] \in Frames
      BY <2>1, <2>2
    <3>2. x \in Frames /\ x.c = rest[1].c /\ x.q = rest[1].q /\ x.t = "E"
      BY <3>1 DEF Frames
    <3> QED BY <3>1, <3>2, Zenon DEF First, Ours
  <2> HIDE DEF x, tail
  <2>6. CASE left = rest
    BY <2>1, <2>2, <2>6 DEF Usable
  <2>7. CASE left = <<>> \o tail
    <3>1. left = tail
      BY <2>4, <2>7
    <3> QED BY <2>4, <3>1 DEF Usable
  <2>8. CASE left = <<x>> \o tail
    <3>1. Pushed(Frames, tail, x, left)
      BY <2>4, <2>5, <2>8, PushedLemma, Zenon
    <3> QED BY <2>4, <2>5, <3>1, Zenon DEF Usable, Pushed
  <2> QED BY <2>3, <2>6, <2>7, <2>8, Zenon
<1> QED BY <1>2, <1>3

\* With a single request on the connection, all that was asked is this one.
LEMMA WhoseOwn ==
  ASSUME TypeOK, Asked, NEW msg \in Seq(Queries), Answers(msg, TRUE)
  PROVE  Whose(msg) # "foreign"
<1>1. CASE requests # 1
  BY <1>1 DEF Whose
<1>2. CASE requests = 1
  <2>1. ASSUME NEW q \in Queries, stage[q] # "unasked" PROVE q = qid
    <3>1. q <= qid /\ q > qid - 1
      BY <1>2, <2>1 DEF Asked
    <3>2. q \in Int /\ qid \in Int
      BY DEF TypeOK, Queries
    <3> QED BY <3>1, <3>2
  <2>2. said[qid] = "dns"
    <3>1. PICK q \in Queries : Headed(q) /\ said[q] = "dns"
      BY DEF Answers
    <3>2. stage[q] # "unasked"
      BY <3>1 DEF Headed
    <3> QED BY <2>1, <3>1, <3>2
  <2>3. \A i \in 1 .. Len(msg) : msg[i] = qid
    <3>1. \A i \in 1 .. Len(msg) : msg[i] \in Queries /\ stage[msg[i]] # "unasked"
      BY DEF Answers
    <3> QED BY <2>1, <3>1
  <2>4. \A i \in DOMAIN msg : msg[i] = qid
    BY <2>3
  <2>5. Whose(msg) = "own"
    BY <1>2, <2>2, <2>4 DEF Whose
  <2> QED BY <2>5
<1> QED BY <1>1, <1>2

\* A part of what was read answers no less.
LEMMA AnswersLess ==
  ASSUME NEW msg, NEW dns \in BOOLEAN, Answers(msg, dns), NEW x, NEW y, x = msg \/ x = <<>>,
         y = dns \/ y = FALSE
  PROVE  Answers(x, y)
<1>1. \A i \in 1 .. Len(x) : stage[x[i]] # "unasked"
  <2>1. CASE x = msg
    BY <2>1 DEF Answers
  <2>2. CASE x = <<>>
    BY <2>2
  <2> QED BY <2>1, <2>2
<1>2. y => dns
  BY Zenon
<1> QED BY <1>1, <1>2 DEF Answers

\* recv, its n frames from the network and what the callbacks made of all of them
Received(n, frames, m, j) ==
  /\ down' = SubSeq(down, n + 1, Len(down))
  /\ IF m.drops > 0 THEN Drop ELSE NoDrop
  /\ carried' = (carried \/ \E i \in 1 .. m.used - 1 : frames[i].t = "R")
  /\ IF m.end \in {"error", "exited"}
     THEN /\ r_pc' \in IF m.end = "exited" THEN {"exited"} ELSE {"idle", "fatal"}
          /\ recvbuf' = frames
          /\ SetMessage(m)
          /\ UNCHANGED got
     ELSE /\ recvbuf' \in Rest(frames, m)
          /\ SetMessage(j.m)
          /\ r_pc' = IF j.returned /\ PerConn > 0 THEN "count" ELSE "idle"
          /\ got' = IF j.returned THEN Whose(m.msg) ELSE got

\* The message after recv is the one of the callbacks or less.
Left(m) ==
  /\ dnsmsg' = m.msg \/ dnsmsg' = <<>>
  /\ http2_is_dns' = m.dns \/ http2_is_dns' = FALSE
  /\ dnsmsg_completed' \in BOOLEAN /\ http2_code' \in {NoCode, "200", "404"}
  /\ dnsmsg_completed' => r_pc' = "exited"

LEMMA ReceivedMessage ==
  ASSUME NEW n, NEW frames, NEW m, NEW j, Received(n, frames, m, j), j = Judge(m), Fitting(m),
         Stopped(m, Len(frames), frames)
  PROVE  Left(m)
<1>1. CASE m.end \in {"error", "exited"}
  <2>1. SetMessage(m) /\ r_pc' \in IF m.end = "exited" THEN {"exited"} ELSE {"idle", "fatal"}
    BY <1>1 DEF Received
  <2>2. /\ dnsmsg' = m.msg /\ http2_is_dns' = m.dns /\ dnsmsg_completed' = m.done
        /\ http2_code' = m.code
    BY <2>1 DEF SetMessage
  <2>3. m.done \in BOOLEAN /\ m.code \in {NoCode, "200", "404"}
    BY DEF Fitting, MsgStates
  <2>4. m.done => m.end = "exited"
    BY <1>1 DEF Stopped
  <2>5. m.done => r_pc' = "exited"
    BY <2>1, <2>4
  <2> QED BY <2>2, <2>3, <2>5, Zenon DEF Left
<1>2. CASE m.end \notin {"error", "exited"}
  <2>1. SetMessage(j.m)
    BY <1>2 DEF Received
  <2>2. /\ dnsmsg' = j.m.msg /\ http2_is_dns' = j.m.dns /\ dnsmsg_completed' = j.m.done
        /\ http2_code' = j.m.code
    BY <2>1 DEF SetMessage
  <2>3. Judged(m, j)
    BY JudgeFields
  <2> QED BY <2>2, <2>3, Zenon DEF Judged, Left
<1> QED BY <1>1, <1>2

LEMMA LastOf ==
  ASSUME NEW u \in Nat, NEW i \in 1 .. u, i \notin 1 .. u - 1
  PROVE  i = u
<1> QED OBVIOUS

LEMMA ReceivedReading ==
  ASSUME Reading, Counted, is_ready, Still,
         NEW n, NEW frames, NEW m, NEW j, Received(n, frames, m, j), Fitting(m), Left(m),
         ResetLast(m, frames), Made(m)
  PROVE  Reading' /\ Composed'
<1>1. m.msg \in Seq(Queries) /\ Len(m.msg) <= MsgMax /\ m.dns \in BOOLEAN /\ m.drops \in Nat /\ m.used \in Nat
  BY DEF Fitting, MsgStates
<1>2. dnsmsg' \in Seq(Queries) /\ Len(dnsmsg') <= MsgMax /\ http2_is_dns' \in BOOLEAN
  <2>1. dnsmsg' \in Seq(Queries) /\ Len(dnsmsg') <= MsgMax
    <3>1. <<>> \in Seq(Queries) /\ Len(<<>>) <= MsgMax
      BY DohAssumption
    <3>2. dnsmsg' = m.msg \/ dnsmsg' = <<>>
      BY DEF Left
    <3> QED BY <1>1, <3>1, <3>2, Zenon
  <2>2. http2_is_dns' \in BOOLEAN
    BY <1>1, Zenon DEF Left
  <2> QED BY <2>1, <2>2
<1>3. ~carried' => ~carried /\ \A i \in 1 .. m.used - 1 : frames[i].t # "R"
  BY Zenon DEF Received
<1>4. ASSUME ~carried' PROVE Answers(dnsmsg, http2_is_dns)'
  <2>1. Answers(m.msg, m.dns)
    BY <1>3, <1>4 DEF Reading, Made
  <2>2. PICK x, y : x = dnsmsg' /\ y = http2_is_dns'
    OBVIOUS
  <2>3. (x = m.msg \/ x = <<>>) /\ (y = m.dns \/ y = FALSE)
    BY <2>2, Zenon DEF Left
  <2>4. Answers(x, y)
    BY <1>1, <2>1, <2>3, AnswersLess, Zenon
  <2> QED BY <2>2, <2>4 DEF Answers, Headed, Still
<1>5. ASSUME ~carried', do_connect' PROVE dnsmsg' = <<>> /\ ~http2_is_dns'
  <2>1. m.drops > 0
    <3>1. ~do_connect
      BY DEF Counted
    <3> QED BY <1>5, <3>1, Zenon DEF Received, NoDrop
  <2>2. PICK i \in 1 .. m.used : frames[i].t = "R" /\ (i = m.used => m.msg = <<>> /\ ~m.dns)
    BY <2>1 DEF ResetLast
  <2>3. i \notin 1 .. m.used - 1
    BY <1>3, <1>5, <2>2, Zenon
  <2>4. i = m.used
    BY <1>1, <2>3, LastOf, Zenon
  <2> QED BY <2>2, <2>4, Zenon DEF Left
<1>6. Reading'
  BY <1>4, <1>5 DEF Reading, Left
<1>7. Composed'
  BY <1>2, Zenon DEF Composed, Left
<1> QED BY <1>6, <1>7

LEMMA SameAnswers ==
  ASSUME Still
  PROVE  First' = First /\ Later' = Later /\ conn' = conn
<1>1. conn' = conn /\ stage' = stage /\ said' = said /\ bare' = bare
  BY DEF Still
<1> QED BY <1>1 DEF First, Later, Ours, Headed

LEMMA ReceivedDown ==
  ASSUME Buffered, Coming, Still, NEW n \in 0 .. Len(down), down' = SubSeq(down, n + 1, Len(down))
  PROVE  down' \in Seq(Frames) /\ Coming'
<1>1. down \in Seq(Frames)
  BY DEF Buffered
<1>2. /\ down' \in Seq(Frames) /\ Len(down') = Len(down) - n
      /\ \A i \in 1 .. Len(down) - n : down'[i] = down[n + i]
  BY <1>1, SuffixLemma, Zenon
<1>3. \A i \in 1 .. Len(down) - n : n + i \in 1 .. Len(down)
  BY <1>1
<1>4. Later' = Later
  BY SameAnswers
<1> QED BY <1>2, <1>3, <1>4, Zenon DEF Coming

LEMMA ReceivedHeld ==
  ASSUME Still, carried => carried', NEW r, recvbuf' = r, Fits(r)
  PROVE  Held'
<1>1. First' = First /\ Later' = Later /\ conn' = conn
  BY SameAnswers
<1>2. \A i \in 1 .. Len(recvbuf') : recvbuf'[i].c <= conn'
  BY <1>1, Zenon DEF Fits
<1>3. CASE Usable(r)
  BY <1>1, <1>2, <1>3, Zenon DEF Usable, Held
<1>4. CASE carried /\ Stale(r)
  BY <1>1, <1>2, <1>4, Zenon DEF Stale, Held
<1> QED BY <1>3, <1>4, Zenon DEF Fits

LEMMA UsableFits ==
  ASSUME NEW r, Usable(r), conn \in Nat
  PROVE  Fits(r)
<1>1. ASSUME NEW i \in 1 .. Len(r) PROVE r[i].c <= conn
  <2>1. r[i].c = conn
    BY FrameKinds DEF Usable
  <2> QED BY <2>1
<1> QED BY <1>1, Zenon DEF Fits

LEMMA ReceivedBuffers ==
  ASSUME Buffered, conn \in Nat, Coming, Still, NEW n \in 0 .. Len(down), NEW frames \in Seq(Frames), Fits(frames),
         NEW m, NEW j, Received(n, frames, m, j), Progress(m, Len(frames)), Stopped(m, Len(frames), frames)
  PROVE  Buffered' /\ Coming' /\ Held'
<1>1. down' \in Seq(Frames) /\ Coming'
  <2>1. down' = SubSeq(down, n + 1, Len(down))
    BY Zenon DEF Received
  <2> QED BY <2>1, ReceivedDown, Zenon
<1>2. carried => carried'
  BY Zenon DEF Received
<1>3. ASSUME NEW r \in Seq(Frames), recvbuf' = r, Fits(r) PROVE Buffered' /\ Held'
  BY <1>1, <1>2, <1>3, ReceivedHeld, Zenon DEF Buffered
<1>4. CASE m.end \in {"error", "exited"}
  <2>1. recvbuf' = frames
    BY <1>4, Zenon DEF Received
  <2> QED BY <1>1, <1>3, <2>1, Zenon
<1>5. CASE m.end \notin {"error", "exited"}
  <2>1. recvbuf' \in Rest(frames, m)
    BY <1>5, Zenon DEF Received
  <2>2. m.end \in {"no", "paused"}
    BY <1>5 DEF Progress, Fitting, MsgStates
  <2>3. Usable(frames)
    <3>1. ~Stale(frames)
      BY <1>5, Zenon DEF Stopped, Stale
    <3> QED BY <3>1, Zenon DEF Fits
  <2>4. PICK r : r = recvbuf'
    BY Zenon
  <2>5. r \in Seq(Frames) /\ Usable(r)
    BY <2>1, <2>2, <2>3, <2>4, RestUsable, Zenon
  <2> QED BY <1>1, <1>3, <2>4, <2>5, UsableFits, Zenon
<1> QED BY <1>1, <1>4, <1>5, Zenon

LEMMA ReceivedShown ==
  ASSUME TypeOK, Asked, Reading, Shown, Still, NEW n, NEW frames, NEW m, NEW j,
         Received(n, frames, m, j), j = Judge(m), Fitting(m), Stopped(m, Len(frames), frames), Made(m)
  PROVE  Shown'
<1>1. ~carried' => ~carried
  BY Zenon DEF Received
<1>2. bare' = bare
  BY DEF Still
<1>3. r_pc' = "exited" => bare
  BY DEF Received, Stopped
<1>4. ASSUME ~carried PROVE got' # "foreign"
  <2>1. got' = got \/ (j.returned /\ got' = Whose(m.msg))
    BY DEF Received
  <2>2. ASSUME j.returned PROVE Whose(m.msg) # "foreign"
    <3>1. m.dns = TRUE /\ m.msg \in Seq(Queries)
      <4>1. Judged(m, j)
        BY JudgeFields
      <4> QED BY <2>2, <4>1 DEF Judged, Fitting, MsgStates
    <3>2. Answers(m.msg, m.dns)
      BY <1>4 DEF Reading, Made
    <3> QED BY <3>1, <3>2, WhoseOwn, Zenon
  <2> QED BY <1>4, <2>1, <2>2 DEF Shown
<1> QED BY <1>1, <1>2, <1>3, <1>4 DEF Shown

-----------------------------------------------------------------------------
(* All frames of a read, by induction *)
LOCAL INSTANCE WellFoundedInduction

\* A set of numbers has a least one, and induction: over a set, since the provers
\* do not instantiate a predicate.
LEMMA LeastNat ==
  ASSUME NEW T, T \subseteq Nat, T # {}
  PROVE  \E x \in T : \A y \in T : x <= y
<1> DEFINE R == OpToRel(<, Nat)
<1>1. IsWellFoundedOn(R, Nat)
  BY NatLessThanWellFounded, Zenon
<1>2. \A x, y \in Nat : y < x => <<y, x>> \in R
  BY DEF OpToRel
<1> HIDE DEF R
<1>3. PICK x \in T : \A y \in T : ~ (<<y, x>> \in R)
  BY <1>1, WFMin, Zenon
<1>4. ASSUME NEW y \in T PROVE x <= y
  <2>1. x \in Nat /\ y \in Nat
    OBVIOUS
  <2>2. ~ (y < x)
    BY <1>2, <1>3, <2>1, Zenon
  <2> QED BY <2>1, <2>2
<1> QED BY <1>4

LEMMA Induction ==
  ASSUME NEW S, 0 \in S, \A n \in Nat : n \in S => n + 1 \in S
  PROVE  Nat \subseteq S
<1> SUFFICES ASSUME Nat \ S # {} PROVE FALSE
  BY Zenon
<1>1. PICK n \in Nat \ S : \A m \in Nat \ S : n <= m
  <2> DEFINE T == Nat \ S
  <2>1. T \subseteq Nat /\ T # {}
    OBVIOUS
  <2> HIDE DEF T
  <2>2. \E x \in T : \A y \in T : x <= y
    BY <2>1, LeastNat, Zenon
  <2> QED BY <2>2 DEF T
<1>2. n \in Nat /\ n # 0
  BY <1>1
<1>3. n - 1 \in Nat /\ (n - 1) + 1 = n
  BY <1>2
<1>4. n - 1 \in S
  BY <1>1, <1>3
<1>5. n \in S
  BY <1>3, <1>4
<1> QED BY <1>1, <1>5

\* nghttp2_session_mem_recv frame by frame: g[n] is the state after n of them.
IsRun(g, frames, N) == g = [n \in 0 .. N |-> IF n = 0 THEN Before ELSE OnFrame(g[n - 1], frames[n])]
Run(g, frames, N) == g[0] = Before /\ \A n \in 1 .. N : g[n] = OnFrame(g[n - 1], frames[n])

LEMMA RunExists ==
  ASSUME NEW N \in Nat, NEW frames
  PROVE  \E g : IsRun(g, frames, N)
<1> DEFINE S == {n \in Nat : \E g : IsRun(g, frames, n)}
<1>1. 0 \in S
  <2> DEFINE g == [n \in 0 .. 0 |-> Before]
  <2>1. IsRun(g, frames, 0)
    BY DEF IsRun
  <2> QED BY <2>1
<1>2. ASSUME NEW m \in Nat, m \in S PROVE m + 1 \in S
  <2>1. PICK g : IsRun(g, frames, m)
    BY <1>2
  <2> DEFINE h == [n \in 0 .. m + 1 |-> IF n = m + 1 THEN OnFrame(g[m], frames[m + 1]) ELSE g[n]]
  <2>2. h[0] = Before /\ h[m + 1] = OnFrame(h[m], frames[m + 1])
    <3>1. g[0] = Before
      BY <2>1 DEF IsRun
    <3> QED BY <3>1
  <2>3. ASSUME NEW n \in 1 .. m PROVE h[n] = OnFrame(h[n - 1], frames[n])
    <3>1. g[n] = OnFrame(g[n - 1], frames[n])
      BY <2>1 DEF IsRun
    <3>2. h[n] = g[n] /\ h[n - 1] = g[n - 1]
      OBVIOUS
    <3> QED BY <3>1, <3>2, Zenon
  <2>4. h = [n \in 0 .. m + 1 |-> h[n]]
    OBVIOUS
  <2> HIDE DEF h
  <2>5. ASSUME NEW n \in 0 .. m + 1 PROVE h[n] = IF n = 0 THEN Before ELSE OnFrame(h[n - 1], frames[n])
    <3>1. n = 0 \/ n = m + 1 \/ n \in 1 .. m
      OBVIOUS
    <3>2. (m + 1) - 1 = m /\ m + 1 # 0
      OBVIOUS
    <3>3. n \in 1 .. m => n # 0
      OBVIOUS
    <3> QED BY <2>2, <2>3, <3>1, <3>2, <3>3, Zenon
  <2>6. IsRun(h, frames, m + 1)
    BY <2>4, <2>5, Zenon DEF IsRun
  <2> QED BY <2>6
<1> HIDE DEF S
<1>3. N \in S
  BY <1>1, <1>2, Induction
<1> QED BY <1>3 DEF S

LEMMA RunSteps ==
  ASSUME NEW frames, Len(frames) \in Nat
  PROVE  \E g : Run(g, frames, Len(frames)) /\ MemRecv(frames) = g[Len(frames)]
<1> DEFINE N == Len(frames)
           g == CHOOSE u : u = [n \in 0 .. N |-> IF n = 0 THEN Before ELSE OnFrame(u[n - 1], frames[n])]
<1>1. MemRecv(frames) = g[N]
  BY Zenon DEF MemRecv
<1>2. g = [n \in 0 .. N |-> IF n = 0 THEN Before ELSE OnFrame(g[n - 1], frames[n])]
  BY RunExists, Zenon DEF IsRun
<1> HIDE DEF g
<1>3. g[0] = Before /\ \A n \in 1 .. N : g[n] = OnFrame(g[n - 1], frames[n])
  BY <1>2
<1> QED BY <1>1, <1>3 DEF Run

\* What all the callbacks of a read come to
LEMMA BeforeHandled ==
  ASSUME Composed, ~dnsmsg_completed, NEW frames
  PROVE  Handled(Before, 0, frames)
<1>1. Before \in MsgStates
  BY DEF Composed, Before, MsgStates
<1>2. /\ Before.msg = dnsmsg /\ Before.dns = http2_is_dns /\ Before.end = "no" /\ Before.used = 0
      /\ Before.drops = 0 /\ ~Before.done
  BY Zenon DEF Before
<1>3. PICK b : b = Before
  BY Zenon
<1>4. /\ b \in MsgStates /\ b.msg = dnsmsg /\ b.dns = http2_is_dns /\ b.end = "no" /\ b.used = 0
      /\ b.drops = 0 /\ ~b.done /\ Len(b.msg) <= MsgMax
  BY <1>1, <1>2, <1>3, Zenon DEF Composed
<1>5. 0 <= 0 /\ ~(0 > 0)
  OBVIOUS
<1>6. Progress(b, 0) /\ Stopped(b, 0, frames) /\ ResetLast(b, frames) /\ Made(b)
  BY <1>4, <1>5, Zenon DEF Progress, Fitting, Go, Stopped, ResetLast, Made
<1> QED BY <1>3, <1>6, Zenon DEF Handled

LEMMA ReadHandled ==
  ASSUME TypeOK, ~dnsmsg_completed, NEW frames, Readable(frames)
  PROVE  Handled(MemRecv(frames), Len(frames), frames)
<1>1. Len(frames) \in Nat
  BY DEF Readable
<1>2. PICK g : Run(g, frames, Len(frames)) /\ MemRecv(frames) = g[Len(frames)]
  BY <1>1, RunSteps, Zenon
<1>3. Handled(Before, 0, frames)
  BY TypesSplit, BeforeHandled, Zenon
<1> DEFINE S == {n \in Nat : n <= Len(frames) => Handled(g[n], n, frames)}
<1>4. 0 \in S
  BY <1>2, <1>3 DEF Run
<1>5. ASSUME NEW n \in Nat, n \in S PROVE n + 1 \in S
  <2>1. CASE n + 1 > Len(frames)
    BY <1>1, <2>1
  <2>2. CASE n + 1 <= Len(frames)
    <3>1. n + 1 \in 1 .. Len(frames) /\ n <= Len(frames) /\ (n + 1) - 1 = n
      BY <1>1, <2>2
    <3>2. g[n + 1] = OnFrame(g[n], frames[n + 1])
      BY <1>2, <3>1 DEF Run
    <3>3. Handled(g[n], n, frames)
      BY <1>5, <3>1
    <3>4. Handled(g[n + 1], n + 1, frames)
      BY <3>1, <3>2, <3>3, FrameHandled
    <3> QED BY <3>4
  <2> QED BY <1>1, <2>1, <2>2
<1> HIDE DEF S
<1>6. Len(frames) \in S
  BY <1>1, <1>4, <1>5, Induction
<1>7. Len(frames) <= Len(frames) => Handled(g[Len(frames)], Len(frames), frames)
  BY <1>6 DEF S
<1>8. Len(frames) <= Len(frames)
  BY <1>1
<1> QED BY <1>2, <1>7, <1>8

LEMMA ReceiveKept ==
  ASSUME TypeOK, Counted, Asked, Coming, Held, Reading, Shown, Recv
  PROVE  Buffered' /\ Composed' /\ Coming' /\ Held' /\ Reading' /\ Shown'
<1>1. PICK n \in 0 .. Len(down) :
        Received(n, recvbuf \o SubSeq(down, 1, n), MemRecv(recvbuf \o SubSeq(down, 1, n)),
                 Judge(MemRecv(recvbuf \o SubSeq(down, 1, n))))
  BY Zenon DEF Recv, Received
<1>2. PICK frames, m, j : frames = recvbuf \o SubSeq(down, 1, n) /\ m = MemRecv(frames) /\ j = Judge(m)
  BY Zenon
<1>3. Received(n, frames, m, j)
  BY <1>1, <1>2, Zenon
<1>4. frames \in Seq(Frames) /\ Fits(frames)
  BY <1>2, ReadFrames, Zenon
<1>5. Readable(frames)
  BY <1>4, UsableOurs, Zenon DEF Readable, Fits
<1>6. r_pc = "idle" /\ is_ready /\ Still
  <2>1. RTFrame /\ (Drop \/ NoDrop) /\ Recving
    BY Zenon DEF Recv
  <2> QED BY <2>1, Zenon DEF RTFrame, Drop, NoDrop, Recving, Still
<1>7. ~dnsmsg_completed
  BY <1>6 DEF Reading
<1>8. Handled(m, Len(frames), frames)
  BY <1>2, <1>5, <1>7, ReadHandled, Zenon
<1>9. Progress(m, Len(frames)) /\ Stopped(m, Len(frames), frames) /\ ResetLast(m, frames) /\ Made(m) /\ Fitting(m)
  BY <1>8 DEF Handled, Progress
<1>10. Left(m)
  BY <1>2, <1>3, <1>9, ReceivedMessage, Zenon
<1>11. Reading' /\ Composed'
  BY <1>3, <1>6, <1>9, <1>10, ReceivedReading, Zenon
<1>12. Buffered' /\ Coming' /\ Held'
  <2>1. Buffered
    BY TypesSplit
  <2>2. conn \in Nat
    BY ConnNat
  <2> QED BY <1>3, <1>4, <1>6, <1>9, <2>1, <2>2, ReceivedBuffers, Zenon
<1>13. Shown'
  BY <1>2, <1>3, <1>6, <1>9, ReceivedShown, Zenon
<1> QED BY <1>11, <1>12, <1>13

\* The inductive invariant for the answers
ReadInv == TypeOK /\ Asked /\ Coming /\ Held /\ Reading /\ Shown

LEMMA ReadInit == Init => ReadInv
<1> SUFFICES ASSUME Init PROVE ReadInv
  OBVIOUS
<1>1. TypeOK
  BY TypedInit
<1>2. /\ down = <<>> /\ recvbuf = <<>> /\ dnsmsg = <<>> /\ ~dnsmsg_completed /\ ~http2_is_dns
      /\ got = "nothing" /\ r_pc = "idle" /\ outq = 0 /\ stage = [q \in Queries |-> "unasked"]
  BY DEF Init
<1>3. Asked
  BY <1>2 DEF Asked
<1>4. Coming /\ Held
  BY <1>2 DEF Coming, Held, Usable
<1>5. Reading /\ Shown
  BY <1>2 DEF Reading, Shown, Answers
<1> QED BY <1>1, <1>3, <1>4, <1>5 DEF ReadInv

LEMMA ReadNext ==
  ASSUME ReadInv, Counted, Next
  PROVE  Asked' /\ Buffered' /\ Composed' /\ Coming' /\ Held' /\ Reading' /\ Shown'
<1>1. TypeOK /\ Asked /\ Coming /\ Held /\ Reading /\ Shown /\ Composed /\ recvbuf \in Seq(Frames)
  BY TypesSplit DEF ReadInv, Buffered
<1>2. Asked'
  BY <1>1, AskedKept
<1>3. CASE Recv
  BY <1>1, <1>2, <1>3, ReceiveKept
<1>4. CASE ~Recv
  <2>1. Composed' /\ Coming' /\ down' \in Seq(Frames)
    BY <1>1, <1>4, ComposedKept, ComingKept
  <2>2. CASE ReadyConnect
    <3>1. Held' /\ Reading' /\ Shown'
      BY <1>1, <2>2, ReadingConnect
    <3>2. recvbuf' = recvbuf
      BY <2>2 DEF ReadyConnect
    <3> QED BY <1>1, <1>2, <2>1, <3>1, <3>2 DEF Buffered
  <2>3. CASE ~ReadyConnect
    <3>1. Grown
      BY <1>1, <2>3, BegunOrGrown, Zenon DEF Begun
    <3>2. Aside
      BY <1>4, <2>3, AsideStep
    <3>3. Held' /\ Reading' /\ Shown'
      BY <1>1, <3>1, <3>2, ReadingAside
    <3>4. recvbuf' = recvbuf
      BY <3>2 DEF Aside
    <3> QED BY <1>1, <1>2, <2>1, <3>3, <3>4 DEF Buffered
  <2> QED BY <2>2, <2>3
<1> QED BY <1>3, <1>4

LEMMA ReadKept ==
  ASSUME ReadInv, DohInv, Counted, DohInv', Counted', [Next]_vars
  PROVE  ReadInv'
<1>1. CASE Next
  <2>1. Asked' /\ Buffered' /\ Composed' /\ Coming' /\ Held' /\ Reading' /\ Shown'
    BY <1>1, ReadNext
  <2>2. TypeOK /\ Asked
    BY DEF ReadInv
  <2>3. Control' /\ Linked' /\ Timed' /\ Peered'
    BY <1>1, <2>2, TypesSplit, ControlKept, LinkedKept, TimedKept, PeeredKept
  <2>4. Types' /\ nqpc_sent' \in Nat /\ requests' \in Nat
    BY DEF DohInv, Counted
  <2>5. TypeOK'
    BY <2>1, <2>3, <2>4, Zenon
       DEF Types, Control, Linked, Timed, Buffered, Composed, Peered, TypeOK
  <2> QED BY <2>1, <2>5 DEF ReadInv
<1>2. CASE UNCHANGED vars
  <2>1. /\ UNCHANGED <<s_pc, r_pc, recvbuf, nqpc_recv, got>>
        /\ UNCHANGED <<is_sending, qid, outq, reported, requests, nqpc_sent, nqpc_ts, late>>
        /\ UNCHANGED <<is_ready, is_conn_ready, is_ssl_ready, do_reconnect, do_connect>>
        /\ UNCHANGED <<conn, fd_open, carried, dnsmsg, dnsmsg_completed, http2_code, http2_is_dns>>
        /\ UNCHANGED <<state, stage, down, said, bare>>
    BY <1>2 DEF vars, query, counts, session, link, message, peer
  <2>2. TypeOK'
    <3>1. Control /\ Linked /\ Timed /\ Buffered /\ Composed /\ Peered
      BY TypesSplit DEF ReadInv
    <3>2. Control' /\ Timed' /\ Buffered'
      BY <2>1, <3>1 DEF Control, Timed, Buffered
    <3>3. Linked' /\ Peered'
      BY <2>1, <3>1 DEF Linked, Peered
    <3>4. Composed'
      BY <2>1, <3>1 DEF Composed
    <3>5. Types' /\ nqpc_sent' \in Nat /\ requests' \in Nat
      BY DEF DohInv, Counted
    <3> QED BY <3>2, <3>3, <3>4, <3>5, Zenon
            DEF Types, Control, Linked, Timed, Buffered, Composed, Peered, TypeOK
  <2>3. Asked' /\ Shown'
    BY <2>1 DEF ReadInv, Asked, Shown
  <2>4. Grown /\ Aside
    BY <2>1 DEF Grown, Aside, Headed, message
  <2>5. Coming'
    BY <2>1, <2>4, ComingSame DEF ReadInv
  <2>6. Held' /\ Reading'
    BY <2>4, ReadingAside DEF ReadInv
  <2> QED BY <2>2, <2>3, <2>5, <2>6 DEF ReadInv
<1> QED BY <1>1, <1>2

-----------------------------------------------------------------------------
(* The theorems *)

\* sendto never meets its fatal "called when sending" (l.573), whenever RT drops the
\* connection; sockready and recv use the descriptor only while it is open, although
\* a callback of nghttp2 in either thread may close it (l.243).
THEOREM CalledWhenFree == Spec => []UsedWhenFree
<1>1. DohInv => NeverCalledWhenSending
  BY DEF DohInv, Pending, NeverCalledWhenSending
<1>2. DohInv => ReadyMeansOpen
  BY DEF DohInv, Opened, ReadyMeansOpen
<1>3. DohInv => UsedWhenFree
  BY <1>1, <1>2 DEF UsedWhenFree
<1> QED BY <1>3, Inductive, PTL

\* No more requests are submitted on a connection than num_queries_per_conn allows
\* (-O num-queries-per-conn, l.655), although a request counts only when it has left
\* and RT may drop the connection between sockready and sendto.
THEOREM LimitSafe == Spec => []PerConnKept
<1>1. Counted => PerConnKept
  BY DEF Counted
<1> QED BY <1>1, AlwaysCounted, PTL

\* AnswersKept: whatever is read, in whatever pieces, across drops and resets, with
\* one request on a connection recv returns only its answer, dnsmsg holds no more
\* than a message, and the fatal end of _http2_frame_recv_cb needs an answer that
\* ends without data.
THEOREM AnswersSafe == Spec => []AnswersKept
<1>1. ReadInv => AnswersKept
  BY DEF ReadInv, Shown, AnswersKept
<1>2. ReadInv /\ DohInv /\ Counted /\ DohInv' /\ Counted' /\ [Next]_vars => ReadInv'
  BY ReadKept
<1> QED BY <1>1, <1>2, ReadInit, Inductive, AlwaysCounted, PTL DEF Spec

\* perf__doh_sendto and perf__doh_sockready implement StreamSocket: a query in
\* progress is reported once or dropped before another one is accepted.
THEOREM Implements == Spec => KeepsPromise
<1>1. Init => Sock!SockInit
  BY DEF Init, Sock!SockInit
<1>2. DohInv /\ [Next]_vars => [Sock!SockNext]_<<IF is_sending THEN qid ELSE 0, reported>>
  <2> SUFFICES ASSUME DohInv, [Next]_vars
               PROVE  [Sock!SockNext]_<<IF is_sending THEN qid ELSE 0, reported>>
    OBVIOUS
  <2>1. CASE UNCHANGED vars
    BY <2>1 DEF vars, query
  <2>2. CASE Next
    <3>1. QueryStep
      BY <2>2, EveryStep
    <3>2. /\ is_sending \in BOOLEAN /\ qid \in Nat
          /\ \A q \in reported : q <= qid /\ q \in Nat
          /\ is_sending => qid # 0 /\ qid \notin reported
          /\ s_pc = "send" => ~is_sending
      BY DohAssumption DEF DohInv, Types, Pending, Queries
    <3>3. qid + 1 \notin reported /\ qid + 1 # 0
      BY <3>2
    <3>4. CASE Nothing
      BY <3>2, <3>4 DEF Nothing, Handed
    <3>5. CASE Dropped
      BY <3>2, <3>5 DEF Dropped, Handed, Sock!SockNext, Sock!Drop
    <3>6. CASE Reported
      BY <3>2, <3>6 DEF Reported, Sock!SockNext, Sock!Finish
    <3>7. CASE Taken
      <4>1. Sock!Take(qid')
        BY <3>2, <3>3, <3>7 DEF Taken, Handed, Sock!Take
      <4> QED BY <4>1, <3>7 DEF Taken, Handed, Sock!SockNext
    <3>8. CASE Kept
      <4>1. Sock!Keep(qid')
        BY <3>2, <3>3, <3>8 DEF Kept, Handed, Sock!Keep
      <4> QED BY <4>1, <3>8 DEF Kept, Handed, Sock!SockNext
    <3> QED BY <3>1, <3>4, <3>5, <3>6, <3>7, <3>8 DEF QueryStep
  <2> QED BY <2>1, <2>2
<1> QED BY <1>1, <1>2, Inductive, PTL DEF Spec, KeepsPromise, Sock!SockSpec
=============================================================================
