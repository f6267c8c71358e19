---------------------------- MODULE ResperfProofs ----------------------------
(***************************************************************************)
(* Safety of the main loop of resperf, for every number of ids, sockets    *)
(* and buckets, every schedule and every order of responses, timeouts and  *)
(* queries in progress.                                                    *)
(***************************************************************************)
EXTENDS Resperf, ListLemmas, FiniteSetTheorems

\* What the labels say: do_one_line is about to send the head of the list of free
\* ids, on a socket that keeps no query, and a socket is read only in a turn.
Locals ==
  /\ pc = "send" => IdsLeft /\ Head1 \notin inprogress
  /\ pc = "read" => tries > 0
  /\ phase = "wait" => wait_phase_began <= time_now

\* With datagrams no socket keeps a query.
Datagrams == ~Stream => inprogress = {} /\ \A s \in Socks : pend[s] = None

\* The outstanding queries that are counted in bucket b; with those that were
\* answered they are not more than the queries of the bucket.
Waiting(b) == {q \in Range(outstanding_list) : BucketOf(q) = b}
BucketLedger ==
  ~Stream => \A b \in Buckets :
    bucket_responses[b] + Cardinality(Waiting(b)) <= bucket_queries[b]

\* The inductive invariant
ResperfInv == Conservation /\ InProgressKept /\ Locals /\ Datagrams /\ BucketLedger

-----------------------------------------------------------------------------
(* The buckets *)

LEMMA DivType ==
  ASSUME NEW a \in Nat, NEW d \in Nat \ {0}
  PROVE  a \div d \in Nat /\ (a >= d => a \div d >= 1)
OBVIOUS

LEMMA DivMonotone ==
  ASSUME NEW a \in Nat, NEW b \in Nat, NEW d \in Nat \ {0}, a <= b
  PROVE  a \div d <= b \div d
OBVIOUS

LEMMA BucketsExist == NBuckets \in Nat \ {0} /\ TrafficTime \in Nat \ {0} /\ Buckets = 0 .. NBuckets - 1
<1>1. /\ TrafficTime \in Nat \ {0} /\ BucketInterval \in Nat \ {0}
  BY ResperfAssumption DEF TrafficTime
<1>2. TrafficTime + BucketInterval - 1 \in Nat /\ TrafficTime + BucketInterval - 1 >= BucketInterval
  BY <1>1
<1>3. NBuckets \in Nat /\ NBuckets >= 1
  BY <1>1, <1>2, DivType DEF NBuckets
<1> QED BY <1>1, <1>3 DEF Buckets

\* Every time falls into a bucket, and a later time not into an earlier one.
LEMMA FindBucket ==
  ASSUME NEW s \in Nat, NEW t \in Nat, s <= t
  PROVE  /\ find_bucket(s) \in Buckets
         /\ find_bucket(s) <= find_bucket(t)
<1>1. NBuckets \in Nat \ {0} /\ TrafficTime \in Nat \ {0} /\ Buckets = 0 .. NBuckets - 1
  BY BucketsExist
<1>2. NBuckets * s \in Nat /\ NBuckets * t \in Nat /\ NBuckets * s <= NBuckets * t
  BY <1>1
<1> DEFINE i == (NBuckets * s) \div TrafficTime
           j == (NBuckets * t) \div TrafficTime
<1>3. i \in Nat /\ j \in Nat /\ i <= j
  BY <1>1, <1>2, DivType, DivMonotone
<1>4. /\ find_bucket(s) = IF i > NBuckets - 1 THEN NBuckets - 1 ELSE i
      /\ find_bucket(t) = IF j > NBuckets - 1 THEN NBuckets - 1 ELSE j
  BY DEF find_bucket
<1> HIDE DEF i, j
<1> QED BY <1>1, <1>3, <1>4

-----------------------------------------------------------------------------
(* The sockets and the lists *)

LEMMA SocksOf == \A q \in Queries : SockOf(q) \in Socks
BY ResperfAssumption DEF SockOf, Socks, Queries

\* A query leaves a socket, none is put into one, and with datagrams nothing happens.
LEMMA SockReadyKept ==
  ASSUME TypeOK, Datagrams, NEW s \in Socks, NEW r, SockReady(s, r)
  PROVE  /\ bucket_queries' \in [Buckets -> Nat] /\ sent_timestamp' \in [Queries -> Nat]
         /\ pend' \in [Socks -> Queries \union {None}] /\ asked' \subseteq Queries
         /\ r = 1 => pend'[s] = None
         /\ \A x \in Socks : pend[x] = None => pend'[x] = None
         /\ ~Stream => UNCHANGED <<pend, asked, bucket_queries, sent_timestamp>>
         /\ UNCHANGED bucket_queries \/ bucket_queries' = [bucket_queries EXCEPT ![find_bucket(time_now)] = @ + 1]
<1>1. /\ bucket_queries \in [Buckets -> Nat] /\ sent_timestamp \in [Queries -> Nat] /\ time_now \in Nat
      /\ pend \in [Socks -> Queries \union {None}] /\ asked \subseteq Queries
  BY DEF TypeOK
<1>2. CASE (r = 1 => pend[s] = None) /\ UNCHANGED <<sockVars, bucket_queries, sent_timestamp>>
  BY <1>1, <1>2 DEF sockVars
<1>3. CASE pend[s] # None /\ pend' = [pend EXCEPT ![s] = None] /\ SentCallback(pend[s])
  <2>1. pend[s] \in Queries /\ Stream
    BY <1>1, <1>3 DEF Datagrams
  <2>2. sent_timestamp' \in [Queries -> Nat] /\ asked' \subseteq Queries
    BY <1>1, <1>3, <2>1 DEF SentCallback
  <2>3. bucket_queries' = [bucket_queries EXCEPT ![find_bucket(time_now)] = @ + 1]
    BY <1>3 DEF SentCallback
  <2>4. bucket_queries' \in [Buckets -> Nat]
    <3>1. find_bucket(time_now) \in Buckets
      BY <1>1, FindBucket
    <3> QED BY <1>1, <2>3, <3>1
  <2> QED BY <1>1, <1>3, <2>1, <2>2, <2>3, <2>4
<1>4. CASE /\ pend[s] # None /\ pend' = [pend EXCEPT ![s] = None]
           /\ UNCHANGED <<asked, bucket_queries, sent_timestamp>>
  <2>1. Stream
    BY <1>4 DEF Datagrams
  <2> QED BY <1>1, <1>4, <2>1
<1> QED BY <1>2, <1>3, <1>4 DEF SockReady

Partition ==
  /\ outstanding_list \in List(Queries) /\ instanding_list \in List(Queries)
  /\ Range(outstanding_list) \cap Range(instanding_list) = {}
  /\ Range(outstanding_list) \union Range(instanding_list) = Queries
  /\ num_queries_outstanding = Len(outstanding_list)
  /\ num_queries_outstanding \in Nat

LEMMA HeadFree ==
  ASSUME Partition, IdsLeft
  PROVE  Head1 \in Range(instanding_list) /\ Head1 \in Queries /\ Head1 \notin Range(outstanding_list)
BY HeadTailLemma, RangeType DEF Partition, IdsLeft, Head1

LEMMA MoveKept ==
  ASSUME Partition, IdsLeft, MoveToOutstanding(Head1)
  PROVE  Partition' /\ Range(outstanding_list') = Range(outstanding_list) \union {Head1}
<1> DEFINE q == Head1
<1>1. q \in Range(instanding_list) /\ q \in Queries /\ q \notin Range(outstanding_list)
  BY HeadFree
<1>2. /\ instanding_list' = Unlink(instanding_list, q)
      /\ outstanding_list' = <<q>> \o outstanding_list
      /\ num_queries_outstanding' = num_queries_outstanding + 1
  BY DEF MoveToOutstanding
<1> HIDE DEF q
<1>3. instanding_list' \in List(Queries) /\ Range(instanding_list') = Range(instanding_list) \ {q}
  BY <1>1, <1>2, UnlinkLemma DEF Partition
<1>4. outstanding_list' \in List(Queries) /\ Range(outstanding_list') = Range(outstanding_list) \union {q}
  BY <1>1, <1>2, LinkLemma DEF Partition
<1>5. Len(outstanding_list') = Len(outstanding_list) + 1 /\ Len(outstanding_list) \in Nat
  <2>1. outstanding_list \in Seq(Queries) /\ <<q>> \in Seq(Queries) /\ Len(<<q>>) = 1
    BY <1>1 DEF Partition, List
  <2>2. Len(outstanding_list) \in Nat
    BY <2>1
  <2> QED BY <1>2, <2>1, <2>2, ConcatElements
<1> QED BY <1>1, <1>2, <1>3, <1>4, <1>5 DEF Partition, q

LEMMA ReturnKept ==
  ASSUME Partition, NEW q \in Range(outstanding_list), Return(q)
  PROVE  /\ Partition' /\ Range(outstanding_list') = Range(outstanding_list) \ {q}
         /\ num_queries_outstanding' = num_queries_outstanding - 1
         /\ IdsLeft' /\ (IdsLeft => Head1' = Head1)
<1>1. q \in Queries /\ q \notin Range(instanding_list)
  BY RangeType DEF Partition
<1>2. /\ outstanding_list' = Unlink(outstanding_list, q)
      /\ instanding_list' = Append(instanding_list, q)
      /\ num_queries_outstanding' = num_queries_outstanding - 1
  BY DEF Return
<1>3. /\ outstanding_list' \in List(Queries) /\ Range(outstanding_list') = Range(outstanding_list) \ {q}
      /\ Len(outstanding_list') = Len(outstanding_list) - 1
  BY <1>2, UnlinkLemma DEF Partition
<1>4. instanding_list' \in List(Queries) /\ Range(instanding_list') = Range(instanding_list) \union {q}
  <2>1. instanding_list \in List(Queries)
    BY DEF Partition
  <2>2. /\ Append(instanding_list, q) \in List(Queries)
        /\ Range(Append(instanding_list, q)) = Range(instanding_list) \union {q}
    BY <1>1, <2>1, AppendLemma
  <2> QED BY <1>2, <2>2
<1>5. outstanding_list' \in Seq(Queries) /\ instanding_list \in Seq(Queries)
  BY <1>3 DEF List, Partition
<1>6. Len(outstanding_list') \in Nat
  BY <1>5
<1>7. IdsLeft' /\ (IdsLeft => Head1' = Head1)
  <2>1. /\ Len(Append(instanding_list, q)) = Len(instanding_list) + 1 /\ Len(instanding_list) \in Nat
        /\ Append(instanding_list, q) \in Seq(Queries)
        /\ \A i \in 1 .. Len(instanding_list) : Append(instanding_list, q)[i] = instanding_list[i]
    BY <1>1, <1>5, AppendElements
  <2>2. instanding_list' # <<>>
    BY <1>2, <2>1
  <2>3. IdsLeft => 1 \in 1 .. Len(instanding_list) /\ Head1 = instanding_list[1]
    BY <1>5, <2>1, Elements DEF IdsLeft, Head1
  <2>4. Head1' = instanding_list'[1]
    BY <1>2, <2>1, <2>2 DEF Head1
  <2> QED BY <1>2, <2>1, <2>2, <2>3, <2>4 DEF IdsLeft
<1> QED BY <1>1, <1>2, <1>3, <1>4, <1>6, <1>7 DEF Partition

-----------------------------------------------------------------------------
(* The ledger of a bucket *)

LEMMA QueriesFinite == IsFiniteSet(Queries)
<1>1. 0 \in Int /\ MaxOutstanding - 1 \in Int
  BY ResperfAssumption
<1> QED BY <1>1, FS_Interval DEF Queries

LEMMA WaitingFinite ==
  ASSUME Partition, NEW b
  PROVE  IsFiniteSet(Waiting(b)) /\ Cardinality(Waiting(b)) \in Nat
<1>1. Waiting(b) \subseteq Queries
  BY RangeType DEF Waiting, Partition
<1> QED BY <1>1, QueriesFinite, FS_Subset, FS_CardinalityType

LEMMA PartitionHolds == Conservation => Partition
BY DEF Conservation, Partition, TypeOK

\* A step that neither moves a query nor counts one keeps both ledgers.
LEMMA QuietKept ==
  ASSUME ResperfInv, TypeOK', UNCHANGED <<mode, outstanding_list, instanding_list, counters, bucket_responses>>,
         ~Stream => /\ UNCHANGED bucket_queries
                    /\ \A q \in Range(outstanding_list) : sent_timestamp'[q] = sent_timestamp[q]
  PROVE  Conservation' /\ BucketLedger'
<1>1. Conservation'
  BY DEF ResperfInv, Conservation, counters
<1>2. Stream' = Stream
  BY DEF Stream
<1>3. ASSUME ~Stream, NEW b \in Buckets
      PROVE  bucket_responses'[b] + Cardinality(Waiting(b)') <= bucket_queries'[b]
  <2>1. Waiting(b)' = Waiting(b)
    BY <1>3 DEF Waiting, BucketOf, find_bucket
  <2> QED BY <1>3, <2>1 DEF ResperfInv, BucketLedger
<1> QED BY <1>1, <1>2, <1>3 DEF BucketLedger

\* A query that leaves the outstanding list is no longer counted as waiting.
LEMMA ReturnLedger ==
  ASSUME ResperfInv, NEW q \in Range(outstanding_list), Return(q), UNCHANGED <<mode, sent_timestamp, bucket_queries>>,
         \/ UNCHANGED bucket_responses
         \/ bucket_responses' = [bucket_responses EXCEPT ![BucketOf(q)] = @ + 1]
  PROVE  BucketLedger'
<1>1. Partition /\ bucket_responses \in [Buckets -> Nat] /\ bucket_queries \in [Buckets -> Nat]
  BY PartitionHolds DEF ResperfInv, Conservation, TypeOK
<1>2. Range(outstanding_list') = Range(outstanding_list) \ {q} /\ Partition'
  BY <1>1, ReturnKept
<1> SUFFICES ASSUME ~Stream, NEW b \in Buckets
             PROVE  bucket_responses'[b] + Cardinality(Waiting(b)') <= bucket_queries'[b]
  BY DEF BucketLedger, Stream
<1>3. bucket_responses[b] + Cardinality(Waiting(b)) <= bucket_queries[b]
  BY DEF ResperfInv, BucketLedger
<1>4. /\ IsFiniteSet(Waiting(b)) /\ Cardinality(Waiting(b)) \in Nat
      /\ bucket_responses[b] \in Nat /\ bucket_queries[b] \in Nat
  BY <1>1, WaitingFinite
<1>5. Waiting(b)' = Waiting(b) \ {q}
  BY <1>2 DEF Waiting, BucketOf, find_bucket
<1>6. CASE BucketOf(q) = b
  <2>1. q \in Waiting(b)
    BY <1>6 DEF Waiting
  <2>2. Cardinality(Waiting(b)') = Cardinality(Waiting(b)) - 1
    BY <1>4, <1>5, <2>1, FS_RemoveElement, Zenon
  <2>3. bucket_responses'[b] \in {bucket_responses[b], bucket_responses[b] + 1}
    BY <1>1, <1>6
  <2> QED BY <1>3, <1>4, <2>2, <2>3
<1>7. CASE BucketOf(q) # b
  <2>1. Waiting(b)' = Waiting(b)
    BY <1>5, <1>7 DEF Waiting
  <2>2. bucket_responses'[b] = bucket_responses[b]
    BY <1>1, <1>7
  <2> QED BY <1>3, <2>1, <2>2
<1> QED BY <1>6, <1>7

\* A query that is sent is waiting in the bucket of this moment.
LEMMA SentLedger ==
  ASSUME ResperfInv, IdsLeft, MoveToOutstanding(Head1), SentCallback(Head1),
         UNCHANGED <<mode, time_now, bucket_responses>>
  PROVE  BucketLedger'
<1>a. PICK q : q = Head1
  OBVIOUS
<1>b. PICK n : n = find_bucket(time_now)
  OBVIOUS
<1>1. /\ Partition /\ bucket_responses \in [Buckets -> Nat] /\ bucket_queries \in [Buckets -> Nat]
      /\ sent_timestamp \in [Queries -> Nat] /\ time_now \in Nat
  BY PartitionHolds DEF ResperfInv, Conservation, TypeOK
<1>2. q \in Queries /\ q \notin Range(outstanding_list) /\ Range(outstanding_list) \subseteq Queries
  BY <1>a, <1>1, HeadFree, RangeType DEF Partition
<1>3. Range(outstanding_list') = Range(outstanding_list) \union {q}
  BY <1>a, <1>1, MoveKept
<1>4. /\ bucket_queries' = [bucket_queries EXCEPT ![n] = @ + 1]
      /\ sent_timestamp' = [sent_timestamp EXCEPT ![q] = time_now]
  BY <1>a, <1>b DEF SentCallback
<1>5. n \in Buckets
  BY <1>b, <1>1, FindBucket
<1> SUFFICES ASSUME ~Stream, NEW b \in Buckets
             PROVE  bucket_responses'[b] + Cardinality(Waiting(b)') <= bucket_queries'[b]
  BY DEF BucketLedger, Stream
<1>6. bucket_responses[b] + Cardinality(Waiting(b)) <= bucket_queries[b]
  BY DEF ResperfInv, BucketLedger
<1>7. /\ IsFiniteSet(Waiting(b)) /\ Cardinality(Waiting(b)) \in Nat
      /\ bucket_responses[b] \in Nat /\ bucket_queries[b] \in Nat
  BY <1>1, WaitingFinite
<1>8. sent_timestamp'[q] = time_now /\ \A x \in Range(outstanding_list) : sent_timestamp'[x] = sent_timestamp[x]
  BY <1>1, <1>2, <1>4
<1>9. BucketOf(q)' = n /\ \A x \in Range(outstanding_list) : BucketOf(x)' = BucketOf(x)
  BY <1>b, <1>8 DEF BucketOf, find_bucket
<1>10. CASE b = n
  <2>1. Waiting(b)' = Waiting(b) \union {q} /\ q \notin Waiting(b)
    BY <1>2, <1>3, <1>9, <1>10 DEF Waiting
  <2>2. Cardinality(Waiting(b)') = Cardinality(Waiting(b)) + 1
    BY <1>7, <2>1, FS_AddElement
  <2>3. bucket_queries'[b] = bucket_queries[b] + 1
    BY <1>1, <1>4, <1>10
  <2> QED BY <1>6, <1>7, <2>2, <2>3
<1>11. CASE b # n
  <2>1. Waiting(b)' = Waiting(b)
    BY <1>3, <1>9, <1>11 DEF Waiting
  <2>2. bucket_queries'[b] = bucket_queries[b]
    BY <1>1, <1>4, <1>11
  <2> QED BY <1>6, <2>1, <2>2
<1> QED BY <1>10, <1>11

-----------------------------------------------------------------------------
(* The invariant holds at the start, and every step of the loop keeps it. *)

LEMMA InitHolds == Init => ResperfInv
<1> SUFFICES ASSUME Init PROVE ResperfInv
  OBVIOUS
<1>1. MaxOutstanding \in Nat \ {0} /\ NSocks \in Nat \ {0} /\ Tries \in Nat
  BY ResperfAssumption
<1>2. instanding_list = [i \in 1 .. MaxOutstanding |-> i - 1]
  BY DEF Init
<1>3. /\ DOMAIN instanding_list = 1 .. MaxOutstanding
      /\ \A i \in 1 .. MaxOutstanding : instanding_list[i] = i - 1 /\ i - 1 \in Queries
  BY <1>1, <1>2 DEF Queries
<1>4. instanding_list \in Seq(Queries)
  BY <1>1, <1>2, <1>3
<1>5. IsInjective(instanding_list)
  BY <1>1, <1>3 DEF IsInjective
<1>6. Range(instanding_list) = Queries
  <2>1. \A q \in Queries : q + 1 \in 1 .. MaxOutstanding /\ instanding_list[q + 1] = q
    BY <1>1, <1>3 DEF Queries
  <2> QED BY <1>3, <2>1 DEF Range
<1>7. outstanding_list = <<>> /\ outstanding_list \in List(Queries) /\ Range(outstanding_list) = {}
  BY EmptyList DEF Init
<1>8. TypeOK
  <2>1. instanding_list \in List(Queries)
    BY <1>4, <1>5 DEF List
  <2>2. 0 \in Socks /\ 0 \in 0 .. Tries
    BY <1>1 DEF Socks
  <2> QED BY <1>7, <2>1, <2>2 DEF TypeOK, Init
<1>9. Conservation
  <2>1. Len(outstanding_list) = 0
    BY <1>7
  <2>2. /\ num_queries_outstanding = Len(outstanding_list)
        /\ num_queries_sent =
             num_responses_received + num_queries_timed_out + num_queries_outstanding
    BY <2>1 DEF Init
  <2>3. /\ Range(outstanding_list) \cap Range(instanding_list) = {}
        /\ Range(outstanding_list) \union Range(instanding_list) = Queries
    BY <1>6, <1>7
  <2> QED BY <1>8, <2>2, <2>3 DEF Conservation
<1>10. InProgressKept /\ Locals /\ Datagrams
  BY DEF InProgressKept, Locals, Datagrams, Init
<1>11. BucketLedger
  <2>1. \A b \in Buckets : Waiting(b) = {}
    BY <1>7 DEF Waiting
  <2>2. \A b \in Buckets : bucket_responses[b] = 0 /\ bucket_queries[b] = 0
    BY DEF Init
  <2> QED BY <2>1, <2>2, FS_EmptySet DEF BucketLedger
<1> QED BY <1>9, <1>10, <1>11 DEF ResperfInv

\* A step that leaves the lists, the counters, the buckets and the sockets alone.
LEMMA ControlKept ==
  ASSUME ResperfInv, UNCHANGED <<mode, lists, sent_timestamp, counters, buckets, sockVars>>,
         pc' \in {"top", "line", "recv", "retire", "end", "fatal"},
         phase' \in {"ramp", "sustain", "wait"}, time_now' \in Nat, wait_phase_began' \in Nat,
         phase' = "wait" => wait_phase_began' <= time_now',
         current_sock' \in Socks, tries' \in 0 .. Tries
  PROVE  ResperfInv'
<1>1. TypeOK'
  BY DEF ResperfInv, Conservation, TypeOK, lists, counters, buckets, sockVars
<1>2. Conservation' /\ BucketLedger'
  BY <1>1, QuietKept DEF lists, buckets
<1>3. InProgressKept' /\ Locals' /\ Datagrams'
  BY DEF ResperfInv, InProgressKept, Locals, Datagrams, IdsLeft, Head1, Stream, lists, sockVars
<1> QED BY <1>2, <1>3 DEF ResperfInv

\* A socket is asked whether it is ready, and the loop goes on to send or to read.
LEMMA SockStepKept ==
  ASSUME ResperfInv, NEW s \in Socks, NEW r, SockReady(s, r), pc' \in {"send", "recv", "read"},
         UNCHANGED <<mode, phase, time_now, wait_phase_began, lists, counters, bucket_responses,
                     recvVars>>,
         pc' = "send" => r = 1 /\ IdsLeft /\ Head1 \notin inprogress /\ s = SockOf(Head1),
         pc' = "read" => tries > 0
  PROVE  ResperfInv'
<1>1. TypeOK /\ Datagrams
  BY DEF ResperfInv, Conservation
<1>2. TypeOK'
  BY <1>1, SockReadyKept DEF TypeOK, lists, counters, recvVars
<1>3. Conservation' /\ BucketLedger'
  BY <1>1, <1>2, SockReadyKept, QuietKept DEF lists
<1>4. Stream' = Stream /\ inprogress' = inprogress /\ IdsLeft' = IdsLeft /\ Head1' = Head1
  BY DEF Stream, lists, IdsLeft, Head1
<1>5. pc' = "send" => pend'[SockOf(Head1')] = None
  BY <1>1, <1>4, SockReadyKept
<1>6. InProgressKept'
  BY <1>4, <1>5 DEF ResperfInv, InProgressKept, SockOf
<1>7. Locals'
  BY <1>4 DEF ResperfInv, Locals, recvVars
<1>8. Datagrams'
  BY <1>1, <1>4, SockReadyKept DEF Datagrams
<1> QED BY <1>3, <1>6, <1>7, <1>8 DEF ResperfInv

\* do_one_line goes on with the query in progress: it was the only one.
LEMMA ContinueLineKept ==
  ASSUME ResperfInv, ContinueLine, UNCHANGED mode
  PROVE  ResperfInv'
<1>1. TypeOK /\ Datagrams /\ Partition /\ Conservation
  BY PartitionHolds DEF ResperfInv, Conservation
<1>2. PICK r \in {-1, 0, 1} :
        /\ SockReady(SockOf(Head1), r)
        /\ IF r = -1
           THEN pc' = "recv" /\ UNCHANGED <<lists, counters>>
           ELSE /\ pc' = "line"
                /\ inprogress' = inprogress \ {Head1}
                /\ MoveToOutstanding(Head1)
  BY DEF ContinueLine
<1>3. IdsLeft /\ Head1 \in inprogress /\ Head1 \in Queries /\ SockOf(Head1) \in Socks /\ Stream
      /\ UNCHANGED <<mode, phase, time_now, wait_phase_began, bucket_responses, recvVars>>
  BY <1>1, HeadFree, SocksOf DEF ContinueLine, Datagrams
<1>4. CASE r = -1
  BY <1>2, <1>3, <1>4, SockStepKept
<1>5. CASE r # -1
  <2>1. pc' = "line" /\ inprogress' = inprogress \ {Head1} /\ MoveToOutstanding(Head1)
    BY <1>2, <1>5
  <2>2. Partition' /\ inprogress' = {} /\ Stream'
    BY <1>1, <1>3, <2>1, MoveKept DEF ResperfInv, InProgressKept, Stream
  <2>3. TypeOK'
    <3>1. /\ bucket_queries' \in [Buckets -> Nat] /\ sent_timestamp' \in [Queries -> Nat]
          /\ pend' \in [Socks -> Queries \union {None}] /\ asked' \subseteq Queries
      BY <1>1, <1>2, <1>3, SockReadyKept
    <3>2. /\ num_queries_sent' \in Nat /\ num_responses_received' \in Nat
          /\ num_queries_timed_out' \in Nat
      BY <1>1, <2>1 DEF MoveToOutstanding, TypeOK
    <3> QED BY <1>1, <1>3, <2>1, <2>2, <3>1, <3>2 DEF TypeOK, Partition, recvVars
  <2>4. num_queries_sent' = num_responses_received' + num_queries_timed_out' + num_queries_outstanding'
    BY <1>1, <2>1 DEF MoveToOutstanding, Conservation, TypeOK
  <2>5. Conservation'
    BY <2>2, <2>3, <2>4 DEF Conservation, Partition
  <2>6. InProgressKept' /\ Locals' /\ Datagrams' /\ BucketLedger'
    BY <1>3, <2>1, <2>2 DEF ResperfInv, InProgressKept, Locals, Datagrams, BucketLedger
  <2> QED BY <2>5, <2>6 DEF ResperfInv
<1> QED BY <1>4, <1>5

LEMMA SendWholeKept ==
  ASSUME ResperfInv, SendWhole, UNCHANGED mode
  PROVE  ResperfInv'
<1>1. TypeOK /\ Datagrams /\ Partition /\ Conservation
  BY PartitionHolds DEF ResperfInv, Conservation
<1>2. /\ pc = "send" /\ pc' = "recv" /\ MoveToOutstanding(Head1) /\ SentCallback(Head1)
      /\ UNCHANGED <<mode, phase, time_now, wait_phase_began, inprogress, bucket_responses, recvVars, pend>>
  BY DEF SendWhole
<1>3. IdsLeft /\ inprogress = {} /\ Head1 \in Queries
  BY <1>1, <1>2, HeadFree DEF ResperfInv, Locals, InProgressKept
<1>4. Partition' /\ BucketLedger'
  BY <1>1, <1>2, <1>3, MoveKept, SentLedger
<1>5. TypeOK'
  <2>1. bucket_queries' \in [Buckets -> Nat]
    <3>1. find_bucket(time_now) \in Buckets
      BY <1>1, FindBucket DEF TypeOK
    <3> QED BY <1>1, <1>2, <3>1 DEF TypeOK, SentCallback
  <2>2. sent_timestamp' \in [Queries -> Nat] /\ asked' \subseteq Queries
    BY <1>1, <1>2, <1>3 DEF TypeOK, SentCallback
  <2>3. /\ num_queries_sent' \in Nat /\ num_responses_received' \in Nat
        /\ num_queries_timed_out' \in Nat
    BY <1>1, <1>2 DEF MoveToOutstanding, TypeOK
  <2> QED BY <1>1, <1>2, <1>4, <2>1, <2>2, <2>3 DEF TypeOK, Partition, recvVars
<1>6. num_queries_sent' = num_responses_received' + num_queries_timed_out' + num_queries_outstanding'
  BY <1>1, <1>2 DEF MoveToOutstanding, Conservation, TypeOK
<1>7. Conservation'
  BY <1>4, <1>5, <1>6 DEF Conservation, Partition
<1>8. InProgressKept' /\ Locals' /\ Datagrams'
  BY <1>1, <1>2, <1>3 DEF ResperfInv, InProgressKept, Locals, Datagrams, Stream
<1> QED BY <1>4, <1>7, <1>8 DEF ResperfInv

\* The query in progress is the head of the free ids, whose time no bucket uses.
LEMMA SendPartKept ==
  ASSUME ResperfInv, SendPart, UNCHANGED mode
  PROVE  ResperfInv'
<1>1. TypeOK /\ Datagrams /\ Partition /\ Conservation
  BY PartitionHolds DEF ResperfInv, Conservation
<1>2. PICK h : h = Head1
  OBVIOUS
<1>3. /\ pc = "send" /\ pc' = "recv" /\ sent_timestamp' = [sent_timestamp EXCEPT ![h] = time_now]
      /\ \/ /\ Stream /\ inprogress' = inprogress \union {h}
            /\ pend' = [pend EXCEPT ![SockOf(h)] = h]
         \/ UNCHANGED <<inprogress, pend>>
      /\ UNCHANGED <<mode, phase, time_now, wait_phase_began, outstanding_list, instanding_list,
                     counters, buckets, recvVars, asked>>
  BY <1>2 DEF SendPart
<1>4. IdsLeft /\ h \in Queries /\ h \notin Range(outstanding_list) /\ SockOf(h) \in Socks
      /\ inprogress \subseteq {h}
  BY <1>1, <1>2, <1>3, HeadFree, SocksOf DEF ResperfInv, Locals, InProgressKept
<1>5. TypeOK'
  BY <1>1, <1>3, <1>4 DEF TypeOK, counters, buckets, recvVars
<1>6. \A q \in Range(outstanding_list) : sent_timestamp'[q] = sent_timestamp[q]
  BY <1>1, <1>3, <1>4, RangeType DEF TypeOK
<1>7. Conservation' /\ BucketLedger'
  BY <1>3, <1>5, <1>6, QuietKept DEF buckets
<1>8. IdsLeft' /\ h = Head1' /\ Stream' = Stream
  BY <1>2, <1>3, <1>4 DEF IdsLeft, Head1, Stream
<1>9. InProgressKept' /\ Locals'
  BY <1>3, <1>4, <1>8 DEF ResperfInv, InProgressKept, Locals
<1>10. Datagrams'
  BY <1>1, <1>3, <1>8 DEF Datagrams
<1> QED BY <1>7, <1>9, <1>10 DEF ResperfInv

\* A query leaves the outstanding list, answered or timed out.
LEMMA LeaveKept ==
  ASSUME ResperfInv, NEW q \in Range(outstanding_list), Return(q),
         UNCHANGED <<mode, phase, time_now, wait_phase_began, inprogress, sent_timestamp,
                     num_queries_sent, bucket_queries, pend, asked>>,
         pc' \in {"recv", "retire"}, current_sock' \in Socks, tries' \in 0 .. Tries,
         \/ /\ num_responses_received' = num_responses_received + 1
            /\ num_queries_timed_out' = num_queries_timed_out
            /\ bucket_responses' = [bucket_responses EXCEPT ![BucketOf(q)] = @ + 1]
         \/ /\ num_responses_received' = num_responses_received
            /\ num_queries_timed_out' = num_queries_timed_out + 1
            /\ bucket_responses' = bucket_responses
  PROVE  ResperfInv'
<1>1. TypeOK /\ Datagrams /\ Partition /\ Conservation
  BY PartitionHolds DEF ResperfInv, Conservation
<1>2. /\ Partition' /\ num_queries_outstanding' = num_queries_outstanding - 1
      /\ IdsLeft' /\ (IdsLeft => Head1' = Head1)
  BY <1>1, ReturnKept
<1>3. BucketLedger'
  BY ReturnLedger
<1>4. TypeOK'
  <2>1. BucketOf(q) \in Buckets
    <3>1. outstanding_list \in List(Queries) /\ sent_timestamp \in [Queries -> Nat]
      BY <1>1 DEF TypeOK
    <3>2. sent_timestamp[q] \in Nat
      BY <3>1, RangeType
    <3> QED BY <3>2, FindBucket DEF BucketOf
  <2>2. bucket_responses' \in [Buckets -> Nat]
    <3>1. bucket_responses \in [Buckets -> Nat]
      BY <1>1 DEF TypeOK
    <3>2. \/ bucket_responses' = [bucket_responses EXCEPT ![BucketOf(q)] = @ + 1]
          \/ bucket_responses' = bucket_responses
      OBVIOUS
    <3> QED BY <2>1, <3>1, <3>2
  <2>3. num_responses_received' \in Nat /\ num_queries_timed_out' \in Nat
    BY <1>1 DEF TypeOK
  <2> QED BY <1>1, <1>2, <2>2, <2>3 DEF TypeOK, Partition
<1>5. num_queries_sent' = num_responses_received' + num_queries_timed_out' + num_queries_outstanding'
  <2>1. /\ num_responses_received \in Nat /\ num_queries_timed_out \in Nat /\ num_queries_outstanding \in Nat
        /\ num_queries_sent = num_responses_received + num_queries_timed_out + num_queries_outstanding
        /\ num_queries_sent' = num_queries_sent
    BY <1>1 DEF Conservation, TypeOK
  <2>2. num_responses_received' + num_queries_timed_out' = num_responses_received + num_queries_timed_out + 1
    BY <2>1
  <2> QED BY <1>2, <2>1, <2>2
<1>6. Conservation'
  BY <1>2, <1>4, <1>5 DEF Conservation, Partition
<1>7. InProgressKept' /\ Locals' /\ Datagrams'
  BY <1>2 DEF ResperfInv, InProgressKept, Locals, Datagrams, Stream
<1> QED BY <1>3, <1>6, <1>7 DEF ResperfInv

LEMMA TurnKept ==
  ASSUME TypeOK, tries > 0, NextTurn
  PROVE  pc' = "recv" /\ current_sock' \in Socks /\ tries' \in 0 .. Tries
<1>1. NSocks \in Nat \ {0} /\ Tries \in Nat
  BY ResperfAssumption
<1>2. current_sock \in 0 .. NSocks - 1 /\ tries \in 0 .. Tries
  BY DEF TypeOK, Socks
<1> QED BY <1>1, <1>2 DEF NextTurn, NextSock, Socks

LEMMA ReadResponseKept ==
  ASSUME ResperfInv, NEW q \in Queries, ReadResponse(q), UNCHANGED mode
  PROVE  ResperfInv'
<1>1. TypeOK /\ tries > 0
  BY DEF ResperfInv, Conservation, Locals, ReadResponse
<1>2. pc' = "recv" /\ current_sock' \in Socks /\ tries' \in 0 .. Tries
  BY <1>1, TurnKept DEF ReadResponse
<1>3. CASE q \in Range(outstanding_list)
  BY <1>2, <1>3, LeaveKept DEF ReadResponse, Accepted
<1>4. CASE q \notin Range(outstanding_list)
  <2>1. UNCHANGED <<mode, phase, time_now, wait_phase_began, lists, sent_timestamp, counters,
                    buckets, sockVars>>
    BY <1>4 DEF ReadResponse, Accepted, buckets, sockVars
  <2> QED BY <1>1, <1>2, <2>1, ControlKept DEF TypeOK, ResperfInv, Locals
<1> QED BY <1>3, <1>4

LEMMA RetireOneKept ==
  ASSUME ResperfInv, RetireOne, UNCHANGED mode
  PROVE  ResperfInv'
<1>1. TypeOK
  BY DEF ResperfInv, Conservation
<1>2. PICK q : q = ListTail(outstanding_list)
  OBVIOUS
<1>3. q \in Range(outstanding_list)
  BY <1>1, <1>2, HeadTailLemma DEF RetireOne, Expired, TypeOK
<1>4. /\ Return(q) /\ num_queries_timed_out' = num_queries_timed_out + 1
      /\ UNCHANGED <<pc, phase, time_now, wait_phase_began, inprogress, sent_timestamp,
                     num_queries_sent, num_responses_received, buckets, recvVars, pend, asked>>
      /\ pc = "retire"
  BY <1>2 DEF RetireOne
<1>5. current_sock' \in Socks /\ tries' \in 0 .. Tries /\ UNCHANGED <<bucket_queries, bucket_responses>>
  BY <1>1, <1>4 DEF TypeOK, recvVars, buckets
<1> QED BY <1>3, <1>4, <1>5, LeaveKept

LEMMA NextKept == ResperfInv /\ [Next]_vars => ResperfInv'
<1> SUFFICES ASSUME ResperfInv, [Next]_vars PROVE ResperfInv'
  OBVIOUS
<1>1. TypeOK
  BY DEF ResperfInv, Conservation
<1>2. CASE UNCHANGED vars
  BY <1>2 DEF vars, lists, counters, buckets, recvVars, sockVars, ResperfInv, Conservation,
     InProgressKept, Locals, Datagrams, BucketLedger, Waiting, BucketOf, TypeOK, IdsLeft, Head1, Stream
<1>3. CASE LoopTop /\ UNCHANGED mode
  <2>1. NextPhase \in {"ramp", "sustain", "wait"}
    BY <1>1 DEF TypeOK, NextPhase
  <2>2. /\ pc' \in {"line", "recv", "end"} /\ phase' \in {"ramp", "sustain", "wait"}
        /\ wait_phase_began' \in Nat /\ tries' \in 0 .. Tries
    <3>1. pc' \in {"line", "recv", "end"} /\ phase' \in {"ramp", "sustain", "wait"}
      BY <1>1, <1>3, <2>1 DEF LoopTop, TypeOK
    <3>2. wait_phase_began' \in Nat
      BY <1>1, <1>3 DEF LoopTop, TypeOK
    <3>3. tries' \in 0 .. Tries
      BY <1>1, <1>3, ResperfAssumption DEF LoopTop, TypeOK
    <3> QED BY <3>1, <3>2, <3>3
  <2>3. phase' = "wait" => wait_phase_began' <= time_now'
    BY <1>1, <1>3 DEF LoopTop, TypeOK, ResperfInv, Locals
  <2> QED BY <1>1, <1>3, <2>2, <2>3, ControlKept DEF LoopTop, TypeOK
<1>4. CASE NoMore /\ UNCHANGED mode
  BY <1>1, <1>4, ControlKept DEF NoMore, TypeOK, recvVars
<1>5. CASE ContinueLine /\ UNCHANGED mode
  BY <1>5, ContinueLineKept
<1>6. CASE LineReady /\ UNCHANGED mode
  <2>1. PICK r \in {-1, 0, 1} : SockReady(SockOf(Head1), r) /\ pc' = IF r = 1 THEN "send" ELSE "recv"
    BY <1>6 DEF LineReady, Ready
  <2>2. SockOf(Head1) \in Socks
    BY <1>6, HeadFree, SocksOf, PartitionHolds DEF LineReady, ResperfInv
  <2> QED BY <1>6, <2>1, <2>2, SockStepKept DEF LineReady
<1>7. CASE (BadLine \/ RecvDone \/ Fatal) /\ UNCHANGED mode
  BY <1>1, <1>7, ControlKept DEF BadLine, RecvDone, Fatal, TypeOK, recvVars, ResperfInv, Locals
<1>8. CASE SendWhole /\ UNCHANGED mode
  BY <1>8, SendWholeKept
<1>9. CASE SendPart /\ UNCHANGED mode
  BY <1>9, SendPartKept
<1>10. CASE RecvReady /\ UNCHANGED mode
  <2>1. PICK r \in {-1, 0, 1} : SockReady(current_sock, r)
    BY <1>10 DEF RecvReady
  <2> QED BY <1>1, <1>10, <2>1, SockStepKept DEF RecvReady, TypeOK
<1>11. CASE ReadNone /\ UNCHANGED mode
  <2>1. pc' = "recv" /\ current_sock' \in Socks /\ tries' \in 0 .. Tries
    BY <1>1, <1>11, TurnKept DEF ReadNone, ResperfInv, Locals
  <2> QED BY <1>1, <1>11, <2>1, ControlKept DEF ReadNone, TypeOK, ResperfInv, Locals
<1>12. CASE (\E q \in Queries : ReadResponse(q)) /\ UNCHANGED mode
  BY <1>12, ReadResponseKept
<1>13. CASE RetireOne /\ UNCHANGED mode
  BY <1>13, RetireOneKept
<1>14. CASE LoopEnd /\ UNCHANGED mode
  <2>1. time_now' \in Nat /\ time_now <= time_now'
    <3>1. time_now \in Nat /\ EndTime \in Int
      BY <1>1, ResperfAssumption DEF TypeOK, EndTime, TrafficTime
    <3>2. time_now' \in time_now .. EndTime
      BY <1>14 DEF LoopEnd
    <3> QED BY <3>1, <3>2
  <2>2. /\ UNCHANGED <<mode, lists, sent_timestamp, counters, buckets, sockVars>> /\ pc' = "top"
        /\ phase' = phase /\ wait_phase_began' = wait_phase_began
        /\ current_sock' = current_sock /\ tries' = tries
    BY <1>14 DEF LoopEnd, recvVars
  <2>3. /\ phase \in {"ramp", "sustain", "wait"} /\ wait_phase_began \in Nat /\ time_now \in Nat
        /\ current_sock \in Socks /\ tries \in 0 .. Tries
    BY <1>1 DEF TypeOK
  <2>4. phase' = "wait" => wait_phase_began' <= time_now'
    BY <2>1, <2>2, <2>3 DEF ResperfInv, Locals
  <2> QED BY <2>1, <2>2, <2>3, <2>4, ControlKept
<1> QED BY <1>2, <1>3, <1>4, <1>5, <1>6, <1>7, <1>8, <1>9, <1>10, <1>11, <1>12, <1>13, <1>14
        DEF Next, Loop, DoOneLine, TryProcessResponse, Ended

-----------------------------------------------------------------------------
(* The buckets that are printed *)

\* The only bucket in which a step may count a query is the one of this moment.
LEMMA CountedNow ==
  ASSUME ResperfInv, [Next]_vars
  PROVE  UNCHANGED bucket_queries \/ bucket_queries' = [bucket_queries EXCEPT ![find_bucket(time_now)] = @ + 1]
<1>1. TypeOK /\ Datagrams
  BY DEF ResperfInv, Conservation
<1>2. CASE \E s \in Socks, r \in {-1, 0, 1} : SockReady(s, r)
  BY <1>1, <1>2, SockReadyKept
<1>3. CASE ContinueLine \/ LineReady \/ RecvReady
  <2>1. \A q : IdsLeft /\ q = Head1 => SockOf(q) \in Socks
    BY HeadFree, SocksOf, PartitionHolds DEF ResperfInv
  <2>2. current_sock \in Socks
    BY <1>1 DEF TypeOK
  <2> QED BY <1>2, <1>3, <2>1, <2>2 DEF ContinueLine, LineReady, RecvReady
<1>4. CASE SendWhole
  BY <1>4 DEF SendWhole, SentCallback
<1>5. CASE LoopTop \/ NoMore \/ BadLine \/ SendPart \/ ReadNone \/ RecvDone \/ RetireOne \/ LoopEnd
           \/ Fatal \/ Ended \/ UNCHANGED vars \/ \E q \in Queries : ReadResponse(q)
  BY <1>5 DEF LoopTop, NoMore, BadLine, SendPart, ReadNone, RecvDone, RetireOne, LoopEnd, Fatal, Ended,
     ReadResponse, vars, buckets
<1> QED BY <1>3, <1>4, <1>5 DEF Next, Loop, DoOneLine, TryProcessResponse

LEMMA PrintedKept ==
  ASSUME ResperfInv, [Next]_vars, phase = "wait", NEW b \in 0 .. last_bucket_used,
         find_bucket(wait_phase_began) > 0
  PROVE  bucket_queries'[b] = bucket_queries[b]
<1>1. bucket_queries \in [Buckets -> Nat] /\ time_now \in Nat /\ wait_phase_began \in Nat
      /\ wait_phase_began <= time_now
  BY DEF ResperfInv, Conservation, TypeOK, Locals
<1>2. /\ find_bucket(wait_phase_began) \in Buckets /\ find_bucket(time_now) \in Buckets
      /\ find_bucket(wait_phase_began) <= find_bucket(time_now)
  BY <1>1, FindBucket
<1>3. b < find_bucket(time_now) /\ b \in Buckets
  BY <1>2, BucketsExist DEF last_bucket_used
<1> QED BY <1>1, <1>2, <1>3, CountedNow

-----------------------------------------------------------------------------
(* The schedule *)

\* What the schedule asks for in this pass of the loop
Scheduled == num_scheduled(phase, time_now)

\* On a stream a pass may count one query more than was asked for.
Extra == IF Stream THEN 1 ELSE 0

\* resperf is not ahead of its schedule but for that query: do_one_line is called
\* for a query that is due, and only the one in progress may be counted before it.
OnSchedule ==
  phase # "wait" =>
    /\ pc = "top" => num_queries_sent <= num_scheduled(NextPhase, time_now) + Extra
    /\ pc # "top" => (phase = "ramp" => time_now < RampTime) /\ num_queries_sent <= Scheduled + Extra
    /\ pc \in {"line", "send"} =>
         \/ num_queries_sent < Scheduled
         \/ Stream /\ inprogress = {} /\ num_queries_sent <= Scheduled

LEMMA ProductMonotone ==
  ASSUME NEW m \in Nat, NEW a \in Nat, NEW b \in Nat, a <= b
  PROVE  m * a \in Nat /\ m * b \in Nat /\ m * a <= m * b
OBVIOUS

LEMMA Cancel ==
  ASSUME NEW r \in Nat \ {0}, NEW a \in Int, NEW b \in Int, r * a <= r * b
  PROVE  a <= b
OBVIOUS

\* Later in a phase the schedule does not ask for less, and neither does the
\* sustain phase after the ramp.
LEMMA ScheduleGrows ==
  ASSUME NEW s \in Nat, NEW t \in Nat, s <= t
  PROVE  /\ num_scheduled("sustain", s) \in Int
         /\ num_scheduled("sustain", s) <= num_scheduled("sustain", t)
         /\ s < RampTime => /\ num_scheduled("ramp", s) \in Int
                            /\ num_scheduled("ramp", s) <= num_scheduled("ramp", t)
                            /\ RampTime <= t => num_scheduled("ramp", s) <= num_scheduled("sustain", t)
<1>0. MaxQps \in Nat /\ RampTime \in Nat
  BY ResperfAssumption
<1>1. MaxQps * s \in Nat /\ MaxQps * t \in Nat /\ MaxQps * s <= MaxQps * t
  BY <1>0, ProductMonotone
<1>2. MaxQps * RampTime \in Nat /\ MaxQps * (s - RampTime) = MaxQps * s - MaxQps * RampTime
      /\ MaxQps * (t - RampTime) = MaxQps * t - MaxQps * RampTime
  BY <1>0
<1>3. /\ num_scheduled("sustain", s) = (2 * (MaxQps * s) - MaxQps * RampTime) \div 2
      /\ num_scheduled("sustain", t) = (2 * (MaxQps * t) - MaxQps * RampTime) \div 2
  BY <1>0, <1>2 DEF num_scheduled
<1>4. /\ num_scheduled("sustain", s) \in Int
      /\ num_scheduled("sustain", s) <= num_scheduled("sustain", t)
  BY <1>1, <1>2, <1>3
<1>5. ASSUME s < RampTime
      PROVE  /\ num_scheduled("ramp", s) \in Int
             /\ num_scheduled("ramp", s) <= num_scheduled("ramp", t)
             /\ RampTime <= t => num_scheduled("ramp", s) <= num_scheduled("sustain", t)
  <2>0. 2 * RampTime \in Nat \ {0} /\ RampTime \in Nat \ {0}
    BY <1>0, <1>5
  <2>1. /\ MaxQps * s * s \in Nat /\ MaxQps * s * t \in Nat /\ MaxQps * s * s <= MaxQps * s * t
    BY <1>1, ProductMonotone
  <2>2. MaxQps * s * t <= MaxQps * t * t /\ MaxQps * t * t \in Nat
    <3>1. t * (MaxQps * s) <= t * (MaxQps * t) /\ t * (MaxQps * t) \in Nat
      BY <1>1, ProductMonotone
    <3>2. t * (MaxQps * s) = MaxQps * s * t /\ t * (MaxQps * t) = MaxQps * t * t
      BY <1>1
    <3> QED BY <3>1, <3>2
  <2>3. MaxQps * s * s <= MaxQps * t * t
    BY <2>1, <2>2
  <2> DEFINE k == (MaxQps * s * s) \div (2 * RampTime)
  <2>4. /\ num_scheduled("ramp", s) = k
        /\ num_scheduled("ramp", t) = (MaxQps * t * t) \div (2 * RampTime)
    BY DEF num_scheduled
  <2>5. k \in Nat /\ k <= (MaxQps * t * t) \div (2 * RampTime)
    BY <2>0, <2>1, <2>2, <2>3, DivType, DivMonotone
  <2>6. ASSUME RampTime <= t PROVE k <= num_scheduled("sustain", t)
    <3>1. (2 * RampTime) * k <= MaxQps * s * s
      BY <2>0, <2>1
    <3>2. MaxQps * s * s <= RampTime * (MaxQps * RampTime)
      <4>1. /\ MaxQps * s * s <= MaxQps * s * RampTime /\ MaxQps * s * RampTime \in Nat
        BY <1>0, <1>1, <1>5, ProductMonotone
      <4>2. MaxQps * s <= MaxQps * RampTime
        BY <1>0, <1>5, ProductMonotone
      <4>3. RampTime * (MaxQps * s) <= RampTime * (MaxQps * RampTime)
        BY <1>0, <1>1, <1>2, <4>2, ProductMonotone
      <4>4. RampTime * (MaxQps * s) = MaxQps * s * RampTime
        BY <1>0, <1>1
      <4>5. RampTime * (MaxQps * RampTime) \in Nat
        BY <1>0, <1>2
      <4> QED BY <2>1, <4>1, <4>3, <4>4, <4>5
    <3>3. (2 * RampTime) * k = RampTime * (2 * k)
      BY <2>0, <2>5
    <3> HIDE DEF k
    <3>4. RampTime * (2 * k) <= RampTime * (MaxQps * RampTime)
      <4>1. RampTime * (2 * k) \in Int /\ RampTime * (MaxQps * RampTime) \in Int
        BY <1>0, <1>2, <2>5
      <4> QED BY <2>1, <3>1, <3>2, <3>3, <4>1
    <3>5. 2 * k <= MaxQps * RampTime
      BY <1>2, <2>0, <2>5, <3>4, Cancel
    <3>6. MaxQps * RampTime <= MaxQps * t
      BY <1>0, <2>6, ProductMonotone
    <3> QED BY <1>1, <1>2, <1>3, <2>5, <3>5, <3>6
  <2> QED BY <2>4, <2>5, <2>6
<1> QED BY <1>4, <1>5

LEMMA OnScheduleInit == Init => OnSchedule
<1> SUFFICES ASSUME Init PROVE OnSchedule
  OBVIOUS
<1>0. MaxQps \in Nat /\ RampTime \in Nat
  BY ResperfAssumption
<1>1. pc = "top" /\ phase = "ramp" /\ time_now = 0 /\ num_queries_sent = 0 /\ Extra \in Nat
  BY DEF Init, Extra
<1>2. CASE RampTime = 0
  <2>1. num_scheduled("sustain", 0) = (MaxQps * 0 + 2 * MaxQps * (0 - 0)) \div 2
    BY <1>2 DEF num_scheduled
  <2>2. NextPhase = "sustain" /\ num_scheduled("sustain", 0) = 0
    BY <1>0, <1>1, <1>2, <2>1 DEF NextPhase
  <2> QED BY <1>1, <2>2 DEF OnSchedule
<1>3. CASE RampTime # 0
  <2>1. num_scheduled("ramp", 0) = (MaxQps * 0 * 0) \div (2 * RampTime)
    BY DEF num_scheduled
  <2>2. NextPhase = "ramp" /\ num_scheduled("ramp", 0) \in Nat
    BY <1>0, <1>1, <1>3, <2>1, DivType DEF NextPhase
  <2> QED BY <1>1, <2>2 DEF OnSchedule
<1> QED BY <1>2, <1>3

\* The top of the loop: the phase that it goes on with is the one the schedule was
\* asked for.
LEMMA TopOnSchedule ==
  ASSUME TypeOK, OnSchedule, LoopTop, UNCHANGED mode
  PROVE  OnSchedule'
<1> SUFFICES ASSUME phase' # "wait" PROVE OnSchedule'
  BY DEF OnSchedule
<1>1. /\ pc = "top" /\ ~Done /\ time_now \in Nat /\ num_queries_sent \in Nat
      /\ phase \in {"ramp", "sustain", "wait"}
  BY DEF LoopTop, TypeOK, Done
<1>2. /\ phase' = NextPhase /\ NextPhase # "wait" /\ phase # "wait"
      /\ pc' = IF Behind > 0 THEN "line" ELSE "recv"
      /\ UNCHANGED <<time_now, num_queries_sent, mode>>
  BY <1>1 DEF LoopTop, NextPhase, counters
<1>3. Scheduled' = num_scheduled(NextPhase, time_now) /\ Extra' = Extra /\ Extra \in Nat
  BY <1>2 DEF Scheduled, num_scheduled, Extra, Stream
<1>4. phase' = "ramp" => time_now' < RampTime
  BY <1>1, <1>2, ResperfAssumption DEF NextPhase
<1>5. num_scheduled(NextPhase, time_now) \in Int
  <2>1. NextPhase = "sustain" \/ (NextPhase = "ramp" /\ time_now < RampTime)
    BY <1>1, <1>2, ResperfAssumption DEF NextPhase
  <2> QED BY <1>1, <2>1, ScheduleGrows
<1>6. num_queries_sent <= num_scheduled(NextPhase, time_now) + Extra
  BY <1>1, <1>2 DEF OnSchedule
<1>7. pc' = "line" => num_queries_sent < num_scheduled(NextPhase, time_now)
  BY <1>1, <1>2, <1>5 DEF Behind
<1> QED BY <1>2, <1>3, <1>4, <1>6, <1>7 DEF OnSchedule

\* The end of the loop: time passes.
LEMMA EndOnSchedule ==
  ASSUME TypeOK, OnSchedule, LoopEnd, UNCHANGED mode
  PROVE  OnSchedule'
<1> SUFFICES ASSUME phase' # "wait" PROVE OnSchedule'
  BY DEF OnSchedule
<1>1. /\ pc = "retire" /\ pc' = "top" /\ phase' = phase /\ phase \in {"ramp", "sustain"}
      /\ UNCHANGED <<num_queries_sent, mode>> /\ num_queries_sent \in Nat
      /\ time_now \in Nat /\ time_now' \in time_now .. EndTime /\ EndTime \in Int
  BY ResperfAssumption DEF LoopEnd, TypeOK, counters, EndTime, TrafficTime
<1>2. time_now' \in Nat /\ time_now <= time_now'
  BY <1>1
<1>3. Extra' = Extra /\ Extra \in Nat
  BY <1>1 DEF Extra, Stream
<1>4. num_queries_sent <= num_scheduled(phase, time_now) + Extra /\ (phase = "ramp" => time_now < RampTime)
  BY <1>1 DEF OnSchedule, Scheduled
<1>5. /\ num_scheduled(phase, time_now) \in Int
      /\ num_scheduled(phase, time_now) <= num_scheduled(NextPhase', time_now')
      /\ num_scheduled(NextPhase', time_now') \in Int
  <2>1. CASE phase = "sustain"
    <3>1. num_scheduled(NextPhase', time_now') = num_scheduled("sustain", time_now')
      BY <1>1, <2>1 DEF NextPhase, num_scheduled
    <3> QED BY <1>2, <1>1, <2>1, <3>1, ScheduleGrows
  <2>2. CASE phase = "ramp"
    <3>1. NextPhase' = (IF time_now' >= RampTime THEN "sustain" ELSE "ramp")
      BY <1>1, <2>2 DEF NextPhase
    <3> QED BY <1>1, <1>2, <1>4, <2>2, <3>1, ScheduleGrows, ResperfAssumption
  <2> QED BY <1>1, <2>1, <2>2
<1>6. num_scheduled(NextPhase, time_now)' = num_scheduled(NextPhase', time_now')
  BY DEF num_scheduled
<1>7. num_queries_sent <= num_scheduled(NextPhase', time_now') + Extra
  BY <1>1, <1>3, <1>4, <1>5
<1> QED BY <1>1, <1>3, <1>6, <1>7 DEF OnSchedule

\* Between these two only do_one_line counts queries as sent.
LEMMA OnScheduleKept ==
  ASSUME ResperfInv, OnSchedule, [Next]_vars
  PROVE  OnSchedule'
<1>1. /\ TypeOK /\ num_queries_sent \in Nat /\ Extra \in Nat /\ (Stream => Extra = 1)
  BY DEF ResperfInv, Conservation, TypeOK, Extra
<1>2. CASE LoopTop /\ UNCHANGED mode
  BY <1>1, <1>2, TopOnSchedule
<1>3. CASE LoopEnd /\ UNCHANGED mode
  BY <1>1, <1>3, EndOnSchedule
<1>4. ASSUME pc # "top", pc' # "top", phase' # "wait" => phase' = phase, UNCHANGED <<time_now, mode>>,
             \/ num_queries_sent' = num_queries_sent /\ (pc' \in {"line", "send"} => pc \in {"line", "send"})
                  /\ (pc' \in {"line", "send"} => inprogress' = inprogress)
             \/ /\ num_queries_sent' = num_queries_sent + 1 /\ pc \in {"line", "send"}
                /\ pc' \in {"line", "send"} => Stream /\ inprogress # {} /\ inprogress' = {}
      PROVE  OnSchedule'
  <2> SUFFICES ASSUME phase' # "wait" PROVE OnSchedule'
    BY DEF OnSchedule
  <2>1. phase' = phase /\ Scheduled' = Scheduled /\ Extra' = Extra /\ Stream' = Stream
    BY <1>4 DEF Scheduled, num_scheduled, Extra, Stream
  <2>2. Scheduled \in Int /\ (phase = "ramp" => time_now < RampTime) /\ num_queries_sent <= Scheduled + Extra
    <3>1. phase = "sustain" \/ (phase = "ramp" /\ time_now < RampTime)
      BY <1>1, <1>4, <2>1 DEF OnSchedule, TypeOK
    <3>2. time_now \in Nat
      BY <1>1 DEF TypeOK
    <3> QED BY <1>4, <2>1, <3>1, <3>2, ScheduleGrows DEF OnSchedule, Scheduled
  <2>3. pc \in {"line", "send"} => \/ num_queries_sent < Scheduled
                                   \/ Stream /\ inprogress = {} /\ num_queries_sent <= Scheduled
    BY <2>1 DEF OnSchedule
  <2>4. num_queries_sent' <= Scheduled + Extra
    BY <1>1, <1>4, <2>2, <2>3
  <2>5. pc' \in {"line", "send"} => \/ num_queries_sent' < Scheduled
                                    \/ Stream /\ inprogress' = {} /\ num_queries_sent' <= Scheduled
    BY <1>1, <1>4, <2>2, <2>3
  <2> QED BY <1>4, <2>1, <2>2, <2>4, <2>5 DEF OnSchedule
<1>5. CASE ContinueLine /\ UNCHANGED mode
  <2>1. Stream /\ inprogress # {} /\ inprogress \ {Head1} = {}
    BY <1>5 DEF ContinueLine, ResperfInv, InProgressKept, Datagrams
  <2> QED BY <1>4, <1>5, <2>1 DEF ContinueLine, MoveToOutstanding, lists, counters
<1>6. CASE SendWhole /\ UNCHANGED mode
  BY <1>4, <1>6 DEF SendWhole, MoveToOutstanding
<1>7. CASE (NoMore \/ LineReady \/ BadLine \/ SendPart \/ Fatal) /\ UNCHANGED mode
  BY <1>4, <1>7 DEF NoMore, LineReady, BadLine, SendPart, Fatal, lists, counters
<1>8. CASE (RecvReady \/ ReadNone \/ RecvDone \/ RetireOne) /\ UNCHANGED mode
  BY <1>4, <1>8 DEF RecvReady, ReadNone, NextTurn, RecvDone, RetireOne, lists, counters
<1>9. CASE (\E q \in Queries : ReadResponse(q)) /\ UNCHANGED mode
  BY <1>4, <1>9 DEF ReadResponse, NextTurn, lists, counters
<1>10. CASE UNCHANGED vars
  BY <1>10 DEF vars, counters, lists, OnSchedule, NextPhase, Scheduled, num_scheduled, Extra, Stream
<1> QED BY <1>2, <1>3, <1>5, <1>6, <1>7, <1>8, <1>9, <1>10
        DEF Next, Loop, DoOneLine, TryProcessResponse, Ended

\* A step that ends the traffic.
LEMMA TrafficStep ==
  ASSUME ResperfInv, OnSchedule, [Next]_vars, phase # "wait", phase' = "wait"
  PROVE  \/ time_now >= TrafficTime
         \/ ~IdsLeft
         \/ MaxFallBehind > 0 /\ (Behind >= MaxFallBehind \/ (Stream /\ Behind = -1))
<1>0. MaxFallBehind \in Nat /\ UIntSize \in Nat \ {0} /\ RampTime \in Nat
  BY ResperfAssumption
<1>1. /\ TypeOK /\ num_queries_sent \in Nat /\ time_now \in Nat
      /\ MaxFallBehind \in Nat /\ UIntSize \in Nat \ {0} /\ RampTime \in Nat
  BY <1>0 DEF ResperfInv, Conservation, TypeOK
<1>2. LoopTop \/ NoMore
  BY DEF Next, Loop, DoOneLine, TryProcessResponse, Ended, ContinueLine, LineReady, BadLine, SendWhole,
     SendPart, RecvReady, ReadNone, ReadResponse, RecvDone, RetireOne, LoopEnd, Fatal, vars
<1>3. CASE NoMore
  BY <1>3 DEF NoMore
<1>4. CASE LoopTop /\ NextPhase = "wait"
  BY <1>4 DEF NextPhase
<1>5. CASE LoopTop /\ NextPhase # "wait"
  <2>1. pc = "top" /\ FellBehind
    BY <1>5 DEF LoopTop, Done
  <2>2. num_queries_sent <= num_scheduled(NextPhase, time_now) + Extra
    BY <2>1 DEF OnSchedule
  <2>3. num_scheduled(NextPhase, time_now) \in Int
    <3>1. NextPhase = "sustain" \/ (NextPhase = "ramp" /\ time_now < RampTime)
      BY <1>1, <1>5 DEF NextPhase, TypeOK
    <3> QED BY <1>1, <3>1, ScheduleGrows
  <2>4. Behind \in Int /\ (Behind >= 0 \/ (Stream /\ Behind = -1))
    BY <1>1, <2>2, <2>3 DEF Behind, Extra
  <2>5. MaxFallBehind > 0 /\ Behind % UIntSize >= MaxFallBehind
    BY <2>1 DEF FellBehind, AsUnsigned
  <2>6. Behind >= 0 => Behind % UIntSize <= Behind /\ Behind % UIntSize \in Int
    BY <1>1, <2>4
  <2> QED BY <1>1, <2>4, <2>5, <2>6
<1> QED BY <1>2, <1>3, <1>4, <1>5

-----------------------------------------------------------------------------
(* Theorems *)

\* The loop keeps the inductive invariant: what the three properties need of the
\* labels of the loop, of datagram sockets and of the queries waiting in a bucket.
THEOREM ResperfInvariant == Spec => []ResperfInv
BY InitHolds, NextKept, PTL DEF Spec

\* Every id is on exactly one of the lists of resperf, and every query sent was
\* answered, timed out or is outstanding.
THEOREM ResperfConservation == Spec => []Conservation
<1>1. ResperfInv => Conservation
  BY DEF ResperfInv
<1> QED BY <1>1, ResperfInvariant, PTL

\* do_one_line never forgets the query in progress, and never calls sendto on a
\* socket that keeps one.
THEOREM ResperfInProgress == Spec => []InProgressKept
<1>1. ResperfInv => InProgressKept
  BY DEF ResperfInv
<1> QED BY <1>1, ResperfInvariant, PTL

\* No bucket that is printed has a negative loss with datagrams, and none is
\* partial.
THEOREM ResperfBuckets == Spec => BucketsRight
<1>1. ResperfInv => (~Stream => \A b \in Buckets : bucket_responses[b] <= bucket_queries[b])
  <2> SUFFICES ASSUME ResperfInv, ~Stream, NEW b \in Buckets
               PROVE  bucket_responses[b] <= bucket_queries[b]
    OBVIOUS
  <2>1. Partition /\ bucket_responses[b] \in Nat /\ bucket_queries[b] \in Nat
    BY PartitionHolds DEF ResperfInv, Conservation, TypeOK
  <2>2. bucket_responses[b] + Cardinality(Waiting(b)) <= bucket_queries[b]
    BY DEF ResperfInv, BucketLedger
  <2> QED BY <2>1, <2>2, WaitingFinite
<1>2. ResperfInv /\ [Next]_vars =>
        [phase = "wait" => \A b \in 0 .. last_bucket_used :
          find_bucket(wait_phase_began) > 0 => bucket_queries'[b] = bucket_queries[b]]_vars
  BY PrintedKept
<1> QED BY <1>1, <1>2, ResperfInvariant, PTL DEF Spec, BucketsRight

\* The traffic ends when its time is over, when ids have run out or when the backlog
\* has reached max_fall_behind; and, on a stream only, when resperf is one query
\* ahead of its schedule, whatever the schedule is.
THEOREM ResperfTraffic == Spec => TrafficEnds
<1>1. Spec => []OnSchedule
  <2>1. ResperfInv /\ OnSchedule /\ [Next]_vars => OnSchedule'
    BY OnScheduleKept
  <2> QED BY <2>1, OnScheduleInit, ResperfInvariant, PTL DEF Spec
<1>2. ResperfInv /\ OnSchedule /\ [Next]_vars =>
        [phase # "wait" /\ phase' = "wait" =>
           \/ time_now >= TrafficTime
           \/ ~IdsLeft
           \/ MaxFallBehind > 0 /\ (Behind >= MaxFallBehind \/ (Stream /\ Behind = -1))]_vars
  BY TrafficStep
<1> QED BY <1>1, <1>2, ResperfInvariant, PTL DEF Spec, TrafficEnds
=============================================================================
