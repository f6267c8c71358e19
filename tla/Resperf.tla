------------------------------ MODULE Resperf ------------------------------
(***************************************************************************)
(* The main loop of resperf.c: one thread that sends on a schedule, polls  *)
(* every socket for responses and retires old queries, through the phases  *)
(* ramp, sustain and wait.  A query is its index in the array queries; the *)
(* times are in ticks since the start of the program.                      *)
(***************************************************************************)
EXTENDS Integers, Sequences, FiniteSets, Lists

CONSTANTS NSocks,           \* nsocks
          MaxOutstanding,   \* max_outstanding
          MaxQps,           \* max_qps, in queries per tick
          RampTime, SustainTime, WaitTime, QueryTimeout,
          BucketInterval,   \* bucket_interval
          MaxFallBehind,    \* max_fall_behind, 0 if it is not checked
          UIntSize,         \* 2^32: how many values an unsigned int has
          Tries             \* try_responses
ASSUME ResperfAssumption ==
  /\ {NSocks, MaxOutstanding, MaxQps, QueryTimeout, BucketInterval, Tries} \subseteq Nat \ {0}
  /\ {RampTime, SustainTime, WaitTime, MaxFallBehind} \subseteq Nat
  /\ RampTime + SustainTime > 0 /\ UIntSize \in Nat /\ UIntSize > MaxFallBehind

Queries == 0 .. MaxOutstanding - 1
Socks == 0 .. NSocks - 1
SockOf(q) == q % NSocks
None == -1

TrafficTime == RampTime + SustainTime
EndTime == TrafficTime + WaitTime
NBuckets == (TrafficTime + BucketInterval - 1) \div BucketInterval
Buckets == 0 .. NBuckets - 1

VARIABLES
  mode,                     \* "datagram" (UDP) or "stream" (TCP, DoT, DoH): set before the loop
  pc,                       \* where the loop is
  phase, time_now, wait_phase_began,
  outstanding_list, instanding_list,
  inprogress,               \* the queries with is_inprogress
  sent_timestamp,
  num_queries_sent, num_queries_outstanding, num_responses_received, num_queries_timed_out,
  bucket_queries, bucket_responses,
  current_sock, tries,      \* current_sock and i of the receive loop
  pend,                     \* the query a socket has taken and not sent yet
  asked                     \* the queries the server has seen and may answer

lists == <<outstanding_list, instanding_list, inprogress>>
counters == <<num_queries_sent, num_queries_outstanding, num_responses_received,
              num_queries_timed_out>>
recvVars == <<current_sock, tries>>
sockVars == <<pend, asked>>
buckets == <<bucket_queries, bucket_responses>>
vars == <<mode, pc, phase, time_now, wait_phase_began, lists, sent_timestamp, counters, buckets,
          recvVars, sockVars>>

\* A socket may take a query in part.
Stream == mode = "stream"

TypeOK ==
  /\ mode \in {"datagram", "stream"}
  /\ pc \in {"top", "line", "send", "recv", "read", "retire", "end", "fatal"}
  /\ phase \in {"ramp", "sustain", "wait"}
  /\ time_now \in Nat /\ wait_phase_began \in Nat
  /\ outstanding_list \in List(Queries) /\ instanding_list \in List(Queries)
  /\ inprogress \subseteq Queries
  /\ sent_timestamp \in [Queries -> Nat]
  /\ num_queries_sent \in Nat /\ num_queries_outstanding \in Nat
  /\ num_responses_received \in Nat /\ num_queries_timed_out \in Nat
  /\ bucket_queries \in [Buckets -> Nat] /\ bucket_responses \in [Buckets -> Nat]
  /\ current_sock \in Socks /\ tries \in 0 .. Tries
  /\ pend \in [Socks -> Queries \union {None}]
  /\ asked \subseteq Queries

Init ==
  /\ mode \in {"datagram", "stream"}
  /\ pc = "top" /\ phase = "ramp" /\ time_now = 0 /\ wait_phase_began = 0
  /\ outstanding_list = <<>>
  /\ instanding_list = [i \in 1 .. MaxOutstanding |-> i - 1]
  /\ inprogress = {} /\ sent_timestamp = [q \in Queries |-> 0]
  /\ num_queries_sent = 0 /\ num_queries_outstanding = 0
  /\ num_responses_received = 0 /\ num_queries_timed_out = 0
  /\ bucket_queries = [b \in Buckets |-> 0] /\ bucket_responses = [b \in Buckets |-> 0]
  /\ current_sock = 0 /\ tries = 0
  /\ pend = [s \in Socks |-> None] /\ asked = {}

find_bucket(when) ==
  LET i == (NBuckets * when) \div TrafficTime
  IN  IF i > NBuckets - 1 THEN NBuckets - 1 ELSE i

num_scheduled(ph, t) ==
  IF ph = "ramp" THEN (MaxQps * t * t) \div (2 * RampTime)
                 ELSE (MaxQps * RampTime + 2 * MaxQps * (t - RampTime)) \div 2

Head1 == Head(instanding_list)
IdsLeft == instanding_list # <<>>

-----------------------------------------------------------------------------
(* The sockets, as net_*.c show them to this loop *)

\* perf__net_sent for the query q
SentCallback(q) ==
  /\ bucket_queries' = [bucket_queries EXCEPT ![find_bucket(time_now)] = @ + 1]
  /\ sent_timestamp' = [sent_timestamp EXCEPT ![q] = time_now]
  /\ asked' = asked \union {q}

\* perf_net_sockready returns r: 1 only if the socket keeps no query.  On the
\* way it may finish the query it keeps, or drop it.
SockReady(s, r) ==
  /\ r \in IF Stream THEN {-1, 0, 1} ELSE {1}
  /\ \/ /\ r = 1 => pend[s] = None
        /\ UNCHANGED <<sockVars, bucket_queries, sent_timestamp>>
     \/ /\ pend[s] # None /\ pend' = [pend EXCEPT ![s] = None]
        /\ SentCallback(pend[s])
     \/ /\ pend[s] # None /\ pend' = [pend EXCEPT ![s] = None]
        /\ UNCHANGED <<asked, bucket_queries, sent_timestamp>>

-----------------------------------------------------------------------------
(* Sending *)

\* A query is on its way: the end of do_one_line, and the body of its loop
MoveToOutstanding(q) ==
  /\ instanding_list' = Unlink(instanding_list, q)
  /\ outstanding_list' = <<q>> \o outstanding_list
  /\ num_queries_sent' = num_queries_sent + 1
  /\ num_queries_outstanding' = num_queries_outstanding + 1
  /\ UNCHANGED <<num_responses_received, num_queries_timed_out>>

\* The switch on the phase at the top of the loop
\* Mutants: the end of the sustain phase is missing, or too early
NextPhaseEarly ==
  CASE phase = "ramp" /\ time_now >= RampTime -> "sustain"
    [] phase = "sustain" /\ time_now >= SustainTime -> "wait"
    [] OTHER -> phase
NextPhaseStuck == IF phase = "ramp" /\ time_now >= RampTime THEN "sustain" ELSE phase
NextPhase ==
  CASE phase = "ramp" /\ time_now >= RampTime -> "sustain"
    [] phase = "sustain" /\ time_now >= TrafficTime -> "wait"
    [] OTHER -> phase

Done == phase = "wait" /\ (time_now >= EndTime \/ outstanding_list = <<>>)

\* What the schedule asks for is behind by this many queries (should_send), or
\* ahead of it if that is negative.
Behind == num_scheduled(NextPhase, time_now) - num_queries_sent

\* should_send is an int and max_fall_behind unsigned: it is compared as an
\* unsigned int, so that a negative one counts as having fallen behind.
AsUnsigned(n) == n % UIntSize
FellBehind == MaxFallBehind > 0 /\ AsUnsigned(Behind) >= MaxFallBehind

LoopTop ==
  /\ pc = "top"
  /\ IF Done
     THEN pc' = "end" /\ UNCHANGED <<phase, wait_phase_began, tries>>
     ELSE /\ pc' = IF NextPhase # "wait" /\ Behind > 0 THEN "line" ELSE "recv"
          /\ phase' = IF NextPhase # "wait" /\ FellBehind THEN "wait" ELSE NextPhase
          /\ wait_phase_began' = IF phase # "wait" /\ phase' = "wait"
                                 THEN time_now ELSE wait_phase_began
          /\ tries' = Tries
  /\ UNCHANGED <<time_now, lists, sent_timestamp, counters, buckets, current_sock, sockVars>>

\* do_one_line: PERF_R_NOMORE
NoMore ==
  /\ pc = "line" /\ ~IdsLeft
  /\ pc' = "recv" /\ phase' = "wait" /\ wait_phase_began' = time_now
  /\ UNCHANGED <<time_now, lists, sent_timestamp, counters, buckets, recvVars, sockVars>>

\* The loop of do_one_line: the query in progress counts as sent as soon as
\* sockready does not fail.
ContinueLine ==
  /\ pc = "line" /\ IdsLeft /\ Head1 \in inprogress
  /\ \E r \in {-1, 0, 1} :
       /\ SockReady(SockOf(Head1), r)
       /\ IF r = -1
          THEN pc' = "recv" /\ UNCHANGED <<lists, counters>>
          ELSE /\ pc' = "line"
               /\ inprogress' = inprogress \ {Head1}
               /\ MoveToOutstanding(Head1)
  /\ UNCHANGED <<phase, time_now, wait_phase_began, bucket_responses, recvVars>>

\* The socket is asked whether it is ready for the next query.  Mutant: it is
\* ready if sockready does not fail.
NotFailed(r) == r # -1
Ready(r) == r = 1
LineReady ==
  /\ pc = "line" /\ IdsLeft /\ Head1 \notin inprogress
  /\ \E r \in {-1, 0, 1} :
       /\ SockReady(SockOf(Head1), r)
       /\ pc' = IF Ready(r) THEN "send" ELSE "recv"
  /\ UNCHANGED <<phase, time_now, wait_phase_began, lists, counters, bucket_responses, recvVars>>

\* perf_dns_buildrequest fails
BadLine ==
  /\ pc = "send" /\ pc' = "recv"
  /\ UNCHANGED <<phase, time_now, wait_phase_began, lists, sent_timestamp, counters, buckets,
                 recvVars, sockVars>>

\* The query is sent, and the main loop counts it in its bucket.
SendWhole ==
  /\ pc = "send" /\ pc' = "recv"
  /\ MoveToOutstanding(Head1)
  /\ SentCallback(Head1)
  /\ UNCHANGED <<phase, time_now, wait_phase_began, inprogress, bucket_responses, recvVars, pend>>

\* EINPROGRESS, or another error
SendPart ==
  /\ pc = "send" /\ pc' = "recv"
  /\ sent_timestamp' = [sent_timestamp EXCEPT ![Head1] = time_now]
  /\ \/ /\ Stream
        /\ inprogress' = inprogress \union {Head1}
        /\ pend' = [pend EXCEPT ![SockOf(Head1)] = Head1]
     \/ UNCHANGED <<inprogress, pend>>
  /\ UNCHANGED <<phase, time_now, wait_phase_began, outstanding_list, instanding_list, counters,
                 buckets, recvVars, asked>>

-----------------------------------------------------------------------------
(* Receiving and retiring *)

\* The next socket to poll
NextSock(s) == IF s + 1 >= NSocks THEN 0 ELSE s + 1

\* A query leaves the outstanding list.  Mutant: the counter is not decremented.
ReturnUncounted(q) ==
  /\ outstanding_list' = Unlink(outstanding_list, q)
  /\ instanding_list' = Append(instanding_list, q)
  /\ UNCHANGED num_queries_outstanding
Return(q) ==
  /\ outstanding_list' = Unlink(outstanding_list, q)
  /\ instanding_list' = Append(instanding_list, q)
  /\ num_queries_outstanding' = num_queries_outstanding - 1

\* try_process_response, first the readiness of the socket
RecvReady ==
  /\ pc = "recv" /\ tries > 0 /\ pc' = "read"
  /\ \E r \in {-1, 0, 1} : SockReady(current_sock, r)
  /\ UNCHANGED <<phase, time_now, wait_phase_began, lists, counters, bucket_responses, recvVars>>

\* The turn of the receive loop is over.
NextTurn ==
  /\ pc' = "recv"
  /\ tries' = tries - 1 /\ current_sock' = NextSock(current_sock)

ReadNone ==
  /\ pc = "read" /\ NextTurn
  /\ UNCHANGED <<phase, time_now, wait_phase_began, lists, sent_timestamp, counters, buckets,
                 sockVars>>

\* A response to q, which the server has seen at some time, and the bucket it
\* counts in
BucketOf(q) == find_bucket(sent_timestamp[q])
Accepted(q) == q \in Range(outstanding_list)
ReadResponse(q) ==
  /\ pc = "read" /\ NextTurn
  /\ q \in asked /\ SockOf(q) = current_sock
  /\ IF Accepted(q)
     THEN /\ Return(q)
          /\ bucket_responses' = [bucket_responses EXCEPT ![BucketOf(q)] = @ + 1]
          /\ num_responses_received' = num_responses_received + 1
          /\ UNCHANGED <<inprogress, num_queries_sent, num_queries_timed_out>>
     ELSE UNCHANGED <<lists, counters, bucket_responses>>
  /\ UNCHANGED <<phase, time_now, wait_phase_began, sent_timestamp, bucket_queries, pend, asked>>

RecvDone ==
  /\ pc = "recv" /\ tries = 0 /\ pc' = "retire"
  /\ UNCHANGED <<phase, time_now, wait_phase_began, lists, sent_timestamp, counters, buckets,
                 recvVars, sockVars>>

\* retire_old_queries
Expired ==
  /\ outstanding_list # <<>>
  /\ time_now - sent_timestamp[ListTail(outstanding_list)] >= QueryTimeout
RetireOne ==
  /\ pc = "retire" /\ Expired
  /\ Return(ListTail(outstanding_list))
  /\ num_queries_timed_out' = num_queries_timed_out + 1
  /\ UNCHANGED <<pc, phase, time_now, wait_phase_began, inprogress, sent_timestamp,
                 num_queries_sent, num_responses_received, buckets, recvVars, pend, asked>>

\* The end of the loop: the time is read.  It is bounded by EndTime, which is
\* the last time the loop looks at.
LoopEnd ==
  /\ pc = "retire" /\ ~Expired /\ pc' = "top"
  /\ time_now' \in time_now .. EndTime
  /\ UNCHANGED <<phase, wait_phase_began, lists, sent_timestamp, counters, buckets, recvVars,
                 sockVars>>

\* The last bucket that is printed.  Mutant: also the one that the end of the
\* traffic falls into.
LastBucketPartial == find_bucket(wait_phase_began)
last_bucket_used ==
  LET last == find_bucket(wait_phase_began)
  IN  IF last > 0 THEN last - 1 ELSE last

\* perf_datafile_next or recv fail for good, or the run is over.
Fatal ==
  /\ pc \in {"send", "read"} /\ pc' = "fatal"
  /\ UNCHANGED <<phase, time_now, wait_phase_began, lists, sent_timestamp, counters, buckets,
                 recvVars, sockVars>>

Ended == pc \in {"end", "fatal"} /\ UNCHANGED vars

DoOneLine == NoMore \/ ContinueLine \/ LineReady \/ BadLine \/ SendWhole \/ SendPart
TryProcessResponse == RecvReady \/ ReadNone \/ \E q \in Queries : ReadResponse(q)
Loop == LoopTop \/ DoOneLine \/ TryProcessResponse \/ RecvDone \/ RetireOne \/ LoopEnd \/ Fatal
Next == (Loop /\ UNCHANGED mode) \/ Ended

Spec == Init /\ [][Next]_vars

\* The loop runs, time passes and what is asked of a socket is over at once.
Clock == LoopEnd /\ time_now' > time_now /\ UNCHANGED mode
FairSpec == Spec /\ WF_vars(Next) /\ SF_vars(Clock)

-----------------------------------------------------------------------------
(* Properties *)

\* Variables keep their types, and every id is on exactly one of the two lists,
\* whatever order responses, timeouts and queries in progress come in.  What
\* print_statistics reports adds up: every query sent was answered, timed out or
\* is outstanding, and the counter of these is the length of the list.
Conservation ==
  /\ TypeOK
  /\ Range(outstanding_list) \cap Range(instanding_list) = {}
  /\ Range(outstanding_list) \union Range(instanding_list) = Queries
  /\ num_queries_outstanding = Len(outstanding_list)
  /\ num_queries_sent =
       num_responses_received + num_queries_timed_out + num_queries_outstanding

\* A query in progress is neither forgotten nor written over: it is the one that
\* the next line would use (do_one_line looks at no other), and sendto is never
\* called on a socket that still keeps a query.
InProgressKept ==
  /\ inprogress \subseteq (IF IdsLeft THEN {Head1} ELSE {})
  /\ pc = "send" => pend[SockOf(Head1)] = None

\* The buckets that are printed are right.  With datagrams none has more responses
\* than queries: the loss that print_statistics computes is not negative.  (On a
\* stream a late response to an id used again may come before its sent callback.)
\* None is partial: once the traffic is over no query is counted in a bucket that
\* main prints, except the first one, also if the sockets finish queries late.
BucketsRight ==
  /\ [](~Stream => \A b \in Buckets : bucket_responses[b] <= bucket_queries[b])
  /\ [][phase = "wait" => \A b \in 0 .. last_bucket_used :
          find_bucket(wait_phase_began) > 0 => bucket_queries'[b] = bucket_queries[b]]_vars

\* The traffic ends for the reasons that resperf.1.in names: its time is over, ids
\* have run out, or the backlog has reached max_fall_behind.  There is one more, on
\* a stream: a pass of do_one_line that finishes a query in progress and sends
\* another one counts two where the schedule asked for one, and a should_send of
\* -1 is compared as an unsigned number.  With datagrams resperf is never ahead
\* of its schedule.
TrafficEnds ==
  [][phase # "wait" /\ phase' = "wait" =>
       \/ time_now >= TrafficTime
       \/ ~IdsLeft
       \/ MaxFallBehind > 0 /\ (Behind >= MaxFallBehind \/ (Stream /\ Behind = -1))]_vars

\* The run ends: the phases follow each other although queries are lost, ids
\* run out or a socket never gets ready.
Termination == <>(pc \in {"end", "fatal"})

=============================================================================
