----------------------------- MODULE QueryThread -----------------------------
(***************************************************************************)
(* One pair of dnsperf threads (do_send and do_recv of src/dnsperf.c), the *)
(* query table they share, and main(), which starts, stops and joins them. *)
(*                                                                         *)
(* A step is what a thread does between two accesses to shared memory that *)
(* another thread can tell apart.  What runs without the lock although it  *)
(* touches shared memory is a step of its own: process_timeouts reads the  *)
(* tail of the outstanding list before it locks, the sender stamps queries *)
(* after it has unlocked, both threads count in stats without the lock.    *)
(*                                                                         *)
(* Time.  Only the age of a timestamp matters: whether now - timestamp has *)
(* reached the timeout.  timestamp[q] holds that age, counted up to        *)
(* Timeout by Tick, and the receiver's local variable `now' is the set     *)
(* r_expired of the queries that had expired when it was read.  The sender *)
(* compares its `now' only with the stop time: it is the flag s_late.      *)
(*                                                                         *)
(* A local variable that is dead gets its initial value, so that states    *)
(* that differ in dead values only are one.  The rate limit of do_send     *)
(* (lines 957-1006) is off, as without -Q.                                 *)
(***************************************************************************)
EXTENDS Lists, FiniteSets

CONSTANTS
  NQIDS,           \* size of the query table (65536 in the code)
  MaxOutstanding,  \* tinfo->max_outstanding
  NSocks,          \* tinfo->nsocks
  BatchSize,       \* RECV_BATCH_SIZE
  Timeout,         \* config->timeout, in ticks
  Stream,          \* TRUE: TCP or DoT, FALSE: UDP
  TimeLimit,       \* TRUE: -l was given
  RecvErrors,      \* how recv may fail: EAGAIN, EINTR, or any other error
  MaxLines,        \* bound: requests in the input
  Unstamped,       \* UINT64_MAX in query_info.timestamp
  None             \* a null pointer

Qids  == 0 .. NQIDS - 1
Socks == 0 .. NSocks - 1
Ages  == 0 .. Timeout

ASSUME ConstantsAssumption ==
  /\ NQIDS \in Nat \ {0}
  /\ MaxOutstanding \in 1 .. NQIDS
  /\ NSocks \in Nat \ {0}
  /\ BatchSize \in Nat \ {0}
  /\ Timeout \in Nat \ {0}
  /\ Stream \in BOOLEAN /\ TimeLimit \in BOOLEAN
  /\ RecvErrors \subseteq {"EAGAIN", "EINTR", "other"}
  /\ MaxLines \in Nat
  /\ Unstamped \notin Int /\ None \notin Int

VARIABLES
  \* the shared threadinfo_t
  unused, outstanding,   \* the two lists of queries, head first
  timestamp,             \* the age of query_info.timestamp, or Unstamped
  qsock,                 \* query_info.sock
  current_sock, num_sent, num_completed, num_timedout, num_interrupted,
  \* the sender
  s_pc, s_q, s_late, s_tries, s_all_fail, s_i, any_inprogress, socketbits,
  s_callback,            \* query whose delayed send has just finished
  \* the receiver
  r_pc, r_q, r_expired, r_errno, r_bits, r_last,
  recvd,                 \* packets received and not yet looked up
  r_accepted,            \* packets matched and not yet counted
  \* main() and the world
  m_pc, interrupted, intrpipe,
  time_up,               \* the stop time has passed
  fatal,                 \* the process has ended in perf_log_fatal or a fault
  lines_left,            \* requests left in the input
  pend,                  \* query a socket still has to send, or None
  asked,                 \* <<socket, id>> the server has been asked
  \* history
  early                  \* results charged to a query not (yet) sent

lists   == <<unused, outstanding>>
stamps  == <<timestamp, r_expired>>
picks   == <<qsock, current_sock, s_tries, s_all_fail>>
flushes == <<s_i, any_inprogress, socketbits>>
net     == <<pend, asked, s_callback>>
results == <<num_completed, num_timedout, num_interrupted>>
rLocals == <<r_q, r_errno, r_bits, r_last, recvd, r_accepted>>
mainVars == <<m_pc, interrupted>>
vars == <<lists, stamps, picks, flushes, net, s_pc, s_q, s_late, num_sent, results,
          r_pc, rLocals, mainVars, intrpipe, time_up, fatal, lines_left, early>>

\* Flags that follow from where a thread is.
started      == m_pc # "start"
done_sending == s_pc \in {"notify", "done"}
mainpipe     == s_pc = "done"
threadpipe   == m_pc \notin {"start", "wait"}

\* tinfo->lock is held between these labels only.
LockFree == s_pc \notin {"stamp", "pick", "picked"} /\ r_pc \notin {"timeout", "match"}

-----------------------------------------------------------------------------
(* Lists and counters *)

\* Mutants of PrependUnused: as if q had to be on the outstanding list; q stays there.
PrependUnusedNoUnlink(q) == unused' = <<q>> \o unused /\ outstanding' = Without(outstanding, q)
PrependUnusedNot(q)      == UNCHANGED lists

\* query_move: unlink q from the list it is on, link it into another.
PrependUnused(q) ==
  /\ unused' = <<q>> \o Without(unused, q)
  /\ outstanding' = Without(outstanding, q)

AppendUnused(q) ==
  /\ unused' = Append(Without(unused, q), q)
  /\ outstanding' = Without(outstanding, q)

PrependOutstanding(q) ==
  /\ outstanding' = <<q>> \o Without(outstanding, q)
  /\ unused' = Without(unused, q)

\* num_outstanding
NumOutstanding ==
  IF num_completed + num_timedout > num_sent
  THEN 0
  ELSE num_sent - num_completed - num_timedout

\* Mutant of BelowLimit: off by one.
AtMostLimit == NumOutstanding <= MaxOutstanding

BelowLimit == NumOutstanding < MaxOutstanding

\* The query the sender holds but has not passed to perf_net_sendto yet.
Holding == s_pc \in {"stamp", "pick", "picked", "input", "build", "send", "unbuilt", "unsent"}
Unsent  == IF Holding THEN {s_q} ELSE {}

\* Queries that were sent and are waiting for a response.
InFlight == {q \in Range(outstanding) \ Unsent : timestamp[q] # Unstamped}

\* Queries for which now - timestamp >= timeout, at this moment.
Expired == {q \in Qids : timestamp[q] = Timeout}

\* q->timestamp = t
Stamp(q, t) ==
  /\ timestamp' = [timestamp EXCEPT ![q] = t]
  /\ r_expired' = r_expired \ {q}

\* History: a result charged to query q, to a query q found on the outstanding
\* list, and a query that was charged before it was sent.
Charge(q) == early' = IF q \in InFlight THEN early ELSE early + 1
ChargeListed(q) == early' = IF q \in Range(outstanding) \ InFlight THEN early + 1 ELSE early
Taken(q)  == early' = IF q \in Range(outstanding) THEN early ELSE early - 1

-----------------------------------------------------------------------------
\* The state after threadinfo_init, before main sets started.
Init ==
  /\ unused = [i \in 1 .. NQIDS |-> i - 1] /\ outstanding = <<>>
  /\ timestamp = [q \in Qids |-> Timeout]      \* memset to 0: long ago
  /\ qsock = [q \in Qids |-> None] /\ current_sock = 0
  /\ num_sent = 0 /\ num_completed = 0 /\ num_timedout = 0 /\ num_interrupted = 0
  /\ s_pc = "start" /\ s_q = None /\ s_late = FALSE /\ s_tries = 0
  /\ s_all_fail = FALSE /\ s_i = 0 /\ any_inprogress = FALSE /\ socketbits = {}
  /\ s_callback = None
  /\ r_pc = "start" /\ r_q = None /\ r_errno = "none" /\ r_bits = {} /\ r_last = 0
  /\ recvd = <<>> /\ r_accepted = 0 /\ r_expired = {}
  /\ m_pc = "start" /\ interrupted = FALSE /\ intrpipe = FALSE
  /\ time_up = FALSE /\ fatal = FALSE /\ lines_left = MaxLines
  /\ pend = [s \in Socks |-> None] /\ asked = {}
  /\ early = 0

-----------------------------------------------------------------------------
(* do_send *)

At(label) == s_pc = label /\ s_callback = None
Goto(label) == s_pc' = label

\* perf_net_sockready(s) returns r: 1 ready, 0 not ready or still sending,
\* -1 timed out or cancelled.  It may finish a delayed query (the sent
\* callback is then due), and a reconnect may drop one that was partly sent.
\* UDP sockets are always ready.
SockReady(s, r) ==
  \/ /\ r = 1 /\ pend[s] = None
     /\ UNCHANGED net
  \/ /\ Stream /\ r \in {-1, 0}
     /\ UNCHANGED net
  \/ /\ Stream /\ r \in {0, 1} /\ pend[s] # None
     /\ pend' = [pend EXCEPT ![s] = None]
     /\ asked' = asked \cup {<<s, pend[s]>>}
     /\ s_callback' = pend[s]
  \/ /\ Stream /\ r \in {-1, 0, 1} /\ pend[s] # None
     /\ pend' = [pend EXCEPT ![s] = None]
     /\ UNCHANGED <<asked, s_callback>>

\* perf__net_sent
SentCallback ==
  /\ s_callback # None
  /\ IF timestamp[s_callback] # Unstamped THEN Stamp(s_callback, 0) ELSE UNCHANGED stamps
  /\ s_callback' = None
  /\ UNCHANGED <<lists, picks, flushes, pend, asked, s_pc, s_q, s_late, num_sent, lines_left,
                 fatal, early>>

SendStart ==
  /\ At("start") /\ started
  /\ Goto("top") /\ s_late' = time_up
  /\ UNCHANGED <<lists, stamps, picks, flushes, net, s_q, num_sent, lines_left, fatal, early>>

\* The loop condition holds; the slow start sleeps and reads the time again.
SendLoop ==
  /\ At("top") /\ ~interrupted /\ ~s_late
  /\ s_late' = IF num_sent < MaxOutstanding /\ num_sent % 2 = 1 THEN time_up ELSE s_late
  /\ Goto(IF any_inprogress THEN "flush" ELSE "lock")
  /\ any_inprogress' = FALSE
  /\ UNCHANGED <<lists, stamps, picks, s_i, socketbits, net, s_q, num_sent, lines_left, fatal,
                 early>>

SendLoopEnd ==
  /\ At("top") /\ (interrupted \/ s_late)
  /\ Goto("drain")
  /\ UNCHANGED <<lists, stamps, picks, flushes, net, s_q, s_late, num_sent, lines_left, fatal,
                 early>>

\* One socket of the loop that flushes the sockets still sending.
SendFlush ==
  /\ At("flush")
  /\ IF s_i \in socketbits
     THEN \E r \in {-1, 0, 1} :
            /\ SockReady(s_i, r)
            /\ any_inprogress' = (any_inprogress \/ r = 0)
            /\ socketbits' = IF r = 0 THEN socketbits ELSE socketbits \ {s_i}
     ELSE UNCHANGED <<any_inprogress, socketbits, net>>
  /\ s_i' = (s_i + 1) % NSocks
  /\ Goto(IF s_i + 1 = NSocks THEN "lock" ELSE "flush")
  /\ UNCHANGED <<lists, stamps, picks, s_q, s_late, num_sent, lines_left, fatal, early>>

\* Too many queries in flight: wait on the condition variable, unless a
\* socket is still sending.
SendLimit ==
  /\ At("lock") /\ LockFree /\ ~BelowLimit
  /\ IF any_inprogress THEN Goto("top") /\ s_late' = time_up
                       ELSE Goto("wait") /\ UNCHANGED s_late
  /\ UNCHANGED <<lists, stamps, picks, flushes, net, s_q, num_sent, lines_left, fatal, early>>

\* pthread_cond_timedwait returns at the stop time, or for no reason.
SendWaitEnds ==
  /\ At("wait")
  /\ Goto("woken")
  /\ UNCHANGED <<lists, stamps, picks, flushes, net, s_q, s_late, num_sent, lines_left, fatal,
                 early>>

SendWaitTimesOut == time_up /\ SendWaitEnds

\* The waiter has the mutex again, and releases it.
SendWoken ==
  /\ At("woken") /\ LockFree
  /\ Goto("top") /\ s_late' = time_up
  /\ UNCHANGED <<lists, stamps, picks, flushes, net, s_q, num_sent, lines_left, fatal, early>>

\* Lock and take the first unused query.  The list changes before the
\* timestamp.
SendReserve ==
  /\ At("lock") /\ LockFree /\ BelowLimit /\ unused # <<>>
  /\ PrependOutstanding(Head(unused))
  /\ s_q' = Head(unused)
  /\ Goto("stamp")
  /\ UNCHANGED <<stamps, picks, flushes, net, s_late, num_sent, lines_left, fatal, early>>

\* The head of an empty list is a null pointer, and is dereferenced.
SendReserveNull ==
  /\ At("lock") /\ LockFree /\ BelowLimit /\ unused = <<>>
  /\ fatal' = TRUE
  /\ UNCHANGED <<lists, stamps, picks, flushes, net, s_pc, s_q, s_late, num_sent, lines_left,
                 early>>

SendUnstamp ==
  /\ At("stamp")
  /\ Stamp(s_q, Unstamped)
  /\ s_tries' = NSocks * 2 /\ s_all_fail' = TRUE
  /\ Goto("pick")
  /\ UNCHANGED <<lists, qsock, current_sock, flushes, net, s_q, s_late, num_sent, lines_left,
                 fatal, early>>

NextSock(s) == (s + 1) % NSocks

\* Mutant of Usable: a socket that is not ready is used.
UsableBusy(r) == r # -1

Usable(r) == r = 1

\* One try of the loop that looks for a ready socket, round robin.
SendPick ==
  /\ At("pick")
  /\ \E r \in {-1, 0, 1} :
       /\ SockReady(current_sock, r)
       /\ qsock' = [qsock EXCEPT ![s_q] = IF Usable(r) THEN current_sock ELSE None]
       /\ s_all_fail' = (s_all_fail /\ r = -1)
       /\ IF Usable(r) \/ s_tries = 1
          THEN Goto("picked") /\ s_tries' = 0
          ELSE Goto("pick") /\ s_tries' = s_tries - 1
  /\ current_sock' = NextSock(current_sock)
  /\ UNCHANGED <<lists, stamps, flushes, s_q, s_late, num_sent, lines_left, fatal, early>>

SendAllFail ==
  /\ At("picked") /\ s_all_fail
  /\ fatal' = TRUE
  /\ UNCHANGED <<lists, stamps, picks, flushes, net, s_pc, s_q, s_late, num_sent, lines_left,
                 early>>

\* No socket is ready: give the query back and unlock.
SendNotReady ==
  /\ At("picked") /\ ~s_all_fail /\ qsock[s_q] = None
  /\ PrependUnused(s_q)
  /\ Goto("top") /\ s_late' = time_up /\ s_q' = None
  /\ UNCHANGED <<stamps, picks, flushes, net, num_sent, lines_left, fatal, early>>

\* Unlock with a socket.
SendReady ==
  /\ At("picked") /\ ~s_all_fail /\ qsock[s_q] # None
  /\ Goto("input")
  /\ UNCHANGED <<lists, stamps, picks, flushes, net, s_q, s_late, num_sent, lines_left, fatal,
                 early>>

\* perf_datafile_next: a line, the end of the input (or a read cancelled
\* through threadpipe), or an input without data.
SendNextLine ==
  /\ At("input")
  /\ \/ /\ lines_left > 0
        /\ lines_left' = lines_left - 1
        /\ Goto("build")
        /\ UNCHANGED fatal
     \/ /\ lines_left = 0 \/ threadpipe
        /\ Goto("drain")
        /\ UNCHANGED <<lines_left, fatal>>
     \/ /\ lines_left = MaxLines
        /\ fatal' = TRUE
        /\ UNCHANGED <<s_pc, lines_left>>
  /\ UNCHANGED <<lists, stamps, picks, flushes, net, s_q, s_late, num_sent, early>>

\* perf_dns_buildrequest fails, or the request is stamped for sending.
SendBuild ==
  /\ At("build")
  /\ \/ Goto("unbuilt") /\ UNCHANGED <<stamps, s_late>>
     \/ Goto("send") /\ Stamp(s_q, 0) /\ s_late' = time_up
  /\ UNCHANGED <<lists, picks, flushes, net, s_q, num_sent, lines_left, fatal, early>>

\* perf_net_sendto: sent, in progress (streams), or failed.
SendTo ==
  /\ At("send")
  /\ \/ /\ asked' = asked \cup {<<qsock[s_q], s_q>>}
        /\ Goto("count") /\ Taken(s_q)
        /\ UNCHANGED <<pend, any_inprogress, socketbits>>
     \/ /\ Stream
        /\ pend' = [pend EXCEPT ![qsock[s_q]] = s_q]
        /\ any_inprogress' = TRUE
        /\ socketbits' = socketbits \cup {qsock[s_q]}
        /\ Goto("count") /\ Taken(s_q)
        /\ UNCHANGED asked
     \/ /\ Goto("unsent")
        /\ UNCHANGED <<pend, asked, any_inprogress, socketbits, early>>
  /\ UNCHANGED <<lists, stamps, picks, s_i, s_callback, s_q, s_late, num_sent, lines_left, fatal>>

SendCount ==
  /\ At("count")
  /\ num_sent' = num_sent + 1
  /\ Goto("top") /\ s_q' = None
  /\ UNCHANGED <<lists, stamps, picks, flushes, net, s_late, lines_left, fatal, early>>

\* A request that could not be built or sent: its query is unused again.
\* Only the failure to build reads the time.
SendGiveBack ==
  /\ At("unbuilt") \/ At("unsent")
  /\ LockFree
  /\ PrependUnused(s_q)
  /\ s_late' = IF s_pc = "unbuilt" THEN time_up ELSE s_late
  /\ Goto("top") /\ s_q' = None
  /\ UNCHANGED <<stamps, picks, flushes, net, num_sent, lines_left, fatal, early>>

\* while (any_inprogress), after the loop
SendDrain ==
  /\ At("drain")
  /\ Goto(IF any_inprogress THEN "drain_sock" ELSE "finish")
  /\ any_inprogress' = FALSE
  /\ UNCHANGED <<lists, stamps, picks, s_i, socketbits, net, s_q, s_late, num_sent, lines_left,
                 fatal, early>>

SendDrainSock ==
  /\ At("drain_sock")
  /\ \E r \in {-1, 0, 1} :
       /\ SockReady(s_i, r)
       /\ any_inprogress' = (any_inprogress \/ r = 0)
  /\ s_i' = (s_i + 1) % NSocks
  /\ Goto(IF s_i + 1 = NSocks THEN "drain" ELSE "drain_sock")
  /\ UNCHANGED <<lists, stamps, picks, socketbits, s_q, s_late, num_sent, lines_left, fatal,
                 early>>

\* done_sending = true, then a byte for main.
SendDone ==
  /\ \/ At("finish") /\ Goto("notify")
     \/ At("notify") /\ Goto("done")
  /\ UNCHANGED <<lists, stamps, picks, flushes, net, s_q, s_late, num_sent, lines_left, fatal,
                 early>>

-----------------------------------------------------------------------------
(* do_recv *)

\* Mutant of SignalSender: the signal is not sent.
SignalNobody == UNCHANGED s_pc

\* pthread_cond_signal(&tinfo->cond)
SignalSender == s_pc' = IF s_pc = "wait" THEN "woken" ELSE s_pc

RecvStart ==
  /\ r_pc = "start" /\ started
  /\ r_pc' = "top" /\ r_expired' = Expired
  /\ UNCHANGED <<lists, s_pc, num_completed, num_timedout, rLocals, fatal, early>>

\* The loop condition, and the look of process_timeouts at the oldest
\* query, without the lock.
RecvTop ==
  /\ r_pc = "top"
  /\ IF interrupted
     THEN r_pc' = "done" /\ UNCHANGED r_q
     ELSE IF outstanding # <<>> /\ ListTail(outstanding) \in r_expired
          THEN r_pc' = "tlock" /\ r_q' = ListTail(outstanding)
          ELSE r_pc' = "check" /\ UNCHANGED r_q
  /\ UNCHANGED <<lists, s_pc, num_completed, num_timedout, r_errno, r_bits, r_last, recvd,
                 r_accepted, r_expired, fatal, early>>

RecvTimeoutLock ==
  /\ r_pc = "tlock" /\ LockFree
  /\ r_pc' = "timeout"
  /\ UNCHANGED <<lists, s_pc, num_completed, num_timedout, rLocals, r_expired, fatal, early>>

\* One round of the loop of process_timeouts.
RecvTimeout ==
  /\ r_pc = "timeout"
  /\ AppendUnused(r_q)
  /\ num_timedout' = num_timedout + 1
  /\ Charge(r_q)
  /\ IF outstanding' # <<>> /\ ListTail(outstanding') \in r_expired
     THEN r_q' = ListTail(outstanding') /\ UNCHANGED r_pc
     ELSE r_q' = None /\ r_pc' = "check"
  /\ UNCHANGED <<s_pc, num_completed, r_errno, r_bits, r_last, recvd, r_accepted, r_expired,
                 fatal>>

\* Mutant of AllReceived: done_sending is not looked at.
AllReceivedEager == NumOutstanding = 0

AllReceived == done_sending /\ NumOutstanding = 0

RecvCheck ==
  /\ r_pc = "check"
  /\ r_pc' = IF AllReceived THEN "done" ELSE "recv"
  /\ UNCHANGED <<lists, s_pc, num_completed, num_timedout, rLocals, r_expired, fatal, early>>

\* s is the next socket to try: the first one, from last_socket on, whose bit
\* is not set in socketbits.
IsCurrent(s) ==
  LET away(x) == (x + NSocks - r_last) % NSocks
  IN  s \notin r_bits /\ \A x \in Socks \ r_bits : away(s) <= away(x)

\* recv_one returns a packet: an answer to some query the server has been
\* asked on this socket, or a packet too short to have an id.
RecvOne ==
  /\ r_pc = "recv"
  /\ \E s \in Socks, q \in Qids \cup {None} :
       /\ IsCurrent(s)
       /\ q = None \/ <<s, q>> \in asked
       /\ recvd' = Append(recvd, [sock |-> s, qid |-> q])
       /\ r_last' = (s + 1) % NSocks
  /\ IF Len(recvd) + 1 = BatchSize
     THEN r_pc' = "lock" /\ r_errno' = "none" /\ r_bits' = {}
     ELSE UNCHANGED <<r_pc, r_errno, r_bits>>
  /\ UNCHANGED <<lists, s_pc, num_completed, num_timedout, r_q, r_accepted, r_expired, fatal,
                 early>>

\* recv_one fails: an error replaces the one saved before, a closed
\* connection counts as EAGAIN if there was none.
RecvNone ==
  /\ r_pc = "recv"
  /\ \/ r_errno' \in RecvErrors
     \/ r_errno' = IF r_errno = "none" THEN "EAGAIN" ELSE r_errno
  /\ \E s \in Socks :
       /\ IsCurrent(s)
       /\ IF r_bits \cup {s} = Socks THEN r_pc' = "lock" /\ r_bits' = {}
                                    ELSE r_pc' = "recv" /\ r_bits' = r_bits \cup {s}
  /\ UNCHANGED <<lists, s_pc, num_completed, num_timedout, r_q, r_last, recvd, r_accepted,
                 r_expired, fatal, early>>

RecvLock ==
  /\ r_pc = "lock" /\ LockFree
  /\ r_pc' = "match"
  /\ UNCHANGED <<lists, s_pc, num_completed, num_timedout, rLocals, r_expired, fatal, early>>

\* Mutants of Expected: the list of the query is not looked at; the socket is not.
ExpectedAnyList(p) == p.qid \in Qids /\ timestamp[p.qid] # Unstamped /\ qsock[p.qid] = p.sock
ExpectedAnySock(p) == p.qid \in Range(outstanding) /\ timestamp[p.qid] # Unstamped

\* The packet answers a query that is outstanding.
Expected(p) ==
  /\ p.qid \in Range(outstanding)
  /\ timestamp[p.qid] # Unstamped
  /\ qsock[p.qid] = p.sock

RecvMatch ==
  /\ r_pc = "match" /\ recvd # <<>>
  /\ LET p == Head(recvd) IN
       IF Expected(p)
       THEN /\ AppendUnused(p.qid)
            /\ r_accepted' = r_accepted + 1
            /\ ChargeListed(p.qid)
       ELSE UNCHANGED <<lists, r_accepted, early>>
  /\ recvd' = Tail(recvd)
  /\ UNCHANGED <<s_pc, num_completed, num_timedout, r_pc, r_q, r_errno, r_bits, r_last,
                 r_expired, fatal>>

RecvUnlock ==
  /\ r_pc = "match" /\ recvd = <<>>
  /\ SignalSender
  /\ r_pc' = "stats"
  /\ UNCHANGED <<lists, num_completed, num_timedout, rLocals, r_expired, fatal, early>>

\* Without the lock: one matched packet is counted.
RecvCount ==
  /\ r_pc = "stats" /\ r_accepted > 0
  /\ num_completed' = num_completed + 1
  /\ r_accepted' = r_accepted - 1
  /\ UNCHANGED <<lists, s_pc, num_timedout, r_pc, r_q, r_errno, r_bits, r_last, recvd, r_expired,
                 fatal, early>>

\* A full batch, or what the error says: go on, block, or exit.
RecvNext ==
  /\ r_pc = "stats" /\ r_accepted = 0
  /\ \/ r_errno \in {"none", "EINTR"} /\ r_pc' = "top" /\ UNCHANGED fatal
     \/ r_errno = "EAGAIN" /\ r_pc' = "wait" /\ UNCHANGED fatal
     \/ r_errno = "other" /\ fatal' = TRUE /\ UNCHANGED r_pc
  /\ r_errno' = "none"
  /\ UNCHANGED <<lists, s_pc, num_completed, num_timedout, r_q, r_bits, r_last, recvd, r_accepted,
                 r_expired, early>>

\* perf_os_waituntilanyreadable returns, and the time is read.
RecvWaited ==
  /\ r_pc = "wait"
  /\ r_pc' = "top" /\ r_expired' = Expired
  /\ UNCHANGED <<lists, s_pc, num_completed, num_timedout, rLocals, fatal, early>>

-----------------------------------------------------------------------------
(* main, threadinfo_stop, threadinfo_cleanup *)

MainStart ==
  /\ m_pc = "start"
  /\ m_pc' = "wait"
  /\ UNCHANGED <<lists, s_pc, num_interrupted, interrupted>>

\* perf_os_waituntilreadable returns; the interrupt pipe comes first.
MainWait ==
  /\ m_pc = "wait"
  /\ intrpipe \/ mainpipe \/ time_up
  /\ interrupted' = intrpipe
  /\ m_pc' = "signal"
  /\ UNCHANGED <<lists, s_pc, num_interrupted>>

\* threadinfo_stop signals the condition variable without its lock.
MainSignal ==
  /\ m_pc = "signal"
  /\ SignalSender
  /\ m_pc' = "join_sender"
  /\ UNCHANGED <<lists, num_interrupted, interrupted>>

MainJoin ==
  /\ \/ m_pc = "join_sender" /\ s_pc = "done" /\ m_pc' = "join_receiver"
     \/ m_pc = "join_receiver" /\ r_pc = "done" /\ m_pc' = "cleanup"
  /\ UNCHANGED <<lists, s_pc, num_interrupted, interrupted>>

Stamped(qs) == {q \in qs : timestamp[q] # Unstamped}

\* Mutant of CancelQueries: queries without a timestamp count too.
CancelQueriesAll ==
  /\ unused' = unused \o FromTail(outstanding)
  /\ outstanding' = <<>>
  /\ num_interrupted' = num_interrupted + Cardinality(Range(outstanding))

\* cancel_queries: every outstanding query, from the tail, becomes unused;
\* those with a timestamp are counted.
CancelQueries ==
  /\ unused' = unused \o FromTail(outstanding)
  /\ outstanding' = <<>>
  /\ num_interrupted' = num_interrupted + Cardinality(Stamped(Range(outstanding)))

MainCleanup ==
  /\ m_pc = "cleanup"
  /\ IF interrupted THEN CancelQueries ELSE UNCHANGED <<lists, num_interrupted>>
  /\ m_pc' = "done"
  /\ UNCHANGED <<s_pc, interrupted>>

-----------------------------------------------------------------------------
(* The world: the user, and time *)

\* handle_sigint
Sigint ==
  /\ m_pc = "wait" /\ ~intrpipe
  /\ intrpipe' = TRUE
  /\ UNCHANGED <<time_up, timestamp>>

\* The stop time passes; without -l it never does.
StopTime ==
  /\ TimeLimit /\ started /\ ~time_up
  /\ time_up' = TRUE
  /\ UNCHANGED <<intrpipe, timestamp>>

Older(age) == IF age = Timeout THEN Timeout ELSE age + 1

\* Time passes: what has a timestamp gets older, up to Timeout.
Tick ==
  /\ started
  /\ timestamp' = [q \in Qids |-> IF timestamp[q] = Unstamped THEN Unstamped
                                                              ELSE Older(timestamp[q])]
  /\ timestamp' # timestamp
  /\ UNCHANGED <<intrpipe, time_up>>

-----------------------------------------------------------------------------
(* Specification.  What no step of an actor changes is stated here, once. *)

SenderFrame == UNCHANGED <<results, r_pc, rLocals, mainVars, intrpipe, time_up>>
ReceiverFrame == UNCHANGED <<timestamp, picks, flushes, net, s_q, s_late, num_sent,
                             num_interrupted, mainVars, intrpipe, time_up, lines_left>>
MainFrame == UNCHANGED <<stamps, picks, flushes, net, s_q, s_late, num_sent, num_completed,
                         num_timedout, r_pc, rLocals, intrpipe, time_up, fatal, lines_left,
                         early>>
WorldFrame == UNCHANGED <<lists, r_expired, picks, flushes, net, s_pc, s_q, s_late, num_sent,
                          results, r_pc, rLocals, mainVars, fatal, lines_left, early>>

\* The steps for which the sender needs the mutex, and the others.
SenderLocks == SendLimit \/ SendReserve \/ SendReserveNull \/ SendWoken \/ SendGiveBack
SenderSteps ==
  \/ SentCallback \/ SendStart \/ SendLoop \/ SendLoopEnd \/ SendFlush
  \/ SendWaitTimesOut \/ SendUnstamp \/ SendPick \/ SendAllFail \/ SendNotReady
  \/ SendReady \/ SendNextLine \/ SendBuild \/ SendTo \/ SendCount \/ SendDrain
  \/ SendDrainSock \/ SendDone

ReceiverLocks == RecvTimeoutLock \/ RecvLock
ReceiverSteps ==
  \/ RecvStart \/ RecvTop \/ RecvTimeout \/ RecvCheck \/ RecvOne \/ RecvNone \/ RecvMatch
  \/ RecvUnlock \/ RecvCount \/ RecvNext \/ RecvWaited

BySender(A)   == ~fatal /\ SenderFrame /\ A
ByReceiver(A) == ~fatal /\ ReceiverFrame /\ A
ByMain(A)     == ~fatal /\ MainFrame /\ A
ByWorld(A)    == ~fatal /\ WorldFrame /\ A

\* main has returned, or the process has been ended.
Ended == m_pc = "done" \/ fatal

Finished == Ended /\ UNCHANGED vars

Next ==
  \/ BySender(SenderLocks \/ SenderSteps \/ SendWaitEnds)
  \/ ByReceiver(ReceiverLocks \/ ReceiverSteps)
  \/ ByMain(MainStart \/ MainWait \/ MainSignal \/ MainJoin \/ MainCleanup)
  \/ ByWorld(Sigint \/ StopTime \/ Tick)
  \/ Finished

Spec == Init /\ [][Next]_vars

\* Threads are scheduled and queries grow old (WF).  The sender gets the mutex
\* it waits for although the receiver keeps taking it (SF; nobody else can disable
\* the other steps of the sender, for which this is WF); the receiver needs no
\* such help, because the sender runs out of queries to send.  The server
\* answers a finite number of times, so that the receiver finds all of its
\* sockets empty again and again (SF).  Nothing is assumed of the user, of
\* spurious wake-ups, nor of the stop time: a behaviour in which it never
\* comes is a run without -l.
Fairness ==
  /\ SF_vars(BySender(SenderLocks \/ SenderSteps))
  /\ WF_vars(ByReceiver(ReceiverLocks \/ ReceiverSteps))
  /\ SF_vars(ByReceiver(RecvNone)) /\ SF_vars(ByReceiver(RecvNone /\ r_pc' = "lock"))
  /\ WF_vars(ByMain(MainStart \/ MainWait \/ MainSignal \/ MainJoin \/ MainCleanup))
  /\ WF_vars(ByWorld(Tick))

FairSpec == Spec /\ Fairness

-----------------------------------------------------------------------------
(* Properties *)

SenderPcs == {"start", "top", "flush", "lock", "wait", "woken", "stamp", "pick", "picked",
              "input", "build", "send", "count", "unbuilt", "unsent", "drain", "drain_sock",
              "finish", "notify", "done"}
ReceiverPcs == {"start", "top", "tlock", "timeout", "check", "recv", "lock", "match", "stats",
                "wait", "done"}
MainPcs == {"start", "wait", "signal", "join_sender", "join_receiver", "cleanup", "done"}
Packets == [sock : Socks, qid : Qids \cup {None}]

\* Every variable has its type; in particular the round robin of do_send stays
\* on the sockets of the thread, and no counter goes below zero.
TypeOK ==
  /\ unused \in Seq(Qids) /\ outstanding \in Seq(Qids)
  /\ timestamp \in [Qids -> Ages \cup {Unstamped}]
  /\ qsock \in [Qids -> Socks \cup {None}] /\ current_sock \in Socks
  /\ num_sent \in Nat /\ num_completed \in Nat
  /\ num_timedout \in Nat /\ num_interrupted \in Nat
  /\ s_pc \in SenderPcs /\ s_q \in Qids \cup {None} /\ s_late \in BOOLEAN
  /\ s_tries \in 0 .. 2 * NSocks /\ s_all_fail \in BOOLEAN /\ s_i \in Socks
  /\ any_inprogress \in BOOLEAN /\ socketbits \subseteq Socks
  /\ s_callback \in Qids \cup {None}
  /\ r_pc \in ReceiverPcs /\ r_q \in Qids \cup {None} /\ r_expired \subseteq Qids
  /\ r_errno \in {"none", "EAGAIN", "EINTR", "other"} /\ r_bits \subseteq Socks
  /\ r_last \in Socks /\ recvd \in Seq(Packets) /\ r_accepted \in Nat
  /\ m_pc \in MainPcs /\ interrupted \in BOOLEAN /\ intrpipe \in BOOLEAN
  /\ time_up \in BOOLEAN /\ fatal \in BOOLEAN /\ lines_left \in 0 .. MaxLines
  /\ pend \in [Socks -> Qids \cup {None}] /\ asked \subseteq Socks \X Qids
  /\ early \in Nat

\* Every query of the table is on exactly one of the two lists, and once,
\* although both threads move queries and process_timeouts chooses the one it
\* moves before it has the lock.
ListsPartition ==
  /\ unused \in List(Qids) /\ outstanding \in List(Qids)
  /\ Range(unused) \cap Range(outstanding) = {}
  /\ Range(unused) \cup Range(outstanding) = Qids

\* The table of queries is sound: every variable keeps its type, and query_move,
\* called by do_send, do_recv, process_timeouts and cancel_queries, never
\* loses or doubles a query.
TableSound == TypeOK /\ ListsPartition

Counting == IF s_pc = "count" THEN 1 ELSE 0

\* The ledger of num_sent and the result counters: what was sent (counted or
\* about to be), plus what was charged to queries that were not sent, is what
\* was completed (counted or about to be), timed out or interrupted, plus what
\* is in flight.
Conservation ==
  num_sent + Counting + early
    = num_completed + r_accepted + num_timedout + num_interrupted + Cardinality(InFlight)

\* -q bounds the queries in flight, up to the results charged to queries that
\* were not sent, which num_outstanding takes for free places.
InFlightBound == Cardinality(InFlight) <= MaxOutstanding + early

\* When do_send takes the head of the unused list, that list is not empty,
\* unless a result was charged to a query that was not sent.
UnusedAvailable == s_pc = "lock" /\ BelowLimit /\ early = 0 => unused # <<>>

\* At the end every query that was sent has been reported once, as completed,
\* timed out or interrupted, unless a result was charged to one not sent.
FinalLedger ==
  m_pc = "done" /\ early = 0 =>
    num_sent = num_completed + num_timedout + num_interrupted /\ InFlight = {}

\* The receiver does not leave before the sender, unless interrupted: from
\* then on nothing is sent that nobody would listen for.
NothingSentUnheard ==
  [][r_pc = "done" /\ ~interrupted => num_sent' = num_sent /\ InFlight' \subseteq InFlight]_vars

\* A packet that do_recv accepts came from a server that has been asked this
\* query on the socket the query uses, also if the id was used on another
\* socket before and its answer is late.
AnsweredWhereAsked ==
  [][r_accepted' > r_accepted =>
       LET q == Head(recvd).qid IN <<qsock[q], q>> \in asked]_vars

\* A socket that do_send has chosen has nothing left to send: its buffer
\* would still hold the query in progress otherwise.
OneInProgress ==
  s_pc \in {"input", "build", "send"} => pend[qsock[s_q]] = None

\* If the stop time comes, or if the user does not interrupt it (a run without
\* -l ends with its input), dnsperf ends: every wait of the threads and of main
\* is over at some time.  (time_up, intrpipe and Ended stay true, so that []<>
\* says "at some time" of them, and []<>~ says "never".)
Termination == ([]<>time_up \/ []<>~intrpipe) => []<>Ended

-----------------------------------------------------------------------------
(* What the documentation says of the program, and the code does not do *)

\* dnsperf.1, -v: a query that is interrupted is reported as such: after the
\* interrupt main gets to cancel_queries and to its report.
InterruptEnds == interrupted ~> Ended
=============================================================================
