------------------------------ MODULE RateLimit ------------------------------
(***************************************************************************)
(* The rate limit of dnsperf -Q: setup divides max_qps (and the clients)   *)
(* between the threads, and the loop of do_send in each thread counts its  *)
(* queries in slices of one second and spaces them by q_step.              *)
(*                                                                         *)
(* Time is in ticks, Million of them a second.  The clock does not go      *)
(* back, and may advance by any amount before a pass of the loop ends, so  *)
(* a wait in the pass (for an answer, for a socket) is not a step of its   *)
(* own: only the length of the nanosleep is computed by the code.          *)
(***************************************************************************)
EXTENDS Integers

CONSTANTS Million,      \* MILLION: ticks of one second
          Threshold,    \* qps_threshold_wait
          MaxSockets,   \* MAX_SOCKETS
          MaxThreads,   \* bound: -T
          MaxQps,       \* bound: -Q
          MaxClients,   \* bound: -c
          MaxTime       \* bound: the clock
ASSUME RateAssumption ==
  /\ Million \in Nat \ {0} /\ Threshold \in Nat /\ MaxTime \in Nat /\ MaxSockets \in Nat \ {0}
  /\ MaxThreads \in Nat \ {0} /\ MaxQps \in Nat \ {0} /\ MaxClients \in Nat \ {0}

VARIABLES
  config,       \* threads, max_qps and clients after setup
  clock,
  pc,           \* "start", "loop" or "asleep"
  now, req_time, q_sent, q_slice,       \* of do_send
  wake,         \* when its nanosleep ends
  \* history
  start,        \* when the loop began
  slices,       \* slices begun since
  base,         \* when the stepping was last reset
  sent          \* num_sent
vars == <<config, clock, pc, now, req_time, q_sent, q_slice, wake, start, slices, base, sent>>

-----------------------------------------------------------------------------
(* setup and threadinfo_init *)

Least(a, b) == IF a < b THEN a ELSE b

\* The threads that are left: none without a share of max_qps, which would mean
\* no limit, and none without a client.  Mutant: max_qps is not looked at.
setup_any(threads, max_qps, clients) == Least(threads, clients)
setup(threads, max_qps, clients) == Least(Least(threads, max_qps), clients)

\* The share of the thread with this offset
per_thread(total, nthreads, offset) ==
  LET value == total \div nthreads IN
  IF value * nthreads < total /\ offset < total - value * nthreads THEN value + 1 ELSE value

Threads == 1 .. config.threads
max_qps(t) == per_thread(config.max_qps, config.threads, t - 1)
nsocks(t) == Least(per_thread(config.clients, config.threads, t - 1), MaxSockets)
Limits(t) == max_qps(t) > 0
q_step(t) == IF Limits(t) THEN Million \div max_qps(t) ELSE 0

Init ==
  /\ config \in {[threads |-> setup(n, q, c), max_qps |-> q, clients |-> c] :
                   n \in 1 .. MaxThreads, q \in 1 .. MaxQps, c \in 1 .. MaxClients}
  /\ clock = 0
  /\ pc = [t \in Threads |-> "start"]
  /\ now = [t \in Threads |-> 0] /\ req_time = [t \in Threads |-> 0]
  /\ q_slice = [t \in Threads |-> 0] /\ q_sent = [t \in Threads |-> 0]
  /\ wake = [t \in Threads |-> 0]
  /\ start = [t \in Threads |-> 0] /\ slices = [t \in Threads |-> 1]
  /\ base = [t \in Threads |-> 0] /\ sent = [t \in Threads |-> 0]

-----------------------------------------------------------------------------
(* do_send *)

\* After wait_for_start
Begin(t) ==
  /\ pc[t] = "start" /\ pc' = [pc EXCEPT ![t] = "loop"]
  /\ now' = [now EXCEPT ![t] = clock] /\ req_time' = [req_time EXCEPT ![t] = clock]
  /\ q_slice' = [q_slice EXCEPT ![t] = clock + Million]
  /\ start' = [start EXCEPT ![t] = clock] /\ base' = [base EXCEPT ![t] = clock]
  /\ UNCHANGED <<config, clock, q_sent, wake, slices, sent>>

\* A new slice, which also resets the stepping.  Mutant: it is one tick short.
NewSlice(t) == Limits(t) /\ q_slice[t] <= now[t]
SliceShort(t) == IF NewSlice(t) THEN q_slice[t] + Million - 1 ELSE q_slice[t]
Slice(t) == IF NewSlice(t) THEN q_slice[t] + Million ELSE q_slice[t]
Count(t) == IF NewSlice(t) THEN 0 ELSE q_sent[t]
Step(t) == IF NewSlice(t) THEN now[t] ELSE req_time[t]
BeginSlice(t) ==
  /\ q_slice' = [q_slice EXCEPT ![t] = Slice(t)]
  /\ slices' = [slices EXCEPT ![t] = IF NewSlice(t) THEN @ + 1 ELSE @]
  /\ base' = [base EXCEPT ![t] = IF NewSlice(t) THEN now[t] ELSE @]

\* The slice is used up, or it is too early for the next query.  Mutant: queries
\* are not spaced.
UsedUp(t) == Limits(t) /\ Count(t) >= max_qps(t)
EarlyNever(t) == FALSE
Early(t) == Limits(t) /\ Step(t) > now[t]

\* What the thread waits for, as unsigned number
Until(t) == IF UsedUp(t) THEN Slice(t) ELSE Step(t)

\* nanosleep for what exceeds the threshold, unless a socket is in progress or
\* the wait is too short; the clock is read afterwards.
Wait(t) ==
  /\ pc[t] = "loop" /\ (UsedUp(t) \/ Early(t))
  /\ BeginSlice(t)
  /\ q_sent' = [q_sent EXCEPT ![t] = Count(t)]
  /\ req_time' = [req_time EXCEPT ![t] = Step(t)]
  /\ \/ /\ Threshold > 0 /\ Until(t) - now[t] > Threshold
        /\ pc' = [pc EXCEPT ![t] = "asleep"]
        /\ wake' = [wake EXCEPT ![t] = clock + (Until(t) - now[t]) - Threshold]
        /\ UNCHANGED now
     \/ /\ now' = [now EXCEPT ![t] = clock]
        /\ UNCHANGED <<pc, wake>>
  /\ UNCHANGED <<config, clock, start, sent>>

Wake(t) ==
  /\ pc[t] = "asleep" /\ clock >= wake[t]
  /\ pc' = [pc EXCEPT ![t] = "loop"] /\ now' = [now EXCEPT ![t] = clock]
  /\ wake' = [wake EXCEPT ![t] = 0]
  /\ UNCHANGED <<config, clock, req_time, q_sent, q_slice, start, slices, base, sent>>

\* The pause after every other of the first queries, before the limit is looked at
Pause(t) ==
  /\ pc[t] = "loop" /\ sent[t] % 2 = 1 /\ now[t] < clock
  /\ now' = [now EXCEPT ![t] = clock]
  /\ UNCHANGED <<config, clock, pc, req_time, q_sent, q_slice, wake, start, slices, base, sent>>

\* The rest of the pass, whose step is taken already: too many queries are in
\* flight, no socket is ready, the query cannot be built or sent, or it is sent.
GoOn(t) ==
  /\ pc[t] = "loop" /\ ~UsedUp(t) /\ ~Early(t)
  /\ BeginSlice(t)
  /\ req_time' = [req_time EXCEPT ![t] = Step(t) + q_step(t)]    \* q_step is 0 without a limit

Blocked(t) ==
  /\ GoOn(t)
  /\ q_sent' = [q_sent EXCEPT ![t] = Count(t)]
  /\ now' = [now EXCEPT ![t] = clock]
  /\ UNCHANGED <<config, clock, pc, wake, start, sent>>

Send(t) ==
  /\ GoOn(t)
  /\ q_sent' = [q_sent EXCEPT ![t] = Count(t) + 1]
  /\ sent' = [sent EXCEPT ![t] = @ + 1]
  /\ now' = [now EXCEPT ![t] = clock]
  /\ UNCHANGED <<config, clock, pc, wake, start>>

Tick ==
  /\ clock < MaxTime /\ clock' = clock + 1
  /\ UNCHANGED <<config, pc, now, req_time, q_sent, q_slice, wake, start, slices, base, sent>>

Next == Tick \/ \E t \in Threads : Begin(t) \/ Wait(t) \/ Wake(t) \/ Pause(t) \/ Blocked(t) \/ Send(t)
Spec == Init /\ [][Next]_vars

-----------------------------------------------------------------------------
(* Properties *)

TypeOK ==
  /\ config \in [threads : 1 .. MaxThreads, max_qps : 1 .. MaxQps, clients : 1 .. MaxClients]
  /\ clock \in Nat
  /\ pc \in [Threads -> {"start", "loop", "asleep"}]
  /\ now \in [Threads -> Nat] /\ req_time \in [Threads -> Nat] /\ wake \in [Threads -> Nat]
  /\ q_slice \in [Threads -> Nat] /\ q_sent \in [Threads -> Nat] /\ start \in [Threads -> Nat]
  /\ slices \in [Threads -> Nat \ {0}] /\ base \in [Threads -> Nat] /\ sent \in [Threads -> Nat]
  /\ \A t \in Threads : Limits(t) => q_sent[t] <= max_qps(t)

\* A thread sends at most max_qps queries for each slice it has begun, and it has
\* not begun a slice before its second: no over-shoot, also after a stall.
ThreadLimit ==
  \A t \in Threads :
    Limits(t) => /\ sent[t] <= max_qps(t) * slices[t]
                 /\ (slices[t] - 1) * Million <= now[t] - start[t]

\* f[1] + ... + f[n]
Sum(f, n) ==
  LET upto[k \in 0 .. n] == IF k = 0 THEN 0 ELSE upto[k - 1] + f[k] IN upto[n]

\* All threads together do not send more than -Q queries for each second begun:
\* setup and per_thread divide the limit without a remainder, and no thread is
\* without a share (a share of 0 queries would mean no limit).  Of the clients
\* only those are lost that no thread could have: dnsperf acts as fewer than -c
\* only where all threads have MAX_SOCKETS of them.
TotalLimit ==
  /\ Sum(sent, config.threads) <= config.max_qps * (1 + clock \div Million)
  /\ Sum([t \in Threads |-> max_qps(t)], config.threads) = config.max_qps
  /\ Sum([t \in Threads |-> nsocks(t)], config.threads) = Least(config.clients, config.threads * MaxSockets)
  /\ \A t \in Threads : max_qps(t) > 0 /\ nsocks(t) > 0

\* Within a slice queries are not sent faster than one in q_step, whatever passes
\* of the loop sent nothing.
Spaced ==
  \A t \in Threads : q_sent[t] > 0 => (q_sent[t] - 1) * q_step(t) <= now[t] - base[t]

\* The unsigned differences of l.968 and l.986 do not wrap, and no wait is longer
\* than a second: a slice that is used up is not over, even if slices were missed,
\* and passes that sent nothing do not push req_time away.
WaitBounded ==
  \A t \in Threads :
    pc[t] = "loop" /\ (UsedUp(t) \/ Early(t)) => Until(t) - now[t] \in 1 .. Million

\* The pace of a thread: types are kept, queries are spaced, and waits are bounded.
PaceKept == TypeOK /\ Spaced /\ WaitBounded
=============================================================================
