--------------------------- MODULE RateLimitProofs ---------------------------
(***************************************************************************)
(* The limit of a thread, the pace of its queries and the bound of its     *)
(* waits, for every second, threshold, number of threads and limit; and    *)
(* the limit of the threads together.                                      *)
(***************************************************************************)
EXTENDS RateLimit, TLAPS

\* The slice of a running thread is the latest it has begun, what was sent before
\* it is within the limit, and req_time is between the steps that were used and one
\* step from now.
Running(t) ==
  /\ q_slice[t] = start[t] + slices[t] * Million
  /\ q_slice[t] - Million <= now[t]
  /\ Limits(t) => sent[t] <= max_qps(t) * (slices[t] - 1) + q_sent[t]
  /\ base[t] + q_sent[t] * q_step(t) <= req_time[t]
  /\ req_time[t] <= now[t] + q_step(t)
  /\ q_sent[t] > 0 => base[t] + (q_sent[t] - 1) * q_step(t) <= now[t]

Waiting(t) == now[t] = start[t] /\ slices[t] = 1 /\ q_sent[t] = 0 /\ sent[t] = 0

\* The inductive invariant, for one thread and for all
ThreadInv(t) ==
  /\ base[t] <= now[t] /\ now[t] <= clock
  /\ IF pc[t] = "start" THEN Waiting(t) ELSE Running(t)

IInv == TypeOK /\ \A t \in Threads : ThreadInv(t)

\* A share is a number, and the step of a thread with a share is at most a second.
LEMMA Shares ==
  ASSUME NEW n \in Nat \ {0}, NEW total \in Nat, NEW offset \in Nat
  PROVE  per_thread(total, n, offset) \in Nat
<1>1. total \div n \in Nat
  BY SMT
<1> DEFINE value == total \div n
<1> HIDE DEF value
<1>2. value \in Nat BY <1>1 DEF value
<1>3. per_thread(total, n, offset) = value \/ per_thread(total, n, offset) = value + 1
  BY DEF per_thread, value
<1> QED BY <1>2, <1>3

LEMMA StepBounded ==
  ASSUME TypeOK, NEW t \in Threads
  PROVE  /\ max_qps(t) \in Nat /\ Limits(t) \in BOOLEAN
         /\ q_step(t) \in Nat /\ q_step(t) <= Million
         /\ Million \in Nat \ {0} /\ (~Limits(t) => q_step(t) = 0)
<1>1. config.threads \in Nat \ {0} /\ config.max_qps \in Nat /\ t - 1 \in Nat
  BY RateAssumption DEF TypeOK, Threads
<1>2. max_qps(t) \in Nat
  BY <1>1, Shares, Zenon DEF max_qps
<1>3. Limits(t) \in BOOLEAN
  BY <1>2 DEF Limits
<1>4. \A k \in Nat \ {0} : Million \div k \in Nat /\ Million \div k <= Million
  BY RateAssumption, SMT
<1> QED BY <1>2, <1>3, <1>4, RateAssumption DEF q_step, Limits

-----------------------------------------------------------------------------
(* One pass of the loop *)

\* The history after BeginSlice
Begun(t) == IF NewSlice(t) THEN slices[t] + 1 ELSE slices[t]
Base(t) == IF NewSlice(t) THEN now[t] ELSE base[t]

\* l.958-964 keep what Running says, for the slice that is then current.
LEMMA SliceBegun ==
  ASSUME IInv, NEW t \in Threads, pc[t] # "start"
  PROVE  /\ Slice(t) \in Nat /\ Count(t) \in Nat /\ Step(t) \in Nat
         /\ Begun(t) \in Nat \ {0} /\ Base(t) \in Nat
         /\ Slice(t) = start[t] + Begun(t) * Million
         /\ Slice(t) - Million <= now[t]
         /\ Limits(t) => sent[t] <= max_qps(t) * (Begun(t) - 1) + Count(t)
         /\ Limits(t) => Count(t) <= max_qps(t)
         /\ Base(t) + Count(t) * q_step(t) <= Step(t)
         /\ Step(t) <= now[t] + q_step(t)
         /\ Count(t) > 0 => Base(t) + (Count(t) - 1) * q_step(t) <= now[t]
         /\ Base(t) <= now[t]
<1>1. /\ max_qps(t) \in Nat /\ q_step(t) \in Nat /\ Million \in Nat \ {0}
      /\ now[t] \in Nat /\ req_time[t] \in Nat /\ q_slice[t] \in Nat /\ q_sent[t] \in Nat
      /\ start[t] \in Nat /\ slices[t] \in Nat \ {0} /\ base[t] \in Nat /\ sent[t] \in Nat
      /\ Limits(t) => q_sent[t] <= max_qps(t)
  BY StepBounded DEF IInv, TypeOK
<1>2. Running(t) /\ base[t] <= now[t]
  BY DEF IInv, ThreadInv
<1>3. CASE ~NewSlice(t)
  BY <1>1, <1>2, <1>3 DEF Running, Slice, Count, Step, Begun, Base
<1>4. CASE NewSlice(t)
  <2>1. /\ Slice(t) = q_slice[t] + Million /\ Count(t) = 0 /\ Step(t) = now[t]
        /\ Begun(t) = slices[t] + 1 /\ Base(t) = now[t] /\ Limits(t) /\ q_slice[t] <= now[t]
    BY <1>4 DEF NewSlice, Slice, Count, Step, Begun, Base
  <2>2. (slices[t] + 1) * Million = slices[t] * Million + Million
    BY <1>1
  <2>3. max_qps(t) * (slices[t] - 1) + max_qps(t) = max_qps(t) * slices[t]
    BY <1>1
  <2>4. max_qps(t) * slices[t] \in Nat /\ max_qps(t) * (slices[t] - 1) \in Nat /\ slices[t] * Million \in Nat
    BY <1>1
  <2>5. sent[t] <= max_qps(t) * slices[t]
    BY <1>1, <1>2, <2>1, <2>3, <2>4 DEF Running
  <2>6. slices[t] + 1 - 1 = slices[t] /\ 0 * q_step(t) = 0
    BY <1>1
  <2>7. q_slice[t] = start[t] + slices[t] * Million
    BY <1>2 DEF Running
  <2>8. Slice(t) = start[t] + Begun(t) * Million
    BY <1>1, <2>1, <2>2, <2>4, <2>7
  <2>9. /\ sent[t] <= max_qps(t) * (Begun(t) - 1) + Count(t)
        /\ Base(t) + Count(t) * q_step(t) <= Step(t)
    BY <1>1, <2>1, <2>4, <2>5, <2>6
  <2>10. /\ Slice(t) - Million <= now[t] /\ Step(t) <= now[t] + q_step(t) /\ Base(t) <= now[t]
         /\ Slice(t) \in Nat /\ Count(t) \in Nat /\ Step(t) \in Nat
         /\ Begun(t) \in Nat \ {0} /\ Base(t) \in Nat /\ Count(t) <= max_qps(t) /\ ~(Count(t) > 0)
    BY <1>1, <2>1
  <2> QED BY <2>8, <2>9, <2>10
<1> QED BY <1>3, <1>4

\* What a pass of thread t changes: the slice, and then the count, req_time and
\* now, which may have been read again.
Pass(t, count, step, time, queries) ==
  /\ q_slice' = [q_slice EXCEPT ![t] = Slice(t)]
  /\ slices' = [slices EXCEPT ![t] = Begun(t)]
  /\ base' = [base EXCEPT ![t] = Base(t)]
  /\ q_sent' = [q_sent EXCEPT ![t] = count]
  /\ req_time' = [req_time EXCEPT ![t] = step]
  /\ now' = [now EXCEPT ![t] = time]
  /\ sent' = [sent EXCEPT ![t] = queries]
  /\ pc' \in [Threads -> {"start", "loop", "asleep"}] /\ wake' \in [Threads -> Nat]
  /\ \A u \in Threads : (pc'[u] = "start") = (pc[u] = "start")
  /\ UNCHANGED <<config, clock, start>>

\* A pass that keeps the relations of Running between its new values keeps the
\* invariant.
LEMMA PassKept ==
  ASSUME IInv, NEW t \in Threads, pc[t] # "start",
         NEW count \in Nat, NEW step \in Nat, NEW time \in Nat, NEW queries \in Nat,
         Pass(t, count, step, time, queries),
         now[t] <= time, time <= clock,
         Limits(t) => count <= max_qps(t) /\ queries <= max_qps(t) * (Begun(t) - 1) + count,
         Base(t) + count * q_step(t) <= step, step <= time + q_step(t),
         count > 0 => Base(t) + (count - 1) * q_step(t) <= time
  PROVE  IInv'
<1>1. /\ Slice(t) \in Nat /\ Begun(t) \in Nat \ {0} /\ Base(t) \in Nat
      /\ Slice(t) = start[t] + Begun(t) * Million
      /\ Slice(t) - Million <= now[t] /\ Base(t) <= now[t] /\ now[t] \in Nat /\ Million \in Nat
  BY SliceBegun, RateAssumption DEF IInv, TypeOK
<1>2. config' = config /\ Threads' = Threads /\ clock' = clock /\ start' = start
  BY DEF Pass, Threads
<1>3. \A u \in Threads : max_qps(u)' = max_qps(u) /\ q_step(u)' = q_step(u) /\ (Limits(u)' <=> Limits(u))
  BY <1>2 DEF max_qps, q_step, Limits
<1>4. \A u \in Threads \ {t} :
        /\ q_slice'[u] = q_slice[u] /\ slices'[u] = slices[u] /\ base'[u] = base[u] /\ q_sent'[u] = q_sent[u]
        /\ req_time'[u] = req_time[u] /\ now'[u] = now[u] /\ sent'[u] = sent[u]
        /\ (pc'[u] = "start") = (pc[u] = "start")
  BY DEF Pass, IInv, TypeOK
<1>5. /\ q_slice'[t] = Slice(t) /\ slices'[t] = Begun(t) /\ base'[t] = Base(t) /\ q_sent'[t] = count
      /\ req_time'[t] = step /\ now'[t] = time /\ sent'[t] = queries /\ pc'[t] # "start"
  BY DEF Pass, IInv, TypeOK
<1>6. TypeOK'
  <2>1. \A u \in Threads : Limits(u)' => q_sent'[u] <= max_qps(u)'
    BY <1>3, <1>4, <1>5 DEF IInv, TypeOK
  <2> QED BY <1>1, <1>2, <2>1 DEF IInv, TypeOK, Pass
<1>7. ThreadInv(t)'
  <2>1. Running(t)'
    BY <1>1, <1>2, <1>3, <1>5 DEF Running
  <2>2. Base(t) <= time
    BY <1>1
  <2> QED BY <2>1, <2>2, <1>2, <1>5 DEF ThreadInv
<1>8. ASSUME NEW u \in Threads \ {t}
      PROVE  ThreadInv(u)'
  BY <1>2, <1>3, <1>4 DEF IInv, ThreadInv, Running, Waiting
<1> QED BY <1>2, <1>6, <1>7, <1>8 DEF IInv

-----------------------------------------------------------------------------
(* Init and Next *)

LEMMA InitHolds == Init => IInv
<1> SUFFICES ASSUME Init PROVE IInv
  OBVIOUS
<1>1. PICK n \in 1 .. MaxThreads, q \in 1 .. MaxQps, c \in 1 .. MaxClients :
        config = [threads |-> setup(n, q, c), max_qps |-> q, clients |-> c]
  BY DEF Init
<1>2. setup(n, q, c) \in 1 .. n
  BY RateAssumption DEF setup, Least
<1>3. config \in [threads : 1 .. MaxThreads, max_qps : 1 .. MaxQps, clients : 1 .. MaxClients]
  BY <1>1, <1>2, RateAssumption
<1>4. \A t \in Threads : max_qps(t) \in Nat
  <2> TAKE t \in Threads
  <2>1. config.threads \in Nat \ {0} /\ config.max_qps \in Nat /\ t - 1 \in Nat
    BY <1>3, RateAssumption DEF Threads
  <2> QED BY <2>1, Shares, Zenon DEF max_qps
<1>5. TypeOK
  BY <1>3, <1>4 DEF Init, TypeOK
<1>6. \A t \in Threads : ThreadInv(t)
  BY DEF Init, ThreadInv, Waiting
<1> QED BY <1>5, <1>6 DEF IInv

LEMMA TickKept ==
  ASSUME IInv, UNCHANGED <<config, pc, now, req_time, q_sent, q_slice, wake, start, slices, base, sent>>,
         clock' \in Nat, clock <= clock'
  PROVE  IInv'
<1>1. Threads' = Threads
  BY DEF Threads
<1>2. \A t \in Threads : max_qps(t)' = max_qps(t) /\ q_step(t)' = q_step(t) /\ (Limits(t)' <=> Limits(t))
  BY DEF max_qps, q_step, Limits
<1>3. TypeOK'
  BY <1>1, <1>2 DEF IInv, TypeOK
<1>4. \A t \in Threads : now[t] \in Nat /\ clock \in Nat
  BY DEF IInv, TypeOK
<1>5. \A t \in Threads : ThreadInv(t)'
  BY <1>2, <1>4 DEF IInv, ThreadInv, Running, Waiting
<1> QED BY <1>1, <1>3, <1>5 DEF IInv

LEMMA WaitKept ==
  ASSUME IInv, NEW t \in Threads, Wait(t)
  PROVE  IInv'
<1>1. pc[t] = "loop" /\ pc[t] # "start"
  BY DEF Wait
<1>2. PICK time \in {now[t], clock} : now' = [now EXCEPT ![t] = time]
  BY DEF Wait, IInv, TypeOK
<1>3. clock \in Nat /\ now[t] \in Nat /\ now[t] <= clock /\ q_step(t) \in Nat
  BY StepBounded DEF IInv, TypeOK, ThreadInv
<1>4. Until(t) \in Int
  BY <1>1, SliceBegun DEF Until
<1>5. pc' \in [Threads -> {"start", "loop", "asleep"}]
  BY DEF Wait, IInv, TypeOK
<1>6. wake' \in [Threads -> Nat]
  <2>1. CASE UNCHANGED wake
    BY <2>1 DEF IInv, TypeOK
  <2>2. CASE /\ Until(t) - now[t] > Threshold
             /\ wake' = [wake EXCEPT ![t] = clock + (Until(t) - now[t]) - Threshold]
    <3>1. clock + (Until(t) - now[t]) - Threshold \in Nat
      BY <2>2, <1>3, <1>4, RateAssumption
    <3> QED BY <2>2, <3>1 DEF IInv, TypeOK
  <2> QED BY <2>1, <2>2 DEF Wait
<1>7. \A u \in Threads : (pc'[u] = "start") = (pc[u] = "start")
  BY <1>1 DEF Wait, IInv, TypeOK
<1>8. Pass(t, Count(t), Step(t), time, sent[t])
  BY <1>2, <1>5, <1>6, <1>7, Zenon DEF Wait, BeginSlice, Pass, Begun, Base, IInv, TypeOK
<1>9. /\ time \in Nat /\ now[t] <= time /\ time <= clock /\ sent[t] \in Nat
  BY <1>2, <1>3 DEF IInv, TypeOK
<1>10. /\ Count(t) \in Nat /\ Step(t) \in Nat /\ Base(t) \in Nat
       /\ Limits(t) => sent[t] <= max_qps(t) * (Begun(t) - 1) + Count(t)
       /\ Limits(t) => Count(t) <= max_qps(t)
       /\ Base(t) + Count(t) * q_step(t) <= Step(t)
       /\ Step(t) <= now[t] + q_step(t)
       /\ Count(t) > 0 => Base(t) + (Count(t) - 1) * q_step(t) <= now[t]
  BY <1>1, SliceBegun
<1>11. Step(t) <= time + q_step(t)
  BY <1>3, <1>9, <1>10
<1>12. ASSUME Count(t) > 0
       PROVE  Base(t) + (Count(t) - 1) * q_step(t) <= time
  <2>1. (Count(t) - 1) * q_step(t) \in Int
    BY <1>3, <1>10
  <2> QED BY <2>1, <1>3, <1>9, <1>10, <1>12
<1> QED BY <1>1, <1>8, <1>9, <1>10, <1>11, <1>12, PassKept

\* A pass that goes on has reached its step, and its slice is not used up.
LEMMA PassKeptOn ==
  ASSUME IInv, NEW t \in Threads, GoOn(t), UNCHANGED <<config, clock, pc, wake, start>>,
         now' = [now EXCEPT ![t] = clock], NEW k \in {0, 1},
         q_sent' = [q_sent EXCEPT ![t] = Count(t) + k], sent' = [sent EXCEPT ![t] = @ + k]
  PROVE  IInv'
<1>1. pc[t] # "start" /\ ~UsedUp(t) /\ ~Early(t)
  BY DEF GoOn
<1>2. /\ clock \in Nat /\ now[t] \in Nat /\ now[t] <= clock /\ sent[t] \in Nat
      /\ q_step(t) \in Nat /\ max_qps(t) \in Nat /\ (~Limits(t) => q_step(t) = 0)
  BY StepBounded DEF IInv, TypeOK, ThreadInv
<1>3. /\ Count(t) \in Nat /\ Step(t) \in Nat /\ Base(t) \in Nat /\ Begun(t) \in Nat \ {0}
      /\ Limits(t) => sent[t] <= max_qps(t) * (Begun(t) - 1) + Count(t)
      /\ Limits(t) => Count(t) <= max_qps(t)
      /\ Base(t) + Count(t) * q_step(t) <= Step(t)
      /\ Step(t) <= now[t] + q_step(t)
      /\ Count(t) > 0 => Base(t) + (Count(t) - 1) * q_step(t) <= now[t]
  BY <1>1, SliceBegun
<1>4. Step(t) <= now[t] /\ (Limits(t) => Count(t) < max_qps(t))
  BY <1>1, <1>2, <1>3 DEF UsedUp, Early
<1>5. Pass(t, Count(t) + k, Step(t) + q_step(t), clock, sent[t] + k)
  BY <1>1 DEF GoOn, BeginSlice, Pass, Begun, Base, IInv, TypeOK
<1>6. Limits(t) => Count(t) + k <= max_qps(t) /\ sent[t] + k <= max_qps(t) * (Begun(t) - 1) + (Count(t) + k)
  <2>1. max_qps(t) * (Begun(t) - 1) \in Int
    BY <1>2, <1>3
  <2> QED BY <2>1, <1>2, <1>3, <1>4
<1>7. Count(t) * q_step(t) \in Nat /\ (Count(t) + 1) * q_step(t) = Count(t) * q_step(t) + q_step(t)
  BY <1>2, <1>3
<1>8. Base(t) + (Count(t) + k) * q_step(t) <= Step(t) + q_step(t)
  <2>1. CASE k = 1
    <3>1. (Count(t) + k) * q_step(t) = Count(t) * q_step(t) + q_step(t)
      BY <2>1, <1>7
    <3> QED BY <3>1, <1>2, <1>3, <1>7
  <2>2. CASE k = 0
    <3>1. Count(t) + k = Count(t)
      BY <2>2, <1>3
    <3> QED BY <3>1, <1>2, <1>3, <1>7
  <2> QED BY <2>1, <2>2
<1>9. Step(t) + q_step(t) <= clock + q_step(t)
  BY <1>2, <1>3, <1>4
<1>10. Count(t) + k > 0 => Base(t) + ((Count(t) + k) - 1) * q_step(t) <= clock
  <2> HAVE Count(t) + k > 0
  <2>1. CASE k = 1
    <3>1. (Count(t) + k) - 1 = Count(t)
      BY <2>1, <1>3
    <3> DEFINE used == Count(t) * q_step(t)
    <3>2. /\ Step(t) \in Nat /\ Base(t) \in Nat /\ used \in Nat /\ clock \in Nat /\ now[t] \in Nat
          /\ Base(t) + used <= Step(t) /\ Step(t) <= now[t] /\ now[t] <= clock
      BY <1>2, <1>3, <1>4, <1>7, Zenon
    <3> HIDE DEF used
    <3>3. Base(t) + used <= clock
      BY <3>2
    <3> QED BY <3>1, <3>3 DEF used
  <2>2. CASE k = 0
    <3>1. Count(t) > 0 /\ (Count(t) - 1) * q_step(t) \in Int /\ (Count(t) + k) - 1 = Count(t) - 1
      BY <2>2, <1>2, <1>3
    <3> QED BY <3>1, <1>2, <1>3
  <2> QED BY <2>1, <2>2
<1>11. /\ Count(t) + k \in Nat /\ Step(t) + q_step(t) \in Nat /\ sent[t] + k \in Nat
  BY <1>2, <1>3
<1> DEFINE count == Count(t) + k
           step == Step(t) + q_step(t)
           queries == sent[t] + k
<1>12. count \in Nat /\ step \in Nat /\ queries \in Nat /\ Pass(t, count, step, clock, queries)
  BY <1>5, <1>11
<1>13. Limits(t) => count <= max_qps(t) /\ queries <= max_qps(t) * (Begun(t) - 1) + count
  BY <1>6
<1>14. Base(t) + count * q_step(t) <= step /\ step <= clock + q_step(t)
  BY <1>8, <1>9
<1>15. count > 0 => Base(t) + (count - 1) * q_step(t) <= clock
  BY <1>10
<1>16. clock <= clock
  BY <1>2
<1> HIDE DEF count, step, queries
<1> QED BY <1>1, <1>2, <1>12, <1>13, <1>14, <1>15, <1>16, PassKept, Zenon

\* Reading the clock again keeps the invariant.
LEMMA ClockRead ==
  ASSUME IInv, NEW t \in Threads, pc[t] # "start", now' = [now EXCEPT ![t] = clock],
         pc' = [pc EXCEPT ![t] = "loop"], wake' \in [Threads -> Nat],
         UNCHANGED <<config, clock, req_time, q_sent, q_slice, start, slices, base, sent>>
  PROVE  IInv'
<1>1. Threads' = Threads /\ clock \in Nat /\ now[t] \in Nat /\ now[t] <= clock
  BY Zenon DEF Threads, IInv, TypeOK, ThreadInv
<1>2. \A u \in Threads : max_qps(u)' = max_qps(u) /\ q_step(u)' = q_step(u) /\ (Limits(u)' <=> Limits(u))
  BY DEF max_qps, q_step, Limits
<1>3. TypeOK'
  BY <1>1, <1>2, Zenon DEF IInv, TypeOK
<1>4. ThreadInv(t)'
  <2>1. /\ q_step(t) \in Nat /\ q_slice[t] \in Nat /\ Million \in Nat /\ base[t] \in Nat
        /\ q_sent[t] \in Nat /\ req_time[t] \in Nat /\ (q_sent[t] - 1) * q_step(t) \in Int
    BY StepBounded DEF IInv, TypeOK
  <2>2. now'[t] = clock /\ pc'[t] = "loop"
    BY DEF IInv, TypeOK
  <2>3. Running(t) /\ base[t] <= now[t]
    BY DEF IInv, ThreadInv
  <2>4. Running(t)'
    BY <1>1, <1>2, <2>1, <2>2, <2>3 DEF Running
  <2> QED BY <1>1, <2>1, <2>2, <2>3, <2>4 DEF ThreadInv
<1>5. \A u \in Threads \ {t} : now'[u] = now[u] /\ pc'[u] = pc[u]
  BY DEF IInv, TypeOK
<1>6. \A u \in Threads \ {t} : ThreadInv(u)'
  BY <1>2, <1>5 DEF IInv, ThreadInv, Running, Waiting
<1> QED BY <1>1, <1>3, <1>4, <1>6 DEF IInv

LEMMA BeginKept ==
  ASSUME IInv, NEW t \in Threads, Begin(t)
  PROVE  IInv'
<1>1. config' = config /\ Threads' = Threads /\ clock' = clock /\ clock \in Nat /\ Million \in Nat
  BY RateAssumption DEF Begin, Threads, IInv, TypeOK
<1>2. \A u \in Threads : max_qps(u)' = max_qps(u) /\ q_step(u)' = q_step(u) /\ (Limits(u)' <=> Limits(u))
  BY <1>1 DEF max_qps, q_step, Limits
<1>3. TypeOK'
  BY <1>1, <1>2 DEF Begin, IInv, TypeOK
<1>4. ThreadInv(t)'
  <2>1. /\ now'[t] = clock /\ req_time'[t] = clock /\ q_slice'[t] = clock + Million
        /\ start'[t] = clock /\ base'[t] = clock /\ pc'[t] = "loop"
    BY DEF Begin, IInv, TypeOK
  <2>2. slices'[t] = 1 /\ q_sent'[t] = 0 /\ sent'[t] = 0
    BY DEF Begin, IInv, ThreadInv, Waiting
  <2>3. q_step(t) \in Nat /\ max_qps(t) \in Nat /\ 0 * q_step(t) = 0 /\ 1 * Million = Million /\ max_qps(t) * 0 = 0
    BY StepBounded, <1>1 DEF IInv
  <2>4. Running(t)'
    BY <1>1, <1>2, <2>1, <2>2, <2>3 DEF Running
  <2> QED BY <1>1, <2>1, <2>4 DEF ThreadInv
<1>5. \A u \in Threads \ {t} :
        /\ now'[u] = now[u] /\ pc'[u] = pc[u] /\ req_time'[u] = req_time[u] /\ q_slice'[u] = q_slice[u]
        /\ start'[u] = start[u] /\ base'[u] = base[u]
        /\ slices' = slices /\ q_sent' = q_sent /\ sent' = sent
  BY DEF Begin, IInv, TypeOK
<1>6. ASSUME NEW u \in Threads \ {t} PROVE ThreadInv(u)'
  <2>1. ThreadInv(u)
    BY DEF IInv
  <2>2. base'[u] <= now'[u] /\ now'[u] <= clock'
    BY <1>1, <1>5, <2>1 DEF ThreadInv
  <2>3. Waiting(u) => Waiting(u)'
    BY <1>5 DEF Waiting
  <2>4. Running(u) => Running(u)'
    BY <1>1, <1>2, <1>5 DEF Running
  <2> QED BY <1>5, <2>1, <2>2, <2>3, <2>4 DEF ThreadInv
<1> QED BY <1>1, <1>3, <1>4, <1>6 DEF IInv

\* Every step of a thread, and the passing of time, keeps the invariant.
LEMMA NextKept == IInv /\ [Next]_vars => IInv'
<1> SUFFICES ASSUME IInv, [Next]_vars PROVE IInv'
  OBVIOUS
<1>1. CASE Tick \/ UNCHANGED vars
  <2>1. clock' \in Nat /\ clock <= clock'
    BY <1>1 DEF IInv, TypeOK, Tick, vars
  <2> QED BY <1>1, <2>1, TickKept DEF Tick, vars
<1>2. ASSUME NEW t \in Threads, Begin(t) PROVE IInv'
  BY <1>2, BeginKept
<1>3. ASSUME NEW t \in Threads, Wait(t) PROVE IInv'
  BY <1>3, WaitKept
<1>4. ASSUME NEW t \in Threads, Wake(t) PROVE IInv'
  <2>1. wake' \in [Threads -> Nat]
    BY <1>4 DEF Wake, IInv, TypeOK
  <2> QED BY <1>4, <2>1, ClockRead, Zenon DEF Wake
<1>5. ASSUME NEW t \in Threads, Pause(t) PROVE IInv'
  <2>1. wake' \in [Threads -> Nat] /\ pc' = [pc EXCEPT ![t] = "loop"]
    BY <1>5 DEF Pause, IInv, TypeOK
  <2> QED BY <1>5, <2>1, ClockRead, Zenon DEF Pause
<1>6. ASSUME NEW t \in Threads, Blocked(t) PROVE IInv'
  <2>1. pc[t] # "start" BY <1>6 DEF Blocked, GoOn
  <2>2. Count(t) \in Nat /\ Count(t) + 0 = Count(t)
    BY <2>1, SliceBegun
  <2>3. q_sent' = [q_sent EXCEPT ![t] = Count(t) + 0]
    BY <1>6, <2>2, Zenon DEF Blocked
  <2>4. sent' = [sent EXCEPT ![t] = @ + 0]
    BY <1>6 DEF Blocked, IInv, TypeOK
  <2> QED BY <1>6, <2>3, <2>4, PassKeptOn, Zenon DEF Blocked
<1>7. ASSUME NEW t \in Threads, Send(t) PROVE IInv'
  BY <1>7, PassKeptOn, Zenon DEF Send
<1> QED BY <1>1, <1>2, <1>3, <1>4, <1>5, <1>6, <1>7 DEF Next

-----------------------------------------------------------------------------
(* What the invariant gives *)

LEMMA LimitHolds == IInv => ThreadLimit
<1> SUFFICES ASSUME IInv, NEW t \in Threads, Limits(t)
             PROVE  /\ sent[t] <= max_qps(t) * slices[t]
                    /\ (slices[t] - 1) * Million <= now[t] - start[t]
  BY DEF ThreadLimit
<1>1. /\ max_qps(t) \in Nat /\ Million \in Nat /\ slices[t] \in Nat \ {0} /\ now[t] \in Nat
      /\ start[t] \in Nat /\ sent[t] \in Nat /\ q_sent[t] \in Nat /\ q_sent[t] <= max_qps(t)
  BY StepBounded DEF IInv, TypeOK
<1>2. /\ (slices[t] - 1) * Million = slices[t] * Million - Million
      /\ max_qps(t) * slices[t] = max_qps(t) * (slices[t] - 1) + max_qps(t)
      /\ slices[t] * Million \in Nat /\ max_qps(t) * (slices[t] - 1) \in Nat
  BY <1>1
<1>3. CASE Running(t)
  BY <1>1, <1>2, <1>3 DEF Running
<1>4. CASE Waiting(t)
  BY <1>1, <1>4 DEF Waiting
<1> QED BY <1>3, <1>4 DEF IInv, ThreadInv

LEMMA PaceHolds == IInv => Spaced
<1> SUFFICES ASSUME IInv, NEW t \in Threads, q_sent[t] > 0
             PROVE  (q_sent[t] - 1) * q_step(t) <= now[t] - base[t]
  BY DEF Spaced
<1>1. /\ q_step(t) \in Nat /\ q_sent[t] \in Nat /\ now[t] \in Nat /\ base[t] \in Nat
      /\ (q_sent[t] - 1) * q_step(t) \in Int
  BY StepBounded DEF IInv, TypeOK
<1>2. Running(t)
  <2>1. Running(t) \/ Waiting(t)
    BY DEF IInv, ThreadInv
  <2>2. Waiting(t) => q_sent[t] = 0
    BY DEF Waiting
  <2> QED BY <1>1, <2>1, <2>2
<1> QED BY <1>1, <1>2 DEF Running

LEMMA WaitHolds == IInv => WaitBounded
<1> SUFFICES ASSUME IInv, NEW t \in Threads, pc[t] = "loop", UsedUp(t) \/ Early(t)
             PROVE  Until(t) - now[t] \in 1 .. Million
  BY DEF WaitBounded
<1>1. /\ q_step(t) \in Nat /\ q_step(t) <= Million /\ Million \in Nat /\ max_qps(t) \in Nat
      /\ now[t] \in Nat /\ q_slice[t] \in Nat
  BY StepBounded DEF IInv, TypeOK
<1>2. /\ Slice(t) \in Nat /\ Step(t) \in Nat /\ Slice(t) - Million <= now[t]
      /\ Step(t) <= now[t] + q_step(t)
  BY SliceBegun
<1>3. CASE UsedUp(t)
  <2>1. ~NewSlice(t)
    BY <1>1, <1>3 DEF UsedUp, Count, Limits
  <2>2. Slice(t) > now[t]
    BY <2>1, <1>1, <1>3 DEF NewSlice, Slice, UsedUp
  <2> QED BY <1>1, <1>2, <1>3, <2>2 DEF Until
<1>4. CASE ~UsedUp(t) /\ Early(t)
  BY <1>1, <1>2, <1>4 DEF Until, Early
<1> QED BY <1>3, <1>4

LEMMA Inductive == Spec => []IInv
<1> QED BY InitHolds, NextKept, PTL DEF Spec

\* A thread never sends more than its share of -Q for the slices it has begun, nor
\* begins a slice before its time (do_send, l.958-966).
THEOREM ThreadLimited == Spec => []ThreadLimit
<1> QED BY Inductive, LimitHolds, PTL

\* The queries of a slice are at least q_step apart, counted from its first
\* (l.985-1005); no wait of the limit wraps around or exceeds a second (l.968,
\* l.988); and every variable keeps its type.
THEOREM Paced == Spec => []PaceKept
<1>1. IInv => PaceKept
  BY PaceHolds, WaitHolds DEF IInv, PaceKept
<1> QED BY Inductive, <1>1, PTL

-----------------------------------------------------------------------------
(* The threads together *)
LOCAL INSTANCE WellFoundedInduction

\* A set of numbers has a least one, and induction: over a set, since the provers
\* do not instantiate a predicate.
LEMMA LeastNat ==
  ASSUME NEW T, T \subseteq Nat, T # {}
  PROVE  \E x \in T : \A y \in T : x <= y
<1> DEFINE R == OpToRel(<, Nat)
<1>1. IsWellFoundedOn(R, Nat)
  BY NatLessThanWellFounded, Zenon
<1>2. \A x, y \in Nat : y < x => <<y, x>> \in R
  BY DEF OpToRel
<1> HIDE DEF R
<1>3. PICK x \in T : \A y \in T : ~ (<<y, x>> \in R)
  BY <1>1, WFMin, Zenon
<1>4. ASSUME NEW y \in T PROVE x <= y
  <2>1. x \in Nat /\ y \in Nat
    OBVIOUS
  <2>2. ~ (y < x)
    BY <1>2, <1>3, <2>1, Zenon
  <2> QED BY <2>1, <2>2
<1> QED BY <1>4

LEMMA Induction ==
  ASSUME NEW S, 0 \in S, \A n \in Nat : n \in S => n + 1 \in S
  PROVE  Nat \subseteq S
<1> SUFFICES ASSUME Nat \ S # {} PROVE FALSE
  BY Zenon
<1>1. PICK n \in Nat \ S : \A m \in Nat \ S : n <= m
  <2> DEFINE T == Nat \ S
  <2>1. T \subseteq Nat /\ T # {}
    OBVIOUS
  <2> HIDE DEF T
  <2>2. \E x \in T : \A y \in T : x <= y
    BY <2>1, LeastNat, Zenon
  <2> QED BY <2>2 DEF T
<1>2. n \in Nat /\ n # 0
  BY <1>1
<1>3. n - 1 \in Nat /\ (n - 1) + 1 = n
  BY <1>2
<1>4. n - 1 \in S
  BY <1>1, <1>3
<1>5. n \in S
  BY <1>3, <1>4
<1> QED BY <1>1, <1>5

\* g has the running totals of f.
IsSum(g, f, N) == g = [k \in 0 .. N |-> IF k = 0 THEN 0 ELSE g[k - 1] + f[k]]

LEMMA SumExists ==
  ASSUME NEW N \in Nat, NEW f
  PROVE  \E g : IsSum(g, f, N)
<1> DEFINE S == {n \in Nat : \E g : IsSum(g, f, n)}
<1>1. 0 \in S
  <2> DEFINE g == [n \in 0 .. 0 |-> 0]
  <2>1. IsSum(g, f, 0)
    BY DEF IsSum
  <2> QED BY <2>1
<1>2. ASSUME NEW m \in Nat, m \in S PROVE m + 1 \in S
  <2>1. PICK g : IsSum(g, f, m)
    BY <1>2
  <2> DEFINE h == [n \in 0 .. m + 1 |-> IF n = m + 1 THEN g[m] + f[m + 1] ELSE g[n]]
  <2>2. h[0] = 0 /\ h[m + 1] = h[m] + f[m + 1]
    <3>1. g[0] = 0
      BY <2>1 DEF IsSum
    <3> QED BY <3>1
  <2>3. ASSUME NEW n \in 1 .. m PROVE h[n] = h[n - 1] + f[n]
    <3>1. g[n] = g[n - 1] + f[n]
      BY <2>1 DEF IsSum
    <3>2. h[n] = g[n] /\ h[n - 1] = g[n - 1]
      OBVIOUS
    <3> QED BY <3>1, <3>2
  <2>4. h = [n \in 0 .. m + 1 |-> h[n]]
    OBVIOUS
  <2> HIDE DEF h
  <2>5. ASSUME NEW n \in 0 .. m + 1 PROVE h[n] = IF n = 0 THEN 0 ELSE h[n - 1] + f[n]
    <3>1. n = 0 \/ n = m + 1 \/ n \in 1 .. m
      OBVIOUS
    <3> QED BY <2>2, <2>3, <3>1
  <2>6. IsSum(h, f, m + 1)
    BY <2>4, <2>5, Zenon DEF IsSum
  <2> QED BY <2>6
<1> HIDE DEF S
<1>3. N \in S
  BY <1>1, <1>2, Induction
<1> QED BY <1>3 DEF S

Totals(g, f, N) == Sum(f, N) = g[N] /\ g[0] = 0 /\ \A n \in 1 .. N : g[n] = g[n - 1] + f[n]

LEMMA SumSteps ==
  ASSUME NEW N \in Nat, NEW f
  PROVE  \E g : Totals(g, f, N)
<1> DEFINE g == CHOOSE u : u = [k \in 0 .. N |-> IF k = 0 THEN 0 ELSE u[k - 1] + f[k]]
<1>1. Sum(f, N) = g[N]
  BY Zenon DEF Sum
<1>2. g = [k \in 0 .. N |-> IF k = 0 THEN 0 ELSE g[k - 1] + f[k]]
  BY SumExists, Zenon DEF IsSum
<1> HIDE DEF g
<1>3. g[0] = 0 /\ \A n \in 1 .. N : g[n] = g[n - 1] + f[n]
  BY <1>2
<1> QED BY <1>1, <1>3 DEF Totals

\* What is at most k times something everywhere is at most k times that in total.
LEMMA SumBounded ==
  ASSUME NEW N \in Nat, NEW k \in Nat, NEW f \in [1 .. N -> Nat], NEW h \in [1 .. N -> Nat],
         \A n \in 1 .. N : f[n] <= h[n] * k
  PROVE  Sum(f, N) <= Sum(h, N) * k
<1>1. PICK g : Totals(g, f, N)
  BY SumSteps, Zenon
<1>2. PICK d : Totals(d, h, N)
  BY SumSteps, Zenon
<1> DEFINE S == {n \in Nat : n <= N => g[n] \in Nat /\ d[n] \in Nat /\ g[n] <= d[n] * k}
<1>3. 0 \in S
  BY <1>1, <1>2 DEF Totals
<1>4. ASSUME NEW n \in Nat, n \in S PROVE n + 1 \in S
  <2> SUFFICES ASSUME n + 1 <= N
               PROVE  g[n + 1] \in Nat /\ d[n + 1] \in Nat /\ g[n + 1] <= d[n + 1] * k
    OBVIOUS
  <2>1. n + 1 \in 1 .. N /\ (n + 1) - 1 = n
    OBVIOUS
  <2>2. g[n + 1] = g[n] + f[n + 1] /\ d[n + 1] = d[n] + h[n + 1]
    BY <1>1, <1>2, <2>1 DEF Totals
  <2>3. g[n] \in Nat /\ d[n] \in Nat /\ g[n] <= d[n] * k
    BY <1>4, <2>1
  <2>4. PICK a \in Nat, b \in Nat : a = f[n + 1] /\ b = h[n + 1] /\ a <= b * k
    BY <2>1
  <2>5. \A x, y, z \in Nat : (x + y) * z = x * z + y * z /\ x * z \in Nat /\ y * z \in Nat
    BY SMT
  <2>6. PICK x \in Nat, y \in Nat : x = d[n] * k /\ y = b * k /\ (d[n] + b) * k = x + y
    BY <2>3, <2>5
  <2>7. g[n + 1] = g[n] + a /\ d[n + 1] = d[n] + b
    BY <2>2, <2>4
  <2>8. g[n] <= x /\ a <= y
    BY <2>3, <2>4, <2>6, Zenon
  <2>9. g[n] + a <= x + y /\ g[n] + a \in Nat /\ d[n] + b \in Nat
    <3>1. \A u, v, w, z \in Nat : u <= w /\ v <= z => u + v <= w + z /\ u + v \in Nat
      OBVIOUS
    <3>2. g[n] \in Nat /\ d[n] \in Nat /\ d[n] + b \in Nat
      BY <2>3
    <3> QED BY <2>8, <3>1, <3>2
  <2> QED BY <2>6, <2>7, <2>9, Zenon
<1> HIDE DEF S
<1>5. N \in S
  BY <1>3, <1>4, Induction, Zenon
<1> QED BY <1>1, <1>2, <1>5 DEF S, Totals

\* per_thread leaves no remainder: the first threads have one more.
LEMMA SharesAddUp ==
  ASSUME NEW N \in Nat \ {0}, NEW total \in Nat
  PROVE  Sum([t \in 1 .. N |-> per_thread(total, N, t - 1)], N) = total
<1> DEFINE f == [t \in 1 .. N |-> per_thread(total, N, t - 1)]
           value == total \div N
           more == total - value * N
<1>1. value \in Nat /\ more \in 0 .. N - 1 /\ value * N \in Nat /\ total = value * N + more
  <2>1. total \div N \in Nat /\ total % N \in 0 .. N - 1 /\ total = N * (total \div N) + (total % N)
    <3>1. total \div N \in Nat /\ total % N \in 0 .. N - 1
      BY SMT
    <3>2. total = N * (total \div N) + (total % N)
      BY SMT
    <3> QED BY <3>1, <3>2
  <2>2. \A v \in Nat : v * N = N * v /\ v * N \in Nat
    BY SMT
  <2> QED BY <2>1, <2>2
<1>2. ASSUME NEW n \in 1 .. N PROVE f[n] = IF n <= more THEN value + 1 ELSE value
  BY <1>1 DEF per_thread
<1> HIDE DEF value, more
<1>3. PICK g : Totals(g, f, N)
  <2> HIDE DEF f
  <2> QED BY SumSteps, Zenon
<1> HIDE DEF f
<1> DEFINE S == {n \in Nat : n <= N => g[n] = n * value + Least(n, more)}
<1>4. 0 \in S
  BY <1>1, <1>3 DEF Least, Totals
<1>5. ASSUME NEW n \in Nat, n \in S PROVE n + 1 \in S
  <2> SUFFICES ASSUME n + 1 <= N PROVE g[n + 1] = (n + 1) * value + Least(n + 1, more)
    OBVIOUS
  <2>1. n + 1 \in 1 .. N /\ (n + 1) - 1 = n
    OBVIOUS
  <2>2. g[n + 1] = g[n] + f[n + 1] /\ g[n] = n * value + Least(n, more)
    BY <1>3, <1>5, <2>1 DEF Totals
  <2>3. f[n + 1] = IF n + 1 <= more THEN value + 1 ELSE value
    BY <1>2, <2>1
  <2>4. (n + 1) * value = n * value + value /\ n * value \in Nat
    BY <1>1
  <2> QED BY <1>1, <2>2, <2>3, <2>4 DEF Least
<1> HIDE DEF S
<1>6. N \in S
  BY <1>4, <1>5, Induction
<1>7. g[N] = N * value + more
  BY <1>1, <1>6 DEF S, Least
<1>8. N * value = value * N
  BY <1>1
<1> QED BY <1>1, <1>3, <1>7, <1>8 DEF f, Totals

\* No share is empty where there are not more threads than there is to share.
LEMMA SharePositive ==
  ASSUME NEW N \in Nat \ {0}, NEW total \in Nat, N <= total, NEW offset \in Nat
  PROVE  per_thread(total, N, offset) > 0
<1>1. total \div N \in Nat /\ total \div N # 0
  BY SMT
<1> DEFINE value == total \div N
<1>2. value \in Nat /\ value > 0
  BY <1>1
<1>3. per_thread(total, N, offset) \in {value, value + 1}
  BY DEF per_thread
<1> HIDE DEF value
<1> QED BY <1>2, <1>3

\* No share is clamped unless all are: M for each of N is lost only of what is
\* more than N * M.
LEMMA ClampedShares ==
  ASSUME NEW N \in Nat \ {0}, NEW total \in Nat, NEW M \in Nat
  PROVE  Sum([t \in 1 .. N |-> Least(per_thread(total, N, t - 1), M)], N) = Least(total, N * M)
<1> DEFINE f == [t \in 1 .. N |-> Least(per_thread(total, N, t - 1), M)]
           value == total \div N
           more == total % N
<1>1. /\ value \in Nat /\ more \in 0 .. N - 1 /\ value * N \in Nat /\ N * M \in Nat
      /\ total = value * N + more
  <2>1. total \div N \in Nat /\ total % N \in 0 .. N - 1
    BY SMT
  <2>2. total = N * (total \div N) + (total % N)
    BY SMT
  <2>3. \A v \in Nat : v * N = N * v /\ v * N \in Nat /\ N * v \in Nat
    BY SMT
  <2> QED BY <2>1, <2>2, <2>3
<1>2. ASSUME NEW t \in 1 .. N
      PROVE  per_thread(total, N, t - 1) = IF t <= more THEN value + 1 ELSE value
  <2>1. total - value * N = more
    BY <1>1
  <2>2. per_thread(total, N, t - 1) =
          IF value * N < total /\ t - 1 < total - value * N THEN value + 1 ELSE value
    BY DEF per_thread
  <2> HIDE DEF value, more
  <2> QED BY <1>1, <2>1, <2>2
<1> HIDE DEF value, more
<1>3. CASE total <= N * M
  <2>1. value < M \/ (value = M /\ more = 0)
    <3>1. \A a, b, c \in Nat : b >= c + 1 => b * a >= a * c + a
      BY SMT
    <3>2. value * N = N * value
      BY <1>1
    <3>3. value <= M
      <4> SUFFICES ASSUME value >= M + 1 PROVE FALSE
        BY <1>1
      <4>1. value * N >= N * M + N
        BY <1>1, <3>1
      <4> QED BY <1>1, <1>3, <4>1
    <3> QED BY <1>1, <1>3, <3>2, <3>3
  <2>2. ASSUME NEW t \in 1 .. N
        PROVE  Least(per_thread(total, N, t - 1), M) = per_thread(total, N, t - 1)
    BY <1>1, <1>2, <2>1 DEF Least
  <2>3. f = [t \in 1 .. N |-> per_thread(total, N, t - 1)]
    BY <2>2, Zenon
  <2>4. Least(total, N * M) = total
    BY <1>1, <1>3 DEF Least
  <2> QED BY <2>3, <2>4, SharesAddUp, Zenon
<1>4. CASE total > N * M
  <2>1. value >= M
    <3> SUFFICES ASSUME value + 1 <= M PROVE FALSE
      BY <1>1
    <3>1. \A a, b, c \in Nat : b + 1 <= c => b * a + a <= a * c
      BY SMT
    <3>2. value * N + N <= N * M
      BY <1>1, <3>1
    <3> QED BY <1>1, <1>4, <3>2
  <2>2. ASSUME NEW t \in 1 .. N
        PROVE  Least(per_thread(total, N, t - 1), M) = M
    BY <1>1, <1>2, <2>1 DEF Least
  <2>3. (N * M) \div N = M
    BY SMT
  <2>4. ASSUME NEW t \in 1 .. N
        PROVE  per_thread(N * M, N, t - 1) = M
    <3>1. M * N = N * M
      OBVIOUS
    <3> QED BY <1>1, <2>3, <3>1 DEF per_thread
  <2>5. f = [t \in 1 .. N |-> per_thread(N * M, N, t - 1)]
    BY <2>2, <2>4, Zenon
  <2>6. Least(total, N * M) = N * M
    BY <1>1, <1>4 DEF Least
  <2> QED BY <1>1, <2>5, <2>6, SharesAddUp, Zenon
<1> QED BY <1>1, <1>3, <1>4

\* What setup has made sure of
Divided == config.threads <= config.max_qps /\ config.threads <= config.clients

LEMMA SetupDivides == Spec => []Divided
<1>1. Init => Divided
  <2> SUFFICES ASSUME Init PROVE Divided
    OBVIOUS
  <2>1. PICK n \in 1 .. MaxThreads, q \in 1 .. MaxQps, c \in 1 .. MaxClients :
          config = [threads |-> setup(n, q, c), max_qps |-> q, clients |-> c]
    BY DEF Init
  <2>2. n \in Nat /\ q \in Nat /\ c \in Nat
    BY RateAssumption
  <2>3. setup(n, q, c) <= q /\ setup(n, q, c) <= c
    BY <2>2 DEF setup, Least
  <2> QED BY <2>1, <2>3 DEF Divided
<1>2. Divided /\ [Next]_vars => Divided'
  <2> SUFFICES ASSUME Divided, [Next]_vars PROVE config' = config
    BY DEF Divided
  <2>1. ASSUME NEW t \in Threads, Begin(t) \/ Wait(t) \/ Wake(t) \/ Pause(t) PROVE config' = config
    BY <2>1 DEF Begin, Wait, Wake, Pause
  <2>2. ASSUME NEW t \in Threads, Blocked(t) \/ Send(t) PROVE config' = config
    BY <2>2 DEF Blocked, Send
  <2>3. CASE Tick \/ UNCHANGED vars
    BY <2>3 DEF Tick, vars
  <2> QED BY <2>1, <2>2, <2>3 DEF Next
<1> QED BY <1>1, <1>2, PTL DEF Spec

\* A thread has begun no more slices than the clock has seconds.
LEMMA SlicesBegun ==
  ASSUME IInv, NEW t \in Threads, Limits(t)
  PROVE  /\ clock \div Million \in Nat /\ slices[t] \in Nat
         /\ slices[t] <= 1 + clock \div Million
<1>1. /\ Million \in Nat \ {0} /\ clock \in Nat /\ slices[t] \in Nat \ {0}
      /\ now[t] \in Nat /\ start[t] \in Nat /\ now[t] <= clock
  BY RateAssumption DEF IInv, TypeOK, ThreadInv
<1>2. (slices[t] - 1) * Million <= now[t] - start[t]
  BY LimitHolds DEF ThreadLimit
<1>3. PICK a \in Nat : a = slices[t] - 1
  BY <1>1
<1>4. a * Million <= clock
  BY <1>1, <1>2, <1>3
<1>5. PICK d \in Nat, r \in 0 .. Million - 1 : d = clock \div Million /\ clock = Million * d + r
  <2>1. clock \div Million \in Nat /\ clock % Million \in 0 .. Million - 1
    BY <1>1, SMT
  <2>2. clock = Million * (clock \div Million) + (clock % Million)
    BY <1>1, SMT
  <2> QED BY <2>1, <2>2
<1>6. a <= d
  <2> SUFFICES ASSUME a >= d + 1 PROVE FALSE
    OBVIOUS
  <2>1. a * Million >= (d + 1) * Million
    BY <1>1
  <2>2. (d + 1) * Million = Million * d + Million
    BY <1>1
  <2>3. PICK x \in Nat, y \in Nat : x = a * Million /\ y = Million * d
    BY <1>1
  <2>4. x <= y + r /\ x >= y + Million
    BY <1>4, <1>5, <2>1, <2>2, <2>3
  <2> QED BY <1>1, <2>4
<1> QED BY <1>1, <1>3, <1>5, <1>6

LEMMA TotalHolds ==
  ASSUME IInv, Divided
  PROVE  TotalLimit
<1> DEFINE n == config.threads
           seconds == 1 + clock \div Million
           share == [t \in Threads |-> max_qps(t)]
<1>1. n \in Nat \ {0} /\ config.max_qps \in Nat /\ config.clients \in Nat /\ Threads = 1 .. n
  BY RateAssumption DEF IInv, TypeOK, Threads
<1>2. n <= config.max_qps /\ n <= config.clients
  BY DEF Divided
<1>3. ASSUME NEW t \in Threads PROVE max_qps(t) \in Nat /\ max_qps(t) > 0 /\ nsocks(t) > 0
  <2>1. t - 1 \in Nat
    BY <1>1
  <2>2. max_qps(t) \in Nat
    BY <1>1, <2>1, Shares, Zenon DEF max_qps
  <2>3. max_qps(t) > 0
    BY <1>1, <1>2, <2>1, SharePositive, Zenon DEF max_qps
  <2>4. nsocks(t) > 0
    <3>1. per_thread(config.clients, config.threads, t - 1) > 0
      BY <1>1, <1>2, <2>1, SharePositive, Zenon
    <3> QED BY <3>1, RateAssumption DEF nsocks, Least
  <2> QED BY <2>2, <2>3, <2>4
<1>4. Sum(share, n) = config.max_qps
  <2>1. share = [t \in 1 .. n |-> per_thread(config.max_qps, n, t - 1)]
    BY <1>1, Zenon DEF max_qps
  <2> QED BY <1>1, <2>1, SharesAddUp, Zenon
<1>5. Sum([t \in Threads |-> nsocks(t)], n) = Least(config.clients, n * MaxSockets)
  <2>1. [t \in Threads |-> nsocks(t)] =
          [t \in 1 .. n |-> Least(per_thread(config.clients, n, t - 1), MaxSockets)]
    BY <1>1, Zenon DEF nsocks
  <2>2. MaxSockets \in Nat
    BY RateAssumption
  <2>3. Sum([t \in 1 .. n |-> Least(per_thread(config.clients, n, t - 1), MaxSockets)], n) =
          Least(config.clients, n * MaxSockets)
    <3> HIDE DEF n
    <3> QED BY <1>1, <2>2, ClampedShares
  <2> QED BY <2>1, <2>3, Zenon
<1>6. seconds \in Nat
  <2>1. clock \div Million \in Nat
    BY RateAssumption, SMT DEF IInv, TypeOK
  <2> QED BY <2>1
<1>7. ASSUME NEW t \in 1 .. n PROVE sent[t] <= share[t] * seconds
  <2>1. t \in Threads /\ Limits(t) /\ share[t] = max_qps(t) /\ max_qps(t) \in Nat
    BY <1>1, <1>3 DEF Limits
  <2>2. slices[t] \in Nat /\ slices[t] <= seconds
    BY <2>1, SlicesBegun
  <2>3. sent[t] <= max_qps(t) * slices[t] /\ sent[t] \in Nat
    BY <2>1, LimitHolds DEF ThreadLimit, IInv, TypeOK
  <2> HIDE DEF seconds, share
  <2>4. PICK q \in Nat, k \in Nat : q = max_qps(t) /\ k = slices[t]
    BY <2>1, <2>2
  <2>5. \A x, y, z \in Nat : y <= z => x * y <= x * z /\ x * y \in Nat /\ x * z \in Nat
    BY SMT
  <2>6. q * k <= q * seconds /\ q * k \in Nat /\ q * seconds \in Nat
    BY <1>6, <2>2, <2>4, <2>5
  <2>7. sent[t] <= q * k /\ share[t] * seconds = q * seconds
    BY <2>1, <2>3, <2>4, Zenon
  <2>8. \A x, y, z \in Nat : x <= y /\ y <= z => x <= z
    OBVIOUS
  <2> QED BY <2>3, <2>6, <2>7, <2>8, Zenon
<1>8. sent \in [1 .. n -> Nat] /\ share \in [1 .. n -> Nat]
  BY <1>1, <1>3 DEF IInv, TypeOK
<1>9. Sum(sent, n) <= Sum(share, n) * seconds
  <2> HIDE DEF share, seconds
  <2> QED BY <1>1, <1>6, <1>7, <1>8, SumBounded, Zenon
<1> QED BY <1>3, <1>4, <1>5, <1>9 DEF TotalLimit

\* The threads together never send more than -Q queries for each second begun
\* (do_send), the limit is divided without a remainder and without an empty
\* share, and so are the clients up to MAX_SOCKETS of a thread (setup,
\* threadinfo_init).
THEOREM TotalLimited == Spec => []TotalLimit
<1> QED BY Inductive, SetupDivides, TotalHolds, PTL
=============================================================================
