----------------------------- MODULE Statistics -----------------------------
(***************************************************************************)
(* The statistics of dnsperf.c.  Each thread counts its responses (RT, in  *)
(* do_recv) and its connections (ST, in perf__net_event) without a lock;   *)
(* the thread of -S sums the counters of all threads up while they change  *)
(* (sum_stats), prints the difference to the last sum (diff_stats), and    *)
(* main sums up again when all threads have ended.                         *)
(*                                                                         *)
(* The counters of responses and those of connections do not meet: a       *)
(* behaviour is about one kind.  num stands for num_completed              *)
(* (num_conn_completed) and the other plain counters; sizes are counted as *)
(* the sums are.                                                           *)
(***************************************************************************)
EXTENDS Hg64

CONSTANTS NThreads,
          Responses,            \* the latencies that are measured, with response codes
          SigBits,              \* HISTOGRAM_SIGBITS, any of these
          MaxEvents,            \* bound: responses and connections
          MaxIntervals          \* bound: sums of the interval thread
Latencies == {response[1] : response \in Responses}
Codes == {response[2] : response \in Responses}
ASSUME StatisticsAssumption ==
  /\ NThreads \in Nat \ {0} /\ Latencies \subseteq Values /\ MaxEvents \in Nat
  /\ MaxIntervals \in Nat /\ SigBits \subseteq 1 .. Bits - 1

Threads == 1 .. NThreads
Kinds == {"query", "conn"}

VARIABLES options,              \* HISTOGRAM_SIGBITS, and whether there are histograms
          kind,
          stats,                \* stats_t of each thread
          update,               \* how far the owner of the counters is
          stop,                 \* the threads are to end
          i_pc, total, last,    \* do_interval_stats
          intervals,            \* sums made so far
          shown,                \* what it printed last
          report,               \* what main prints
          events,               \* responses and connections so far
          \* history
          heard,                \* the latencies that were measured
          torn                  \* counters changed while they were summed up
vars == <<options, kind, stats, update, stop, i_pc, total, last, intervals, shown, report, events, heard, torn>>

Empty(sb) ==
  [num |-> 0, rcodes |-> [c \in Codes |-> 0], sum |-> 0, squares |-> 0, min |-> 0, max |-> 0,
   hist |-> hg64_create(sb)]
sigbits == options.sigbits
latency_histogram == options.latency_histogram
Nothing == Empty(sigbits)
Idle == [at |-> 0, lat |-> 0, rc |-> 0]

Init ==
  /\ options \in [sigbits : SigBits, latency_histogram : BOOLEAN] /\ kind \in Kinds
  /\ stats = [t \in Threads |-> Empty(sigbits)]
  /\ update = [t \in Threads |-> Idle]
  /\ stop = FALSE
  /\ i_pc = <<"wait", 0>> /\ total = Nothing /\ last = Nothing /\ intervals = 0
  /\ shown = Nothing /\ report = Nothing
  /\ events = 0 /\ heard = [t \in Threads |-> <<>>]
  /\ torn = FALSE

-----------------------------------------------------------------------------
(* Counting, statement by statement *)

Minimum(st, lat) == IF lat < st.min \/ st.num = 1 THEN lat ELSE st.min

CountNum(st, u) == [st EXCEPT !.num = @ + 1]
CountCode(st, u) == [st EXCEPT !.rcodes[u.rc] = @ + 1]
CountSum(st, u) == [st EXCEPT !.sum = @ + u.lat]
CountHist(st, u) == IF latency_histogram THEN [st EXCEPT !.hist = hg64_inc(sigbits, @, u.lat)] ELSE st
CountLat(st, u) ==
  [st EXCEPT !.squares = @ + u.lat * u.lat,
             !.min = Minimum(st, u.lat),
             !.max = IF u.lat > @ THEN u.lat ELSE @]

\* The statements after num is counted, for a response and for a connection
Statement(at, st, u) ==
  CASE kind = "query" /\ at = 1 -> CountSum(CountCode(st, u), u)
    [] kind = "query" /\ at = 2 -> CountHist(st, u)
    [] kind = "conn" /\ at = 1 -> CountHist(st, u)
    [] kind = "conn" /\ at = 2 -> CountSum(st, u)
    [] at = 3 -> CountLat(st, u)

\* The interval thread has read some of the counters of thread t, but not all.
Between(t) == i_pc \in {"codes", "num", "sum", "squares"} \X {t}

Counts(t) ==
  /\ update[t].at = 0 /\ ~stop
  /\ events < MaxEvents /\ events' = events + 1
  /\ \E <<lat, rc>> \in Responses :
       /\ update' = [update EXCEPT ![t] = [at |-> 1, lat |-> lat, rc |-> rc]]
       /\ stats' = [stats EXCEPT ![t] = CountNum(@, update'[t])]
       /\ heard' = [heard EXCEPT ![t] = Append(@, lat)]
  /\ torn' = (torn \/ Between(t))
  /\ UNCHANGED <<options, kind, stop, i_pc, total, last, intervals, shown, report>>

CountsMore(t) ==
  /\ update[t].at \in 1 .. 3
  /\ stats' = [stats EXCEPT ![t] = Statement(update[t].at, @, update[t])]
  /\ update' = [update EXCEPT ![t] = IF @.at = 3 THEN Idle ELSE [@ EXCEPT !.at = @ + 1]]
  /\ UNCHANGED <<options, kind, stop, i_pc, total, last, intervals, shown, report, events, heard, torn>>

-----------------------------------------------------------------------------
(* sum_stats and diff_stats *)

AddHist(sum, t) ==
  IF latency_histogram THEN [sum EXCEPT !.hist = hg64_merge(sigbits, @, sigbits, stats[t].hist)] ELSE sum
AddCodes(sum, t) == [sum EXCEPT !.rcodes = [c \in Codes |-> @[c] + stats[t].rcodes[c]]]
AddNum(sum, t) == [sum EXCEPT !.num = @ + stats[t].num]
AddSum(sum, t) == [sum EXCEPT !.sum = @ + stats[t].sum]

SumMin(min, st, t) == IF st.min < min \/ t = 1 THEN st.min ELSE min
AddSquares(sum, t) ==
  LET st == stats[t]
  IN  [sum EXCEPT !.squares = @ + st.squares, !.min = SumMin(@, st, t),
                  !.max = IF st.max > @ THEN st.max ELSE @]

sum_stats ==
  FoldLeft(LAMBDA sum, t : AddSquares(AddSum(AddNum(AddCodes(AddHist(sum, t), t), t), t), t),
           Nothing, [t \in Threads |-> t])

\* The first sum has no histograms to subtract.  Mutant: the histogram of the
\* last sum is never subtracted.
diff_stats_whole(then, now) ==
  [num |-> now.num - then.num, rcodes |-> [c \in Codes |-> now.rcodes[c] - then.rcodes[c]],
   sum |-> now.sum - then.sum, squares |-> now.squares - then.squares,
   min |-> now.min, max |-> now.max, hist |-> now.hist]
diff_stats(then, now) ==
  LET h == IF intervals = 0 THEN hg64_merge(sigbits, hg64_create(sigbits), sigbits, now.hist)
           ELSE hg64_diff(now.hist, then.hist)
  IN  [num |-> now.num - then.num,
       rcodes |-> [c \in Codes |-> now.rcodes[c] - then.rcodes[c]],
       sum |-> now.sum - then.sum, squares |-> now.squares - then.squares,
       min |-> IF latency_histogram THEN key_to_minval(sigbits, hg64_min_key(sigbits, h)) ELSE 0,
       max |-> IF latency_histogram THEN key_to_maxval(sigbits, hg64_max_key(sigbits, h)) ELSE 0,
       hist |-> h]

-----------------------------------------------------------------------------
(* The interval thread and main *)

IntervalStart ==
  /\ i_pc[1] = "wait" /\ ~stop /\ intervals < MaxIntervals
  /\ i_pc' = <<"hist", 1>>
  /\ UNCHANGED <<options, kind, stats, update, stop, total, last, intervals, shown, report, events, heard, torn>>

\* One round of the loop of sum_stats, read by read; extremes are not used while
\* threads count.
ReadHist ==
  /\ i_pc[1] = "hist"
  /\ total' = AddHist(total, i_pc[2]) /\ i_pc' = <<"codes", i_pc[2]>>
  /\ torn' = (torn \/ update[i_pc[2]].at # 0)
  /\ UNCHANGED <<options, kind, stats, update, stop, last, intervals, shown, report, events, heard>>

ReadNums ==
  /\ \/ /\ i_pc[1] = "codes"
        /\ total' = AddCodes(total, i_pc[2]) /\ i_pc' = <<"num", i_pc[2]>>
     \/ /\ i_pc[1] = "num"
        /\ total' = AddNum(total, i_pc[2]) /\ i_pc' = <<"sum", i_pc[2]>>
     \/ /\ i_pc[1] = "sum"
        /\ total' = AddSum(total, i_pc[2]) /\ i_pc' = <<"squares", i_pc[2]>>
     \/ /\ i_pc[1] = "squares"
        /\ total' = AddSquares(total, i_pc[2])
        /\ i_pc' = IF i_pc[2] = NThreads THEN <<"print", 0>> ELSE <<"hist", i_pc[2] + 1>>
  /\ UNCHANGED <<options, kind, stats, update, stop, last, intervals, shown, report, events, heard, torn>>

IntervalPrint ==
  /\ i_pc[1] = "print" /\ i_pc' = <<"wait", 0>>
  /\ shown' = diff_stats(last, total) /\ last' = total /\ intervals' = intervals + 1
  /\ total' = Nothing    \* not used before the next memset
  /\ UNCHANGED <<options, kind, stats, update, stop, report, events, heard, torn>>

\* main writes to the pipe; the interval thread finds it readable.
Stop ==
  /\ ~stop /\ stop' = TRUE
  /\ UNCHANGED <<options, kind, stats, update, i_pc, total, last, intervals, shown, report, events, heard, torn>>

IntervalEnd ==
  /\ i_pc[1] = "wait" /\ stop /\ i_pc' = <<"ended", 0>>
  /\ UNCHANGED <<options, kind, stats, update, stop, total, last, intervals, shown, report, events, heard, torn>>

\* All threads have been joined.
Final ==
  /\ i_pc[1] = "ended" /\ i_pc' = <<"reported", 0>> /\ \A t \in Threads : update[t].at = 0
  /\ report' = sum_stats
  /\ UNCHANGED <<options, kind, stats, update, stop, total, last, intervals, shown, events, heard, torn>>

Next ==
  \/ \E t \in Threads : Counts(t) \/ CountsMore(t)
  \/ IntervalStart \/ ReadHist \/ ReadNums \/ IntervalPrint
  \/ Stop \/ IntervalEnd \/ Final
Spec == Init /\ [][Next]_vars

-----------------------------------------------------------------------------
(* Properties *)

IsStats(st) ==
  /\ st.num \in Nat /\ st.sum \in Nat /\ st.squares \in Nat /\ st.rcodes \in [Codes -> Nat]
  /\ st.min \in Values /\ st.max \in Values /\ st.hist \in [Keys(sigbits) -> Nat]

TypeOK ==
  /\ sigbits \in SigBits /\ latency_histogram \in BOOLEAN /\ kind \in Kinds /\ stop \in BOOLEAN /\ torn \in BOOLEAN
  /\ \A t \in Threads : /\ IsStats(stats[t]) /\ heard[t] \in Seq(Latencies)
                        /\ update[t].at \in 0 .. 3 /\ update[t].lat \in Values
  /\ IsStats(total) /\ IsStats(last)
  /\ i_pc \in {"wait", "hist", "codes", "num", "sum", "squares", "print", "ended", "reported"} \X (0 .. NThreads)
  /\ intervals \in 0 .. MaxIntervals /\ events \in 0 .. MaxEvents

Sum(f) == FoldFunction(+, 0, f)
Heard == FoldLeft(LAMBDA all, t : all \o heard[t], <<>>, [t \in Threads |-> t])

\* The final statistics are those of all responses (connections), whatever the
\* interval thread did: every field, and in the histogram each bucket has the
\* latencies between its bounds, which are as precise as HISTOGRAM_SIGBITS is
\* chosen for (l.56).  The extremes are those of the latencies, if every thread
\* has one; the minimum of a thread without any is 0, and taken as such (l.515).
FinalExact ==
  i_pc[1] = "reported" =>
    /\ report.num = Len(Heard) /\ report.sum = Sum(Heard)
    /\ report.squares = Sum([i \in DOMAIN Heard |-> Heard[i] * Heard[i]])
    /\ kind = "query" => Sum(report.rcodes) = Len(Heard)
    /\ report.max = Max({0} \union Range(Heard))
    /\ report.min = IF \E t \in Threads : heard[t] = <<>> THEN 0 ELSE Min(Range(Heard))
    /\ latency_histogram => \A key \in Keys(sigbits) :
         LET from == key_to_minval(sigbits, key)
             to   == key_to_maxval(sigbits, key)
         IN  /\ report.hist[key] = Cardinality({i \in DOMAIN Heard : Heard[i] \in from .. to})
             /\ report.hist[key] > 0 => (to - from) * 2^sigbits <= from

\* Variables keep their types, and an interval is right.  No counter of it is
\* negative, i.e. wraps around: what is summed up later is not less, also when it
\* changes meanwhile.  If no counter changed during its sums, the histogram and
\* the codes have one entry per response, the average lies between the extremes,
\* and the deviation is the root of a number that is not negative.
IntervalRight ==
  /\ TypeOK
  /\ i_pc[1] = "wait" =>
       /\ shown.num >= 0 /\ shown.sum >= 0 /\ shown.squares >= 0
       /\ \A c \in Codes : shown.rcodes[c] >= 0
       /\ \A key \in Keys(sigbits) : shown.hist[key] >= 0
  /\ i_pc[1] = "wait" /\ ~torn =>
       /\ latency_histogram => Population(shown.hist) = shown.num
       /\ kind = "query" => Sum(shown.rcodes) = shown.num
       /\ latency_histogram /\ shown.num > 0 =>
                           /\ shown.min * shown.num <= shown.sum
                           /\ shown.sum <= shown.max * shown.num
       /\ shown.squares * shown.num >= shown.sum * shown.sum
=============================================================================
