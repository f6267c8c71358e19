# dnsperf in TLA+

A model of dnsperf and resperf, the DNS performance tools of this repository,
checked with TLC and proved with TLAPS. Line numbers are those of the files under
`src/src/`.

## The system

| part | source | state | operations | modules |
|---|---|---|---|---|
| thread pair and main | `dnsperf.c` | query table (two lists over 65536 ids), timestamp and socket of a query, counters, `done_sending`, `interrupted`, pipes | `do_send`, `do_recv`, `process_timeouts`, `cancel_queries`, sent callback; start, stop, join | `QueryThread`, `QueryThreadInv` |
| lists | `list.h` | head, tail, links | append, prepend, unlink | `Lists` |
| rate limit | `dnsperf.c` 765-790, 925-1006, 1462-1477, 1556-1570 | `q_sent`, `q_slice`, `req_time` | share, wait or admit | `RateLimit` |
| statistics | `dnsperf.c` 314-560, 1327-1437 | counters of a thread, totals, last interval | count, sum, difference | `Statistics` |
| histogram | `ext/hg64.c` | bins | key and value, increment, merge, difference | `Hg64` |
| TCP, DoT, DoH | `net_*.c` | descriptor, connection state, send and receive buffer, counters per connection | sendto, recv, sockready, reconnect, callbacks | `NetTcp`, `NetDot`, `NetDoh`, `StreamSocket` |
| input | `datafile.c` | buffer, offset, runs | next line, update or binary message, reopen | `Datafile` |
| requests | `dns.c`, `edns.c`, `tsig.c`, `buffer.h` | message buffer, digest context | name, question, update, EDNS, TSIG | `Dname`, `Request` |
| resperf | `resperf.c` | two lists, phases, buckets | send on schedule, retire, receive | `Resperf` |

The sender takes a line from the input, makes a request of it and hands it to a
socket; the receiver reads responses from the same sockets. They share the query
table under one mutex, but read and write part of it without; counters are
updated after the lock is released; queries are stamped after they are listed; a
query may be sent in pieces by later calls; responses are lost, late and
duplicated; ids are used again; a run ends by time, by input or by SIGINT, and
every wait has to end.

The parts are put together by promises. `QueryThread` and `Resperf` see of a
stream socket that a query may be kept and finished or dropped by a later call;
`StreamSocket` states this, and each of `NetTcp`, `NetDot` and `NetDoh` is shown
to implement it. What `QueryThread` assumes of the input and of request building
(a line or its end, a success or a failure) is what `Datafile` and `Request`
give.

## Modules

`Lists`: a list is an injective sequence, head first; unlinking removes one
element.

`QueryThread`: each thread and main have a program counter (`s_pc`, `r_pc`,
`m_pc`); a step is what a thread does between two accesses to shared memory that
another thread can tell apart. The mutex is held exactly between certain labels
(`LockFree`), waiting on the condition variable is the label `wait`, and a signal
sent to nobody is lost. What the code does without the lock is a step of its own:
the look of `process_timeouts` at the tail of the list (`RecvTop`), the stamps of
the sender (`SendBuild`, `SentCallback`), the counting (`SendCount`, `RecvCount`).
The list operation and the stamp of a reservation are two steps (`SendReserve`,
`SendUnstamp`) because that look comes in between. Time is the age of a
timestamp, counted to `Timeout`. The receiver's local `now` becomes `r_expired`, the
queries that had expired when it was read; the sender's becomes `s_late`. The
server may answer every question it was asked (`asked`), at any time, any number
of times, on the socket it was asked on. `early` is a history variable: the
results charged to queries that were not in flight and not made up for by sending
the query later.

`NetTcp`: two threads use a TCP socket without a lock. Every load and store of
`sock->fd`, `recv_need_reconn` and `nqpc_recv` is a step, and so are `socket()` and
`close()`, because the kernel gives a closed descriptor out again. A message is
written and read in two pieces.

`NetDot`: what a thread does while it holds the mutex of the TLS session is one
step; what it does after `PERF_UNLOCK` is cut where the other thread can tell.
Either thread reconnects. `torn` remembers who was past its unlock when the other
reconnected.

`NetDoh`: all of it but `nqpc_recv` is used under one mutex, so that a call is one
step, with the callbacks that nghttp2 makes in it. The server answers on any
stream in any order, in frames; a read may bring several.

`StreamSocket`: a query is taken whole, kept or refused; one that is kept is
reported once or dropped, and no other is kept before. `KeepsPromise` is the
refinement; `pend` is the query in the send buffer while the socket is sending.

`Statistics`: the responses of a thread are counted statement by statement, and
`sum_stats` of the `-S` thread reads one counter after the other between them, with
and without histograms. `Hg64` are the operators on
histograms, with `Bits` instead of 64 bits.

`RateLimit`: one pass of the loop of `do_send` per step, between which the clock
advances by any amount. The arithmetic is that of the code, in integers.

`Datafile`: a call is a sequence of steps of the loops in `read_one_line`,
`read_one_blob` and `perf_datafile_next`, with a buffer of `Cap` units. What it
should return is defined from the whole file, without a buffer (`Lines`,
`Queries`, `Updates`, `Blobs`). The lock makes the calls of several threads one
sequence. Standard input is never a file for `datafile.c`, so it is not cached, but one
that is redirected from a file is read again (`seekable`); a pipe with runs left is
fatal. A `\0` within a text file is not modelled.

`Dname`: `perf_dname_fromstring` and the search of `perf_qtype_fromstring`, on
character codes; `WellFormed`, `Valid` and `Meaning` define by positions what the code
finds by loops. `Request`: one step per part of a message, in a buffer that is used again for
the next one. A message is what its header counts, how much of the buffer it takes
and the parts that were put into it; what LDNS accepts, and how large its records
are, is a choice. A failed assertion of `buffer.h` is the label `abort`.

`Resperf`: one thread; what interleaves are the sockets, the server and the clock,
which may jump between two turns. Times are in ticks, and `num_scheduled` and
`find_bucket` are the integer forms of the code's arithmetic. The comparison with
`max_fall_behind` is the unsigned one of the code (`AsUnsigned`).

The modules with `MC` are those TLC runs.

## Runs

| run | instance | shows |
|---|---|---|
| `threads` | 2 ids, limit 1, stream socket, receive errors, 2 requests, no time limit | `TableSound` (types, every query on one list), `Conservation`, `OneInProgress`, `InFlightBound` in every interleaving |
| `ends` | 1 id, 2 UDP sockets, 2 requests, time limit, fair | `UnusedAvailable`, `FinalLedger`, `NothingSentUnheard` (the receiver leaves last), `AnsweredWhereAsked`, `Termination` |
| `interrupt_doc` | 2 ids, limit 1, no time limit, fair | *violated*: `InterruptEnds`. A SIGINT is lost between the sender's test and its wait |
| `tcp` | 3 connections, 3 queries, 2 per connection, fair | `DescriptorsKept`, `FramingKept` (pieces in order, receive buffer aligned), `PerConnKept`, `KeepsPromise`, `LossesHandled` (a signal is meant for its connection, a lost connection is replaced, a query in progress is resolved) |
| `dot` | as `tcp`, receive buffer 4 | as for TCP `FramingKept`, `PerConnKept`, `KeepsPromise`, `LossesHandled` |
| `dot_leak_doc` | 2 connections, 1 query, fair | *violated*: `LossReplaced`. `sendto` returns with the mutex held (`net_dot.c` 293) |
| `doh` | 2 connections, 3 queries, 2 per connection, messages of 2 chunks, 2 frames on the way, fair | `UsedWhenFree` (ready means open, `sendto` is never called when sending), `AnswersKept` (own answers, one message at a time), `PerConnKept`, `KeepsPromise`, `LossesHandled` |
| `stats` | 2 threads, 2 responses with the smallest or the largest latency, 2 intervals, 4-bit values, 1 or 2 significant bits, with and without histograms | `FinalExact` (totals, extremes, precision of the buckets), `IntervalRight` (no difference wraps, an interval is consistent) |
| `rate` | 1 or 2 threads, `-Q` and `-c` 1 to 3, `MAX_SOCKETS` 2, 5 ticks, 2 ticks a second | `ThreadLimit`, `TotalLimit` (the shares add up to `-Q`, and to `-c` unless all are at `MAX_SOCKETS`), `PaceKept` (spacing, bounded waits) |
| `resperf` | 2 sockets (datagram or stream), 2 ids, 4 ticks, fair | `Conservation` (lists and ledger), `InProgressKept` (the query in progress is at the head, others go to free sockets), `BucketsRight` (no negative loss, printed buckets are whole), `TrafficEnds` (why the sending stops), `Termination` |
| `file` | all texts of 5 (queries) or 6 (updates) characters, buffer 3; all binary files of 7 digits, buffer 6; as files, on standard input and as pipes; fair | `InOrder`, `RunsCounted` (with the end of input and rereading), `CallReturns` (and each fatal is explained) |
| `request` | all names of up to 5 of the characters `a . \ 0 6`, names of up to 5 labels of up to 9 characters or escapes, 3 keys, updates of up to 3 records, buffers of 54 and 70 | `NoAssertion`, `HeaderTells`, `QuestionMeant`, `DigestCovers` |

The types of each module are a conjunct of one of its properties. Each property is
stated in words where it is defined. Where it excepts a case, the model reaches
that case; Observations says what happens then.

Bounds. Two ids are the fewest for which the order of a list, and a limit below
the size of the table, matter; one id is the smallest table in which an id is
used again by the next request, and then as many queries are allowed as there are
ids. Two requests give a query that is in flight, late or being charged while the
next one is reserved. A batch is one packet; for every other size of it the
theorems hold.
`Timeout = 1` tells expired from not expired. Three connections are the fewest for
which a descriptor comes back (the second one is opened before the first is
closed); DoH closes before it opens, so that two are enough. `PerConn = 2` is
reached with a query in progress. In `resperf`, two ticks of constant traffic let
an id time out, be used again and be answered late, and the program may fall
behind. A buffer of three characters is filled exactly, refilled in the middle of
a line and too small for a line. In `rate`, a second of two ticks holds stalls
shorter and longer than a second, and shares that divide it or not. In `request`,
labels have at most 8 and names at most 37 octets (63 and 255): short names have every
form an escape or a dot can give them, long ones meet each limit exactly and exceed
it by one. The longest name, with its type, fills the smaller buffer to the last
octet, and the text of a valid name may be longer than the room. Counts wrap at 3
(`Byte`), and the sizes are such that each part of a message is the one that does not
fit. In `resperf`, 64 (`UIntSize`) stands for 2^32: it is larger than any number of
queries in the run.

Where `CHECK_DEADLOCK FALSE` is set, connections, intervals or time have run out; in
`NetDot_leak.cfg` threads also wait for the leaked mutex.

Fairness. Threads and main are scheduled (weak fairness of their steps). A sender
that asks for the mutex gets it although it is only free now and then (strong
fairness): both holders leave it after finitely many steps, and dnsperf relies on
it. Time passes. The receiver finds its sockets empty again and again (strong
fairness of `RecvNone`): a server sends finitely many packets per question. Nothing
is assumed of the user, of spurious wake-ups, of responses or of the stop time. A
connection attempt or handshake ends one way or the other, and a socket that is
asked for room again and again has some in the end; nothing is assumed of how long
connections last. The loop of resperf runs and its clock advances. A call for
input goes on while there is something to read or the wait is cancelled.

## Proofs

Every theorem holds for all values of the constants that the assumption of its
module allows; there are no others.

`QueryThreadProofs` (from `ConstantsAssumption`: at least one id, socket, batch
entry and tick, a limit between 1 and the size of the table): `PartitionKept`
(`TableSound`), `LedgerBalances`, `LimitKept`, `UnusedFound`, `FinalBalance`,
`ReceiverLeavesLast`, `OneAtATime`, `AcceptsWhatWasAsked`. The argument is one
inductive invariant, `IndInv` of `QueryThreadInv`. The stated properties are not
inductive by themselves. The ledger counts what is in flight by what the labels
say of the query the sender holds, so `Locals` ties the labels to the local
variables; `OnlyHeldUnstamped` says that an outstanding query without a timestamp
is the one the sender holds or was left with; `Ends` says in which order the
threads and main come to their ends. A limit that counters keep must count the
place of the query that is reserved and not sent: `Limit` adds it, together with
`Charged`, which says that the receiver has already charged that very query, so
that the early result is made up for when it is sent. `OneAtATime` adds
`PickedFree` (a socket stays free from the moment it is picked until the query is
handed to it), `AcceptsWhatWasAsked` adds `HeardAsked` (a packet that was received
answers something its server was asked). `ListLemmas` has the facts on lists and sequences,
`QueryThreadSteps` the lemmas on types, labels, ends and steps that move no query.
They are separate modules because the provers are given every fact of the modules
they extend.

`NetTcpProofs`, `NetDotProofs`, `NetDohProofs`: `Implements` is the refinement of
`StreamSocket`: initial states map to initial states, every step to a step or a
stutter. All need `Pending`: the query in progress is the last one handed over and
is not reported, and `sendto` is called with none. For DoT this includes the steps
after `PERF_UNLOCK`, during which the receiver may drop the query; for DoH a query
in progress needs a ready session. `DescriptorsSafe` (TCP) needs `Descriptors`: in a
reconnect two descriptors are open, and the labels tell which is the old one.
`CalledWhenFree` (DoH, `UsedWhenFree`) needs `Opened`: a closed descriptor leaves the
socket not ready and `do_connect` set.

`FramingSafe` and `LimitSafe` (TCP, DoT) and `SignalSafe` (TCP) follow from
`WholeInv`, which adds to the above what `FramingKept` and `PerConnKept` leave
unsaid. `FramingKept` speaks of the receive buffer; what makes it inductive is that
the pieces in the buffer and those still on the way are together whole messages of
the connection the receiver reads (`Aligned` for TCP, `Framed` for DoT, where a read
that `at` does not show yet counts as held). For TCP `Links` says which connection a
descriptor of the receiver may lead to, and the exception for a number that came
back is carried through every step. On the sending side the last piece written is
the one before the next of the query in progress, or ends its query (`WireOrder`,
`Ordered`). `Counted` relates `requests`, the history variable that counts the
queries begun on the connection, to `nqpc_sent`: at most one, in progress or between
its write and `nqpc_sent++`, is not counted yet, and none is begun at the limit. `LimitSafe` of DoH needs its own `Counted`: a request whose
sending failed is never counted, but then `do_reconnect` keeps every other one away
from the connection. `Signals` (TCP) says of each place where the number of a
descriptor waits to be stored in `recv_need_reconn` that its connection is lost.

`AnswersSafe` (DoH, `AnswersKept`) follows from `ReadInv`. The stated property speaks
of what `recv` has returned; the invariant follows an answer there. `Asked`: the
queries asked on a connection are the last ones submitted. `Coming` and `Held`: the
frames on their way and those in `recvbuf` are of this connection and answer one of
them, but for what an earlier one left. `Reading`: the chunks in `dnsmsg` are of such
an answer, none is left by a connection that was dropped, and a message is
completed between two calls only if the program has exited. `MemRecv` is a recursive
function of the number of frames used; `FrameHandled` says what one frame does to the
message, `ReadHandled` carries that over the frames of a read by the same induction
over a set.

`ResperfProofs` (from `ResperfAssumption`): `ResperfConservation`,
`ResperfInProgress`, `ResperfBuckets` and `ResperfTraffic` (`TrafficEnds`), for every number of ids, sockets, ticks and
buckets. The invariant `ResperfInv` adds to the properties what the labels say
(`Locals`), that datagram sockets keep no query (`Datagrams`), and the ledger of a
bucket: its responses and the outstanding queries counted in it are at most its
queries (`BucketLedger`), without which a response that comes later could make the
loss negative. That the printed buckets stay is an action property; it needs that
`find_bucket` is monotone. `ResperfTraffic` adds `OnSchedule`: the queries sent are never
more than those scheduled, but for one that a stream has finished. It needs that
`num_scheduled` grows with the clock. A lead of more than one would be taken for a
backlog, too, so this is what bounds the exception of `TrafficEnds`.

`RateLimitProofs`: `ThreadLimited`, `Paced` (`PaceKept`) and `TotalLimited` for every rate, number of
threads, threshold and behaviour of the clock that does not go back. The invariant
is per thread (`ThreadInv`): the slice is the latest the thread has begun, what was
sent before it is within the limit, and `req_time` lies between the steps used in the
slice and one step from now. `TotalLimited` adds the threads up: the sum of the shares
is the limit (`SharesAddUp`), no share of the clients is cut to `MAX_SOCKETS` unless all
are at it (`ClampedShares`), and a sum is bounded by the sum of the bounds
(`SumBounded`). A sum is a recursive function of the number of its terms, and the
induction over it is stated with a set of numbers (`Induction`): a set that holds 0
and the successor of each number in it holds every number.

Only model-checked, and why no theorem states it: `Termination`, `LossesHandled`
but for `SignalSafe`, and `CallReturns` are liveness under fairness. `FinalExact` and
`IntervalRight` combine sums over threads with folds over histograms whose buckets are
powers of two, and `InOrder` and `RunsCounted` compare with recursive definitions over
a whole file: each needs induction over data. `Request` rests on `Dname`, whose
operators are recursive like the loops of the code, and so do `NoAssertion`,
`HeaderTells`, `QuestionMeant` and `DigestCovers`.

## Observations

Two runs show where the program does not do what a document says; they are the
findings in `PROJECT.json`. The models also reach these cases, which the
properties except or do not speak of:

- `dnsperf.c` 1179: a timeout may be charged to a query that was reserved again or
  is not sent yet. The ledger still balances with these early results, but one
  query more than `-q` may then be in flight, and a stamp set after a response
  (1486) makes a latency wrap.
- `dnsperf.c` 515: the minimum latency is 0 if a thread had no response. 469 prints
  the latency histogram as the one of connections. An interval that is summed while
  counters change may show a negative variance. `hg64.c` 285 compares a key, instead
  of its distance from the first one, with the remainder (no effect while both
  histograms have the same precision).
- `dnsperf.c` 957-1006: after a stall of k seconds up to k slices allow one query
  each at once; the limit per second begun is kept.
- `net_tcp.c` 159, 170: a descriptor number that comes back hides a reconnect from
  the receiver, or makes a late signal end a healthy connection. 284: the rest of a
  query may begin the next connection. 386: with one query per connection there may
  be two.
- `net_dot.c` 209, 359: a reconnect by the other thread between the unlock and the
  use of `at` or `sending`.
- `net_doh.c` 243: the descriptor may be closed twice. 355: received frames survive a
  reconnect. 852: the fatal is met if an answer ends with an empty DATA frame while
  another waits to be taken. Answers on several streams share `dnsmsg`.
- `dnsperf.c` 1011, 1554: with `-q` below the number of threads the share of a thread
  is 0 and it never sends; the assumption of `QueryThread` (a limit of at least 1)
  excludes such a thread. 1567: of `-c` a thread takes at most 256.
- `datafile.c` 236-241: the last line of an input that is not cached (a pipe, standard
  input, a file larger than the buffer) is lost if it has no newline. 148: a line that
  is longer than the buffer is taken for the end of the file, and it and everything
  after it is lost in every run.
- `resperf.c` 730: the response to a query that was finished while responses were
  read is not counted. 882: `should_send`, an `int`, is compared with the unsigned
  `max_fall_behind`. On streams a query that is finished outside of the schedule
  (601-629) may make it -1, and then resperf reports that it "Fell behind by -1 queries"
  and stops sending, although it is ahead. `resperf.1.in` 235-238 says that it stops
  "if this backlog reaches 1000 queries".
- `dns.c` 120: `\DDD` is read in base 7, so that only numbers below 7 have their value:
  `\123` becomes the octet 66, and `\300`, which is no octet, is accepted. `CHANGES`
  243-244 says that names with "escaped characters such as `\123`" are fixed, and 378
  "Fix support for quoted characters, `\000` and `\.`". 60: the room is compared with the
  length of the text, so that a valid name is refused if it has many escapes and its text
  is longer than the buffer (512 octets without EDNS). 167: a type that begins the name of an
  earlier entry finds that one. 492: counts of an update wrap at 256. 471: a record
  that LDNS cannot write leaves a success and a message without its zone. 105: a
  name of 256 octets is accepted.

## Not modelled

- Parsing of options, of `-E` and `-y` and of the DoH URI, and logging: done once,
  or without state that a later step depends on. `qtype.c` is generated.
- Opening and binding of sockets, and `resperf-report`: I/O and a plotting script.
- Several pairs of threads in one model: pairs share the input, which a lock makes
  one sequence (`Datafile`), the statistics (`Statistics`, with two threads) and the
  rate (`RateLimit`, with two); their tables are their own.
- Types given as `TYPEnnn`, the octets of a message, the classes and contents of
  update records, mean and variance (floating point), printing.
- OpenSSL, nghttp2, LDNS and the kernel are modelled by what the code calls of
  them. After a pause nghttp2 may hand the chunk over again or count it as handled.
- Reading two counters in `num_outstanding` is one step: the sender is the only one
  to write `num_sent`, and the others only grow.
