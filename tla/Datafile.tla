------------------------------ MODULE Datafile ------------------------------
(***************************************************************************)
(* The input of datafile.c: a file or a pipe is read through a buffer of   *)
(* Cap units and given out line by line, update by update or blob by blob, *)
(* maxruns times.  Standard input is not a file for datafile.c, but can be *)
(* read again if it is one.  The lock is held for a whole call, so the     *)
(* calls of all threads are one sequence of calls.                         *)
(*                                                                         *)
(* A text file is a sequence of "n" (a newline), "c" (the ; of a comment), *)
(* "s" (a line of one "s" stands for "send") and "a" (other text).  A      *)
(* binary file is a sequence of digits: two for the length of a blob.      *)
(***************************************************************************)
EXTENDS Integers, Sequences, FiniteSets, SequencesExt

CONSTANTS Inputs,       \* what may be opened: content, format, is_file and maxruns of a
                        \* dfile, and whether lseek() succeeds
          Cap,          \* for each format, the units that fit into databuf
          InputSize,    \* and the size of the caller's buffer, MAX_INPUT_DATA
          MaxOut        \* bound: calls that return something
Formats == {"query", "update", "blob"}
ASSUME DatafileAssumption ==
  /\ Cap \in [Formats -> Nat \ {0}] /\ InputSize \in [Formats -> Nat] /\ MaxOut \in Nat
  /\ \A f \in Formats : InputSize[f] > Cap[f]
  /\ \A d \in Inputs :
       /\ d.format \in Formats /\ d.is_file \in BOOLEAN /\ d.maxruns \in Nat
       /\ d.seekable \in BOOLEAN /\ (d.is_file => d.seekable)
       /\ d.content \in IF d.format = "blob" THEN Seq({"0", "1", "2"}) ELSE Seq({"n", "c", "s", "a"})

VARIABLES dfile,        \* the input: no step changes it
          offset,       \* how much of it has been read from the descriptor
          databuf,      \* databuf[0 .. have - 1]
          at, cached, nruns, read_any,
          pc,           \* where the call is
          lines,        \* what the call has put into its output buffer
          result,       \* what the last call returned
          stop,         \* the wait for a pipe is cancelled, read() of a file fails
          out           \* history: everything that was returned

input == <<dfile, offset, databuf, at, cached>>
vars == <<input, nruns, read_any, pc, lines, result, stop, out>>

file == dfile.content
Format == dfile.format
IsFile == dfile.is_file
Seekable == dfile.seekable
MaxRuns == dfile.maxruns

TypeOK ==
  /\ offset \in 0 .. Len(file) /\ Len(databuf) <= Cap[Format] /\ at \in 0 .. Len(databuf)
  /\ cached \in BOOLEAN /\ read_any \in BOOLEAN /\ stop \in BOOLEAN
  /\ nruns \in Nat /\ (MaxRuns > 0 => nruns <= MaxRuns)
  /\ pc \in {"idle", "first", "again", "more", "fatal"}
  /\ result \in {"none", "SUCCESS", "EOF", "INVALIDFILE", "CANCELED", "FAILURE"}

\* perf_datafile_open
Init ==
  /\ dfile \in Inputs /\ offset = 0 /\ databuf = <<>> /\ at = 0 /\ cached = FALSE
  /\ nruns = 0 /\ read_any = FALSE
  /\ pc = "idle" /\ lines = <<>> /\ result = "none" /\ stop = FALSE /\ out = <<>>

-----------------------------------------------------------------------------
(* One turn of the loop of readfunc *)

Rest == SubSeq(databuf, at + 1, Len(databuf))

\* read_one_line: the length of the current line, which may be all of the rest
CurLen ==
  LET ends == {i \in DOMAIN Rest : Rest[i] = "n"}
  IN  IF ends = {} THEN Len(Rest) ELSE (CHOOSE i \in ends : \A j \in ends : i <= j) - 1

\* ntohs() of the length
Ntohs(x, y) == LET digit(z) == CASE z = "0" -> 0 [] z = "1" -> 1 [] z = "2" -> 2
               IN  3 * digit(x) + digit(y)
PacketSize == Ntohs(Rest[1], Rest[2])

\* More has to be read before the next line, or blob, is known to be complete.
Incomplete ==
  IF Format = "blob"
  THEN Len(Rest) < 2 \/ (Len(Rest) >= 2 /\ Len(Rest) < 2 + PacketSize)
  ELSE CurLen = Len(Rest)

\* read_more: the buffer is moved to its beginning, then read() is called.  A
\* regular file fills the buffer, a pipe gives what it has.
Space == Cap[Format] - Len(Rest)
Left == Len(file) - offset
Least(x, y) == IF x < y THEN x ELSE y
Chunk == Least(Space, Left)

ReadMore ==
  /\ pc \in {"first", "again", "more"} /\ Incomplete /\ ~cached /\ (stop => IsFile)
  /\ \E n \in (IF Seekable THEN {Chunk} \ {0} ELSE 1 .. Chunk) :
       /\ databuf' = Rest \o SubSeq(file, offset + 1, offset + n)
       /\ offset' = offset + n
  /\ at' = 0
  /\ cached' = (IsFile /\ Len(databuf') = Len(file))
  /\ UNCHANGED <<dfile, nruns, read_any, pc, lines, result, stop, out>>

\* What readfunc returns besides success, at the end of the data and when the
\* wait for a pipe is cancelled
AtEnd == Incomplete /\ (cached \/ Chunk = 0)
EndResult ==
  IF Format # "blob" \/ Rest = <<>> THEN "EOF" ELSE "INVALIDFILE"

\* A text line is complete if it has its newline, or if the whole file is in the
\* buffer and something is left of it.
HasLine == IF Format = "blob" THEN ~Incomplete ELSE ~Incomplete \/ (cached /\ Rest # <<>>)
HasEnd == AtEnd /\ ~HasLine /\ (stop => IsFile \/ cached)

\* read_more moves the buffer also if nothing is read.
Moved ==
  IF cached THEN UNCHANGED input
  ELSE databuf' = Rest /\ at' = 0 /\ UNCHANGED <<dfile, offset, cached>>

\* reopen_file, unless lseek() fails and ends the program
CanReopen == cached \/ Seekable
Reopen ==
  IF cached
  THEN at' = 0 /\ UNCHANGED <<dfile, offset, databuf, cached>>
  ELSE at' = 0 /\ databuf' = <<>> /\ offset' = 0 /\ UNCHANGED <<dfile, cached>>

\* The call returns r, and what it has read if that is success.
Return(r, ls) ==
  /\ pc' = "idle" /\ result' = r /\ lines' = <<>>
  /\ out' = IF r = "SUCCESS" THEN Append(out, ls) ELSE out

\* The line or blob at the head, and the buffer after it
Current ==
  IF Format = "blob" THEN SubSeq(Rest, 3, 2 + PacketSize) ELSE SubSeq(Rest, 1, CurLen)
\* Mutant: the newline is not passed.
AdvanceNoNewline ==
  at' = IF Format = "blob" THEN at + 2 + PacketSize ELSE at + CurLen
Advance ==
  at' = IF Format = "blob" THEN at + 2 + PacketSize
                           ELSE Least(at + CurLen + 1, Len(databuf))
\* Lines that are not returned.  Mutant: a comment is.
IgnoredEmpty == Format # "blob" /\ Current = <<>>
Ignored == Format # "blob" /\ (Current # <<>> => Current[1] = "c")

\* An empty line or a comment
Skip ==
  /\ pc \in {"first", "again", "more"} /\ HasLine /\ Ignored
  /\ Advance
  /\ UNCHANGED <<dfile, offset, databuf, cached, nruns, read_any, pc, lines, result, stop, out>>

\* What is left of the caller's buffer: every line takes one unit more, for its \0.
Available == InputSize[Format] - Len(FlattenSeq(lines)) - Len(lines)
\* The line as it is put there
Stored ==
  IF Format # "blob" /\ Len(Current) > Available - 1 THEN SubSeq(Current, 1, Available - 1)
                                                    ELSE Current

\* A line or blob: an update goes on until "send".  With nothing left of the
\* buffer the subtraction wraps around and perf_buffer_putmem asserts.
Take ==
  /\ pc \in {"first", "again", "more"} /\ HasLine /\ ~Ignored
  /\ Advance
  /\ read_any' = TRUE
  /\ IF Available = 0
     THEN pc' = "fatal" /\ UNCHANGED <<lines, result, out>>
     ELSE IF Format # "update" \/ (pc = "more" /\ Stored = <<"s">>)
     THEN Return("SUCCESS", Append(lines, Stored))
     ELSE pc' = "more" /\ lines' = Append(lines, Stored) /\ UNCHANGED <<result, out>>
  /\ UNCHANGED <<dfile, offset, databuf, cached, nruns, stop>>

-----------------------------------------------------------------------------
(* perf_datafile_next *)

\* All runs are done.  Mutant: one too many.
NoRunLeftLate == MaxRuns > 0 /\ nruns > MaxRuns
NoRunLeft == MaxRuns > 0 /\ MaxRuns = nruns

Call ==
  /\ pc = "idle" /\ Len(out) < MaxOut
  /\ IF NoRunLeft THEN result' = "EOF" /\ UNCHANGED pc ELSE pc' = "first" /\ UNCHANGED result
  /\ UNCHANGED <<input, nruns, read_any, lines, stop, out>>

\* The file ends before the first line of a call.  After reopen_file the end is
\* not looked for again.
EndFirst ==
  /\ pc \in {"first", "again"} /\ HasEnd
  /\ IF pc = "again" \/ EndResult # "EOF" \/ ~read_any
     THEN Return(IF read_any THEN EndResult ELSE "INVALIDFILE", <<>>) /\ Moved /\ UNCHANGED nruns
     ELSE /\ nruns' = nruns + 1
          /\ IF MaxRuns = nruns'
             THEN Return("EOF", <<>>) /\ Moved
             ELSE IF CanReopen
                  THEN pc' = "again" /\ Reopen /\ UNCHANGED <<lines, result, out>>
                  ELSE pc' = "fatal" /\ Moved /\ UNCHANGED <<lines, result, out>>
  /\ UNCHANGED <<read_any, stop>>

\* The file ends within an update: it is returned as it is.
EndMore ==
  /\ pc = "more" /\ HasEnd
  /\ nruns' = nruns + 1
  /\ IF MaxRuns = nruns'
     THEN Return("SUCCESS", lines) /\ Moved
     ELSE IF CanReopen THEN Return("SUCCESS", lines) /\ Reopen
                       ELSE pc' = "fatal" /\ Moved /\ UNCHANGED <<lines, result, out>>
  /\ UNCHANGED <<read_any, stop>>

\* Nothing can be read: the wait for a pipe is cancelled, or read() fails.  An
\* update is returned as far as it was read.
Cancel ==
  /\ pc \in {"first", "again", "more"} /\ Incomplete /\ ~cached /\ stop
  /\ IF pc = "more" THEN Return("SUCCESS", lines)
     ELSE Return(IF IsFile THEN "FAILURE" ELSE "CANCELED", <<>>)
  /\ IF IsFile THEN Moved ELSE UNCHANGED input
  /\ UNCHANGED <<nruns, read_any, stop>>

Stop ==
  /\ ~stop /\ stop' = TRUE
  /\ UNCHANGED <<input, nruns, read_any, pc, lines, result, out>>

\* The bound on the calls is reached, or the program has ended.
Finished == (pc = "fatal" \/ (pc = "idle" /\ Len(out) = MaxOut)) /\ UNCHANGED vars

Work == ReadMore \/ Skip \/ Take \/ EndFirst \/ EndMore \/ Cancel
Next == Call \/ Work \/ Stop \/ Finished

Spec == Init /\ [][Next]_vars
FairSpec == Spec /\ WF_vars(Work)

-----------------------------------------------------------------------------
(* What is returned, from the whole file *)

\* The positions of newlines, and the lines between them
Ends(f) == {i \in DOMAIN f : f[i] = "n"} \union {Len(f) + 1}
LineUpTo(f, e) ==
  LET before == {i \in Ends(f) : i < e}
      b == IF before = {} THEN 0 ELSE CHOOSE i \in before : \A j \in before : j <= i
  IN  SubSeq(f, b + 1, e - 1)
Lines(f) == LET es == SetToSortSeq(Ends(f), <) IN [k \in DOMAIN es |-> LineUpTo(f, es[k])]

\* A file that fits into the buffer is read to its end.  Of any other input two
\* things are lost (read_one_line leaves with the EOF of read_more): what follows
\* the last newline, and everything from a line on that does not fit.
Cacheable(f) == IsFile /\ Len(f) <= Cap[Format]
Readable(f) ==
  IF Cacheable(f) THEN Lines(f)
  ELSE LET ls == Front(Lines(f))
           long == {k \in DOMAIN ls : Len(ls[k]) >= Cap[Format]}
       IN  IF long = {} THEN ls ELSE SubSeq(ls, 1, (CHOOSE k \in long : \A j \in long : k <= j) - 1)
Queries(f) == SelectSeq(Readable(f), LAMBDA l : l # <<>> /\ l[1] # "c")

\* An update is made of the lines up to "send", which is not its first line.
Sends(ls) ==
  {k \in DOMAIN ls : ls[k] = <<"s">>}
GroupEnds(ls) ==
  LET isEnd[k \in 0 .. Len(ls)] ==
        k > 0 /\ (k = Len(ls) \/ (k \in Sends(ls) /\ k > 1 /\ ~isEnd[k - 1]))
  IN  {k \in DOMAIN ls : isEnd[k]}
Updates(f) ==
  LET ls == Queries(f)
      es == SetToSortSeq(GroupEnds(ls), <)
  IN  [k \in DOMAIN es |-> SubSeq(ls, IF k = 1 THEN 1 ELSE es[k - 1] + 1, es[k])]

\* A blob that begins at unit i of the file ends where the next one begins.
BlobStarts(f) ==
  LET next(i) == i + 2 + Ntohs(f[i], f[i + 1])
      follow(S, i) == IF i \in S /\ i < Len(f) THEN S \union {next(i)} ELSE S
  IN  FoldLeft(follow, {1}, [i \in DOMAIN f |-> i]) \cap 1 .. Len(f) + 1
Blobs(f) ==
  LET ss == SetToSortSeq(BlobStarts(f), <)
  IN  [k \in 1 .. Len(ss) - 1 |-> <<SubSeq(f, ss[k] + 2, ss[k + 1] - 1)>>]

Items(f) ==
  CASE Format = "query" -> LET qs == Queries(f) IN [k \in DOMAIN qs |-> <<qs[k]>>]
    [] Format = "update" -> Updates(f)
    [] Format = "blob" -> Blobs(f)

-----------------------------------------------------------------------------
(* Properties *)

\* Every read was answered, and every update fits into the caller's buffer.
Fits == \A item \in Range(Items(file)) : Len(FlattenSeq(item)) + Len(item) <= InputSize[Format]
Undisturbed == ~stop /\ Fits

\* Variables keep their types, and however the data is cut into buffers, what the
\* calls return is what the file consists of, in order, run after run
\* (read_one_line, read_one_blob, perf_datafile_next), except for the two losses
\* of Readable.
InOrder ==
  /\ TypeOK
  /\ Undisturbed =>
       LET items == Items(file)
       IN  \A k \in DOMAIN out : items # <<>> /\ out[k] = items[((k - 1) % Len(items)) + 1]

\* nruns counts the passes through the file: it is raised once per pass, also if
\* the file ends within an update.  The end is reported only when everything was
\* returned maxruns times, and not for a file that ends within a blob.  A file
\* that was opened again always has a line: the second readfunc of
\* perf_datafile_next need not look for the end.  (A pipe that ends within an update,
\* with runs left, ends the program: the update is counted and not returned.)
RunsCounted ==
  /\ pc = "again" => ~HasEnd
  /\ Undisturbed /\ pc # "fatal" =>
       LET n == Len(Items(file))
       IN  /\ n * nruns <= Len(out) /\ Len(out) <= n * (nruns + 1)
           /\ result = "EOF" => /\ Len(out) = MaxRuns * n
                                /\ Format = "blob" => Len(file) + 1 \in BlobStarts(file)

\* Every call returns: no file makes the loops of readfunc run for ever, and the
\* program is ended by its input only for an update that is longer than the
\* caller's buffer, or to read a pipe twice.
CallReturns ==
  /\ pc # "idle" ~> pc \in {"idle", "fatal"}
  /\ [](pc = "fatal" => ~Fits \/ (~Seekable /\ nruns # MaxRuns))
=============================================================================
