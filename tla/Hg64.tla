-------------------------------- MODULE Hg64 --------------------------------
(***************************************************************************)
(* The histograms of ext/hg64.c as functions from keys to counts.  A value *)
(* has Bits bits (64 in the code), sb of which, after the leading one, are *)
(* significant.  A bin of 2^sb counters is allocated with its first count, *)
(* so that a bin is missing exactly if all its counts are 0.               *)
(***************************************************************************)
EXTENDS Integers, Sequences, SequencesExt, FiniteSetsExt

CONSTANT Bits
ASSUME HgAssumption == Bits \in Nat /\ Bits >= 3

Values == 0 .. 2^Bits - 1
binsize(sb) == 2^sb
KEYS(sb) == (Bits - (sb - 1)) * binsize(sb)
Keys(sb) == 0 .. KEYS(sb) - 1

hg64_create(sb) == [key \in Keys(sb) |-> 0]

\* The position of the leading one of value | binsize
LeadingBit(sb, value) ==
  IF value < binsize(sb) THEN sb ELSE CHOOSE e \in sb .. Bits - 1 : value \div 2^e = 1

value_to_key(sb, value) ==
  LET exponent == LeadingBit(sb, value) - sb IN exponent * binsize(sb) + (value \div 2^exponent)

key_to_minval(sb, key) ==
  IF key < binsize(sb) THEN key
  ELSE ((key % binsize(sb)) + binsize(sb)) * 2^((key \div binsize(sb)) - 1)

key_to_maxval(sb, key) ==
  key_to_minval(sb, key) + ((2^Bits - 1) \div 4) \div 2^((Bits - 1) - (key \div binsize(sb)))

\* get_bin is NULL
NoBin(sb, hg, b) == \A c \in 0 .. binsize(sb) - 1 : hg[b * binsize(sb) + c] = 0

add_key_count(hg, key, inc) == [hg EXCEPT ![key] = @ + inc]
hg64_inc(sb, hg, value) == add_key_count(hg, value_to_key(sb, value), 1)

\* The keys for which the body of
\*   for (key = 0; hg64_get(hg, key, ...); key = hg64_next(hg, key))
\* is run: hg64_next leaves out the bins that are missing.  Mutant: it leaves out
\* a bin if the first of its counters is 0.
VisitedFirst(sb, hg) ==
  {key \in Keys(sb) : key < binsize(sb) \/ hg[key - (key % binsize(sb))] # 0}
Visited(sb, hg) ==
  {key \in Keys(sb) : key < binsize(sb) \/ ~NoBin(sb, hg, key \div binsize(sb))}

\* Adds source (of precision ss) to target (of precision ts): a source bucket is
\* spread over the target buckets that it meets.
hg64_merge(ts, target, ss, source) ==
  LET lo(skey) == value_to_key(ts, key_to_minval(ss, skey))
      hi(skey) == value_to_key(ts, key_to_maxval(ss, skey))
      Spread(skey, tkey) ==
        LET keys == hi(skey) - lo(skey) + 1 IN
        IF tkey \notin lo(skey) .. hi(skey) THEN 0
        ELSE source[skey] \div keys + IF tkey < source[skey] % keys THEN 1 ELSE 0
      full == {skey \in Visited(ss, source) : source[skey] > 0}
  IN  [tkey \in Keys(ts) |->
         target[tkey] + MapThenSumSet(LAMBDA skey : Spread(skey, tkey), full)]

hg64_diff(a, b) == [key \in DOMAIN a |-> a[key] - b[key]]

hg64_min_key(sb, hg) ==
  LET full == {key \in Visited(sb, hg) : hg[key] > 0} IN IF full = {} THEN 0 ELSE Min(full)
hg64_max_key(sb, hg) ==
  LET full == {key \in Visited(sb, hg) : hg[key] > 0} IN IF full = {} THEN 0 ELSE Max(full)

Population(hg) == MapThenSumSet(LAMBDA key : hg[key], DOMAIN hg)
=============================================================================
