------------------------------- MODULE Dname -------------------------------
(***************************************************************************)
(* perf_dname_fromstring of dns.c: a domain name, as text with escapes,    *)
(* becomes labels in wire format; and the search of perf_qtype_fromstring. *)
(* Characters and octets are their codes.  WellFormed, Valid and Meaning   *)
(* are the reference: what the text says, by positions instead of loops.   *)
(***************************************************************************)
EXTENDS Integers, Sequences, SequencesExt, FiniteSetsExt

CONSTANTS LabelMax,     \* 63
          NameMax       \* 255: octets of all labels with their lengths
ASSUME DnameAssumption == LabelMax \in Nat \ {0} /\ NameMax \in Nat

Dot == 46
Backslash == 92
Digits == 48 .. 57

\* The number of characters of the character or escape that s begins with; 0
\* if the escape is not complete.
Unit(s) ==
  IF s[1] # Backslash THEN 1
  ELSE IF Len(s) = 1 THEN 0
  ELSE IF s[2] \notin Digits THEN 2
  ELSE IF Len(s) >= 4 /\ {s[3], s[4]} \subseteq Digits THEN 4 ELSE 0

\* strtol of three digits, in base 7: it stops at the first one that is no
\* digit of the base.
Number(d) ==
  LET v(i) == d[i] - 48
  IN  IF v(1) > 6 THEN 0
      ELSE IF v(2) > 6 THEN v(1)
      ELSE IF v(3) > 6 THEN 7 * v(1) + v(2)
      ELSE 49 * v(1) + 7 * v(2) + v(3)

\* The octet for a unit u.
Octet(u) == IF Len(u) = 4 THEN Number(Tail(u)) ELSE Last(u)

\* The units of the first label of s, and what follows it.
RECURSIVE Label(_)
Label(s) ==
  IF s = <<>> \/ s[1] = Dot THEN [ok |-> TRUE, units |-> <<>>, rest |-> s]
  ELSE IF Unit(s) = 0 THEN [ok |-> FALSE, units |-> <<>>, rest |-> s]
  ELSE LET l == Label(SubSeq(s, Unit(s) + 1, Len(s)))
       IN  [l EXCEPT !.units = <<SubSeq(s, 1, Unit(s))>> \o @]

\* Mutant of TooLong: the limit on a label is forgotten.
TooLongNoLabel(units, max) == Len(units) + 1 > max

TooLong(units, max) == Len(units) > LabelMax \/ Len(units) + 1 > max

\* The octets that are written for a label: up to a number that is none.
Written(units) ==
  LET octets == [i \in DOMAIN units |-> Octet(units[i])]
      bad    == SelectInSeq(octets, LAMBDA o : o > 255)
  IN  <<Len(units)>> \o IF bad = 0 THEN octets ELSE SubSeq(octets, 1, bad - 1)

\* The loop over the labels of s; max is what is left of NameMax.
RECURSIVE Encode(_, _, _)
Encode(s, first, max) ==
  LET l == Label(s)
      label == Written(l.units)
  IN  IF s = <<>> THEN [ok |-> TRUE, wire |-> <<>>]
      ELSE IF ~l.ok \/ (l.units # <<>> /\ TooLong(l.units, max)) THEN [ok |-> FALSE, wire |-> <<>>]
      ELSE IF l.units = <<>> THEN IF first /\ Len(s) = 1 THEN [ok |-> TRUE, wire |-> <<0>>]
                                                        ELSE [ok |-> FALSE, wire |-> <<>>]
      ELSE IF Len(label) <= Len(l.units) THEN [ok |-> FALSE, wire |-> label]
      ELSE IF Len(l.rest) < 2 THEN [ok |-> TRUE, wire |-> label \o <<0>>]
      ELSE LET more == Encode(Tail(l.rest), FALSE, max - (Len(l.units) + 1))
           IN  [more EXCEPT !.wire = label \o @]

\* What is written, and whether it was a success; room is what is left of the
\* buffer.
perf_dname_fromstring(s, room) ==
  IF room < Len(s) THEN [ok |-> FALSE, wire |-> <<>>] ELSE Encode(s, TRUE, NameMax)

\* The first entry of the table that begins with the text; 0 if there is none.
perf_qtype_fromstring(table, text) == SelectInSeq(table, LAMBDA t : IsPrefix(text, t))

-----------------------------------------------------------------------------
(* The reference *)

\* The positions at which a character or an escape of s begins, in order.
Starts(s) ==
  LET from[i \in 1 .. Len(s) + 1] ==
        IF i > Len(s) THEN <<>>
        ELSE LET u == Unit(SubSeq(s, i, Len(s)))
             IN  <<i>> \o IF u = 0 THEN <<>> ELSE from[i + u]
  IN  from[1]

\* The characters and escapes of s; an escape that is not complete is empty.
UnitsOf(s) ==
  LET at == Starts(s)
  IN  [n \in DOMAIN at |-> SubSeq(s, at[n], (at[n] + Unit(SubSeq(s, at[n], Len(s)))) - 1)]

\* The labels of s: what is between two dots, a last dot ending the name.
LabelsOf(s) ==
  LET units == UnitsOf(s)
      dots  == SelectSeq([n \in DOMAIN units |-> n], LAMBDA n : units[n] = <<Dot>>)
      ends  == <<0>> \o dots \o IF Last(<<0>> \o dots) = Len(units) THEN <<>> ELSE <<Len(units) + 1>>
  IN  [n \in 1 .. Len(ends) - 1 |-> SubSeq(units, ends[n] + 1, ends[n + 1] - 1)]

\* RFC 1035: \DDD is a decimal number.
Said(u) == IF Len(u) = 4 THEN 100 * (u[2] - 48) + 10 * (u[3] - 48) + (u[4] - 48) ELSE Last(u)

\* The numbers that have the same value in base 7 are those below 7.
Misread(u) == Len(u) = 4 /\ Said(u) >= 7

\* Escapes are complete, and labels and the name are not too long.
WellFormed(s) ==
  LET labels == LabelsOf(s)
  IN  /\ <<>> \notin Range(UnitsOf(s))
      /\ \/ s = <<Dot>>
         \/ /\ \A n \in DOMAIN labels : Len(labels[n]) \in 1 .. LabelMax
            /\ MapThenSumSet(LAMBDA n : Len(labels[n]) + 1, DOMAIN labels) <= NameMax

Valid(s) == WellFormed(s) /\ \A u \in Range(UnitsOf(s)) : Said(u) <= 255

\* What a name is in wire format: for each octet the values it may have, any for
\* a number that is misread.
Meaning(s) ==
  LET labels == LabelsOf(s)
      octet(u) == IF Misread(u) THEN 0 .. 255 ELSE {Said(u)}
      label(units) == <<{Len(units)}>> \o [i \in DOMAIN units |-> octet(units[i])]
  IN  IF s = <<Dot>> THEN <<{0}>>
      ELSE FlattenSeq([n \in DOMAIN labels |-> label(labels[n])]) \o <<{0}>>
=============================================================================
