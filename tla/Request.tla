------------------------------ MODULE Request ------------------------------
(***************************************************************************)
(* The requests that do_send makes of its input, one after the other in    *)
(* the same buffer and with the same TSIG key: perf_dns_buildrequest with  *)
(* build_query and build_update (dns.c), perf_add_edns (edns.c) and        *)
(* perf_add_tsig (tsig.c).  A message is what its header counts, how much  *)
(* of the buffer it takes, and what was put into it.  What is read of the  *)
(* input, and what LDNS makes of an update, is chosen when it is needed.   *)
(***************************************************************************)
EXTENDS Dname

CONSTANTS Questions,        \* the lines of the input: a domain name and a type
          QtypeTable,       \* qtype_table
          Keys,             \* the names of TSIG keys that may be used
          Options,          \* the lengths of EDNS options that may be used
          AlgLen, MdLen,    \* the name of the algorithm and the digest
          MaxUdp, MaxEdns,  \* MAX_UDP_PACKET, MAX_EDNS_PACKET
          Byte,             \* 256: msgbase[7], msgbase[9] and base[11] are bytes
          RRSizes,          \* the sizes of records of an update
          MaxLines,         \* bound: records of an update
          None              \* a null pointer

HeaderLen == 12
EDNSLEN == 11

ASSUME RequestAssumption ==
  /\ MaxUdp \in Nat /\ MaxUdp >= HeaderLen + NameMax + 1 + 4 /\ MaxEdns \in Nat /\ MaxEdns >= MaxUdp
  /\ AlgLen \in Nat /\ MdLen \in Nat /\ Byte \in Nat /\ Byte > 2 /\ MaxLines \in Nat
  /\ Options \subseteq Nat /\ RRSizes \subseteq Nat /\ None \notin Keys

VARIABLES
  config,       \* what the options of the program say
  pc, result,
  msg,          \* the message in the buffer
  lmsg,         \* the LDNS buffer of build_update: its size, and its records
  hmac,         \* what was digested since the context was initialised: messages,
                \* TSIG variables, and what belongs to earlier requests
  \* history
  unwritten     \* LDNS could not write a record

vars == <<config, pc, result, msg, lmsg, hmac, unwritten>>

Configs == [edns : BOOLEAN, option : Options \cup {None}, key : Keys \cup {None}, is_update : BOOLEAN]
Size == IF config.edns THEN MaxEdns ELSE MaxUdp
Room == Size - msg.used

NoLmsg == [size |-> 0, records |-> <<>>]
EmptyMsg == [used |-> 0, an |-> 0, au |-> 0, ar |-> 0, parts |-> <<>>]

Init ==
  /\ config \in Configs /\ (config.option # None => config.edns)
  /\ pc = "idle" /\ result = "none" /\ msg = EmptyMsg
  /\ lmsg = NoLmsg /\ hmac = <<>>
  /\ unwritten = FALSE

\* The writes of n octets, as one part of the message.
Put(m, n, part) == [m EXCEPT !.used = @ + n, !.parts = Append(@, part)]

\* The step ends with the message m, at label l; an assertion of buffer.h ends
\* the program if the message is too large for the buffer.
Goto(m, l) == msg' = m /\ pc' = IF m.used > Size THEN "abort" ELSE l

Fail(m) == Goto(m, "done") /\ result' = "failure"

-----------------------------------------------------------------------------
\* do_send has a line of its input; the buffer is cleared and the header written.
Header ==
  /\ pc = "idle"
  /\ Goto(Put(EmptyMsg, HeaderLen, [kind |-> "header"]), IF config.is_update THEN "zone" ELSE "question")
  /\ result' = "none" /\ unwritten' = FALSE
  /\ hmac' = IF hmac = <<>> THEN <<>> ELSE <<"earlier">>
  /\ UNCHANGED <<config, lmsg>>

\* build_query: a name and a type.
build_query ==
  /\ pc = "question"
  /\ \E <<name, qtype>> \in Questions :
       LET d    == perf_dname_fromstring(name, Room)
           t    == perf_qtype_fromstring(QtypeTable, qtype)
           part == [kind |-> "question", name |-> name, ok |-> d.ok, wire |-> d.wire,
                     qtype |-> qtype, type |-> t]
       IN  IF name = <<>> THEN Fail(msg)
           ELSE IF ~d.ok \/ qtype = <<>> \/ t = 0 THEN Fail(Put(msg, Len(d.wire), part))
           ELSE Goto(Put(msg, Len(d.wire) + 4, part), "edns") /\ UNCHANGED result
  /\ UNCHANGED <<config, lmsg, hmac, unwritten>>

\* build_update: the zone, which LDNS may reject.
UpdateZone ==
  /\ pc = "zone"
  /\ \/ Fail(msg) /\ UNCHANGED lmsg
     \/ /\ \E n \in RRSizes : lmsg' = [size |-> msg.used + n + 4, records |-> <<>>]
        /\ pc' = "line" /\ UNCHANGED <<msg, result>>
  /\ UNCHANGED <<config, hmac, unwritten>>

\* What read_update_line finds in a line.
Lines == [token : {"add", "delete", "require", "prohibit", "other"}, owner : BOOLEAN,
          ttl : BOOLEAN, type : {"none", "bad", "ok"}, rdata : {"none", "bad", "ok"}]

read_update_line(l, want_ttl, need_type, want_rdata, need_rdata) ==
  /\ l.owner /\ (want_ttl => l.ttl)
  /\ \/ l.type = "none" /\ ~need_type
     \/ /\ l.type = "ok"
        /\ want_rdata => l.rdata = "ok" \/ (l.rdata = "none" /\ ~need_rdata)

\* A line that is accepted, and whether it is an update.
Accepted(l) ==
  \/ l.token = "add" /\ read_update_line(l, TRUE, TRUE, TRUE, TRUE)
  \/ l.token \in {"delete", "require"} /\ read_update_line(l, FALSE, FALSE, TRUE, FALSE)
  \/ l.token = "prohibit" /\ read_update_line(l, FALSE, FALSE, FALSE, FALSE)
IsUpdate(l) == l.token \in {"add", "delete"}

Count(kind) == Cardinality({i \in DOMAIN lmsg.records : lmsg.records[i] = kind})

\* Mutant of InPlace: a prerequisite may follow an update.
InPlaceAny(l) == TRUE

\* Prerequisites must precede updates.
InPlace(l) == IsUpdate(l) \/ Count("update") = 0

\* One line of an update.  If LDNS cannot write the record, the result is the
\* success of read_update_line, although nothing was put into the message.
UpdateLine ==
  /\ pc = "line" /\ Len(lmsg.records) < MaxLines
  /\ \E l \in Lines :
       \/ /\ ~(Accepted(l) /\ InPlace(l))
          /\ Fail(msg) /\ lmsg' = NoLmsg /\ UNCHANGED unwritten
       \/ /\ Accepted(l) /\ InPlace(l)
          /\ \/ /\ Goto(msg, "edns") /\ unwritten' = TRUE
                /\ lmsg' = NoLmsg /\ UNCHANGED result
             \/ /\ \E n \in RRSizes :
                     lmsg' = [size |-> lmsg.size + n,
                              records |-> Append(lmsg.records,
                                                 IF IsUpdate(l) THEN "update" ELSE "prereq")]
                /\ UNCHANGED <<msg, pc, result, unwritten>>
  /\ UNCHANGED <<config, hmac>>

\* "send", or the end of the input before it.
UpdateSend ==
  /\ pc = "line"
  /\ \/ Fail(msg)
     \/ LET n     == lmsg.size - msg.used
            parts == [i \in DOMAIN lmsg.records |-> [kind |-> lmsg.records[i]]]
        IN  IF n > Room THEN Fail(msg)
            ELSE /\ Goto([msg EXCEPT !.used = @ + n, !.parts = @ \o <<[kind |-> "zone"]>> \o parts,
                                     !.an = Count("prereq") % Byte, !.au = Count("update") % Byte],
                         "edns")
                 /\ UNCHANGED result
  /\ lmsg' = NoLmsg
  /\ UNCHANGED <<config, hmac, unwritten>>

\* perf_add_edns
OptLen == EDNSLEN + IF config.option = None THEN 0 ELSE config.option

OptFits == Room >= OptLen

perf_add_edns ==
  /\ pc = "edns"
  /\ IF ~config.edns THEN Goto(msg, "tsig") /\ UNCHANGED result
     ELSE IF ~OptFits THEN Fail(msg)
     ELSE /\ Goto([Put(msg, OptLen, [kind |-> "opt"]) EXCEPT !.ar = (@ + 1) % Byte], "tsig")
          /\ UNCHANGED result
  /\ UNCHANGED <<config, lmsg, hmac, unwritten>>

\* Mutant of Restarted: the context is not initialised again.
NotRestarted == hmac

\* EVP_DigestSignInit, for each message
Restarted == <<>>

\* Mutant of TsigLen: as if every name were written in as many octets as it has characters.
TsigLenShort == Len(config.key) + 10 + AlgLen + 16 + MdLen

\* What perf_add_tsig makes sure to have room for.
TsigLen == Len(config.key) + 12 + AlgLen + 18 + MdLen

\* perf_add_tsig: digest the message and the TSIG variables, then write.
perf_add_tsig ==
  /\ pc = "tsig"
  /\ IF config.key = None
     THEN /\ Goto(msg, "done") /\ result' = "success"
          /\ UNCHANGED hmac
     ELSE LET owner   == perf_dname_fromstring(config.key, Room)
              first   == Append(Restarted, msg)
              digest  == Append(first, "variables")
              written == Len(owner.wire) + 10 + (AlgLen + 2) + 16 + MdLen
          IN  IF ~Encode(config.key, TRUE, NameMax).ok THEN Fail(msg) /\ hmac' = first
              ELSE /\ hmac' = digest
                   /\ IF TsigLen > Room THEN Fail(msg)
                      ELSE /\ Goto([Put(msg, written, [kind |-> "tsig", digest |-> digest])
                                      EXCEPT !.ar = (@ + 1) % Byte], "done")
                           /\ result' = "success"
  /\ UNCHANGED <<config, lmsg, unwritten>>

\* do_send has sent the message or, after a failure, given the query back.
Finish ==
  /\ pc = "done" /\ pc' = "idle"
  /\ UNCHANGED <<config, result, msg, lmsg, hmac, unwritten>>

Next ==
  \/ Header \/ build_query \/ UpdateZone \/ UpdateLine \/ UpdateSend
  \/ perf_add_edns \/ perf_add_tsig \/ Finish

Spec == Init /\ [][Next]_vars

-----------------------------------------------------------------------------
(* Properties *)

Labels == {"idle", "question", "zone", "line", "edns", "tsig", "done", "abort"}

\* Every variable has its type, and the message is never larger than the buffer.
TypeOK ==
  /\ config \in Configs /\ pc \in Labels /\ result \in {"none", "success", "failure"}
  /\ msg.used \in 0 .. Size /\ {msg.an, msg.au, msg.ar} \subseteq 0 .. Byte - 1
  /\ lmsg.size \in Nat /\ lmsg.records \in Seq({"prereq", "update"}) /\ unwritten \in BOOLEAN

\* Variables keep their types, and no assertion of buffer.h ends the program:
\* perf_dname_fromstring has room for what it writes beyond the characters it
\* looks at, and perf_add_edns and perf_add_tsig ask for as much as they write,
\* whatever name, option and key there are.
NoAssertion == TypeOK /\ pc # "abort"

Built == pc = "done" /\ result = "success"
Rank(kind) == CASE kind = "header" -> 0 [] kind \in {"question", "zone"} -> 1
                [] kind = "prereq" -> 2 [] kind = "update" -> 3 [] kind = "opt" -> 4
                [] kind = "tsig" -> 5
PartsOf(rank) == Cardinality({i \in DOMAIN msg.parts : Rank(msg.parts[i].kind) = rank})

\* A message that do_send sends holds one request only, its sections are in
\* order, and its header counts the records of each, so that a server can tell
\* where prerequisites, updates and additional records begin.  Excepted are a
\* count of 256 or more, and an update of which LDNS could not write a record.
HeaderTells ==
  Built /\ ~unwritten =>
    /\ \A i, j \in DOMAIN msg.parts : i < j => Rank(msg.parts[i].kind) <= Rank(msg.parts[j].kind)
    /\ PartsOf(0) = 1 /\ PartsOf(1) = 1
    /\ PartsOf(2) < Byte => msg.an = PartsOf(2)
    /\ PartsOf(3) < Byte => msg.au = PartsOf(3)
    /\ msg.ar = PartsOf(4) + PartsOf(5)
    /\ PartsOf(4) = (IF config.edns THEN 1 ELSE 0)
    /\ PartsOf(5) = (IF config.key # None THEN 1 ELSE 0)

\* The question of a message is the name and the type that the line says: every
\* valid name is accepted whose text is not longer than the room that dns.c:60
\* asks for, nothing that is not a name is, and each label, length and octet
\* is what the text says.  Excepted are the value of a number of 7 or more, which
\* perf_dname_fromstring reads in base 7 (a number over 255 is then accepted, too),
\* and a type that begins the name of an earlier entry of the table.
QuestionMeant ==
  pc = "done" /\ Len(msg.parts) > 1 /\ ~config.is_update =>
    LET q    == msg.parts[2]
        fits == Len(q.name) <= Size - HeaderLen
        says == Meaning(q.name)
    IN /\ Valid(q.name) /\ fits => q.ok
       /\ q.ok => /\ WellFormed(q.name) /\ fits
                  /\ Len(q.wire) = Len(says) /\ \A i \in DOMAIN says : q.wire[i] \in says[i]
       /\ \A t \in DOMAIN QtypeTable :
            QtypeTable[t] = q.qtype /\ (\A u \in 1 .. t - 1 : ~IsPrefix(q.qtype, QtypeTable[u]))
              => q.type = t

\* The digest of a TSIG record is one of this message, as it was before the
\* record, and of the TSIG variables, and of nothing that was digested for an
\* earlier request, whether that one was sent or failed half way.
DigestCovers ==
  Built /\ config.key # None =>
    LET digest == Last(msg.parts).digest
    IN  /\ Len(digest) = 2 /\ digest[2] = "variables"
        /\ digest[1].parts = Front(msg.parts)
        /\ digest[1].an = msg.an /\ digest[1].au = msg.au
        /\ (digest[1].ar + 1) % Byte = msg.ar
=============================================================================
