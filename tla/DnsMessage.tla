----------------------------- MODULE DnsMessage -----------------------------
(***************************************************************************)
(* The DNS messages of leakguard/dns_shim.rs: parse_query reads a datagram *)
(* up to the end of its question, build_response answers it.  Definitions  *)
(* only; DnsShim has the tasks that use them.                              *)
(*                                                                         *)
(* A datagram is its header's id and question count, whether it is too     *)
(* short for a header, and the bytes that follow the header.               *)
(***************************************************************************)
EXTENDS Integers, Sequences

CONSTANTS
    Ids,     \* message ids
    Bodies,  \* what may follow the header: sequences of bytes
    Labels,  \* labels of well-formed names
    Addrs4,  \* IPv4 addresses a name may resolve to
    Addrs6   \* IPv6 addresses

Byte == 0..255

ASSUME BodyAssumption ==
    /\ \A b \in Bodies : b \in Seq(Byte)
    /\ \A l \in Labels : l \in Seq(Byte) /\ Len(l) \in 1..63

ASSUME AddressAssumption == Addrs4 \cap Addrs6 = {}

Datagrams == [short : BOOLEAN, id : Ids, qdcount : 0..2, body : Bodies]

QTYPE_A == <<0, 1>>
QTYPE_AAAA == <<0, 28>>
QCLASS_IN == <<0, 1>>

-----------------------------------------------------------------------------
(* String::from_utf8_lossy, on bytes: text that is UTF-8 stays as it is *)

\* How many bytes a character has, given its first one; no character begins
\* with one of the others.
CharLength(first) ==
    CASE first \in 0..127 -> 1
      [] first \in 194..223 -> 2
      [] first \in 224..239 -> 3
      [] first \in 240..244 -> 4
      [] OTHER -> 0

\* What may follow: no longer codes than needed, no surrogates, and nothing
\* beyond the last code point.
SecondBytes(first) ==
    CASE first = 224 -> 160..191
      [] first = 237 -> 128..159
      [] first = 240 -> 144..191
      [] first = 244 -> 128..143
      [] OTHER -> 128..191

\* The n bytes from pos on begin a character.
Begins(b, pos, n) ==
    /\ n <= CharLength(b[pos])
    /\ pos + n - 1 <= Len(b)
    /\ n >= 2 => b[pos + 1] \in SecondBytes(b[pos])
    /\ \A i \in 2..(n - 1) : b[pos + i] \in 128..191

\* How many bytes are read as one character: as many as begin one, at least 1.
Chunk(b, pos) ==
    CHOOSE n \in 1..4 : (n = 1 \/ Begins(b, pos, n)) /\ ~ Begins(b, pos, n + 1)

\* U+FFFD, which stands for bytes that are no whole character.
Replacement == <<239, 191, 189>>

LossyAt(lossy, b, pos) ==
    IF pos > Len(b) THEN <<>>
    ELSE LET n == Chunk(b, pos)
         IN  (IF n = CharLength(b[pos]) THEN SubSeq(b, pos, pos + n - 1)
              ELSE Replacement) \o lossy[pos + n]

FromUtf8Lossy(b) ==
    LET lossy[pos \in 1..(Len(b) + 1)] == LossyAt(lossy, b, pos) IN lossy[1]

-----------------------------------------------------------------------------
(* parse_query *)

\* The two high bits of a length byte mark a compressed name.
Compressed_never(len) == FALSE
Compressed(len) == len >= 64

Unreadable == [labels |-> <<>>, end |-> 0]

\* The labels from pos up to the root label, and where that ends, when read
\* has those from the later positions.
NameAt(read, b, pos) ==
    IF pos > Len(b) THEN Unreadable
    ELSE IF b[pos] = 0 THEN [labels |-> <<>>, end |-> pos]
    ELSE IF Compressed(b[pos]) \/ pos + b[pos] > Len(b) THEN Unreadable
    ELSE LET rest == read[pos + b[pos] + 1]
         IN  IF rest.end = 0 THEN Unreadable
             ELSE [labels |-> <<SubSeq(b, pos + 1, pos + b[pos])>> \o rest.labels,
                   end |-> rest.end]

ReadName(b) ==
    LET read[pos \in 1..(Len(b) + 1)] == NameAt(read, b, pos) IN read[1]

Dot == <<46>>

\* labels.join("."), from the i-th label on, when joined has what the later
\* ones give.
JoinFrom(joined, labels, i) ==
    IF i > Len(labels) THEN <<>>
    ELSE (IF i = 1 THEN <<>> ELSE Dot) \o labels[i] \o joined[i + 1]

Joined(labels) ==
    LET joined[i \in 1..(Len(labels) + 1)] == JoinFrom(joined, labels, i)
    IN  joined[1]

\* The name that is looked up for the labels of a question.
QName(labels) == Joined([i \in DOMAIN labels |-> FromUtf8Lossy(labels[i])])

NoQuery == [id |-> 0, question |-> <<>>, qname |-> <<>>, qtype |-> <<>>]

\* The query in a datagram, or NoQuery.  The answer echoes `question`, the
\* lookup is for `qname`.
ParseQuery(d) ==
    LET name == ReadName(d.body)
        last == name.end + 4
    IN  IF \/ d.short \/ d.qdcount = 0
           \/ name.end = 0 \/ last > Len(d.body)
           \/ SubSeq(d.body, last - 1, last) # QCLASS_IN
        THEN NoQuery
        ELSE [id |-> d.id, question |-> SubSeq(d.body, 1, last),
              qname |-> QName(name.labels),
              qtype |-> SubSeq(d.body, last - 3, last - 2)]

-----------------------------------------------------------------------------
(* handle_query's answer and build_response *)

\* Only addresses of the family asked for are put in the answer.
Wanted_all(qtype, ips) == ips
Wanted(qtype, ips) == ips \cap (IF qtype = QTYPE_AAAA THEN Addrs6 ELSE Addrs4)

\* A response is what build_response writes after a fixed header: the answers
\* have the question's type, and the length of their own address.
Response(query, rcode, ips) ==
    [id |-> query.id, rcode |-> rcode, question |-> query.question,
     answers |-> {[type |-> query.qtype,
                   rdlength |-> IF ip \in Addrs4 THEN 4 ELSE 16,
                   rdata |-> ip] : ip \in ips}]

\* The response to a query that resolved to ips.
Resolved(query, ips) ==
    LET filtered == Wanted(query.qtype, ips)
    IN  Response(query, IF filtered = {} THEN "nxDomain" ELSE "noError", filtered)

-----------------------------------------------------------------------------
(* Properties *)

\* The wire format of a question (RFC 1035), written from the format's side.
EncodeFrom(encoded, labels, i) ==
    IF i > Len(labels) THEN <<0>>
    ELSE <<Len(labels[i])>> \o labels[i] \o encoded[i + 1]

EncodeName(labels) ==
    LET encoded[i \in 1..(Len(labels) + 1)] == EncodeFrom(encoded, labels, i)
    IN  encoded[1]

Encode(labels, qtype) == EncodeName(labels) \o qtype \o QCLASS_IN

IsPrefixOf(s, t) == Len(s) <= Len(t) /\ SubSeq(t, 1, Len(s)) = s

Names == UNION {[1..n -> Labels] : n \in 0..2}

Questions == [labels : Names, qtype : {QTYPE_A, QTYPE_AAAA, <<0, 2>>},
              rest : {<<>>, <<0>>, <<0, 0, 41>>}, id : Ids]

\* Labels of ASCII without a dot, which all names have in practice.
Plain(labels) ==
    \A i \in DOMAIN labels : \A j \in DOMAIN labels[i] :
        labels[i][j] \in (0..127) \ {46}

\* parse_query reads a question as it is, whatever follows it, and looks up
\* what its labels convert to.
QuestionsRead ==
    \A q \in Questions :
        LET question == Encode(q.labels, q.qtype)
        IN  ParseQuery([short |-> FALSE, id |-> q.id, qdcount |-> 1,
                        body |-> question \o q.rest])
              = [id |-> q.id, question |-> question,
                 qname |-> QName(q.labels), qtype |-> q.qtype]

\* A datagram parse_query accepts begins with the question it takes it for, and
\* of plain labels nothing is changed by the conversion.
NothingElseRead ==
    \A d \in Datagrams :
        LET query == ParseQuery(d)
            labels == ReadName(d.body).labels
        IN  query # NoQuery =>
                /\ ~ d.short /\ d.qdcount # 0 /\ query.id = d.id
                /\ query.question = Encode(labels, query.qtype)
                /\ IsPrefixOf(query.question, d.body)
                /\ \A i \in DOMAIN labels : Len(labels[i]) \in 1..63
                /\ Plain(labels) => query.qname = Joined(labels)

\* No two names of plain labels are looked up as the same name, so of these
\* the name looked up is the one the answer echoes.
NamesApart ==
    \A m, n \in Names :
        Plain(m) /\ Plain(n) /\ QName(m) = QName(n) => m = n

\* Whatever a name resolves to, each answer has the length its type says, and
\* a response without an error has an answer: build_response takes addresses
\* "all assumed to match `qtype`'s address family".
AnswersMatchType ==
    \A qtype \in {QTYPE_A, QTYPE_AAAA}, ips \in SUBSET (Addrs4 \cup Addrs6) :
        LET r == Resolved([NoQuery EXCEPT !.qtype = qtype], ips)
        IN  /\ (r.rcode = "noError") = (r.answers # {})
            /\ \A a \in r.answers :
                a.rdlength = IF a.type = QTYPE_AAAA THEN 16 ELSE 4
=============================================================================
