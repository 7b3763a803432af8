------------------------------ MODULE Formats -------------------------------
(***************************************************************************)
(* What the programs write byte by byte and read back: the open header,    *)
(* the chunks and the UDP replies of a stream (internal/protocol/stream.go,*)
(* internal/relay/tcp.go, cmd/client/main.go), the packets of SOCKS5 UDP   *)
(* (cmd/client/main.go), and the DNS answers that carry the ECH list       *)
(* (internal/transport/ech.go).                                            *)
(*                                                                         *)
(* A conversation is a list of messages one side writes and the other      *)
(* reads; on a stream, a write may fail after any part of a message.  A    *)
(* byte has Base values, so that a length of two bytes can overflow.       *)
(***************************************************************************)
EXTENDS Integers, Sequences, SequencesExt

CONSTANTS
  Base,            \* the values of a byte: 256 in the code
  Conversations    \* bound: what may be written, [format, messages]

\* A byte has the two bits of a pointer of DNS, and the address types.
ASSUME BaseAssumption == Base \in Nat /\ Base >= 16 /\ Base % 4 = 0

VARIABLES
  format,          \* stream, replies, packet or dns
  todo,            \* the messages not yet written
  wire,            \* the bytes written and not yet read
  written,         \* history: the messages written completely
  read,            \* history: the messages read
  cut,             \* a write failed: no more is written
  reader           \* read or over

FormatsVars == <<format, todo, wire, written, read, cut, reader>>
-----------------------------------------------------------------------------
(* Bytes.  Index 1 is the code's index 0. *)

Limit == Base * Base
PutU16(n) == <<(n \div Base) % Base, n % Base>>
U16(s, i) == s[i] * Base + s[i + 1]
From(s, i) == SubSeq(s, i, Len(s))

\* io.ReadFull of n bytes and the rest; Cut when there are fewer.
Cut == [ok |-> FALSE]
Read(value, rest) == [ok |-> TRUE, value |-> value, rest |-> rest]
-----------------------------------------------------------------------------
(* Streams: the open header, chunks, UDP replies *)

\* A message with a field of 65536 bytes is refused before anything is written.
Refused(m) ==
  CASE m.is = "open" -> Len(m.target) >= Limit
    [] m.is = "chunk" -> Len(m.data) >= Limit
    [] m.is = "reply" -> Len(m.addr) >= Limit

OpenBytes(m) == <<m.kind, m.strategy>> \o PutU16(Len(m.target)) \o m.target
ChunkBytes(m) == PutU16(Len(m.data)) \o m.data
ReplyBytes(m) == PutU16(Len(m.addr)) \o PutU16(Len(m.data)) \o m.addr \o m.data

\* ReadSmuxOpenHeader
ReadOpen(s) ==
  IF Len(s) < 4 \/ Len(s) < 4 + U16(s, 3) THEN Cut
  ELSE LET n == U16(s, 3)
       IN  Read([is |-> "open", kind |-> s[1], strategy |-> s[2],
                 target |-> SubSeq(s, 5, 4 + n)], From(s, 5 + n))

\* Mutant: an empty chunk is the end of the stream.
ReadChunkOrEnd(s) ==
  IF Len(s) < 2 \/ Len(s) < 2 + U16(s, 1) \/ U16(s, 1) = 0 THEN Cut
  ELSE LET n == U16(s, 1)
       IN  Read([is |-> "chunk", data |-> SubSeq(s, 3, 2 + n)], From(s, 3 + n))

ReadChunk(s) ==
  IF Len(s) < 2 \/ Len(s) < 2 + U16(s, 1) THEN Cut
  ELSE LET n == U16(s, 1)
       IN  Read([is |-> "chunk", data |-> SubSeq(s, 3, 2 + n)], From(s, 3 + n))

ReadReply(s) ==
  IF Len(s) < 4 \/ Len(s) < 4 + U16(s, 1) + U16(s, 3) THEN Cut
  ELSE LET a == U16(s, 1)
           d == U16(s, 3)
       IN  Read([is |-> "reply", addr |-> SubSeq(s, 5, 4 + a),
                 data |-> SubSeq(s, 5 + a, 4 + a + d)], From(s, 5 + a + d))
-----------------------------------------------------------------------------
(* SOCKS5 UDP packets.  A host is its address type and its bytes. *)

BuildPacket(m) ==
  <<0, 0, 0, m.atyp>> \o (IF m.atyp = 3 THEN <<Len(m.host)>> ELSE <<>>)
    \o m.host \o PutU16(m.port) \o m.data

HostFrom(s) == IF s[4] = 3 THEN 6 ELSE 5
HostLen(s) == CASE s[4] = 1 -> 4 [] s[4] = 3 -> s[5] [] s[4] = 4 -> 16

\* parseSOCKS5UDPPacket; a packet it refuses is skipped.
ParsePacket(s) ==
  IF Len(s) < 10 \/ s[3] # 0 \/ s[4] \notin {1, 3, 4} THEN Cut
  ELSE LET port == HostFrom(s) + HostLen(s)
       IN  IF Len(s) < port + 1 THEN Cut
           ELSE Read([is |-> "packet", atyp |-> s[4],
                      host |-> SubSeq(s, HostFrom(s), port - 1),
                      port |-> U16(s, port), data |-> From(s, port + 2)], <<>>)
-----------------------------------------------------------------------------
(* DNS answers.  Offsets are the code's: byte s[o + 1] is at offset o. *)

TypeHTTPS == 65
EchKey == 5
IsPointer(b) == b >= 3 * (Base \div 4)

\* Past the labels of an uncompressed name that starts at offset o.
AfterLabels(s, o) ==
  LET walk[i \in Nat] ==
        IF i >= Len(s) \/ s[i + 1] = 0 THEN i + 1 ELSE walk[i + s[i + 1] + 1]
  IN  walk[o]

\* Past the question's name: labels, and perhaps a pointer at the end.  -1 for
\* a pointer past the message.
AfterQuestionName(s) ==
  LET walk[i \in Nat] ==
        IF i >= Len(s) THEN i
        ELSE IF s[i + 1] = 0 THEN i + 1
        ELSE IF IsPointer(s[i + 1])
             THEN IF i + 2 > Len(s) \/ U16(s, i + 1) % (Limit \div 4) >= Len(s)
                  THEN -1 ELSE i + 2
        ELSE walk[i + s[i + 1] + 1]
  IN  walk[12]

\* Past the name of a record: a pointer, or labels only; -1 when it cannot be.
AfterName(s, o) ==
  IF IsPointer(s[o + 1])
  THEN IF o + 2 > Len(s) \/ U16(s, o + 1) % (Limit \div 4) >= Len(s)
       THEN -1 ELSE o + 2
  ELSE AfterLabels(s, o)

\* parseHTTPSRecord: the value of the first parameter with EchKey.
EchOf(data) ==
  LET param[o \in Nat] ==
        IF o + 4 > Len(data) \/ o + 4 + U16(data, o + 3) > Len(data) THEN Cut
        ELSE LET n == U16(data, o + 3)
             IN  IF U16(data, o + 1) = EchKey
                 THEN Read(SubSeq(data, o + 5, o + 4 + n), <<>>)
                 ELSE param[o + 4 + n]
  IN  IF Len(data) < 2 THEN Cut ELSE param[AfterLabels(data, 2)]

\* Mutant: the type of the record is not looked at.
WantedAny(type, ech) == ech.ok

Wanted(type, ech) == type = TypeHTTPS /\ ech.ok

\* parseDNSResponse
ParseResponse(s) ==
  LET record[k \in Nat] == [o \in Nat |->
        IF k = 0 \/ o >= Len(s) THEN Cut
        ELSE LET f == AfterName(s, o)
             IN  IF f = -1 \/ f + 10 > Len(s) \/ f + 10 + U16(s, f + 9) > Len(s)
                 THEN Cut
                 ELSE LET n == U16(s, f + 9)
                          ech == EchOf(SubSeq(s, f + 11, f + 10 + n))
                      IN  IF Wanted(U16(s, f + 1), ech) THEN ech
                          ELSE record[k - 1][f + 10 + n]]
      question == AfterQuestionName(s)
  IN  IF Len(s) < 12 \/ U16(s, 7) = 0 \/ question = -1 \/ question + 4 > Len(s)
      THEN Cut ELSE record[U16(s, 7)][question + 4]

\* The answer of a DNS server to buildDNSQuery: the question, and records with
\* a name, a type and the parameters of a service.  A name is a list of labels
\* that ends by itself or with a pointer to the question's name.
Labels(name) == FlattenSeq([i \in DOMAIN name |-> <<Len(name[i])>> \o name[i]])

Question(name) == Labels(name) \o <<0>> \o PutU16(TypeHTTPS) \o <<0, 1>>

Params(ps) ==
  FlattenSeq([i \in DOMAIN ps |->
                PutU16(ps[i].key) \o PutU16(Len(ps[i].value)) \o ps[i].value])

NameBytes(r) ==
  Labels(r.name) \o (IF r.pointer THEN <<3 * (Base \div 4), 12>> ELSE <<0>>)
DataBytes(r) == <<0, 1>> \o Labels(r.service) \o <<0>> \o Params(r.params)

Record(r) ==
  NameBytes(r) \o PutU16(r.type) \o <<0, 1, 0, 0, 0, 9>>
    \o PutU16(Len(DataBytes(r))) \o DataBytes(r)

Response(m) ==
  <<0, 1, 8, 1, 0, 1>> \o PutU16(Len(m.records)) \o <<0, 0, 0, 0>>
    \o Question(m.question) \o FlattenSeq([i \in DOMAIN m.records |-> Record(m.records[i])])
-----------------------------------------------------------------------------
(* What is written.  A datagram that the server relays is shorter than the *)
(* 65536 bytes that a length of two bytes cannot hold; a host name of a    *)
(* packet is at most 255 bytes (buildSOCKS5UDPPacket refuses more), and a  *)
(* label of a DNS name has the two upper bits of its length clear.         *)

Byte == 0 .. Base - 1
U16s == 0 .. Limit - 1

OpenHeaders == [is : {"open"}, kind : Byte, strategy : Byte, target : Seq(Byte)]
DataChunks == [is : {"chunk"}, data : Seq(Byte)]
UDPReplies ==
  {m \in [is : {"reply"}, addr : Seq(Byte), data : Seq(Byte)] : Len(m.data) < Limit}
UDPPackets ==
  {m \in [is : {"packet"}, atyp : {1, 3, 4}, host : Seq(Byte), port : U16s, data : Seq(Byte)] :
     Len(m.host) \in CASE m.atyp = 1 -> {4} [] m.atyp = 3 -> Byte [] m.atyp = 4 -> {16}}

DNSLabels == {l \in Seq(Byte) : Len(l) \in 1 .. 3 * (Base \div 4) - 1}
DNSParams == [key : U16s, value : Seq(Byte)]
DNSRecords ==
  {r \in [pointer : BOOLEAN, name : Seq(DNSLabels), type : U16s,
          service : Seq(DNSLabels), params : Seq(DNSParams)] : Len(DataBytes(r)) < Limit}
DNSAnswers ==
  {m \in [is : {"dns"}, question : Seq(DNSLabels), records : Seq(DNSRecords)] :
     Len(m.records) < Limit}

\* The open header comes first on a stream, and one answer is read.
ASSUME ConversationsAssumption ==
  \A c \in Conversations :
    \/ /\ c.format = "stream" /\ c.messages \in Seq(OpenHeaders \cup DataChunks)
       /\ \A i \in DOMAIN c.messages : c.messages[i].is = "open" <=> i = 1
    \/ c.format = "replies" /\ c.messages \in Seq(UDPReplies)
    \/ c.format = "packet" /\ c.messages \in Seq(UDPPackets)
    \/ c.format = "dns" /\ c.messages \in Seq(DNSAnswers) /\ Len(c.messages) = 1
-----------------------------------------------------------------------------
(* A conversation *)

FormatsInit ==
  /\ \E c \in Conversations : format = c.format /\ todo = c.messages
  /\ wire = <<>> /\ written = <<>> /\ read = <<>>
  /\ cut = FALSE /\ reader = "read"

OnStream == format \in {"stream", "replies"}

Encoded(m) ==
  CASE m.is = "open" -> OpenBytes(m)
    [] m.is = "chunk" -> ChunkBytes(m)
    [] m.is = "reply" -> ReplyBytes(m)
    [] m.is = "packet" -> BuildPacket(m)
    [] m.is = "dns" -> Response(m)

\* One message after the other; a datagram is read before the next comes.
Ready == todo # <<>> /\ ~cut /\ reader = "read" /\ (OnStream \/ wire = <<>>)

Write ==
  /\ Ready
  /\ OnStream => ~Refused(Head(todo))
  /\ wire' = wire \o Encoded(Head(todo))
  /\ written' = Append(written, Head(todo))
  /\ todo' = Tail(todo)
  /\ UNCHANGED <<format, read, cut, reader>>

\* The writer gives up and closes the stream.
Refuse ==
  /\ Ready /\ OnStream /\ Refused(Head(todo))
  /\ cut' = TRUE
  /\ UNCHANGED <<format, todo, wire, written, read, reader>>

\* The stream fails between two bytes; an answer is longer than its buffer.
WriteFails ==
  /\ Ready /\ format # "packet"
  /\ OnStream => ~Refused(Head(todo))
  /\ \E n \in 0 .. Len(Encoded(Head(todo))) - 1 :
       wire' = wire \o SubSeq(Encoded(Head(todo)), 1, n)
  /\ cut' = TRUE
  /\ UNCHANGED <<format, todo, written, read, reader>>

\* What is read next: the open header is the first thing on a stream.
Decoded ==
  CASE format = "stream" -> IF read = <<>> THEN ReadOpen(wire) ELSE ReadChunk(wire)
    [] format = "replies" -> ReadReply(wire)
    [] format = "packet" -> ParsePacket(wire)
    [] format = "dns" -> ParseResponse(wire)

ReadNext ==
  /\ reader = "read" /\ wire # <<>>
  /\ Decoded.ok
  /\ read' = Append(read, Decoded.value)
  /\ wire' = Decoded.rest
  /\ UNCHANGED <<format, todo, written, cut, reader>>

\* A refused packet is skipped; an answer without an ECH list, and the end of
\* a stream, end the reader.
Skip ==
  /\ format = "packet" /\ wire # <<>> /\ ~Decoded.ok
  /\ wire' = <<>>
  /\ UNCHANGED <<format, todo, written, read, cut, reader>>

ReadFails ==
  /\ reader = "read" /\ format # "packet"
  /\ cut \/ todo = <<>> \/ (format = "dns" /\ wire # <<>>)
  /\ ~Decoded.ok
  /\ reader' = "over"
  /\ UNCHANGED <<format, todo, wire, written, read, cut>>

FormatsNext == Write \/ Refuse \/ WriteFails \/ ReadNext \/ Skip \/ ReadFails

FormatsSpec == FormatsInit /\ [][FormatsNext]_FormatsVars
-----------------------------------------------------------------------------
(* Properties *)

\* The other side of a stream reads the messages as they were written, and in
\* the end all of them; one whose write failed is never read, nor is anything
\* made of its first bytes.  A packet of SOCKS5 UDP is read as it was built, but
\* for those shorter than the shortest with an IPv4 address, which are skipped.
MessagesKept ==
  /\ OnStream => IsPrefix(read, written) /\ (reader = "over" => read = written)
  /\ format = "packet" /\ wire = <<>> =>
       read = FlattenSeq([i \in DOMAIN written |->
                 IF Len(Encoded(written[i])) >= 10 THEN <<written[i]>> ELSE <<>>])

EchValues(ps) ==
  FlattenSeq([i \in DOMAIN ps |-> IF ps[i].key = EchKey THEN <<ps[i].value>> ELSE <<>>])

\* In place of the lists of a record whose name has labels and a pointer, where
\* parseDNSResponse loses its way: no byte is Base.
Lost == <<Base>>

ListsIn(r) ==
  IF r.pointer /\ r.name # <<>> THEN <<Lost>>
  ELSE IF r.type = TypeHTTPS THEN EchValues(r.params) ELSE <<>>

EchLists(m) == FlattenSeq([i \in DOMAIN m.records |-> ListsIn(m.records[i])])

\* The ECH list is the one of the first HTTPS record that has one, whatever
\* comes after it and whatever records without a list come before it; an answer
\* that was cut off gives that list or none, and one without a list gives none.
\* This is promised of every answer in which no name of labels and a pointer
\* comes first: over such a name the code steps as if the pointer were a label
\* (ech.go:181-186), and what it finds then is left open.
EchFound ==
  format = "dns" =>
    LET lists == EchLists(Head(written \o todo))
    IN  \/ lists # <<>> /\ Head(lists) = Lost
        \/ /\ read # <<>> => lists # <<>> /\ read = <<Head(lists)>>
           /\ reader = "over" /\ read = <<>> => cut \/ lists = <<>>
=============================================================================
