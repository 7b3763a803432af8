----------------------------- MODULE MCFormats ------------------------------
(* Conversations for Formats with 16 values of a byte. *)
EXTENDS Formats

Fill(n, from) == [i \in 1 .. n |-> (from + i) % Base]

Chunks == {[is |-> "chunk", data |-> Fill(n, 3)] : n \in {0, 1, 255, 256}}
Opens ==
  {[is |-> "open", kind |-> k, strategy |-> 4, target |-> Fill(n, 7)] :
     k \in {1, 3}, n \in {0, 2, 256}}
Replies ==
  {[is |-> "reply", addr |-> Fill(a, 7), data |-> Fill(d, 3)] :
     a \in {0, 1, 256}, d \in {0, 2, 255}}
Packets ==
  [is : {"packet"}, atyp : {1}, host : {Fill(4, 9)}, port : {0, 255}, data : {<<>>, Fill(5, 3)}]
    \cup [is : {"packet"}, atyp : {3}, host : {Fill(n, 9) : n \in {0, 1, 2, 3, 15}},
          port : {1, 254}, data : {<<>>, <<0>>, Fill(5, 3)}]
    \cup [is : {"packet"}, atyp : {4}, host : {Fill(16, 9)}, port : {8}, data : {<<>>, <<1>>}]

Alpn == [key |-> 1, value |-> <<2, 5>>]
Ech1 == [key |-> EchKey, value |-> <<13>>]
Ech2 == [key |-> EchKey, value |-> <<14, 0, 5>>]
Records ==
  [pointer : BOOLEAN, name : {<<>>, <<<<7>>>>}, type : {1, 64, TypeHTTPS},
   service : {<<>>, <<<<3>>>>}, params : {<<>>, <<Alpn>>, <<Alpn, Ech1>>, <<Ech2, Alpn>>}]
Answers ==
  {[is |-> "dns", question |-> q, records |-> rs] :
     q \in {<<<<7>>>>, <<<<1, 2>>, <<7>>>>}, rs \in BoundedSeq(Records, 1)}
  \cup {[is |-> "dns", question |-> <<<<7>>>>, records |-> <<r1, r2>>] :
     r1 \in {r \in Records : r.pointer},
     r2 \in {r \in Records : r.service = <<>>}}

MCConversations ==
  {[format |-> "stream", messages |-> <<o, c1, c2>>] : o \in Opens, c1 \in Chunks, c2 \in Chunks}
    \cup {[format |-> "replies", messages |-> <<r1, r2>>] : r1 \in Replies, r2 \in Replies}
    \cup {[format |-> "packet", messages |-> <<p1, p2>>] : p1 \in Packets, p2 \in Packets}
    \cup {[format |-> "dns", messages |-> <<m>>] : m \in Answers}
=============================================================================
