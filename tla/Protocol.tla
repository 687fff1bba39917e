------------------------------ MODULE Protocol ------------------------------
(***************************************************************************)
(* class Protocol (src/protocol.h, src/protocol.cpp): the wire format of an  *)
(* RPC message, byte by byte, as functions on buffers.                       *)
(***************************************************************************)
EXTENDS Buffer

MAGIC_NUMBER == 21586      \* 0x5452, 'T' 'R'

\* sizeof(RpcHeader), packed: magic, version, msg_type, seq_id, payload_len.
HEADER_SIZE == 2 + 1 + 1 + 4 + 4

\* Host to network byte order and back, for the two widths in use.
htons(n) == <<(n \div 256) % 256, n % 256>>
htonl(n) == <<(n \div 16777216) % 256, (n \div 65536) % 256,
              (n \div 256) % 256, n % 256>>
ntohs(s) == s[1] * 256 + s[2]
ntohl(s) == s[1] * 16777216 + s[2] * 65536 + s[3] * 256 + s[4]

\* The header that lies at the front of s.
DecodeHeader(s) ==
  [magic       |-> ntohs(SubSeq(s, 1, 2)),
   version     |-> s[3],
   msg_type    |-> s[4],
   seq_id      |-> ntohl(SubSeq(s, 5, 8)),
   payload_len |-> ntohl(SubSeq(s, 9, 12))]

\* memcpy to WriteBegin() followed by HasWritten.
Put(b, bytes) == HasWritten(Store(b, b.write_idx_, bytes), Len(bytes))

\* The result of EnsureWritable is not looked at.
EncodeMessage(b, header, payload) ==
  LET net  == htons(MAGIC_NUMBER) \o <<header.version, header.msg_type>>
              \o htonl(header.seq_id) \o htonl(Len(payload))
      room == EnsureWritable(b, HEADER_SIZE + Len(payload))
  IN  Put(Put(room, net), payload)

\* Mutant: a message that ends with the buffer counts as incomplete.
ParseOutcomeOffByOne(b) ==
  LET s == Readable(b)
  IN  IF Len(s) < HEADER_SIZE THEN "short"
      ELSE IF ntohs(SubSeq(s, 1, 2)) # MAGIC_NUMBER THEN "bad_magic"
      ELSE IF Len(s) <= HEADER_SIZE + DecodeHeader(s).payload_len THEN "fragment"
      ELSE "message"

\* The four ways out of ParseMessage.
ParseOutcome(b) ==
  LET s == Readable(b)
  IN  IF Len(s) < HEADER_SIZE THEN "short"
      ELSE IF ntohs(SubSeq(s, 1, 2)) # MAGIC_NUMBER THEN "bad_magic"
      ELSE IF Len(s) < HEADER_SIZE + DecodeHeader(s).payload_len THEN "fragment"
      ELSE "message"

\* How many bytes ParseMessage takes from the buffer (HasRead).
ParseConsumes(b) ==
  CASE ParseOutcome(b) = "message" ->
         HEADER_SIZE + DecodeHeader(Readable(b)).payload_len
    [] ParseOutcome(b) = "bad_magic" -> 1
    [] OTHER -> 0

\* Mutant: the payload is taken before HasRead(HEADER_SIZE).
ParsedMessageAtHeader(b) ==
  LET s == Readable(b)
      h == DecodeHeader(s)
  IN  [version |-> h.version, msg_type |-> h.msg_type, seq_id |-> h.seq_id,
       payload |-> SubSeq(s, 1, h.payload_len)]

\* out_header and the payload of a "message".
ParsedMessage(b) ==
  LET s == Readable(b)
      h == DecodeHeader(s)
  IN  [version |-> h.version, msg_type |-> h.msg_type, seq_id |-> h.seq_id,
       payload |-> SubSeq(s, HEADER_SIZE + 1, HEADER_SIZE + h.payload_len)]
=============================================================================
