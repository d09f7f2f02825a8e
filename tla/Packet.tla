------------------------------- MODULE Packet -------------------------------
(***************************************************************************)
(* packet.c: pkt_encode and pkt_decode, with a link between them that may  *)
(* tamper with the datagram.  crc32() is taken to be injective: a CRC is   *)
(* the data it was computed over, and that of no data is the 0 read where  *)
(* none was written.  Window and timestamp, which are treated like seqnum, *)
(* are left out.                                                           *)
(***************************************************************************)
EXTENDS Naturals, Sequences, SequencesExt

CONSTANTS
  MAX_PAYLOAD_SIZE,  \* 512 in the code
  Bytes,             \* values of a byte of the payload
  Seqnums,           \* values of the field seqnum
  MaxTampering       \* how many times the link tampers with a datagram

ASSUME PacketAssumption ==
  /\ MAX_PAYLOAD_SIZE \in Nat
  /\ Bytes # {} /\ Seqnums # {}
  /\ MaxTampering \in Nat

VARIABLES
  pc,        \* "encode", "link", "decode", "end"
  packet,    \* the structure given to pkt_encode
  room,      \* the size of its buffer
  status,    \* what the last call returned
  datagram,  \* the bytes on the link
  tampered,  \* what the link has done to them
  decoded    \* the structure filled by pkt_decode

vars == <<pc, packet, room, status, datagram, tampered, decoded>>

PTYPE_DATA == 1
Types == 0 .. 3  \* two bits; 0 is no type
HeaderSize == 12
CrcSize == 4

Payloads == UNION {[1 .. n -> Bytes] : n \in 0 .. MAX_PAYLOAD_SIZE}

\* The header, up to the CRC computed over it.
Headers == [type : Types, tr : {0, 1}, seqnum : Seqnums, length : 0 .. MAX_PAYLOAD_SIZE + 1]

\* The structures the setters can build: length is that of the payload.
HeaderOf(pkt) == [type |-> pkt.type, tr |-> pkt.tr, seqnum |-> pkt.seqnum,
                  length |-> Len(pkt.payload)]
Pkts == [type : Types, tr : {0, 1}, seqnum : Seqnums, payload : Payloads]

-----------------------------------------------------------------------------
\* Bytes pkt_encode asks for, and bytes it writes.
SizeRequired(pkt) == HeaderSize + Len(pkt.payload) + CrcSize * pkt.tr
SizeWritten(pkt) ==
  HeaderSize + (IF pkt.payload = <<>> THEN 0 ELSE Len(pkt.payload) + CrcSize)

\* Faulty: encodes a packet marked truncated whatever its type.
EncodeStatusAnyType(pkt, size) ==
  IF size < SizeRequired(pkt) THEN "E_NOMEM"
  ELSE IF pkt.tr = 1 /\ pkt.payload # <<>> THEN "E_UNCONSISTENT"
  ELSE "PKT_OK"

\* Here and below the first check that fails gives the answer.
EncodeStatus(pkt, size) ==
  IF pkt.type # PTYPE_DATA /\ pkt.tr = 1 THEN "E_UNCONSISTENT"
  ELSE IF size < SizeRequired(pkt) THEN "E_NOMEM"
  ELSE IF pkt.tr = 1 /\ pkt.payload # <<>> THEN "E_UNCONSISTENT"
  ELSE "PKT_OK"

pkt_encode ==
  /\ pc = "encode"
  /\ status' = EncodeStatus(packet, room)
  /\ IF status' = "PKT_OK"
     THEN /\ datagram' = [size |-> SizeWritten(packet),
                          header |-> HeaderOf(packet), crc1 |-> HeaderOf(packet),
                          payload |-> packet.payload, crc2 |-> packet.payload]
          /\ pc' = "link"
     ELSE pc' = "end" /\ UNCHANGED datagram
  /\ UNCHANGED <<packet, room, tampered, decoded>>

\* Faulty: the CRC of the payload is not compared.
DecodeStatusNoCrc2(d) ==
  IF d.size = 0 THEN "E_UNCONSISTENT"
  ELSE IF d.size < HeaderSize THEN "E_NOHEADER"
  ELSE IF d.header.length > MAX_PAYLOAD_SIZE THEN "E_LENGTH"
  ELSE IF d.crc1 # d.header THEN "E_CRC"
  ELSE IF d.header.type = 0 THEN "E_TYPE"
  ELSE IF d.header.type # PTYPE_DATA /\ d.header.tr = 1 THEN "E_UNCONSISTENT"
  ELSE "PKT_OK"

\* The buffer is longer than the datagram: what was not received is read as 0.
Zero == CHOOSE b \in Bytes : TRUE
PayloadRead(d) ==
  [i \in 1 .. d.header.length |-> IF i <= Len(d.payload) THEN d.payload[i] ELSE Zero]

\* pkt_get_crc2 answers 0 for a packet marked truncated.
Crc2Read(d) == IF d.header.tr = 1 THEN <<>> ELSE d.crc2

\* The CRC of the header is computed over the bytes received, TR bit included:
\* clearing TR in the structure (line 135) does not change them.
DecodeStatus(d) ==
  IF d.size = 0 THEN "E_UNCONSISTENT"
  ELSE IF d.size < HeaderSize THEN "E_NOHEADER"
  ELSE IF d.header.length > MAX_PAYLOAD_SIZE THEN "E_LENGTH"
  ELSE IF d.crc1 # d.header THEN "E_CRC"
  ELSE IF d.header.length # 0 /\ Crc2Read(d) # PayloadRead(d) THEN "E_CRC"
  ELSE IF d.header.type = 0 THEN "E_TYPE"
  ELSE IF d.header.type # PTYPE_DATA /\ d.header.tr = 1 THEN "E_UNCONSISTENT"
  ELSE "PKT_OK"

pkt_decode ==
  /\ pc = "link"
  /\ status' = DecodeStatus(datagram)
  /\ decoded' = IF status' = "PKT_OK"
                THEN <<[type |-> datagram.header.type, tr |-> datagram.header.tr,
                        seqnum |-> datagram.header.seqnum,
                        payload |-> PayloadRead(datagram)]>>
                ELSE <<>>
  /\ pc' = "end"
  /\ UNCHANGED <<packet, room, datagram, tampered>>

-----------------------------------------------------------------------------
\* The link: a router that cuts the payload off and says so in the header, one
\* that drops the end of the datagram, and bits that flip.
Truncate ==
  /\ datagram' = [datagram EXCEPT !.size = HeaderSize, !.header.tr = 1,
                                  !.payload = <<>>, !.crc2 = <<>>]
  /\ tampered' = tampered \cup {"truncated"}

\* Nothing compares the bytes received with the length in the header.  The CRC
\* that is not received is read as 0; what is left of one may be anything.
CutOff ==
  /\ \/ \E size \in {0, HeaderSize - 1} : datagram' = [datagram EXCEPT !.size = size]
     \/ \E n \in 0 .. Len(datagram.payload) :
          /\ HeaderSize + n < datagram.size
          /\ datagram' = [datagram EXCEPT !.size = HeaderSize + n, !.crc2 = <<>>,
                                          !.payload = SubSeq(@, 1, n)]
     \/ \E size \in HeaderSize + Len(datagram.payload) + 1 .. datagram.size - 1,
          crc \in Payloads : datagram' = [datagram EXCEPT !.size = size, !.crc2 = crc]
  /\ tampered' = tampered \cup {"cut"}

FlipBits ==
  /\ \/ \E header \in Headers \ {datagram.header} :
          datagram' = [datagram EXCEPT !.header = header]
     \/ \E i \in 1 .. Len(datagram.payload), b \in Bytes :
          datagram' = [datagram EXCEPT !.payload[i] = b]
     \/ \E crc \in Payloads : datagram' = [datagram EXCEPT !.crc2 = crc]
  /\ tampered' = tampered \cup {"flipped"}

Tamper ==
  /\ pc = "link"
  /\ Cardinality(tampered) < MaxTampering
  /\ datagram.size >= HeaderSize
  /\ Truncate \/ CutOff \/ FlipBits
  /\ UNCHANGED <<pc, packet, room, status, decoded>>

Init ==
  /\ pc = "encode"
  /\ packet \in Pkts
  /\ room \in HeaderSize - 1 .. HeaderSize + MAX_PAYLOAD_SIZE + CrcSize
  /\ status = "PKT_OK"
  /\ datagram = [size |-> 0]
  /\ tampered = {}
  /\ decoded = <<>>

Next == pkt_encode \/ pkt_decode \/ Tamper

Spec == Init /\ [][Next]_vars

-----------------------------------------------------------------------------
Accepted == pc = "end" /\ decoded # <<>>

\* A packet that pkt_encode accepts comes back field for field, if its type is
\* one; the two functions agree on which packets are acceptable.
RoundTrip ==
  pc = "end" /\ tampered = {} /\ datagram.size > 0 =>
    IF packet.type = 0 THEN status = "E_TYPE" ELSE decoded = <<packet>>

\* Whatever the link did, what pkt_decode accepts is what was encoded: a
\* datagram damaged in any of these ways is either intact or refused.
AcceptedIsIntact == Accepted => decoded = <<packet>>

\* packet.h:68 of pkt_decode: the CRC of the header is checked "en considerant le
\* champ TR a 0", so that a data packet whose payload a router cut off is told by
\* its TR bit and not refused for its CRC.
TruncatedIsRecognised ==
  pc = "end" /\ tampered = {"truncated"} /\ packet.type = PTYPE_DATA => status # "E_CRC"

\* What pkt_decode does instead (packet.c:135-141): such a datagram is always
\* refused as damaged, like any other that the link has changed.
TruncatedIsRefused ==
  pc = "end" /\ tampered = {"truncated"} /\ packet.tr = 0 => status = "E_CRC"

=============================================================================
