---------------------------- MODULE PacketProofs ----------------------------
(***************************************************************************)
(* What pkt_decode makes of a datagram of pkt_encode that the link has     *)
(* tampered with once at most, for payloads of any length and bytes.       *)
(***************************************************************************)
EXTENDS Packet, SequenceTheorems, FiniteSetTheorems, TLAPS

\* Two changes that agree, of the payload and of its CRC, are the forgery that
\* no checksum detects.
TamperedOnce == MaxTampering <= 1

\* What pkt_encode accepts.
Encodable(pkt) ==
  /\ pkt \in Pkts
  /\ pkt.tr = 1 => pkt.type = PTYPE_DATA /\ pkt.payload = <<>>

Encoding(pkt) ==
  [size |-> SizeWritten(pkt),
   header |-> HeaderOf(pkt), crc1 |-> HeaderOf(pkt),
   payload |-> pkt.payload, crc2 |-> pkt.payload]

\* What a router leaves of it.
Truncation(pkt) ==
  [size |-> HeaderSize,
   header |-> [HeaderOf(pkt) EXCEPT !.tr = 1], crc1 |-> HeaderOf(pkt),
   payload |-> <<>>, crc2 |-> <<>>]

\* A flipped bit is in the header, or in the payload, or in its CRC; nothing
\* on the link is in the CRC of the header.
Flipped(d, pkt) ==
  /\ d.crc1 = HeaderOf(pkt)
  /\ d.header = HeaderOf(pkt) => d.payload = pkt.payload \/ d.crc2 = pkt.payload

\* A datagram cut short has its payload, or no CRC of it.
CutShort(d, pkt) ==
  /\ d.header = HeaderOf(pkt) /\ d.crc1 = HeaderOf(pkt)
  /\ d.payload = pkt.payload \/ d.crc2 = <<>>

\* What the link has made of the packet.
Carried(d, pkt) ==
  /\ tampered = {} => d = Encoding(pkt)
  /\ tampered = {"truncated"} => d = Truncation(pkt)
  /\ TamperedOnce =>
       \/ tampered = {} \/ tampered = {"truncated"}
       \/ tampered = {"cut"} /\ (d.size \in {0, HeaderSize - 1} \/ CutShort(d, pkt))
       \/ tampered = {"flipped"} /\ Flipped(d, pkt)

PacketInv ==
  /\ packet \in Pkts
  /\ pc \in {"encode", "link", "end"}
  /\ pc = "encode" => datagram = [size |-> 0] /\ tampered = {} /\ decoded = <<>>
  /\ pc = "link" => Encodable(packet) /\ Carried(datagram, packet) /\ decoded = <<>>
  /\ RoundTrip
  /\ TamperedOnce => AcceptedIsIntact
  /\ TruncatedIsRefused

-----------------------------------------------------------------------------
\* A payload is a sequence of bytes, no longer than MAX_PAYLOAD_SIZE.
LEMMA PayloadIs ==
  ASSUME NEW pkt \in Pkts
  PROVE  /\ pkt.payload \in Seq(Bytes)
         /\ Len(pkt.payload) \in 0 .. MAX_PAYLOAD_SIZE
         /\ pkt.payload = [i \in 1 .. Len(pkt.payload) |-> pkt.payload[i]]
         /\ pkt.payload = <<>> <=> Len(pkt.payload) = 0
<1>1. PICK n \in 0 .. MAX_PAYLOAD_SIZE : pkt.payload \in [1 .. n -> Bytes]
  BY DEF Pkts, Payloads
<1>2. n \in Nat
  BY <1>1, PacketAssumption
<1>3. pkt.payload \in Seq(Bytes)
  BY <1>1, <1>2, SeqDef
<1>4. Len(pkt.payload) = n
  BY <1>1, <1>2, <1>3, LenProperties
<1>5. pkt.payload = <<>> <=> Len(pkt.payload) = 0
  BY <1>3, EmptySeq
<1> QED BY <1>1, <1>3, <1>4, <1>5

\* Every header is at least complete, and its length is allowed.
LEMMA EncodingIs ==
  ASSUME NEW pkt \in Pkts
  PROVE  /\ SizeWritten(pkt) \in Nat /\ SizeWritten(pkt) >= HeaderSize
         /\ HeaderOf(pkt).length <= MAX_PAYLOAD_SIZE
         /\ HeaderOf(pkt).length = Len(pkt.payload)
         /\ HeaderOf(pkt).tr = pkt.tr /\ HeaderOf(pkt).type = pkt.type
         /\ HeaderOf(pkt).seqnum = pkt.seqnum
         /\ pkt.tr \in {0, 1}
<1>1. Len(pkt.payload) \in Nat /\ Len(pkt.payload) <= MAX_PAYLOAD_SIZE
  <2>1. Len(pkt.payload) \in 0 .. MAX_PAYLOAD_SIZE
    BY PayloadIs
  <2> QED BY <2>1, PacketAssumption
<1>2. SizeWritten(pkt) \in Nat /\ SizeWritten(pkt) >= HeaderSize
  <2>1. CASE pkt.payload = <<>>
    BY <2>1 DEF SizeWritten, HeaderSize
  <2>2. CASE pkt.payload # <<>>
    <3>1. SizeWritten(pkt) = 12 + (Len(pkt.payload) + 4)
      BY <2>2 DEF SizeWritten, HeaderSize, CrcSize
    <3> QED BY <1>1, <3>1 DEF HeaderSize
  <2> QED BY <2>1, <2>2
<1> QED BY <1>1, <1>2 DEF HeaderOf, Pkts

\* A datagram with the header of the packet and its CRC: the payload read is the
\* packet's as soon as one of payload and CRC is, if the two agree.
LEMMA ReadsPayload ==
  ASSUME NEW pkt, Encodable(pkt), NEW d, d.header = HeaderOf(pkt),
         d.payload = pkt.payload \/ d.crc2 = pkt.payload \/ d.crc2 = <<>>,
         d.header.length # 0 => Crc2Read(d) = PayloadRead(d)
  PROVE  PayloadRead(d) = pkt.payload
<1>1. /\ pkt \in Pkts /\ d.header.length = Len(pkt.payload) /\ d.header.tr = pkt.tr
      /\ Len(pkt.payload) \in Nat
      /\ pkt.payload = [i \in 1 .. Len(pkt.payload) |-> pkt.payload[i]]
      /\ pkt.payload = <<>> <=> Len(pkt.payload) = 0
  BY EncodingIs, PayloadIs, PacketAssumption DEF Encodable
<1>2. CASE d.payload = pkt.payload
  <2>1. PayloadRead(d) = [i \in 1 .. Len(pkt.payload) |->
                            IF i <= Len(pkt.payload) THEN pkt.payload[i] ELSE Zero]
    BY <1>1, <1>2 DEF PayloadRead
  <2>2. \A i \in 1 .. Len(pkt.payload) : i <= Len(pkt.payload)
    BY <1>1
  <2> QED BY <1>1, <2>1, <2>2
<1>3. CASE d.crc2 = pkt.payload /\ Len(pkt.payload) # 0
  <2>1. pkt.tr # 1
    BY <1>1, <1>3 DEF Encodable
  <2> QED BY <1>1, <1>3, <2>1 DEF Crc2Read
<1>4. CASE Len(pkt.payload) = 0
  <2>1. pkt.payload = [i \in 1 .. 0 |-> pkt.payload[i]]
    BY <1>1, <1>4
  <2>2. PayloadRead(d) = [i \in 1 .. 0 |->
                            IF i <= Len(d.payload) THEN d.payload[i] ELSE Zero]
    BY <1>1, <1>4 DEF PayloadRead
  <2> QED BY <2>1, <2>2
<1>5. CASE d.crc2 = <<>> /\ Len(pkt.payload) # 0
  <2>1. Crc2Read(d) = <<>> /\ Crc2Read(d) = PayloadRead(d)
    BY <1>1, <1>5 DEF Crc2Read
  <2>2. DOMAIN PayloadRead(d) = 1 .. Len(pkt.payload) /\ 1 \in 1 .. Len(pkt.payload)
    BY <1>1, <1>5 DEF PayloadRead
  <2>3. DOMAIN <<>> = 1 .. 0
    OBVIOUS
  <2> QED BY <2>1, <2>2, <2>3
<1> QED BY <1>2, <1>3, <1>4, <1>5

\* What pkt_decode accepts has a header that its CRC fits, and a payload.
LEMMA AcceptsOnly ==
  ASSUME NEW d, DecodeStatus(d) = "PKT_OK"
  PROVE  /\ d.size # 0 /\ ~(d.size < HeaderSize)
         /\ d.crc1 = d.header
         /\ d.header.length # 0 => Crc2Read(d) = PayloadRead(d)
  BY DEF DecodeStatus

-----------------------------------------------------------------------------
\* The link may tamper only with what it has not tampered with.
LEMMA OnlyOnce ==
  ASSUME TamperedOnce, Cardinality(tampered) < MaxTampering,
         NEW pkt, NEW d, Carried(d, pkt)
  PROVE  d = Encoding(pkt) /\ tampered = {}
<1>1. Cardinality({"truncated"}) = 1 /\ Cardinality({"cut"}) = 1
      /\ Cardinality({"flipped"}) = 1
  BY FS_Singleton
<1>2. ~(1 < MaxTampering)
  BY PacketAssumption DEF TamperedOnce
<1> QED BY <1>1, <1>2 DEF Carried

\* A router that truncates again takes nothing more.
LEMMA TruncatedOf ==
  ASSUME NEW pkt, datagram = Encoding(pkt) \/ datagram = Truncation(pkt), Truncate
  PROVE  datagram' = Truncation(pkt)
<1> DEFINE h == [HeaderOf(pkt) EXCEPT !.tr = 1]
<1>1. datagram' = [datagram EXCEPT !.size = HeaderSize, !.header.tr = 1,
                                  !.payload = <<>>, !.crc2 = <<>>]
  BY DEF Truncate
<1>2. [h EXCEPT !.tr = 1] = h
  BY DEF HeaderOf
<1>3. CASE datagram = Encoding(pkt)
  BY <1>1, <1>3 DEF Encoding, Truncation
<1>4. CASE datagram = Truncation(pkt)
  <2> HIDE DEF h
  <2>1. datagram = [size |-> HeaderSize, header |-> h, crc1 |-> HeaderOf(pkt),
                    payload |-> <<>>, crc2 |-> <<>>]
    BY <1>4 DEF Truncation, h
  <2>2. datagram' = [size |-> HeaderSize, header |-> [h EXCEPT !.tr = 1],
                     crc1 |-> HeaderOf(pkt), payload |-> <<>>, crc2 |-> <<>>]
    BY <1>1, <2>1
  <2> QED BY <1>2, <2>2 DEF Truncation, h
<1> QED BY <1>3, <1>4

LEMMA FlippedOf ==
  ASSUME NEW pkt, datagram = Encoding(pkt), FlipBits
  PROVE  Flipped(datagram', pkt)
<1>1. CASE \E header \in Headers \ {datagram.header} :
             datagram' = [datagram EXCEPT !.header = header]
  BY <1>1 DEF Flipped, Encoding
<1>2. CASE \E i \in 1 .. Len(datagram.payload), b \in Bytes :
             datagram' = [datagram EXCEPT !.payload[i] = b]
  BY <1>2 DEF Flipped, Encoding
<1>3. CASE \E crc \in Payloads : datagram' = [datagram EXCEPT !.crc2 = crc]
  BY <1>3 DEF Flipped, Encoding
<1> QED BY <1>1, <1>2, <1>3 DEF FlipBits

LEMMA CutShortOf ==
  ASSUME NEW pkt, datagram = Encoding(pkt), CutOff
  PROVE  datagram'.size \in {0, HeaderSize - 1} \/ CutShort(datagram', pkt)
<1>1. CASE \E size \in {0, HeaderSize - 1} : datagram' = [datagram EXCEPT !.size = size]
  BY <1>1 DEF Encoding
<1>2. CASE \E n \in 0 .. Len(datagram.payload) :
             /\ HeaderSize + n < datagram.size
             /\ datagram' = [datagram EXCEPT !.size = HeaderSize + n, !.crc2 = <<>>,
                                             !.payload = SubSeq(@, 1, n)]
  BY <1>2 DEF CutShort, Encoding
<1>3. CASE \E size \in HeaderSize + Len(datagram.payload) + 1 .. datagram.size - 1,
             crc \in Payloads : datagram' = [datagram EXCEPT !.size = size, !.crc2 = crc]
  BY <1>3 DEF CutShort, Encoding
<1> QED BY <1>1, <1>2, <1>3 DEF CutOff

LEMMA CarriedOfTamper ==
  ASSUME PacketInv, Tamper
  PROVE  PacketInv'
<1>1. /\ pc = "link" /\ Encodable(packet) /\ packet \in Pkts
      /\ Carried(datagram, packet) /\ decoded = <<>>
      /\ UNCHANGED <<pc, packet, room, status, decoded>>
  BY DEF PacketInv, Tamper
<1>2. tampered' # {}
  BY DEF Tamper, Truncate, CutOff, FlipBits
<1>3. tampered' = {"truncated"} => datagram' = Truncation(packet)
  <2> SUFFICES ASSUME tampered' = {"truncated"} PROVE datagram' = Truncation(packet)
    OBVIOUS
  <2>1. Truncate /\ tampered' = tampered \cup {"truncated"}
    BY DEF Tamper, Truncate, CutOff, FlipBits
  <2>2. tampered = {} \/ tampered = {"truncated"}
    BY <2>1
  <2> QED BY <1>1, <2>1, <2>2, TruncatedOf DEF Carried
<1>4. ASSUME TamperedOnce
      PROVE  \/ tampered' = {"truncated"}
             \/ /\ tampered' = {"cut"}
                /\ datagram'.size \in {0, HeaderSize - 1} \/ CutShort(datagram', packet)
             \/ tampered' = {"flipped"} /\ Flipped(datagram', packet)
  <2>1. datagram = Encoding(packet) /\ tampered = {}
    BY <1>1, <1>4, OnlyOnce DEF Tamper
  <2>2. CASE Truncate
    BY <2>1, <2>2 DEF Truncate
  <2>3. CASE CutOff
    <3>1. tampered' = {"cut"}
      BY <2>1, <2>3 DEF CutOff
    <3> QED BY <2>1, <2>3, <3>1, CutShortOf
  <2>4. CASE FlipBits
    <3>1. tampered' = {"flipped"}
      BY <2>1, <2>4 DEF FlipBits
    <3> QED BY <2>1, <2>4, <3>1, FlippedOf
  <2> QED BY <2>2, <2>3, <2>4 DEF Tamper
<1>5. Carried(datagram, packet)'
  BY <1>1, <1>2, <1>3, <1>4 DEF Carried, TamperedOnce, Truncation, Flipped, CutShort
<1> QED BY <1>1, <1>5
    DEF PacketInv, RoundTrip, AcceptedIsIntact, TruncatedIsRefused, Accepted

LEMMA CarriedOfEncode ==
  ASSUME PacketInv, pkt_encode
  PROVE  PacketInv'
<1>1. /\ pc = "encode" /\ packet \in Pkts /\ datagram = [size |-> 0]
      /\ tampered = {} /\ decoded = <<>>
      /\ UNCHANGED <<packet, room, tampered, decoded>>
  BY DEF PacketInv, pkt_encode
<1>2. CASE status' = "PKT_OK"
  <2>1. datagram' = Encoding(packet) /\ pc' = "link"
    BY <1>2 DEF pkt_encode, Encoding
  <2>2. EncodeStatus(packet, room) = "PKT_OK"
    BY <1>2 DEF pkt_encode
  <2>3. Encodable(packet)
    BY <1>1, <2>2 DEF EncodeStatus, Encodable
  <2>4. Carried(datagram, packet)'
    BY <1>1, <2>1 DEF Carried
  <2> QED BY <1>1, <2>1, <2>3, <2>4
      DEF PacketInv, RoundTrip, AcceptedIsIntact, TruncatedIsRefused, Accepted
<1>3. CASE status' # "PKT_OK"
  <2>1. pc' = "end" /\ datagram' = [size |-> 0]
    BY <1>1, <1>3 DEF pkt_encode
  <2>2. ~(datagram'.size > 0) /\ tampered' # {"truncated"}
    BY <1>1, <2>1
  <2> QED BY <1>1, <2>1, <2>2
      DEF PacketInv, RoundTrip, AcceptedIsIntact, TruncatedIsRefused, Accepted
<1> QED BY <1>2, <1>3

\* Whatever was done once to the datagram, pkt_decode accepts the packet or
\* nothing.
LEMMA DecodesIntact ==
  ASSUME Encodable(packet), Carried(datagram, packet),
         TamperedOnce \/ tampered = {}, DecodeStatus(datagram) = "PKT_OK"
  PROVE  [type |-> datagram.header.type, tr |-> datagram.header.tr,
          seqnum |-> datagram.header.seqnum, payload |-> PayloadRead(datagram)] = packet
<1> DEFINE d == datagram
<1>0. packet \in Pkts /\ packet.tr \in {0, 1}
  BY EncodingIs DEF Encodable
<1>1. /\ d.size # 0 /\ ~(d.size < HeaderSize) /\ d.crc1 = d.header
      /\ d.header.length # 0 => Crc2Read(d) = PayloadRead(d)
  BY AcceptsOnly
<1>2. /\ d.header = HeaderOf(packet)
      /\ d.payload = packet.payload \/ d.crc2 = packet.payload \/ d.crc2 = <<>>
  <2>1. CASE tampered = {}
    BY <2>1 DEF Carried, Encoding
  <2>2. CASE tampered = {"truncated"}
    <3>1. d = Truncation(packet)
      BY <2>2 DEF Carried
    <3>2. HeaderOf(packet).tr = 1
      BY <1>1, <3>1 DEF HeaderOf, Truncation
    <3>3. packet.tr = 1
      BY <1>0, <3>2, EncodingIs
    <3> QED BY <1>1, <3>1, <3>3 DEF Encodable, Truncation
  <2>3. CASE d.size \in {0, HeaderSize - 1}
    BY <1>1, <2>3 DEF HeaderSize
  <2>4. CASE Flipped(d, packet)
    BY <1>1, <2>4 DEF Flipped
  <2>5. CASE CutShort(d, packet)
    BY <2>5 DEF CutShort
  <2> QED BY <2>1, <2>2, <2>3, <2>4, <2>5 DEF Carried
<1>3. PayloadRead(d) = packet.payload
  BY <1>1, <1>2, ReadsPayload
<1>4. /\ d.header.type = packet.type /\ d.header.tr = packet.tr
      /\ d.header.seqnum = packet.seqnum
  BY <1>0, <1>2, EncodingIs
<1> QED BY <1>0, <1>3, <1>4 DEF Pkts

\* Nothing done to it, it is refused for its type only.
LEMMA DecodesEncoding ==
  ASSUME Encodable(packet), datagram = Encoding(packet)
  PROVE  DecodeStatus(datagram) = IF packet.type = 0 THEN "E_TYPE" ELSE "PKT_OK"
<1> DEFINE d == datagram
<1>1. packet \in Pkts
  BY DEF Encodable
<1>2. /\ d.size = SizeWritten(packet) /\ d.header = HeaderOf(packet)
      /\ d.crc1 = HeaderOf(packet) /\ d.payload = packet.payload
      /\ d.crc2 = packet.payload
  BY DEF Encoding
<1>3. d.size # 0 /\ ~(d.size < HeaderSize)
  BY <1>1, <1>2, EncodingIs DEF HeaderSize
<1>4. ~(d.header.length > MAX_PAYLOAD_SIZE) /\ d.crc1 = d.header
  <2>1. /\ d.header.length = Len(packet.payload)
        /\ Len(packet.payload) \in 0 .. MAX_PAYLOAD_SIZE
    BY <1>1, <1>2, EncodingIs, PayloadIs
  <2> QED BY <1>2, <2>1, PacketAssumption
<1>5. d.header.length # 0 => Crc2Read(d) = PayloadRead(d)
  <2>1. d.header.length # 0 => d.header.tr # 1
    BY <1>1, <1>2, EncodingIs, PayloadIs DEF Encodable
  <2>2. PayloadRead(d) = packet.payload
    <3>1. PayloadRead(d) = [i \in 1 .. Len(packet.payload) |->
                              IF i <= Len(packet.payload) THEN packet.payload[i] ELSE Zero]
      BY <1>1, <1>2, EncodingIs DEF PayloadRead
    <3>2. \A i \in 1 .. Len(packet.payload) : i <= Len(packet.payload)
      OBVIOUS
    <3> QED BY <1>1, <3>1, <3>2, PayloadIs
  <2> QED BY <1>2, <2>1, <2>2 DEF Crc2Read
<1>6. ~(d.header.type # PTYPE_DATA /\ d.header.tr = 1) /\ d.header.type = packet.type
  BY <1>1, <1>2, EncodingIs DEF Encodable
<1> QED BY <1>3, <1>4, <1>5, <1>6 DEF DecodeStatus

\* The CRC of the header covers the bit that says the payload was cut off.
LEMMA DecodesTruncated ==
  ASSUME packet \in Pkts, packet.tr = 0, datagram = Truncation(packet)
  PROVE  DecodeStatus(datagram) = "E_CRC"
<1> DEFINE h == [HeaderOf(packet) EXCEPT !.tr = 1]
<1>1. /\ h.tr = 1 /\ h.length = HeaderOf(packet).length
      /\ HeaderOf(packet).tr = 0
  BY EncodingIs DEF HeaderOf
<1>2. ~(h.length > MAX_PAYLOAD_SIZE)
  <2>1. /\ h.length = Len(packet.payload)
        /\ Len(packet.payload) \in 0 .. MAX_PAYLOAD_SIZE
    BY <1>1, EncodingIs, PayloadIs
  <2> QED BY <2>1, PacketAssumption
<1> HIDE DEF h
<1>3. /\ datagram.size = HeaderSize /\ datagram.header = h
      /\ datagram.crc1 = HeaderOf(packet)
  BY DEF Truncation, h
<1>4. datagram.crc1 # datagram.header
  BY <1>1, <1>3
<1>5. datagram.size # 0 /\ ~(datagram.size < HeaderSize)
  BY <1>3 DEF HeaderSize
<1>6. ~(datagram.header.length > MAX_PAYLOAD_SIZE)
  BY <1>2, <1>3
<1> QED BY <1>4, <1>5, <1>6 DEF DecodeStatus

LEMMA CarriedOfDecode ==
  ASSUME PacketInv, pkt_decode
  PROVE  PacketInv'
<1>1. /\ packet \in Pkts /\ Encodable(packet) /\ Carried(datagram, packet)
      /\ status' = DecodeStatus(datagram) /\ pc' = "end"
      /\ UNCHANGED <<packet, room, datagram, tampered>>
      /\ status' # "PKT_OK" => decoded' = <<>>
  BY DEF PacketInv, pkt_decode
<1>2. (TamperedOnce \/ tampered = {}) /\ status' = "PKT_OK" => decoded' = <<packet>>
  BY <1>1, DecodesIntact DEF pkt_decode
<1>3. TamperedOnce => AcceptedIsIntact'
  BY <1>1, <1>2 DEF AcceptedIsIntact, Accepted
<1>4. RoundTrip'
  <2> SUFFICES ASSUME tampered = {}
               PROVE  IF packet.type = 0 THEN status' = "E_TYPE" ELSE decoded' = <<packet>>
    BY <1>1 DEF RoundTrip
  <2>1. datagram = Encoding(packet)
    BY <1>1 DEF Carried
  <2> QED BY <1>1, <1>2, <2>1, DecodesEncoding
<1>5. TruncatedIsRefused'
  <2> SUFFICES ASSUME tampered = {"truncated"}, packet.tr = 0
               PROVE  status' = "E_CRC"
    BY <1>1 DEF TruncatedIsRefused
  <2>1. datagram = Truncation(packet)
    BY <1>1 DEF Carried
  <2>2. DecodeStatus(datagram) = "E_CRC"
    BY <1>1, <2>1, DecodesTruncated
  <2> QED BY <1>1, <2>2
<1> QED BY <1>1, <1>3, <1>4, <1>5 DEF PacketInv, TamperedOnce

\* The inductive invariant, however often the link tampers with the datagram.
THEOREM PacketsHold == Spec => []PacketInv
<1>1. Init => PacketInv
  BY DEF Init, PacketInv, RoundTrip, AcceptedIsIntact, TruncatedIsRefused, Accepted
<1>2. PacketInv /\ [Next]_vars => PacketInv'
  <2> SUFFICES ASSUME PacketInv, [Next]_vars PROVE PacketInv'
    OBVIOUS
  <2>1. CASE UNCHANGED vars
    BY <2>1 DEF vars, PacketInv, RoundTrip, AcceptedIsIntact, TruncatedIsRefused,
                Accepted, Carried, TamperedOnce, Flipped, CutShort
  <2> QED BY <2>1, CarriedOfEncode, CarriedOfTamper, CarriedOfDecode DEF Next
<1> QED BY <1>1, <1>2, PTL DEF Spec

\* A packet that is encoded, tampered with at most once and decoded is refused
\* or comes back as it was, for payloads of any length and any bytes.
THEOREM AcceptsOnlyIntact == TamperedOnce /\ Spec => []AcceptedIsIntact
<1>1. PacketInv /\ TamperedOnce => AcceptedIsIntact
  BY DEF PacketInv
<1>2. TamperedOnce => TamperedOnce'
  BY DEF TamperedOnce
<1> QED BY <1>1, <1>2, PacketsHold, PTL DEF Spec

\* A packet that the link leaves alone comes back field for field, if its type
\* is one.
THEOREM RoundTrips == Spec => []RoundTrip
<1>1. PacketInv => RoundTrip
  BY DEF PacketInv
<1> QED BY <1>1, PacketsHold, PTL

\* A datagram cut off by a router is refused as damaged (packet.c:139-141), which
\* is not what packet.h:68 says: the CRC of the header covers the TR bit.
THEOREM RefusesTruncated == Spec => []TruncatedIsRefused
<1>1. PacketInv => TruncatedIsRefused
  BY DEF PacketInv
<1> QED BY <1>1, PacketsHold, PTL

=============================================================================
