--------------------------- MODULE PacketsProofs ---------------------------
(***************************************************************************)
(* Proofs about the bytes of a beacon, for every id and count of 32 bits,  *)
(* every name and every RES_BUFF: a reader stays within the datagram, and  *)
(* reads what was written.                                                 *)
(***************************************************************************)
EXTENDS Packets, TLAPS

(* Division by 256, once and repeated.                                     *)
LEMMA Quotients ==
  ASSUME NEW n \in Nat
  PROVE  /\ n \div 256 \in Nat /\ n % 256 \in Byte
         /\ n = 256 * (n \div 256) + (n % 256)
         /\ n \div Third = (n \div 256) \div 256
         /\ n \div Fourth = ((n \div 256) \div 256) \div 256
<1>1. n \div 256 \in Nat /\ n % 256 \in Byte /\ n = 256 * (n \div 256) + (n % 256)
  BY DEF Byte
<1>2. n \div Third = (n \div 256) \div 256
  BY DEF Third
<1>3. n \div Fourth = ((n \div 256) \div 256) \div 256
  BY DEF Fourth
<1> QED BY <1>1, <1>2, <1>3

(* The four bytes of a word are bytes, and make the word.                  *)
LEMMA WordBytesAre ==
  ASSUME NEW n \in Words
  PROVE  LET w == WordBytes(n)
         IN  /\ w[1] \in Byte /\ w[2] \in Byte /\ w[3] \in Byte /\ w[4] \in Byte
             /\ n = Fourth * w[1] + Third * w[2] + 256 * w[3] + w[4]
<1> DEFINE q == n \div 256
           s == q \div 256
           t == s \div 256
<1>1. n \in Nat /\ n \div Fourth \in Byte
  BY PacketAssumption
<1>2. q \in Nat /\ n % 256 \in Byte /\ n = 256 * q + (n % 256)
  BY <1>1, Quotients
<1>3. s \in Nat /\ q % 256 \in Byte /\ q = 256 * s + (q % 256)
  BY <1>2, Quotients
<1>4. t \in Nat /\ s % 256 \in Byte /\ s = 256 * t + (s % 256)
  BY <1>3, Quotients
<1>5. n \div Third = s /\ n \div Fourth = t
  BY <1>1, Quotients
<1>6. t \in Byte /\ t % 256 = t
  BY <1>1, <1>4, <1>5 DEF Byte
<1>7. WordBytes(n) = <<t, s % 256, q % 256, n % 256>>
  BY <1>5, <1>6 DEF WordBytes
<1> HIDE DEF q, s, t
<1>8. n = Fourth * t + Third * (s % 256) + 256 * (q % 256) + (n % 256)
  <2>1. n = 256 * (256 * (256 * t + (s % 256)) + (q % 256)) + (n % 256)
    BY <1>2, <1>3, <1>4
  <2> QED BY <2>1, <1>1, <1>2, <1>3, <1>4 DEF Byte, Third, Fourth
<1> QED BY <1>2, <1>3, <1>4, <1>6, <1>7, <1>8

(* Reading the four bytes of a word gives the word.                        *)
LEMMA WordRoundTrip ==
  ASSUME NEW n \in Words, NEW b \in Seq(Byte), NEW i \in Nat,
         \A k \in 1 .. 4 : b[i + k - 1] = WordBytes(n)[k]
  PROVE  WordAt(b, i) = n
<1>1. /\ b[i] = WordBytes(n)[1] /\ b[i + 1] = WordBytes(n)[2]
      /\ b[i + 2] = WordBytes(n)[3] /\ b[i + 3] = WordBytes(n)[4]
  OBVIOUS
<1> QED BY <1>1, WordBytesAre DEF WordAt

(* What build writes of a name.                                            *)
LEMMA NameBytesAre ==
  ASSUME NEW r \in Names
  PROVE  /\ r \in Seq(Byte \ {0})
         /\ NameBytes(r) \in Seq(Byte)
         /\ Len(r) > ResBuff => Len(NameBytes(r)) = ResBuff
         /\ Len(r) <= ResBuff => /\ Len(NameBytes(r)) = Len(r) + 1
                                 /\ NameBytes(r)[Len(r) + 1] = 0
         /\ \A k \in 1 .. Len(r) : k <= ResBuff => NameBytes(r)[k] = r[k]
<1>1. r \in Seq(Byte \ {0}) /\ r \in Seq(Byte)
  BY PacketAssumption
<1>2. CASE Len(r) > ResBuff
  BY <1>1, <1>2, PacketAssumption DEF NameBytes
<1>3. CASE Len(r) <= ResBuff
  BY <1>1, <1>3, PacketAssumption DEF NameBytes, Byte
<1> QED BY <1>1, <1>2, <1>3, PacketAssumption

(* The datagram of a packet: ten bytes, then those of the name.            *)
LEMMA BuildIs ==
  ASSUME NEW p \in Packet
  PROVE  /\ Build(p) \in Seq(Byte)
         /\ Len(Build(p)) = 10 + Len(NameBytes(p.resource))
         /\ \A k \in 1 .. 10 : Build(p)[k] = Head10(p)[k]
         /\ \A k \in 1 .. Len(NameBytes(p.resource)) :
              Build(p)[10 + k] = NameBytes(p.resource)[k]
<1>1. /\ p.member_id \in Words /\ p.count \in Words
      /\ p.state \in Byte /\ p.options \in Byte
  <2>1. /\ p.member_id \in Words /\ p.count \in Words
        /\ p.state \in States /\ p.options \in Options
    BY DEF Packet
  <2>2. States \subseteq Byte /\ Options \subseteq Byte
    BY PacketAssumption DEF Options, Byte
  <2> QED BY <2>1, <2>2
<1>2. Head10(p) \in Seq(Byte) /\ Len(Head10(p)) = 10
  BY <1>1, WordBytesAre DEF Head10
<1>3. NameBytes(p.resource) \in Seq(Byte)
  BY NameBytesAre DEF Packet
<1>4. PICK n : n = 10
  OBVIOUS
<1>5. Head10(p) \in Seq(Byte) /\ Len(Head10(p)) = n
  BY <1>2, <1>4
<1>6. /\ Build(p) \in Seq(Byte) /\ Len(Build(p)) = n + Len(NameBytes(p.resource))
      /\ \A k \in 1 .. n : Build(p)[k] = Head10(p)[k]
      /\ \A k \in 1 .. Len(NameBytes(p.resource)) :
           Build(p)[n + k] = NameBytes(p.resource)[k]
  BY <1>3, <1>5, SMT DEF Build
<1> QED BY <1>4, <1>6, Zenon

(* The fields of the head are read as they were written.                   *)
LEMMA HeadIsRead ==
  ASSUME NEW p \in Packet, NEW b, b = Build(p)
  PROVE  /\ b[1] = p.state /\ b[10] = p.options
         /\ WordAt(b, 2) = p.member_id /\ WordAt(b, 6) = p.count
<1>1. /\ b \in Seq(Byte)
      /\ \A k \in 1 .. 10 : b[k] = Head10(p)[k]
  BY BuildIs
<1>2. p.member_id \in Words /\ p.count \in Words
  BY DEF Packet
<1>3. /\ b[1] = p.state /\ b[10] = p.options
      /\ \A k \in 1 .. 4 : b[2 + k - 1] = WordBytes(p.member_id)[k]
      /\ \A k \in 1 .. 4 : b[6 + k - 1] = WordBytes(p.count)[k]
  BY <1>1 DEF Head10
<1> QED BY <1>1, <1>2, <1>3, WordRoundTrip

-----------------------------------------------------------------------------
(* The invariant: what has been read so far is what was written.           *)
HeadRead ==
  /\ got.state = pkt.state /\ got.options = pkt.options
  /\ got.member_id = pkt.member_id /\ got.count = pkt.count

Reading ==
  /\ buffer = Build(pkt)
  /\ HeadRead
  /\ got = [state |-> got.state, member_id |-> got.member_id, count |-> got.count,
            options |-> got.options, resource |-> got.resource]
  /\ got.resource \in Seq(Byte)
  /\ it = 11 + Len(got.resource)
  /\ Len(got.resource) < ResBuff
  /\ Len(got.resource) <= Len(pkt.resource)
  /\ \A k \in 1 .. Len(got.resource) : got.resource[k] = pkt.resource[k]

Inv ==
  /\ pkt \in Packet
  /\ pc \in {"send", "head", "name", "read"}
  /\ pc = "head" => buffer = Build(pkt) /\ it = 1
  /\ pc = "name" => Reading
  /\ Received

(* The first byte of a name follows the head.                              *)
LEMMA NextByte ==
  ASSUME Inv, pc = "name"
  PROVE  /\ it <= Len(buffer)
         /\ buffer[it] \in Byte
         /\ IF Len(got.resource) = Len(pkt.resource)
              THEN buffer[it] = 0
              ELSE /\ buffer[it] = pkt.resource[Len(got.resource) + 1]
                   /\ buffer[it] # 0
<1> DEFINE r == pkt.resource
           k == Len(got.resource) + 1
<1>1. /\ pkt \in Packet /\ r \in Names /\ Reading /\ got.resource \in Seq(Byte)
      /\ k \in Nat \ {0} /\ k <= ResBuff /\ it = 10 + k
  BY PacketAssumption DEF Inv, Packet, Reading
<1>2. r \in Seq(Byte \ {0}) /\ Len(r) \in Nat /\ k <= Len(r) + 1
  BY <1>1, NameBytesAre DEF Reading
<1>3. /\ NameBytes(r) \in Seq(Byte)
      /\ k \in 1 .. Len(NameBytes(r))
      /\ IF k = Len(r) + 1 THEN NameBytes(r)[k] = 0 ELSE NameBytes(r)[k] = r[k]
  <2> DEFINE b == NameBytes(r)
  <2>1. /\ b \in Seq(Byte)
        /\ Len(r) > ResBuff => Len(b) = ResBuff
        /\ Len(r) <= ResBuff => Len(b) = Len(r) + 1 /\ b[Len(r) + 1] = 0
        /\ \A l \in 1 .. Len(r) : l <= ResBuff => b[l] = r[l]
    BY <1>1, NameBytesAre
  <2> HIDE DEF b, k, r
  <2>2. k \in 1 .. Len(b)
    BY <1>1, <1>2, <2>1, PacketAssumption
  <2>3. CASE k = Len(r) + 1
    <3>1. Len(r) <= ResBuff
      BY <1>1, <1>2, <2>3, PacketAssumption
    <3> QED BY <2>1, <2>2, <2>3, <3>1 DEF b
  <2>4. CASE k # Len(r) + 1
    <3>1. k \in 1 .. Len(r) /\ k <= ResBuff
      BY <1>1, <1>2, <2>4, PacketAssumption
    <3> QED BY <2>1, <2>2, <2>4, <3>1 DEF b
  <2> QED BY <2>3, <2>4
<1>4. buffer[it] = NameBytes(r)[k] /\ it <= Len(buffer)
  <2> HIDE DEF k, r
  <2>1. buffer = Build(pkt)
    BY <1>1 DEF Reading
  <2>2. /\ Len(Build(pkt)) = 10 + Len(NameBytes(r)) /\ Len(NameBytes(r)) \in Nat
        /\ Build(pkt)[10 + k] = NameBytes(r)[k]
    BY <1>1, <1>3, BuildIs DEF r
  <2> QED BY <1>1, <1>3, <2>1, <2>2
<1>5. k # Len(r) + 1 => r[k] \in Byte \ {0}
  BY <1>1, <1>2
<1> QED BY <1>1, <1>2, <1>3, <1>4, <1>5

(* InBounds follows from the invariant.                                    *)
LEMMA InvInBounds == Inv => InBounds
<1> SUFFICES ASSUME Inv PROVE InBounds
  OBVIOUS
<1>1. pc = "head" => Len(buffer) >= 10
  <2> SUFFICES ASSUME pc = "head" PROVE Len(Build(pkt)) >= 10
    BY DEF Inv
  <2>1. pkt \in Packet /\ Len(NameBytes(pkt.resource)) \in Nat
    BY NameBytesAre DEF Inv, Packet
  <2> QED BY <2>1, BuildIs
<1>2. pc = "name" => it <= Len(buffer)
  BY NextByte
<1> QED BY <1>1, <1>2 DEF InBounds

(* Every step keeps the invariant.                                         *)
LEMMA InvStep == Inv /\ [Next]_vars => Inv'
<1> SUFFICES ASSUME Inv, [Next]_vars PROVE Inv'
  OBVIOUS
<1>1. CASE Send
  BY <1>1 DEF Send, Inv, Received
<1>2. CASE ReadHead
  <2>1. buffer = Build(pkt) /\ pkt \in Packet /\ it = 1
    BY <1>2 DEF ReadHead, Inv
  <2>2. /\ buffer[1] = pkt.state /\ buffer[10] = pkt.options
        /\ WordAt(buffer, 2) = pkt.member_id /\ WordAt(buffer, 6) = pkt.count
    BY <2>1, HeadIsRead
  <2>3. Len(pkt.resource) \in Nat
    BY <2>1, NameBytesAre DEF Packet
  <2>4. HeadRead'
    BY <1>2, <2>2 DEF ReadHead, HeadRead
  <2>5. Reading'
    BY <1>2, <2>1, <2>3, <2>4, PacketAssumption DEF ReadHead, Reading
  <2> QED BY <1>2, <2>5 DEF ReadHead, Inv, Received
<1>3. CASE ReadName
  <2> DEFINE g == got.resource
             r == pkt.resource
  <2>1. /\ pc = "name" /\ Reading /\ pkt \in Packet
        /\ g \in Seq(Byte) /\ r \in Seq(Byte \ {0})
        /\ Len(g) \in Nat /\ Len(r) \in Nat
    BY <1>3, NameBytesAre DEF ReadName, Inv, Reading, Packet
  <2>2. CASE buffer[it] = 0
    <3>1. Len(g) = Len(r)
      BY <2>1, <2>2, NextByte
    <3>2. g = r /\ Len(r) <= ResBuff
      BY <2>1, <3>1, PacketAssumption DEF Reading
    <3> QED BY <1>3, <2>1, <2>2, <3>2 DEF ReadName, Inv, Received, Reading, HeadRead
  <2>3. CASE buffer[it] # 0
    <3> DEFINE h == Append(g, buffer[it])
    <3>1. /\ Len(g) < Len(r) /\ buffer[it] = r[Len(g) + 1] /\ buffer[it] \in Byte
      BY <2>1, <2>3, NextByte DEF Reading
    <3>2. /\ h \in Seq(Byte) /\ Len(h) = Len(g) + 1 /\ Len(h) <= Len(r)
          /\ \A k \in 1 .. Len(h) : h[k] = r[k]
      BY <2>1, <3>1 DEF Reading
    <3>3. /\ got' = [got EXCEPT !.resource = h] /\ it' = it + 1
          /\ pkt' = pkt /\ buffer' = buffer
          /\ pc' = IF Len(g) + 1 = ResBuff THEN "read" ELSE "name"
      BY <1>3, <2>3 DEF ReadName
    <3>4. HeadRead' /\ got'.resource = h
      BY <2>1, <3>3 DEF Reading, HeadRead
    <3>5. CASE Len(g) + 1 = ResBuff
      <4>1. Len(h) = ResBuff /\ ResBuff \in Nat
        BY <3>2, <3>5, PacketAssumption
      <4>2. IF Len(r) <= ResBuff THEN h = r ELSE h = SubSeq(r, 1, ResBuff)
        BY <2>1, <3>2, <4>1
      <4> QED BY <2>1, <3>3, <3>4, <3>5, <4>2 DEF Inv, Received, HeadRead
    <3>6. CASE Len(g) + 1 # ResBuff
      <4>1. Len(h) < ResBuff /\ it' = 11 + Len(h)
        BY <2>1, <3>2, <3>3, <3>6, PacketAssumption DEF Reading
      <4>2. Reading'
        BY <2>1, <3>2, <3>3, <3>4, <4>1 DEF Reading
      <4> QED BY <2>1, <3>3, <3>6, <4>2 DEF Inv, Received
    <3> QED BY <3>5, <3>6
  <2> QED BY <2>2, <2>3
<1>4. CASE Make
  BY <1>4 DEF Make, Inv, Received
<1>5. CASE UNCHANGED vars
  BY <1>5 DEF vars, Inv, Reading, HeadRead, Received
<1> QED BY <1>1, <1>2, <1>3, <1>4, <1>5 DEF Next

(* For any names, words and RES_BUFF, no read of a beacon goes past the    *)
(* end of its datagram (the constructor of DLPacket).                      *)
THEOREM StaysInBounds == Spec => []InBounds
<1>1. Init => Inv
  BY DEF Init, Inv, Received
<1> QED BY <1>1, InvStep, InvInBounds, PTL DEF Spec

(* For any names, words and RES_BUFF, a beacon is received as it was sent, *)
(* but for the end of a name that is too long (build and the constructor). *)
THEOREM ReceivedAsSent == Spec => []Received
<1>1. Init => Inv
  BY DEF Init, Inv, Received
<1>2. Inv => Received
  BY DEF Inv
<1> QED BY <1>1, <1>2, InvStep, PTL DEF Spec
=============================================================================
