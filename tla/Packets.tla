------------------------------ MODULE Packets ------------------------------
(***************************************************************************)
(* The bytes of a beacon: how DLPacket::build lays a packet out, how       *)
(* UDPSocket sends and receives them, and how the constructor of DLPacket  *)
(* reads them back through the iterator of Packet.                         *)
(*                                                                         *)
(* One packet is on its way at a time.  The name of a resource is read one *)
(* byte per step, the ten bytes before it in one step.  A character of a   *)
(* name is a byte that is not zero; nothing depends on which.              *)
(***************************************************************************)
EXTENDS Integers, Sequences

CONSTANTS
  States,     \* the values of Resource::State, a byte each
  Words,      \* the unsigned ints used as ids and counts
  Names,      \* the names of resources
  ResBuff     \* RES_BUFF

Byte == 0 .. 255

(* The weights of the two higher bytes of a word.                          *)
Third == 256 * 256
Fourth == 256 * 256 * 256

(* A word has four bytes: what is above its last three is a byte.          *)
ASSUME PacketAssumption ==
  /\ States \subseteq Byte
  /\ \A n \in Words : n \in Nat /\ n \div Fourth \in Byte
  /\ Names \subseteq Seq(Byte \ {0})
  /\ ResBuff \in Nat \ {0}

VARIABLES
  pc,      \* what is done next with the packet
  pkt,     \* the packet that is sent
  buffer,  \* Packet::buffer of the packet that is received
  it,      \* Packet::it, as a position in the buffer
  got      \* the fields of the packet that is received

vars == <<pc, pkt, buffer, it, got>>

(* The bits RETRY and BEACON are never set: nothing calls setOption.       *)
Options == {0}

Packet == [state : States, member_id : Words, count : Words, options : Options,
           resource : Names]

-----------------------------------------------------------------------------
(* Mutant of WordBytes: the two middle bytes change places.                *)
WordBytesSwapped(n) == <<(n \div Fourth) % 256, (n \div 256) % 256,
                         (n \div Third) % 256, n % 256>>

(* operator << and operator >> of an unsigned int: the high byte first.    *)
WordBytes(n) == <<(n \div Fourth) % 256, (n \div Third) % 256,
                  (n \div 256) % 256, n % 256>>

WordAt(b, i) == Fourth * b[i] + Third * b[i + 1] + 256 * b[i + 2] + b[i + 3]

(* Mutant of NameBytes: no final zero.                                     *)
NameBytesBare(r) == IF Len(r) > ResBuff THEN SubSeq(r, 1, ResBuff) ELSE r

(* What build writes of a name: a final zero, if the name is not too long. *)
NameBytes(r) == IF Len(r) > ResBuff THEN SubSeq(r, 1, ResBuff) ELSE Append(r, 0)

Head10(p) ==
  LET m == WordBytes(p.member_id)
      c == WordBytes(p.count)
  IN  <<p.state, m[1], m[2], m[3], m[4], c[1], c[2], c[3], c[4], p.options>>

Build(p) == Head10(p) \o NameBytes(p.resource)

Unread == [state |-> 0, member_id |-> 0, count |-> 0, options |-> 0,
           resource |-> <<>>]

-----------------------------------------------------------------------------
(* The packet is built and sent, and its bytes fill a datagram that begins *)
(* to be read.                                                             *)
Send ==
  /\ pc = "send"
  /\ buffer' = Build(pkt)
  /\ it' = 1
  /\ pc' = "head"
  /\ UNCHANGED <<pkt, got>>

ReadHead ==
  /\ pc = "head"
  /\ got' = [state |-> buffer[1], member_id |-> WordAt(buffer, 2),
             count |-> WordAt(buffer, 6), options |-> buffer[10],
             resource |-> <<>>]
  /\ it' = it + 10
  /\ pc' = "name"
  /\ UNCHANGED <<pkt, buffer>>

(* One turn of the loop over at most ResBuff bytes, which ends at a zero.  *)
ReadName ==
  /\ pc = "name"
  /\ it' = it + 1
  /\ IF buffer[it] = 0
       THEN pc' = "read" /\ got' = got
       ELSE /\ got' = [got EXCEPT !.resource = Append(@, buffer[it])]
            /\ pc' = IF Len(got.resource) + 1 = ResBuff THEN "read" ELSE "name"
  /\ UNCHANGED <<pkt, buffer>>

(* The packet has been handed over and is deleted; another one is made.    *)
Make ==
  /\ pc = "read"
  /\ pkt' \in Packet
  /\ buffer' = <<>> /\ it' = 1 /\ got' = Unread
  /\ pc' = "send"

Init ==
  /\ pkt \in Packet
  /\ buffer = <<>> /\ it = 1 /\ got = Unread
  /\ pc = "send"

Next == Send \/ ReadHead \/ ReadName \/ Make

Spec == Init /\ [][Next]_vars

-----------------------------------------------------------------------------
(* No read of a datagram of this program goes past its end: a name ends    *)
(* with a zero, or the reader stops at ResBuff bytes (DLPacket.cc, the     *)
(* constructor; operator >> of Packet checks nothing).                     *)
InBounds ==
  /\ pc = "head" => Len(buffer) >= 10
  /\ pc = "name" => it <= Len(buffer)

(* A packet is received as it was sent, but for a name that is longer than *)
(* ResBuff, which arrives cut and is never taken for the resource that was *)
(* meant: the processes that use it do not hear of each other.             *)
Received ==
  pc = "read" =>
    /\ got.state = pkt.state /\ got.options = pkt.options
    /\ got.member_id = pkt.member_id /\ got.count = pkt.count
    /\ IF Len(pkt.resource) <= ResBuff
         THEN got.resource = pkt.resource
         ELSE got.resource = SubSeq(pkt.resource, 1, ResBuff)
=============================================================================
