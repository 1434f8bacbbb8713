-------------------------- MODULE DecodePathProofs --------------------------
(***************************************************************************)
(* What DecodePath promises, for any packets, bounds, capacity and width   *)
(* of int.  The invariant has four parts: the packet in hand and the one   *)
(* being sent are what was read, and newer than all in the codec (Origin); *)
(* a context out of reach belongs to an Open that failed (Contexts); where *)
(* a call stands says what the codec holds (Course); and the types.  On it *)
(* rests a second one, about the order of the frames: what was shown, what *)
(* the codec holds and what is to be sent stand in a line (InLine).        *)
(***************************************************************************)
EXTENDS DecodePath, TLAPS

\* What libav read is one of its packets, with its number.
WasRead == \E kind \in AVPackets, n \in 0..MaxReads : av = Read(kind, n)

\* The bytes, time and duration libav read, and the room the bytes need.
Carries(p) ==
  /\ p.size <= p.room
  /\ ~edited =>
       /\ p.data = <<av.piece>> /\ p.size = av.size
       /\ p.pts = av.pts
       /\ av.duration \in IntRange => p.duration = av.duration

\* Its bytes begin with those read last, which no packet in the codec has.
Fresh(p) == newest < av.pts /\ (p.data = << >> \/ Head(p.data).no = av.pts)

\* The packet sent last, which a Flush may send again, is not the one in hand.
Resendable ==
  m_avpacket.data # << >> =>
    /\ Head(m_avpacket.data).no <= av.pts
    /\ pkt # NoPacket => Head(m_avpacket.data).no < av.pts

Origin ==
  /\ WasRead
  /\ newest <= av.pts
  /\ pkt # NoPacket => Carries(pkt) /\ Fresh(pkt)
  /\ call = "decode" => pkt = NoPacket
  /\ at \in {"send", "drain", "resend"} /\ call = "decode" =>
       Carries(m_avpacket) /\ Fresh(m_avpacket)
  /\ Resendable

\* A context that nobody can close belongs to an Open that failed.
Contexts ==
  /\ m_isReady => m_codecContext = "opened" /\ ~m_needToStop
  /\ leaked <= failed
  /\ m_codecContext # "null" /\ ~m_isReady => leaked < failed

InCodec == {"send", "drain", "resend", "receive"}

Course ==
  /\ at \in InCodec => m_isReady /\ call # "none"
  /\ at = "idle" => call = "none"
  /\ at = "flush" => call = "flush"
  /\ call = "flush" => answer = "none"
  /\ codec.draining => call = "flush" /\ at \in {"receive", "flush"} /\ m_isReady
  /\ at \in {"drain", "resend"} => troubled
  /\ at \in {"idle", "send", "resend", "flush"} => troubled \/ codec.ready = 0
  /\ at = "receive" /\ call = "decode" => given
  /\ TrueMeansGiven

IInv == TypeOK /\ Origin /\ MarksSurvive /\ Contexts /\ Course

----------------------------------------------------------------------------
(* Packets.                                                                 *)

\* A small number is its own remainder.
LEMMA SmallMod ==
  ASSUME NEW N \in Nat \ {0}, NEW x \in 0..(N - 1)
  PROVE  x % N = x
OBVIOUS

\* The range of a remainder.
LEMMA ModRange ==
  ASSUME NEW N \in Nat \ {0}, NEW x \in Int
  PROVE  x % N \in 0..(N - 1)
OBVIOUS

\* What becomes of a duration: an int, and itself if it is one.
LEMMA IntIsInt ==
  ASSUME NEW n \in Int
  PROVE  /\ int(n) \in IntRange
         /\ n \in IntRange => int(n) = n
<1> DEFINE N == 2 * IntHalf
<1>1. N \in Nat \ {0} /\ IntHalf \in Nat
  BY IntAssumption
<1>2. n + IntHalf \in Int
  BY <1>1
<1> HIDE DEF N
<1>3. (n + IntHalf) % N \in 0..(N - 1)
  BY <1>1, <1>2, ModRange
<1>4. n \in IntRange => (n + IntHalf) % N = n + IntHalf
  <2> SUFFICES ASSUME n \in IntRange
               PROVE  n + IntHalf \in 0..(N - 1)
    BY <1>1, SmallMod
  <2> QED
    BY <1>1 DEF IntRange, N
<1>5. int(n) = ((n + IntHalf) % N) - IntHalf
  BY DEF int, N
<1> QED
  BY <1>1, <1>3, <1>4, <1>5 DEF N, IntRange

SeenIn(piece) == {"VideoPacket"} \cup (IF piece.idr THEN {"HasKeyFrame"} ELSE {})

\* checkData sees to the flags only.
LEMMA Checked ==
  ASSUME NEW p \in Packets
  PROVE  /\ checkData(p) \in Packets
         /\ checkData(p).data = p.data /\ checkData(p).size = p.size
         /\ checkData(p).room = p.room
         /\ checkData(p).pts = p.pts /\ checkData(p).duration = p.duration
         /\ "VideoPacket" \in p.flags => checkData(p).flags = SeenIn(Head(p.data))
<1> DEFINE kind == IF "VideoPacket" \in p.flags THEN {"VideoPacket"}
                   ELSE p.flags \cap {"AudioPacket"}
           key == IF kind # {"AudioPacket"} /\ Head(p.data).idr
                  THEN {"HasKeyFrame"} ELSE {}
<1>1. checkData(p) = [p EXCEPT !.flags = kind \cup key]
  BY DEF checkData
<1>2. kind \cup key \in SUBSET PacketFlags
  BY DEF Packets, Data, PacketFlags
<1>3. "VideoPacket" \in p.flags => kind \cup key = SeenIn(Head(p.data))
  BY DEF SeenIn
<1> HIDE DEF kind, key
<1> QED
  BY <1>1, <1>2, <1>3 DEF Packets, Data

\* resize makes room and changes nothing else.
LEMMA Resized ==
  ASSUME NEW p \in Packets, NEW n \in Nat
  PROVE  /\ Resize(p, n) \in Packets /\ n <= Resize(p, n).room
         /\ Resize(p, n).data = p.data /\ Resize(p, n).size = p.size
         /\ Resize(p, n).pts = p.pts /\ Resize(p, n).duration = p.duration
         /\ Resize(p, n).flags = p.flags
<1> DEFINE m == IF p.room < n THEN n ELSE p.room
<1>1. m \in Nat /\ n <= m
  BY DEF Packets, Data
<1>2. Resize(p, n) = [p EXCEPT !.room = m]
  BY DEF Resize
<1> HIDE DEF m
<1> QED
  BY <1>1, <1>2 DEF Packets, Data

\* Store replaces the bytes, with room enough.
LEMMA Stored ==
  ASSUME NEW p \in Packets, NEW piece \in Pieces, NEW n \in Nat
  PROVE  /\ Store(p, piece, n) \in Packets
         /\ Store(p, piece, n).data = <<piece>> /\ Store(p, piece, n).size = n
         /\ n <= Store(p, piece, n).room
         /\ Store(p, piece, n).pts = p.pts
         /\ Store(p, piece, n).duration = p.duration
         /\ "VideoPacket" \in p.flags => Store(p, piece, n).flags = SeenIn(piece)
<1> DEFINE r == Resize(p, n)
           q == [r EXCEPT !.data = <<piece>>, !.size = n]
<1>1. /\ r \in Packets /\ n <= r.room
      /\ r.pts = p.pts /\ r.duration = p.duration /\ r.flags = p.flags
  BY Resized
<1>2. <<piece>> \in Seq(Pieces)
  OBVIOUS
<1>3. Store(p, piece, n) = checkData(q)
  BY DEF Store
<1> HIDE DEF r
<1>4. /\ q \in Packets /\ q.data = <<piece>> /\ q.size = n /\ n <= q.room
      /\ q.pts = p.pts /\ q.duration = p.duration /\ q.flags = p.flags
  BY <1>1, <1>2 DEF Packets, Data
<1>5. Head(q.data) = piece
  BY <1>4
<1> HIDE DEF q
<1> QED
  BY <1>3, <1>4, <1>5, Checked

\* Add appends to them, with room enough.
LEMMA Added ==
  ASSUME NEW p \in Packets, NEW piece \in Pieces, NEW n \in Nat
  PROVE  /\ Add(p, piece, n) \in Packets
         /\ Add(p, piece, n).data = Append(p.data, piece)
         /\ Add(p, piece, n).size <= Add(p, piece, n).room
<1> DEFINE r == Resize(p, p.size + n)
           d == Append(p.data, piece)
           q == [r EXCEPT !.data = Append(@, piece), !.size = @ + n]
<1>1. p.size + n \in Nat /\ p.data \in Seq(Pieces) /\ p.size \in Nat
  BY DEF Packets, Data
<1>2. /\ r \in Packets /\ p.size + n <= r.room
      /\ r.data = p.data /\ r.size = p.size
  BY <1>1, Resized
<1>3. Add(p, piece, n) = checkData(q)
  BY DEF Add
<1>4. q = [r EXCEPT !.data = d, !.size = p.size + n]
  BY <1>2
<1>5. d \in Seq(Pieces)
  BY <1>1
<1> HIDE DEF r, d
<1>6. q \in Packets /\ q.data = d /\ q.size <= q.room
  BY <1>1, <1>2, <1>4, <1>5 DEF Packets, Data
<1> HIDE DEF q
<1> QED
  BY <1>3, <1>6, Checked DEF d

\* A clone has everything.
LEMMA Cloned ==
  ASSUME NEW p \in Packets
  PROVE  Clone(p) = p
BY DEF Clone, Empty, Packets, Data

\* What a client may do to a packet leaves one.
LEMMA Edited ==
  ASSUME NEW p \in Packets, NEW flag \in PacketFlags
  PROVE  /\ AddFlag(p, flag) \in Packets /\ RemoveFlag(p, flag) \in Packets
         /\ AddFlag(p, flag).data = p.data /\ RemoveFlag(p, flag).data = p.data
         /\ AddFlag(p, flag).size = p.size /\ RemoveFlag(p, flag).size = p.size
         /\ AddFlag(p, flag).room = p.room /\ RemoveFlag(p, flag).room = p.room
BY DEF AddFlag, RemoveFlag, Packets, Data

\* Clear leaves no bytes.
LEMMA Cleared ==
  ASSUME NEW p \in Packets
  PROVE  /\ Clear(p) \in Packets /\ Clear(p).data = << >>
         /\ Clear(p).size <= Clear(p).room
<1>1. << >> \in Seq(Pieces) /\ {} \in SUBSET PacketFlags /\ 0 \in 0..MaxReads
  BY BoundsAssumption
<1>2. 0 \in Nat /\ 0 <= 0
  OBVIOUS
<1> QED
  BY <1>1, <1>2 DEF Clear, Packets, Data

\* The packet made of what libav read.
LEMMA Created ==
  ASSUME NEW kind \in AVPackets, NEW n \in 0..MaxReads,
         NEW a, a = Read(kind, n)
  PROVE  /\ PacketRead(a) \in Packets
         /\ PacketRead(a).data = <<a.piece>> /\ PacketRead(a).size = a.size
         /\ PacketRead(a).size <= PacketRead(a).room
         /\ PacketRead(a).pts = a.pts
         /\ a.duration \in IntRange => PacketRead(a).duration = a.duration
         /\ PacketRead(a).flags = SeenIn(a.piece) \cup Marks(a)
<1> DEFINE e == Empty("VideoPacket")
           q == Store(e, a.piece, a.size)
           f == q.flags \cup {"VideoPacket"} \cup Marks(a)
           c == [q EXCEPT !.pts = a.pts, !.flags = f]
<1>1. /\ a.piece \in Pieces /\ a.size \in Nat /\ a.pts \in 0..MaxReads
      /\ a.duration \in Int
  BY AVPacketsAssumption DEF Read, Pieces
<1>2. 0 \in IntRange
  BY IntAssumption DEF IntRange
<1>3. e \in Packets /\ "VideoPacket" \in e.flags
  BY <1>2, CapacityAssumption, BoundsAssumption DEF Empty, Packets, Data, PacketFlags
<1>4. /\ int(a.duration) \in IntRange
      /\ a.duration \in IntRange => int(a.duration) = a.duration
  BY <1>1, IntIsInt
<1> HIDE DEF e
<1>5. /\ q \in Packets /\ q.data = <<a.piece>> /\ q.size = a.size
      /\ q.size <= q.room /\ q.flags = SeenIn(a.piece)
  BY <1>1, <1>3, Stored
<1>6. f \in SUBSET PacketFlags /\ f = SeenIn(a.piece) \cup Marks(a)
  BY <1>5 DEF Marks, SeenIn, PacketFlags
<1>7. CreateFromAVPacket(a, "VideoPacket") = c
  BY DEF CreateFromAVPacket, e
<1>8. PacketRead(a) = [c EXCEPT !.duration = int(a.duration), !.pts = a.pts]
  BY <1>7 DEF PacketRead
<1> HIDE DEF q, f
<1>9. /\ c \in Packets /\ c.data = q.data /\ c.size = q.size /\ c.room = q.room
      /\ c.flags = f
  BY <1>1, <1>5, <1>6 DEF Packets, Data
<1> HIDE DEF c
<1> QED
  BY <1>1, <1>4, <1>5, <1>6, <1>8, <1>9 DEF Packets, Data

----------------------------------------------------------------------------
(* The types.                                                               *)

\* The codec takes the bytes of a packet.
LEMMA TakeTypes ==
  ASSUME TypeOK, Take(m_avpacket.data)
  PROVE  /\ codec' \in Codecs /\ codec'.draining = codec.draining
         /\ newest' \in 0..MaxReads
<1> DEFINE data == m_avpacket.data
           h == Append(codec.held, data)
<1>1. /\ codec.held \in Seq(Data) /\ codec.ready \in 0..MaxHeld
      /\ codec.draining \in BOOLEAN
      /\ Len(codec.held) < MaxHeld /\ MaxHeld \in Nat
  BY HeldAssumption DEF TypeOK, Take, Codecs
<1>2. data \in Data /\ data # << >> /\ newest' = Head(data).no
  BY DEF TypeOK, Take, Packets, Nothing
<1>3. PICK n \in codec.ready..(Len(codec.held) + 1) :
        codec' = [codec EXCEPT !.held = Append(@, data), !.ready = n]
  BY DEF Take
<1> HIDE DEF data
<1>4. newest' \in 0..MaxReads
  <2>1. Head(data) \in Pieces
    BY <1>2 DEF Data
  <2> QED
    BY <1>2, <2>1 DEF Pieces
<1>5. h \in Seq(Data) /\ Len(h) = Len(codec.held) + 1
  BY <1>1, <1>2
<1>6. n \in 0..MaxHeld /\ n <= Len(codec.held) + 1
  BY <1>1
<1>7. codec' = [held |-> h, ready |-> n, draining |-> codec.draining]
  BY <1>3 DEF TypeOK, Codecs
<1> HIDE DEF h
<1> QED
  BY <1>1, <1>4, <1>5, <1>6, <1>7 DEF Codecs

\* What a codec is.
LEMMA CodecRecord ==
  ASSUME NEW t \in Seq(Data), NEW n \in 0..MaxHeld, NEW d \in BOOLEAN,
         n <= Len(t), Len(t) <= MaxHeld,
         NEW c, c = [held |-> t, ready |-> n, draining |-> d]
  PROVE  c \in Codecs /\ c.held = t /\ c.ready = n /\ c.draining = d
BY DEF Codecs

\* And gives out a frame.
LEMMA GiveTypes ==
  ASSUME TypeOK, codec.ready > 0,
         codec' = [codec EXCEPT !.held = Tail(@), !.ready = @ - 1]
  PROVE  /\ codec' \in Codecs /\ codec'.draining = codec.draining
         /\ Head(codec.held) \in Data
         /\ Len(codec'.held) < Len(codec.held)
<1> DEFINE h == codec.held
           t == Tail(h)
           n == codec.ready - 1
<1>1. /\ h \in Seq(Data) /\ codec.ready \in 0..MaxHeld
      /\ codec.draining \in BOOLEAN
      /\ codec.ready <= Len(h) /\ Len(h) <= MaxHeld /\ MaxHeld \in Nat
  BY HeldAssumption DEF TypeOK, Codecs
<1>2. h # << >> /\ Len(h) \in Nat
  BY <1>1
<1>3. codec' = [held |-> t, ready |-> n, draining |-> codec.draining]
  BY DEF TypeOK, Codecs
<1> HIDE DEF h
<1>4. t \in Seq(Data) /\ Len(t) = Len(h) - 1 /\ Head(h) \in Data
  BY <1>1, <1>2
<1> HIDE DEF t
<1>5. n \in 0..MaxHeld /\ n <= Len(h) - 1
  BY <1>1, <1>2
<1> HIDE DEF n
<1>6. Len(t) \in Nat /\ n <= Len(t) /\ Len(t) <= MaxHeld /\ Len(t) < Len(h)
  BY <1>1, <1>2, <1>4, <1>5
<1>7. codec' \in Codecs /\ codec'.held = t /\ codec'.draining = codec.draining
  <2>1. codec' = [held |-> t, ready |-> n, draining |-> codec.draining]
    BY <1>3
  <2>2. t \in Seq(Data) /\ n \in 0..MaxHeld /\ codec.draining \in BOOLEAN
    BY <1>1, <1>4, <1>5
  <2>3. n <= Len(t) /\ Len(t) <= MaxHeld
    BY <1>6
  <2> QED
    BY ONLY <2>1, <2>2, <2>3, CodecRecord
<1> QED
  BY <1>4, <1>6, <1>7 DEF h

\* Or makes all its frames ready.
LEMMA DrainTypes ==
  ASSUME TypeOK, Drain
  PROVE  codec' \in Codecs /\ codec'.draining /\ codec'.held = codec.held
<1> DEFINE n == Len(codec.held)
<1>1. /\ codec.held \in Seq(Data) /\ n \in 0..MaxHeld /\ n <= MaxHeld
  BY HeldAssumption DEF TypeOK, Codecs
<1>2. codec' = [held |-> codec.held, ready |-> n, draining |-> TRUE]
  BY DEF TypeOK, Codecs, Drain
<1> QED
  BY <1>1, <1>2 DEF Codecs

\* A codec that is new, or emptied.
LEMMA NewTypes ==
  NewCodec \in Codecs /\ NewCodec.ready = 0 /\ ~NewCodec.draining
<1>1. 0 \in 0..MaxHeld /\ 0 <= MaxHeld
  BY HeldAssumption
<1>2. << >> \in Seq(Data) /\ Len(<< >>) = 0
  OBVIOUS
<1> QED
  BY <1>1, <1>2 DEF NewCodec, Codecs

----------------------------------------------------------------------------
(* What a client does.                                                      *)

\* What was read, typed.
LEMMA Typed ==
  ASSUME WasRead
  PROVE  /\ av.pts \in 0..MaxReads /\ av.piece \in Pieces /\ av.piece.no = av.pts
         /\ av.size \in Nat
BY AVPacketsAssumption DEF WasRead, Read, Pieces

\* The next packet.
LEMMA NextRead ==
  ASSUME WasRead, ClientReads
  PROVE  /\ WasRead' /\ av'.pts = av.pts + 1
         /\ pkt' \in Packets /\ pkt'.size <= pkt'.room
         /\ pkt'.data = <<av'.piece>> /\ pkt'.size = av'.size /\ pkt'.pts = av'.pts
         /\ av'.duration \in IntRange => pkt'.duration = av'.duration
         /\ pkt'.flags = SeenIn(av'.piece) \cup Marks(av')
<1>1. PICK kind \in AVPackets : av' = Read(kind, av.pts + 1)
  BY DEF ClientReads, Number
<1>2. av.pts + 1 \in 0..MaxReads
  BY Typed, BoundsAssumption DEF ClientReads, Number
<1>3. WasRead' /\ av'.pts = av.pts + 1
  BY <1>1, <1>2 DEF WasRead, Read
<1>4. pkt' = PacketRead(av')
  BY DEF ClientReads
<1> QED
  BY <1>1, <1>2, <1>3, <1>4, Created

\* A packet that begins with the bytes read last still does so.
LEMMA NextEdit ==
  ASSUME TypeOK, WasRead, ClientEdits, pkt.size <= pkt.room,
         pkt.data = << >> \/ Head(pkt.data).no = av.pts
  PROVE  /\ pkt' \in Packets /\ pkt'.size <= pkt'.room
         /\ pkt'.data = << >> \/ Head(pkt'.data).no = av.pts
<1>1. pkt \in Packets
  BY DEF TypeOK, ClientEdits, InHand
<1>2. CASE pkt' = Add(pkt, av.piece, av.size)
  <2>1. Head(Append(pkt.data, av.piece)).no = av.pts
    BY <1>1, Typed DEF Packets, Data
  <2> QED
    BY <1>1, <1>2, <2>1, Typed, Added
<1>3. ASSUME NEW flag \in PacketFlags, pkt' \in {AddFlag(pkt, flag), RemoveFlag(pkt, flag)}
      PROVE  pkt' \in Packets /\ pkt'.data = pkt.data /\ pkt'.size = pkt.size
               /\ pkt'.room = pkt.room
  BY <1>1, <1>3, Edited
<1>4. CASE pkt' = Clear(pkt)
  BY <1>1, <1>4, Cleared
<1> QED
  BY <1>2, <1>3, <1>4 DEF ClientEdits

----------------------------------------------------------------------------
(* The parts of the invariant.                                              *)

\* Every step keeps the types.
LEMMA TypeStep ==
  ASSUME TypeOK, WasRead, Next
  PROVE  TypeOK'
<1> USE DEF TypeOK, handle, calling, told, packets
<1>1. CASE ClientOpens
  <2>1. opens' \in 0..MaxOpens
    BY <1>1, BoundsAssumption DEF ClientOpens
  <2>2. CASE OpenFails
    BY <1>1, <2>1, <2>2 DEF ClientOpens, OpenFails, NewContext
  <2>3. ASSUME NEW callback \in BOOLEAN, OpenSucceeds(callback)
        PROVE  TypeOK'
    <3>1. leaked' \in Nat /\ m_codecContext' = "opened"
      BY <2>3 DEF OpenSucceeds, NewContext
    <3>2. codec' \in Codecs
      BY <2>3, NewTypes DEF OpenSucceeds
    <3> QED
      BY <1>1, <2>1, <2>3, <3>1, <3>2 DEF ClientOpens, OpenSucceeds
  <2> QED
    BY <1>1, <2>2, <2>3 DEF ClientOpens
<1>2. CASE ClientCloses
  BY <1>2, NewTypes DEF ClientCloses, Close
<1>3. CASE ClientReads
  BY <1>3, NextRead DEF ClientReads, decoderVars
<1>4. CASE ClientClones
  BY <1>4, Cloned DEF ClientClones, InHand, decoderVars
<1>5. CASE ClientEdits
  <2>1. pkt \in Packets
    BY <1>5 DEF ClientEdits, InHand
  <2>2. pkt' \in Packets
    BY <1>5, <2>1, Typed, Added, Edited, Cleared DEF ClientEdits
  <2> QED
    BY <1>5, <2>2 DEF ClientEdits, decoderVars
<1>6. CASE ClientDecodes
  <2>1. m_avpacket' \in Packets /\ pkt' \in Packets \cup {NoPacket}
    BY <1>6 DEF ClientDecodes, InHand, Decode
  <2> QED
    BY <1>6, <2>1 DEF ClientDecodes, Decode
<1>7. CASE ClientFlushes
  BY <1>7 DEF ClientFlushes, Flush
<1>8. CASE (SendTaken \/ ResendTaken) /\ UNCHANGED <<packets, opens>>
  BY <1>8, TakeTypes DEF SendTaken, ResendTaken
<1>9. CASE SendNull /\ UNCHANGED <<packets, opens>>
  <2>1. Drain
    BY <1>9 DEF SendNull
  <2>2. newest' = newest
    BY <2>1 DEF Drain
  <2> QED
    BY <1>9, <2>1, <2>2, DrainTypes DEF SendNull
<1>10. CASE (SendAgain \/ SendFails \/ ResendFails) /\ UNCHANGED <<packets, opens>>
  BY <1>10 DEF SendAgain, SendFails, ResendFails, Return
<1>11. CASE (Receive \/ ReceiveFails) /\ UNCHANGED <<packets, opens>>
  <2>1. CASE UNCHANGED codec /\ ReceiveFails
    BY <1>11, <2>1 DEF ReceiveFails, Return
  <2>2. CASE codec.ready > 0 /\ codec' = [codec EXCEPT !.held = Tail(@), !.ready = @ - 1]
    <3>1. codec' \in Codecs /\ Head(codec.held) \in Data
      BY <2>2, GiveTypes
    <3>2. CASE Receive
      BY <1>11, <3>1, <3>2 DEF Receive
    <3>3. CASE ReceiveFails
      BY <1>11, <3>1, <3>3 DEF ReceiveFails, Return
    <3> QED
      BY <1>11, <3>2, <3>3
  <2> QED
    BY <1>11, <2>1, <2>2 DEF Receive, ReceiveFails
<1>12. CASE ReceiveNone /\ UNCHANGED <<packets, opens>>
  <2>1. UNCHANGED <<handle, m_avpacket, codec, given, newest, shown, packets, opens>>
    BY <1>12 DEF ReceiveNone
  <2>2. /\ at' \in {"send", "idle", "drain", "resend", "receive", "flush"}
        /\ call' \in {"none", "decode", "flush"}
    BY <1>12 DEF ReceiveNone, Return
  <2>3. answer' \in {"none", "true", "false"} /\ troubled' \in BOOLEAN
    BY <1>12 DEF ReceiveNone, Return
  <2> QED
    BY <2>1, <2>2, <2>3
<1>13. CASE FlushBuffers /\ UNCHANGED <<packets, opens>>
  BY <1>13, NewTypes DEF FlushBuffers
<1> QED
  BY <1>1, <1>2, <1>3, <1>4, <1>5, <1>6, <1>7, <1>8, <1>9, <1>10, <1>11, <1>12, <1>13
     DEF Next, ClientWaits, DecodeStep

\* The packet in hand, and the one being sent, are what was read.
LEMMA OriginStep ==
  ASSUME TypeOK, Origin, MarksSurvive, Course, Next
  PROVE  Origin' /\ MarksSurvive'
<1> USE DEF handle, calling, told, packets
<1>1. CASE ClientReads
  <2>1. /\ av.pts \in Nat /\ av'.pts = av.pts + 1
        /\ newest \in Nat /\ newest' = newest
        /\ at' = at /\ call' = call /\ m_avpacket' = m_avpacket
        /\ at = "idle" /\ call = "none"
    <3>1. av.pts \in Nat /\ av'.pts = av.pts + 1
      BY <1>1, Typed, NextRead DEF Origin
    <3>2. newest \in Nat
      BY DEF TypeOK
    <3>3. /\ newest' = newest /\ at' = at /\ call' = call /\ m_avpacket' = m_avpacket
          /\ at = "idle" /\ call = "none"
      BY <1>1 DEF Course, ClientReads, decoderVars
    <3> QED
      BY <3>1, <3>2, <3>3
  <2>2. pkt' \in Packets /\ Len(pkt'.data) = 1 /\ Len(NoPacket.data) = 0
    BY <1>1, NextRead DEF Origin, NoPacket
  <2>3. Head(pkt'.data).no = av'.pts
    BY <1>1, NextRead, Typed DEF Origin, WasRead, Read
  <2>4. Fresh(pkt)'
    BY <2>1, <2>3 DEF Fresh, Origin
  <2>5. Carries(pkt)'
    BY <1>1, NextRead DEF Carries, Origin
  <2>6. Resendable'
    <3>1. m_avpacket.data # << >> => Head(m_avpacket.data).no \in Nat
      <4> SUFFICES ASSUME m_avpacket.data # << >>
                   PROVE  Head(m_avpacket.data).no \in Nat
        OBVIOUS
      <4>1. m_avpacket.data \in Seq(Pieces)
        BY DEF TypeOK, Packets, Data
      <4>2. Head(m_avpacket.data) \in Pieces
        BY <4>1
      <4> QED
        BY <4>2 DEF Pieces
    <3> QED
      BY <2>1, <3>1 DEF Origin, Resendable
  <2>7. Origin'
    BY <1>1, <2>1, <2>4, <2>5, <2>6, NextRead DEF Origin
  <2>8. MarksSurvive'
    BY <1>1, NextRead DEF Origin, MarksSurvive, SeenIn
  <2> QED
    BY <2>7, <2>8
<1>2. CASE ClientClones
  BY <1>2, Cloned DEF ClientClones, InHand, decoderVars, TypeOK, Origin, MarksSurvive,
                  Carries, Fresh, WasRead, Resendable
<1>3. CASE ClientEdits
  <2>1. /\ pkt # NoPacket /\ pkt.size <= pkt.room
        /\ newest < av.pts /\ (pkt.data = << >> \/ Head(pkt.data).no = av.pts)
        /\ at = "idle" /\ call = "none"
    BY <1>3 DEF ClientEdits, InHand, Origin, Course, Carries, Fresh
  <2>2. /\ pkt'.size <= pkt'.room
        /\ pkt'.data = << >> \/ Head(pkt'.data).no = av.pts
    BY <1>3, <2>1, NextEdit DEF Origin
  <2>3. /\ edited' /\ UNCHANGED <<av, m_avpacket, newest, at, call>>
    BY <1>3 DEF ClientEdits, decoderVars
  <2>4. MarksSurvive' /\ Carries(pkt)' /\ Fresh(pkt)'
    BY <2>1, <2>2, <2>3 DEF MarksSurvive, Carries, Fresh
  <2>5. Resendable'
    BY <2>1, <2>3 DEF Origin, Resendable
  <2>6. WasRead'
    BY <2>3 DEF Origin, WasRead
  <2> QED
    BY <2>1, <2>3, <2>4, <2>5, <2>6 DEF Origin
<1>4. CASE ClientDecodes
  <2>1. /\ pkt # NoPacket /\ Carries(pkt) /\ Fresh(pkt)
        /\ at = "idle" /\ call = "none" /\ pkt' = NoPacket
        /\ UNCHANGED <<av, edited, newest>>
    BY <1>4 DEF ClientDecodes, InHand, Decode, Origin, Course
  <2>2. \/ m_avpacket' = pkt /\ at' = "send" /\ call' = "decode"
        \/ m_avpacket' = m_avpacket /\ at' = "idle" /\ call' = "none"
    BY <1>4, <2>1 DEF ClientDecodes, Decode
  <2>3. MarksSurvive'
    BY <2>1 DEF MarksSurvive
  <2>4. m_avpacket' = pkt => Carries(m_avpacket)' /\ Fresh(m_avpacket)'
    BY <2>1 DEF Carries, Fresh
  <2>5. Resendable'
    <3>1. av.pts \in Nat
      BY Typed DEF Origin
    <3> QED
      BY <2>1, <2>2, <3>1 DEF Origin, Resendable, Fresh
  <2>6. WasRead'
    BY <2>1 DEF Origin, WasRead
  <2> QED
    BY <2>1, <2>2, <2>3, <2>4, <2>5, <2>6 DEF Origin
<1>5. CASE ClientOpens
  BY <1>5 DEF ClientOpens, OpenFails, OpenSucceeds, Origin, MarksSurvive, Carries, Fresh,
              WasRead, Resendable
<1>6. CASE ClientCloses \/ ClientFlushes
  BY <1>6 DEF ClientCloses, Close, ClientFlushes, Flush, Origin, MarksSurvive, Carries,
              Fresh, WasRead, Resendable
<1>7. CASE (SendTaken \/ ResendTaken) /\ UNCHANGED <<packets, opens>>
  <2>1. /\ m_avpacket.data # << >> /\ newest' = Head(m_avpacket.data).no
        /\ at' = "receive" /\ UNCHANGED <<call, m_avpacket, av, pkt, edited>>
    BY <1>7 DEF SendTaken, ResendTaken, Take, Nothing
  <2>2. newest' <= av.pts /\ (pkt # NoPacket => newest' < av.pts)
    BY <2>1 DEF Origin, Resendable
  <2>3. MarksSurvive' /\ Resendable' /\ WasRead'
    BY <2>1 DEF Origin, MarksSurvive, Resendable, WasRead
  <2>4. pkt # NoPacket => Carries(pkt)' /\ Fresh(pkt)'
    BY <2>1, <2>2 DEF Origin, Carries, Fresh
  <2> QED
    BY <2>1, <2>2, <2>3, <2>4 DEF Origin
<1>8. CASE (SendNull \/ SendAgain \/ SendFails \/ ResendFails) /\ UNCHANGED <<packets, opens>>
  BY <1>8 DEF SendNull, Drain, SendAgain, SendFails, ResendFails, Return, Origin, Course,
              MarksSurvive, Carries, Fresh, WasRead, Resendable
<1>9. CASE (Receive \/ ReceiveFails \/ ReceiveNone \/ FlushBuffers)
             /\ UNCHANGED <<packets, opens>>
  BY <1>9 DEF Receive, ReceiveFails, ReceiveNone, FlushBuffers, Return, Origin,
              MarksSurvive, Carries, Fresh, WasRead, Resendable
<1> QED
  BY <1>1, <1>2, <1>3, <1>4, <1>5, <1>6, <1>7, <1>8, <1>9
     DEF Next, ClientWaits, DecodeStep

\* No step but a failed Open leaves a context behind.
LEMMA ContextsStep ==
  ASSUME TypeOK, Contexts, Next
  PROVE  Contexts'
<1> USE DEF Contexts, handle
<1>a. leaked \in Nat /\ failed \in Nat
  BY DEF TypeOK
<1>1. CASE ClientOpens
  BY <1>a, <1>1 DEF ClientOpens, OpenFails, OpenSucceeds, NewContext
<1>2. CASE ClientCloses
  BY <1>2 DEF ClientCloses, Close
<1>3. CASE ClientReads \/ ClientClones \/ ClientEdits \/ ClientDecodes \/ ClientFlushes
  BY <1>3 DEF ClientReads, ClientClones, ClientEdits, ClientDecodes, ClientFlushes,
              decoderVars, Decode, Flush
<1>4. CASE ClientWaits
  BY <1>4 DEF ClientWaits, DecodeStep, SendTaken, SendNull, SendAgain, SendFails,
              ResendTaken, ResendFails, Receive, ReceiveFails, ReceiveNone, FlushBuffers
<1> QED
  BY <1>1, <1>2, <1>3, <1>4 DEF Next

\* A call goes its way, and leaves the codec empty unless a receive failed.
LEMMA CourseStep ==
  ASSUME TypeOK, Contexts, Course, Next
  PROVE  Course'
<1> USE DEF Course, InCodec, TrueMeansGiven, handle, calling, told
<1>1. CASE ClientOpens
  BY <1>1, NewTypes DEF ClientOpens, OpenFails, OpenSucceeds
<1>2. CASE ClientCloses
  BY <1>2, NewTypes DEF ClientCloses, Close
<1>3. CASE ClientReads \/ ClientClones \/ ClientEdits
  BY <1>3 DEF ClientReads, ClientClones, ClientEdits, decoderVars
<1>4. CASE ClientDecodes
  BY <1>4 DEF ClientDecodes, Decode, Refuses
<1>5. CASE ClientFlushes
  BY <1>5 DEF ClientFlushes, Flush, Refuses
<1>6. CASE SendTaken \/ ResendTaken
  <2>1. codec'.draining = codec.draining
    BY <1>6, TakeTypes DEF SendTaken, ResendTaken
  <2> QED
    BY <1>6, <2>1 DEF SendTaken, ResendTaken
<1>7. CASE SendNull
  BY <1>7 DEF SendNull, Drain
<1>8. CASE SendAgain
  BY <1>8 DEF SendAgain, TypeOK, Codecs
<1>9. CASE SendFails \/ ResendFails
  BY <1>9 DEF SendFails, ResendFails, Return, TypeOK
<1>10. CASE Receive
  <2>1. codec'.draining = codec.draining
    BY <1>10, GiveTypes DEF Receive
  <2> QED
    BY <1>10, <2>1 DEF Receive
<1>11. CASE ReceiveFails
  <2>1. codec'.draining = codec.draining
    BY <1>11, GiveTypes DEF ReceiveFails
  <2> QED
    BY <1>11, <2>1 DEF ReceiveFails, Return, TypeOK
<1>12. CASE ReceiveNone
  BY <1>12 DEF ReceiveNone, Return, TypeOK
<1>13. CASE FlushBuffers
  BY <1>13, NewTypes DEF FlushBuffers, Contexts
<1> QED
  BY <1>1, <1>2, <1>3, <1>4, <1>5, <1>6, <1>7, <1>8, <1>9, <1>10, <1>11, <1>12, <1>13
     DEF Next, ClientWaits, DecodeStep

\* The invariant holds at the start.
LEMMA Starts == Init => IInv
<1> SUFFICES ASSUME Init
             PROVE  IInv
  OBVIOUS
<1>1. PICK kind \in AVPackets : av = Read(kind, 0)
  BY DEF Init
<1>2. 0 \in 0..MaxReads /\ 0 \in 0..MaxOpens
  BY BoundsAssumption
<1>3. WasRead /\ av.pts = 0
  BY <1>1, <1>2 DEF WasRead, Read
<1>4. m_avpacket \in Packets /\ m_avpacket.data = << >>
  <2>1. 0 \in IntRange
    BY IntAssumption DEF IntRange
  <2>2. << >> \in Data
    BY DEF Data
  <2> QED
    BY <1>2, <2>1, <2>2, CapacityAssumption
       DEF Init, DecoderInit, Empty, Packets, PacketFlags
<1>5. codec \in Codecs /\ codec.ready = 0 /\ ~codec.draining
  BY NewTypes DEF Init, DecoderInit
<1>6. shown \in Data
  BY DEF Init, DecoderInit, Nothing, Data
<1>7. TypeOK
  BY <1>2, <1>4, <1>5, <1>6 DEF TypeOK, Init, DecoderInit
<1>8. Origin /\ MarksSurvive
  BY <1>3, <1>4 DEF Origin, MarksSurvive, Resendable, Init, DecoderInit
<1>9. Contexts
  BY DEF Contexts, Init, DecoderInit
<1>10. Course
  BY <1>5 DEF Course, InCodec, TrueMeansGiven, Init, DecoderInit
<1> QED
  BY <1>7, <1>8, <1>9, <1>10 DEF IInv

\* And where nothing happens.
LEMMA Stutters ==
  ASSUME IInv, UNCHANGED vars
  PROVE  IInv'
<1> USE DEF vars, decoderVars, handle, calling, told
<1>1. TypeOK'
  BY DEF IInv, TypeOK
<1>2. Origin' /\ MarksSurvive'
  BY DEF IInv, Origin, MarksSurvive, WasRead, Carries, Fresh, Resendable
<1>3. Contexts' /\ Course'
  BY DEF IInv, Contexts, Course, InCodec, TrueMeansGiven
<1> QED
  BY <1>1, <1>2, <1>3 DEF IInv

----------------------------------------------------------------------------
(* The theorems.                                                            *)

\* The invariant.
THEOREM DecodeInvariant == Spec => []IInv
<1>1. IInv /\ [Next]_vars => IInv'
  <2>1. ASSUME IInv, Next
        PROVE  IInv'
    BY <2>1, TypeStep, OriginStep, ContextsStep, CourseStep DEF IInv, Origin
  <2> QED
    BY <2>1, Stutters
<1> QED
  BY <1>1, Starts, PTL DEF Spec

\* The fields have their types.
THEOREM DecodeTypeCorrect == Spec => []TypeOK
<1>1. IInv => TypeOK
  BY DEF IInv
<1> QED
  BY <1>1, DecodeInvariant, PTL

\* avcodec_send_packet gets the bytes, time and duration that av_read_frame
\* returned, through CreateFromAVPacket, Clone and Decode, and never more bytes
\* than the packet has room for.
THEOREM WhatIsSent == Spec => []CodecGetsWhatWasRead
<1>1. IInv => CodecGetsWhatWasRead
  BY DEF IInv, Origin, Carries, CodecGetsWhatWasRead
<1> QED
  BY <1>1, DecodeInvariant, PTL

\* The flags that Packet found or was told are still on it in every clone.
THEOREM MarksAreKept == Spec => []MarksSurvive
<1>1. IInv => MarksSurvive
  BY DEF IInv
<1> QED
  BY <1>1, DecodeInvariant, PTL

\* Decode and Flush leave the codec with no frame to be received and not
\* draining, unless a receive has failed.
THEOREM EmptyBetweenCalls == Spec => []EmptiedBetweenCalls
<1>1. IInv => EmptiedBetweenCalls
  BY DEF IInv, Course, EmptiedBetweenCalls
<1> QED
  BY <1>1, DecodeInvariant, PTL

\* Decode returns true of a packet that the codec did not take, only in the
\* trouble after a failed receive.
THEOREM TrueIsEarned == Spec => []TrueMeansGiven
<1>1. IInv => TrueMeansGiven
  BY DEF IInv, Course
<1> QED
  BY <1>1, DecodeInvariant, PTL

\* Any sequence of Open and Close loses no more contexts than Opens failed.
THEOREM NoLeakButByFailure == Spec => []LeakedByFailure
<1>1. IInv => LeakedByFailure
  BY DEF IInv, Contexts, LeakedByFailure
<1> QED
  BY <1>1, DecodeInvariant, PTL

\* What a step does to the packets in the codec, if it is not one taken.
LEMMA OnlyTakesAdd ==
  ASSUME TypeOK, Next, Takes
  PROVE  SendTaken \/ ResendTaken
<1>1. Len(codec.held) \in Nat
  BY DEF TypeOK, Codecs
<1>2. codec' # codec
  BY <1>1 DEF Takes
<1>3. codec' # NewCodec
  <2>1. Len(NewCodec.held) = 0
    BY DEF NewCodec
  <2> QED
    BY <1>1, <2>1 DEF Takes
<1>4. ~(codec.ready > 0 /\ codec' = [codec EXCEPT !.held = Tail(@), !.ready = @ - 1])
  BY <1>1, GiveTypes DEF Takes
<1>5. ~Drain
  BY <1>1, DrainTypes DEF Takes
<1>6. ~ClientOpens /\ ~ClientCloses
  BY <1>2, <1>3 DEF ClientOpens, OpenFails, OpenSucceeds, ClientCloses, Close
<1>7. ~(ClientReads \/ ClientClones \/ ClientEdits \/ ClientDecodes \/ ClientFlushes)
  BY <1>2 DEF ClientReads, ClientClones, ClientEdits, ClientDecodes, ClientFlushes,
              decoderVars, Decode, Flush
<1>8. ~(SendNull \/ SendAgain \/ SendFails \/ ResendFails)
  BY <1>2, <1>5 DEF SendNull, SendAgain, SendFails, ResendFails
<1>9. ~(Receive \/ ReceiveFails \/ ReceiveNone \/ FlushBuffers)
  BY <1>2, <1>3, <1>4 DEF Receive, ReceiveFails, ReceiveNone, FlushBuffers
<1> QED
  BY <1>6, <1>7, <1>8, <1>9 DEF Next, ClientWaits, DecodeStep

\* The codec takes each packet once and in the order of reading, but for a
\* Flush after a failed receive, which may send the last one again.
THEOREM TakenOnceInOrder == Spec => OnceInOrder
<1>1. IInv /\ [Next]_vars =>
        [Takes => newest' > newest \/ (call = "flush" /\ troubled)]_decoderVars
  <2> SUFFICES ASSUME IInv, Next, Takes
               PROVE  newest' > newest \/ (call = "flush" /\ troubled)
    BY DEF vars
  <2>1. SendTaken \/ ResendTaken
    BY OnlyTakesAdd DEF IInv
  <2>2. /\ at \in {"send", "resend"} /\ newest' = Head(m_avpacket.data).no
        /\ m_avpacket.data # << >>
        /\ at = "send" => call = "decode"
    BY <2>1 DEF SendTaken, ResendTaken, Take, Nothing
  <2>3. call \in {"decode", "flush"} /\ (at = "resend" => troubled)
    BY <2>2 DEF IInv, Course, InCodec, TypeOK
  <2>4. CASE call = "decode"
    BY <2>2, <2>4 DEF IInv, Origin, Fresh
  <2> QED
    BY <2>2, <2>3, <2>4
<1> QED
  BY <1>1, DecodeInvariant, PTL DEF Spec, OnceInOrder

\* A receive that leaves the place where it is gives out a frame, and the callback
\* gets it.
LEMMA GivesOut ==
  ASSUME IInv, Next, at \in {"drain", "receive"}, at' = at
  PROVE  UNCHANGED decoderVars \/ (Receive /\ shown' = Head(codec.held))
<1> SUFFICES ASSUME ~UNCHANGED decoderVars
             PROVE  Receive /\ shown' = Head(codec.held)
  OBVIOUS
<1>1. ClientWaits
  BY DEF Next, ClientOpens, OpenFails, OpenSucceeds, ClientCloses, Close, ClientReads,
         ClientClones, ClientEdits, InHand, ClientDecodes, Decode, ClientFlushes, Flush
<1>2. Receive
  BY <1>1 DEF ClientWaits, DecodeStep, SendTaken, SendNull, SendAgain, SendFails,
              ResendTaken, ResendFails, ReceiveFails, ReceiveNone, FlushBuffers, Return
<1>3. ~m_needToStop
  BY DEF IInv, Course, InCodec, Contexts
<1> QED
  BY <1>2, <1>3 DEF Receive

\* Every frame that is received reaches the callback: m_needToStop is never set
\* on a decoder that is ready.
THEOREM NoFrameIsKept == Spec => FrameReachesCallback
<1>1. IInv /\ [Next]_vars =>
        [(at \in {"drain", "receive"} /\ at' = at) => shown' = Head(codec.held)]_decoderVars
  BY GivesOut DEF vars
<1> QED
  BY <1>1, DecodeInvariant, PTL DEF Spec, FrameReachesCallback

----------------------------------------------------------------------------
(* The order in which frames come to the callback.                          *)

No(data) == Head(data).no

\* What a row of packets says of the newest one, and of their order.
Within(row, n) == \A i \in DOMAIN row : row[i] # << >> /\ No(row[i]) <= n
Rising(row) == \A i, j \in DOMAIN row : i < j => No(row[i]) < No(row[j])
After(data, row) == data # << >> => \A i \in DOMAIN row : No(data) < No(row[i])

\* A Flush that meets a receive that failed, until it has emptied the codec.
Disturbed == call = "flush" /\ (troubled \/ at = "flush")

\* Shown, in the codec, and sent: the packets stand in the order of reading.
InLine ==
  /\ ~m_isReady => codec.held = << >>
  /\ Within(codec.held, newest)
  /\ shown # << >> => No(shown) <= newest
  /\ m_avpacket.data # << >> => newest <= No(m_avpacket.data)
  /\ ~Disturbed => Rising(codec.held) /\ After(shown, codec.held)

\* The frames come to the callback in the order in which their packets were read,
\* and none comes twice, unless a Flush is disturbed by a receive that failed.
FramesInOrder ==
  [][(at \in {"drain", "receive"} /\ at' = at /\ shown # << >>) =>
       \/ No(shown) < No(shown')
       \/ call = "flush" /\ troubled]_decoderVars

\* The number of a packet with bytes is a number.
LEMMA NoType ==
  ASSUME NEW data \in Data, data # << >>
  PROVE  No(data) \in 0..MaxReads
<1>1. Head(data) \in Pieces
  BY DEF Data
<1> QED
  BY <1>1 DEF No, Pieces

\* A newer packet at the end keeps the order.
LEMMA AppendLine ==
  ASSUME NEW row \in Seq(Data), NEW data \in Data, data # << >>,
         NEW n \in 0..MaxReads, Within(row, n), n <= No(data)
  PROVE  /\ Within(Append(row, data), No(data))
         /\ n < No(data) /\ Rising(row) => Rising(Append(row, data))
         /\ \A d \in Data : /\ After(d, row)
                            /\ d # << >> => No(d) < No(data)
                            => After(d, Append(row, data))
<1> DEFINE longer == Append(row, data)
<1>1. /\ Len(row) \in Nat /\ DOMAIN row = 1..Len(row)
      /\ DOMAIN longer = 1..(Len(row) + 1)
      /\ \A i \in 1..Len(row) : longer[i] = row[i]
      /\ longer[Len(row) + 1] = data
  OBVIOUS
<1> HIDE DEF longer
<1>2. No(data) \in Int /\ n \in Int
  BY NoType
<1>3. ASSUME NEW i \in 1..Len(row)
      PROVE  row[i] # << >> /\ No(row[i]) \in Int /\ No(row[i]) <= n
  <2>1. row[i] \in Data /\ row[i] # << >> /\ No(row[i]) <= n
    BY <1>1 DEF Within
  <2> QED
    BY <2>1, NoType
<1>4. \A i \in DOMAIN longer : i \in 1..Len(row) \/ i = Len(row) + 1
  BY <1>1
<1>5. Within(longer, No(data))
  BY <1>1, <1>2, <1>3, <1>4 DEF Within
<1>6. ASSUME n < No(data), Rising(row)
      PROVE  Rising(longer)
  <2> SUFFICES ASSUME NEW i \in DOMAIN longer, NEW j \in DOMAIN longer, i < j
               PROVE  No(longer[i]) < No(longer[j])
    BY DEF Rising
  <2>1. i \in 1..Len(row)
    BY <1>1, <1>4
  <2>2. CASE j \in 1..Len(row)
    BY <1>1, <1>6, <2>1, <2>2 DEF Rising
  <2>3. CASE j = Len(row) + 1
    BY <1>1, <1>2, <1>3, <1>6, <2>1, <2>3
  <2> QED
    BY <1>4, <2>2, <2>3
<1>7. ASSUME NEW d \in Data, After(d, row), d # << >> => No(d) < No(data)
      PROVE  After(d, longer)
  BY <1>1, <1>4, <1>7 DEF After
<1> QED
  BY <1>5, <1>6, <1>7 DEF longer

\* Neither does it matter that the first one goes.
LEMMA TailLine ==
  ASSUME NEW row \in Seq(Data), row # << >>, NEW n \in 0..MaxReads, Within(row, n)
  PROVE  /\ Head(row) # << >> /\ No(Head(row)) <= n
         /\ Within(Tail(row), n)
         /\ Rising(row) => Rising(Tail(row)) /\ After(Head(row), Tail(row))
         /\ \A d : After(d, row) =>
              After(d, Tail(row)) /\ (d # << >> => No(d) < No(Head(row)))
<1> DEFINE rest == Tail(row)
<1>1. /\ Len(row) \in Nat /\ Len(row) > 0 /\ DOMAIN row = 1..Len(row)
      /\ DOMAIN rest = 1..(Len(row) - 1)
      /\ \A i \in 1..(Len(row) - 1) : rest[i] = row[i + 1]
      /\ Head(row) = row[1]
  OBVIOUS
<1> HIDE DEF rest
<1>2. /\ 1 \in DOMAIN row
      /\ \A i \in DOMAIN rest : i + 1 \in DOMAIN row /\ 1 < i + 1 /\ rest[i] = row[i + 1]
      /\ \A i, j \in DOMAIN rest : i < j => i + 1 < j + 1
  BY <1>1
<1>3. Head(row) # << >> /\ No(Head(row)) <= n
  BY <1>1, <1>2 DEF Within
<1>4. Within(rest, n)
  BY <1>2 DEF Within
<1>5. Rising(row) => Rising(rest)
  BY <1>2 DEF Rising
<1>6. Rising(row) => After(Head(row), rest)
  BY <1>1, <1>2 DEF Rising, After
<1>7. ASSUME NEW d, After(d, row)
      PROVE  After(d, rest) /\ (d # << >> => No(d) < No(Head(row)))
  BY <1>1, <1>2, <1>7 DEF After
<1> QED
  BY <1>3, <1>4, <1>5, <1>6, <1>7 DEF rest

\* An empty codec is in line.
LEMMA EmptyLine ==
  ASSUME NEW n, NEW d
  PROVE  /\ Within(NewCodec.held, n) /\ Rising(NewCodec.held) /\ After(d, NewCodec.held)
         /\ NewCodec.held = << >>
BY DEF NewCodec, Within, Rising, After

\* The line is kept by every step.
LEMMA LineStep ==
  ASSUME IInv, IInv', InLine, Next
  PROVE  InLine'
<1> USE DEF handle, calling, told
<1>1. /\ codec.held \in Seq(Data) /\ newest \in 0..MaxReads /\ shown \in Data
      /\ m_avpacket.data \in Data
  BY DEF IInv, TypeOK, Codecs, Packets
<1>2. CASE ClientOpens
  <2>1. CASE OpenFails
    BY <1>2, <2>1 DEF ClientOpens, OpenFails, InLine, Disturbed
  <2>2. CASE ~OpenFails
    BY <1>2, <2>2, EmptyLine DEF ClientOpens, OpenSucceeds, InLine, Disturbed
  <2> QED
    BY <2>1, <2>2
<1>3. CASE ClientCloses
  BY <1>3, EmptyLine DEF ClientCloses, Close, InLine, Disturbed
<1>4. CASE ClientReads \/ ClientClones \/ ClientEdits
  BY <1>4 DEF ClientReads, ClientClones, ClientEdits, decoderVars, InLine, Disturbed
<1>5. CASE ClientDecodes
  <2>1. pkt.data # << >> => newest <= No(pkt.data)
    BY <1>1, <1>5 DEF ClientDecodes, InHand, IInv, Origin, Fresh, No, TypeOK, WasRead, Read
  <2>2. call = "none"
    BY <1>5 DEF ClientDecodes, InHand, IInv, Course
  <2> QED
    BY <1>5, <2>1, <2>2 DEF ClientDecodes, Decode, InLine, Disturbed
<1>6. CASE ClientFlushes
  <2>1. call = "none"
    BY <1>6 DEF ClientFlushes, Flush, IInv, Course
  <2> QED
    BY <1>6, <2>1 DEF ClientFlushes, Flush, InLine, Disturbed
<1>7. CASE SendTaken \/ ResendTaken
  <2> DEFINE data == m_avpacket.data
  <2>1. /\ data \in Data /\ data # << >> /\ newest <= No(data) /\ newest' = No(data)
        /\ codec'.held = Append(codec.held, data)
        /\ UNCHANGED <<handle, m_avpacket, call, troubled, shown>> /\ at' = "receive"
    BY <1>1, <1>7 DEF SendTaken, ResendTaken, Take, InLine, No, Nothing, IInv, TypeOK, Codecs
  <2>2. call = "flush" => troubled
    BY <1>7 DEF SendTaken, ResendTaken, IInv, Course
  <2>3. call = "decode" => newest < No(data)
    BY <1>7, <2>1 DEF SendTaken, ResendTaken, IInv, Origin, Fresh, No
  <2>4. call \in {"decode", "flush"} /\ m_isReady
    BY <1>7 DEF SendTaken, ResendTaken, IInv, Course, InCodec, TypeOK
  <2> HIDE DEF data
  <2>5. Within(codec'.held, newest') /\ (call = "decode" => Rising(codec'.held))
    BY <1>1, <2>1, <2>3, AppendLine DEF InLine, Disturbed
  <2>6. shown # << >> => No(shown) \in Int /\ No(shown) <= newest
    BY <1>1, NoType DEF InLine
  <2>7. No(data) \in Int /\ newest \in Int
    BY <1>1, <2>1, NoType
  <2>8. call = "decode" => After(shown, codec'.held)
    BY <1>1, <2>1, <2>3, <2>6, <2>7, AppendLine DEF InLine, Disturbed
  <2>9. shown' # << >> => No(shown') <= newest'
    BY <2>1, <2>6, <2>7
  <2> QED
    BY <2>1, <2>2, <2>4, <2>5, <2>7, <2>8, <2>9 DEF InLine, Disturbed, data
<1>8. CASE SendNull
  <2>1. codec'.held = codec.held
    BY <1>8, DrainTypes DEF SendNull, IInv
  <2> QED
    BY <1>8, <2>1 DEF SendNull, Drain, InLine, Disturbed
<1>9. CASE SendAgain \/ SendFails \/ ResendFails
  BY <1>9 DEF SendAgain, SendFails, ResendFails, Return, InLine, Disturbed
<1>10. ASSUME codec.ready > 0,
              codec' = [codec EXCEPT !.held = Tail(@), !.ready = @ - 1]
       PROVE  codec.held # << >> /\ codec'.held = Tail(codec.held)
  BY <1>10 DEF IInv, TypeOK, Codecs
<1>11. CASE Receive
  <2>1. codec.held # << >> /\ codec'.held = Tail(codec.held)
    BY <1>10, <1>11 DEF Receive
  <2>2. UNCHANGED <<m_isReady, m_avpacket, at, call, troubled, newest>>
    BY <1>11 DEF Receive
  <2>3. shown' = shown \/ shown' = Head(codec.held)
    BY <1>11 DEF Receive
  <2>4. m_isReady
    BY <1>11 DEF Receive, IInv, Course, InCodec
  <2>5. Within(codec.held, newest)
    BY DEF InLine
  <2>6. Within(codec'.held, newest') /\ (shown' # << >> => No(shown') <= newest')
    BY <1>1, <2>1, <2>2, <2>3, <2>5, TailLine DEF InLine
  <2>7. ~Disturbed => Rising(codec'.held) /\ After(shown', codec'.held)
    BY <1>1, <2>1, <2>3, <2>5, TailLine DEF InLine
  <2> QED
    BY <2>2, <2>4, <2>6, <2>7 DEF InLine, Disturbed
<1>12. CASE ReceiveFails
  <2>1. /\ UNCHANGED <<m_isReady, m_avpacket, newest, shown>>
        /\ troubled' = TRUE /\ m_isReady
        /\ call' = "flush" \/ call' = call \/ call = "decode"
        /\ call = "flush" => call' = "flush"
    BY <1>12 DEF ReceiveFails, Return, IInv, Course, InCodec
  <2>2. codec' = codec \/ (codec.held # << >> /\ codec'.held = Tail(codec.held))
    BY <1>10, <1>12 DEF ReceiveFails
  <2>3. Within(codec.held, newest)
    BY DEF InLine
  <2>4. Within(codec'.held, newest')
    BY <1>1, <2>1, <2>2, <2>3, TailLine
  <2>5. Rising(codec.held) /\ After(shown, codec.held) =>
          Rising(codec'.held) /\ After(shown', codec'.held)
    BY <1>1, <2>1, <2>2, <2>3, TailLine
  <2> QED
    BY <2>1, <2>4, <2>5 DEF InLine, Disturbed
<1>13. CASE ReceiveNone
  BY <1>13 DEF ReceiveNone, Return, InLine, Disturbed
<1>14. CASE FlushBuffers
  <2>1. CASE codec' = NewCodec
    BY <1>14, <2>1, EmptyLine DEF FlushBuffers, InLine, Disturbed
  <2>2. CASE ~m_isReady /\ UNCHANGED codec
    BY <1>14, <2>2, EmptyLine DEF FlushBuffers, InLine, Disturbed, NewCodec
  <2> QED
    BY <1>14, <2>1, <2>2 DEF FlushBuffers, IInv, Contexts
<1> QED
  BY <1>2, <1>3, <1>4, <1>5, <1>6, <1>7, <1>8, <1>9, <1>11, <1>12, <1>13, <1>14
     DEF Next, ClientWaits, DecodeStep

\* The line holds at first, and so at all times.
THEOREM LineInvariant == Spec => [](IInv /\ InLine)
<1>1. Init => InLine
  BY EmptyLine DEF Init, DecoderInit, InLine, Disturbed, Nothing, Empty
<1>2. IInv /\ IInv' /\ InLine /\ [Next]_vars => InLine'
  <2>1. CASE UNCHANGED vars
    BY <2>1 DEF vars, decoderVars, handle, calling, told, InLine, Disturbed
  <2> QED
    BY <2>1, LineStep
<1> QED
  BY <1>1, <1>2, DecodeInvariant, PTL DEF Spec

\* Frames come in the order of reading, EAGAIN and failed receives included.
THEOREM ShownInOrder == Spec => FramesInOrder
<1>1. IInv /\ InLine /\ [Next]_vars =>
        [(at \in {"drain", "receive"} /\ at' = at /\ shown # << >>) =>
           \/ No(shown) < No(shown')
           \/ call = "flush" /\ troubled]_decoderVars
  <2> SUFFICES ASSUME IInv, InLine, Next, at \in {"drain", "receive"}, at' = at,
                      shown # << >>, ~(call = "flush" /\ troubled),
                      ~UNCHANGED decoderVars
               PROVE  No(shown) < No(shown')
    BY DEF vars
  <2>1. Receive /\ shown' = Head(codec.held)
    BY GivesOut
  <2>2. codec.held \in Seq(Data) /\ codec.held # << >>
    BY <2>1 DEF Receive, IInv, TypeOK, Codecs
  <2>3. After(shown, codec.held)
    BY DEF InLine, Disturbed
  <2>4. 1 \in DOMAIN codec.held /\ Head(codec.held) = codec.held[1]
    BY <2>2
  <2> QED
    BY <2>1, <2>3, <2>4 DEF After
<1> QED
  BY <1>1, LineInvariant, PTL DEF Spec, FramesInOrder
=============================================================================
