----------------------------- MODULE DecodePath -----------------------------
(***************************************************************************)
(* The way of a packet from av_read_frame to the codec: the read loop of   *)
(* AVPacketSource makes a Packet of it, publishToAll may clone it, and     *)
(* FrameCounter gives it to VideoDecoder::Decode and lets go of it.  Beside*)
(* what the program does with a packet, a client may call Add, AddFlag,    *)
(* RemoveFlag and Clear, and Flush of the decoder, which nothing in it     *)
(* calls.                                                                  *)
(***************************************************************************)
EXTENDS VideoDecoder

CONSTANTS AVPackets,   \* what libav may read, but for number and time
          MaxReads, MaxOpens   \* bounds

ASSUME AVPacketsAssumption ==
  AVPackets \subseteq [idr : BOOLEAN, key : BOOLEAN, corrupt : BOOLEAN,
                       size : Nat, duration : Nat]
ASSUME BoundsAssumption == MaxReads \in Nat /\ MaxOpens \in Nat

VARIABLES
  av,      \* the AVPacket read last
  pkt,     \* the Packet in the client's hand, or NoPacket
  edited,  \* history: by Add, AddFlag, RemoveFlag or Clear
  opens    \* Opens so far

vars == <<decoderVars, av, pkt, edited, opens>>
packets == <<av, pkt, edited>>

NoPacket == [data |-> << >>]

\* The read number n of a kind.  Its presentation time is its number.
Read(kind, n) ==
  [piece |-> [no |-> n, idr |-> kind.idr], key |-> kind.key,
   corrupt |-> kind.corrupt, size |-> kind.size, duration |-> kind.duration,
   pts |-> n]

Number == av.pts

Init == /\ DecoderInit
        /\ \E kind \in AVPackets : av = Read(kind, 0)
        /\ pkt = NoPacket /\ edited = FALSE
        /\ opens = 0

\* Open is called by Setup, Close by FrameCounter::Stop.
ClientOpens ==
  /\ opens < MaxOpens /\ opens' = opens + 1
  /\ OpenFails \/ \E callback \in BOOLEAN : OpenSucceeds(callback)
  /\ UNCHANGED packets

ClientCloses == Close /\ UNCHANGED <<packets, opens>>

ClientReads ==
  /\ at = "idle" /\ Number < MaxReads
  /\ \E kind \in AVPackets : av' = Read(kind, Number + 1)
  /\ pkt' = PacketRead(av')
  /\ edited' = FALSE
  /\ UNCHANGED <<decoderVars, opens>>

InHand == at = "idle" /\ pkt # NoPacket

ClientClones ==
  /\ InHand
  /\ pkt' = Clone(pkt)
  /\ UNCHANGED <<decoderVars, av, edited, opens>>

ClientEdits ==
  /\ InHand /\ ~edited
  /\ \/ pkt' = Add(pkt, av.piece, av.size)
     \/ \E flag \in PacketFlags : pkt' \in {AddFlag(pkt, flag), RemoveFlag(pkt, flag)}
     \/ pkt' = Clear(pkt)
  /\ edited' = TRUE
  /\ UNCHANGED <<decoderVars, av, opens>>

ClientDecodes ==
  /\ InHand /\ Decode(pkt)
  /\ pkt' = NoPacket
  /\ UNCHANGED <<av, edited, opens>>

ClientFlushes == Flush /\ UNCHANGED <<packets, opens>>

ClientWaits == DecodeStep /\ UNCHANGED <<packets, opens>>

Next == \/ ClientOpens \/ ClientCloses \/ ClientReads \/ ClientClones
        \/ ClientEdits \/ ClientDecodes \/ ClientFlushes \/ ClientWaits

Spec == Init /\ [][Next]_vars

----------------------------------------------------------------------------
Pieces == [no : 0..MaxReads, idr : BOOLEAN]
IntRange == -IntHalf..(IntHalf - 1)
Data == Seq(Pieces)
Packets == [data : Data, size : Nat, room : Nat, flags : SUBSET PacketFlags,
            pts : 0..MaxReads, duration : IntRange]
Codecs == {c \in [held : Seq(Data), ready : 0..MaxHeld, draining : BOOLEAN] :
             c.ready <= Len(c.held) /\ Len(c.held) <= MaxHeld}

TypeOK ==
  /\ m_isReady \in BOOLEAN /\ m_needToStop \in BOOLEAN /\ m_frameCallback \in BOOLEAN
  /\ m_codecContext \in {"null", "allocated", "opened"}
  /\ m_avpacket \in Packets
  /\ codec \in Codecs
  /\ at \in {"idle", "send", "drain", "resend", "receive", "flush"}
  /\ call \in {"none", "decode", "flush"}
  /\ answer \in {"none", "true", "false"}
  /\ given \in BOOLEAN /\ troubled \in BOOLEAN
  /\ newest \in 0..MaxReads /\ shown \in Data
  /\ leaked \in Nat /\ failed \in Nat
  /\ pkt \in Packets \cup {NoPacket}
  /\ edited \in BOOLEAN /\ opens \in 0..MaxOpens

\* What the codec is sent is what libav read: the bytes, their number, the time
\* and the duration, through Packet and any number of clones; a duration that
\* is no int excepted.  (The flags and the decoding time of libav are not passed
\* on.)  And whatever else was done with the packet, it has the bytes it claims.
CodecGetsWhatWasRead ==
  at = "send" /\ call = "decode" =>
    /\ m_avpacket.size <= m_avpacket.room
    /\ ~edited =>
         /\ m_avpacket.data = <<av.piece>> /\ m_avpacket.size = av.size
         /\ m_avpacket.pts = av.pts
         /\ av.duration \in IntRange => m_avpacket.duration = av.duration

\* What libav said of a packet, and what checkData saw in it, is still on it
\* when its subscriber gets it.
MarksSurvive ==
  pkt # NoPacket /\ ~edited =>
    pkt.flags = {"VideoPacket"} \cup Marks(av)
                  \cup (IF av.piece.idr THEN {"HasKeyFrame"} ELSE {})
=============================================================================
