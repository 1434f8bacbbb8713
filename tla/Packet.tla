------------------------------- MODULE Packet -------------------------------
(***************************************************************************)
(* challenge::media::Packet (src/src/media/packet.cpp, packet.hpp): a copy *)
(* of what libav read, with flags of its own.  A packet is a record; each  *)
(* method is an operator that returns the packet as the method leaves it.  *)
(* The bytes are the sequence of pieces that were stored in them; of a     *)
(* piece matters which one it is and whether checkData takes its head for  *)
(* that of a key frame.  Ids, NAL unit type, start code, stream and group  *)
(* have no reader in the program and are left out.                         *)
(***************************************************************************)
EXTENDS Integers, Sequences

CONSTANTS DEFAULT_PACKET_CAPACITY, \* in the unit of the sizes
          IntHalf                  \* an int is one of -IntHalf..IntHalf-1

ASSUME CapacityAssumption == DEFAULT_PACKET_CAPACITY \in Nat
ASSUME IntAssumption      == IntHalf \in Nat \ {0}

PacketFlags == {"VideoPacket", "AudioPacket", "HasKeyFrame", "IsCorrupted"}

\* Mutant of int: the number is stored as it is.
NoConversion(n) == n

int(n) == ((n + IntHalf) % (2 * IntHalf)) - IntHalf

AddFlag(p, flag) == [p EXCEPT !.flags = @ \cup {flag}]

\* The flags are masked with the logical negation of the flag, which is 0.
RemoveFlag(p, flag) == [p EXCEPT !.flags = {}]

\* All flags are cleared and the kind is put back; video is then searched for
\* an IDR slice.
checkData(p) ==
  LET kind == IF "VideoPacket" \in p.flags THEN {"VideoPacket"}
              ELSE p.flags \cap {"AudioPacket"}
      key  == IF kind # {"AudioPacket"} /\ Head(p.data).idr
              THEN {"HasKeyFrame"} ELSE {}
  IN  [p EXCEPT !.flags = kind \cup key]

\* m_data.resize, only ever to more.
Resize(p, n) == [p EXCEPT !.room = IF @ < n THEN n ELSE @]

Store(p, piece, length) ==
  checkData([Resize(p, length) EXCEPT !.data = <<piece>>, !.size = length])

Add(p, piece, length) ==
  checkData([Resize(p, p.size + length) EXCEPT !.data = Append(@, piece),
                                               !.size = @ + length])

\* The duration stays.
Clear(p) == [p EXCEPT !.data = << >>, !.size = 0, !.room = 0,
                      !.flags = {}, !.pts = 0]

\* The constructor.  room is m_data.size().
Empty(flag) ==
  [data |-> << >>, size |-> 0, room |-> DEFAULT_PACKET_CAPACITY,
   flags |-> {flag}, pts |-> 0, duration |-> 0]

\* The flags libav gave the packet.
Marks(av) == (IF av.key THEN {"HasKeyFrame"} ELSE {})
               \cup (IF av.corrupt THEN {"IsCorrupted"} ELSE {})

\* Mutant of CreateFromAVPacket: the bytes are stored after the marks.
CreateStoresLast(av, flag) ==
  LET p == [Empty(flag) EXCEPT !.pts = av.pts, !.flags = @ \cup Marks(av)]
  IN  Store(p, av.piece, av.size)

\* For an AVPacket of two bytes or more.  The call of the constructor binds the
\* size to the id, so that the packet has the default capacity.
CreateFromAVPacket(av, flag) ==
  LET p == Store(Empty(flag), av.piece, av.size)
  IN  [p EXCEPT !.pts = av.pts, !.flags = @ \cup {flag} \cup Marks(av)]

\* What the read loop makes of the AVPacket it read.
PacketRead(av) ==
  [CreateFromAVPacket(av, "VideoPacket") EXCEPT !.duration = int(av.duration),
                                                !.pts = av.pts]

\* Mutant of Clone: the duration is not copied.
CloneWithoutDuration(p) ==
  [Empty("VideoPacket") EXCEPT !.flags = p.flags, !.pts = p.pts,
     !.size = p.size, !.data = p.data, !.room = p.room]

Clone(p) ==
  [Empty("VideoPacket") EXCEPT !.flags = p.flags, !.pts = p.pts,
     !.size = p.size, !.duration = p.duration, !.data = p.data, !.room = p.room]
=============================================================================
