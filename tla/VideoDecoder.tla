---------------------------- MODULE VideoDecoder ----------------------------
(***************************************************************************)
(* challenge::media::VideoDecoder (src/src/media/video-decoder.cpp) around *)
(* a codec of libav.  The codec is external, with the contract of          *)
(* avcodec_send_packet and avcodec_receive_frame: send may answer EAGAIN   *)
(* only while a frame waits to be received; a null packet starts draining, *)
(* in which no packet is taken until avcodec_flush_buffers; either call    *)
(* may fail, and a frame may get lost then.  Every call of libav is a step.*)
(***************************************************************************)
EXTENDS Packet

CONSTANT MaxHeld   \* bound: packets the codec keeps to itself
ASSUME HeldAssumption == MaxHeld \in Nat \ {0}

VARIABLES
  m_isReady, m_needToStop,
  m_frameCallback,   \* whether there is one
  m_codecContext,    \* "null", "allocated" or "opened"
  m_avpacket,        \* what its fields say
  codec,             \* the data of the packets in it, how many frames of
                     \* these wait to be received, and whether it drains
  at,                \* the place in Decode or Flush
  call,              \* "none", "decode" or "flush"
  answer,            \* what Decode returned, if it was the last call of the
                     \* decoder
  given,             \* history: the codec took the packet of this call
  troubled,          \* history: a receive has failed and no call since then
                     \* has emptied the codec
  newest,            \* history: the number of the newest packet it took
  shown,             \* history: the frame the callback got last
  leaked,            \* history: contexts that nothing points to
  failed             \* history: Opens that failed

handle  == <<m_isReady, m_needToStop, m_frameCallback, m_codecContext, leaked, failed>>
calling == <<at, call>>
told    == <<answer, given, troubled>>
decoderVars == <<handle, m_avpacket, codec, calling, told, newest, shown>>

Nothing  == << >>
NewCodec == [held |-> << >>, ready |-> 0, draining |-> FALSE]

DecoderInit ==
  /\ m_isReady = FALSE /\ m_needToStop = FALSE /\ m_frameCallback = FALSE
  /\ m_codecContext = "null"
  /\ m_avpacket = Empty("VideoPacket")
  /\ codec = NewCodec
  /\ at = "idle" /\ call = "none"
  /\ answer = "none" /\ given = FALSE /\ troubled = FALSE
  /\ newest = 0 /\ shown = Nothing
  /\ leaked = 0 /\ failed = 0

----------------------------------------------------------------------------
(* Open and Close.                                                          *)

\* avcodec_alloc_context3 replaces a context that a failed Open left behind.
NewContext(context) ==
  /\ m_codecContext' = context
  /\ leaked' = IF m_codecContext = "null" THEN leaked ELSE leaked + 1

\* Mutant of OpenSucceeds: m_needToStop stays as Close left it.
OpenStopped(callback) ==
  /\ at = "idle" /\ ~m_isReady
  /\ NewContext("opened")
  /\ codec' = NewCodec /\ troubled' = FALSE /\ answer' = "none"
  /\ m_isReady' = TRUE
  /\ m_frameCallback' = callback
  /\ UNCHANGED <<m_needToStop, failed, m_avpacket, calling, given, newest, shown>>

\* On a decoder that is ready Open returns true and does nothing.
OpenSucceeds(callback) ==
  /\ at = "idle" /\ ~m_isReady
  /\ NewContext("opened")
  /\ codec' = NewCodec /\ troubled' = FALSE /\ answer' = "none"
  /\ m_isReady' = TRUE /\ m_needToStop' = FALSE
  /\ m_frameCallback' = callback
  /\ UNCHANGED <<failed, m_avpacket, calling, given, newest, shown>>

\* No decoder is found, there is no memory for a context, the codec does not
\* open, or there is no memory for the frame or the packet.
OpenFails ==
  /\ at = "idle" /\ ~m_isReady
  /\ \/ UNCHANGED <<m_codecContext, leaked>>
     \/ \E context \in {"null", "allocated", "opened"} : NewContext(context)
  /\ failed' = failed + 1
  /\ UNCHANGED <<m_isReady, m_needToStop, m_frameCallback, m_avpacket, codec,
                 calling, told, newest, shown>>

\* Mutant of Close: the context is not freed.
CloseKeepsContext ==
  /\ at = "idle" /\ m_isReady
  /\ m_needToStop' = TRUE /\ m_isReady' = FALSE
  /\ codec' = NewCodec
  /\ UNCHANGED <<m_frameCallback, m_codecContext, leaked, failed, m_avpacket,
                 calling, told, newest, shown>>

\* Close of a decoder that is not ready does nothing, even with a context.
Close ==
  /\ at = "idle" /\ m_isReady
  /\ m_needToStop' = TRUE /\ m_isReady' = FALSE
  /\ m_codecContext' = "null"
  /\ codec' = NewCodec
  /\ UNCHANGED <<m_frameCallback, leaked, failed, m_avpacket, calling, told,
                 newest, shown>>

----------------------------------------------------------------------------
(* Decode of a packet, and of none, as Flush calls it.                      *)

Refuses == ~m_frameCallback \/ ~m_isReady

Decode(p) ==
  /\ at = "idle"
  /\ given' = FALSE
  /\ IF Refuses
     THEN answer' = "false" /\ UNCHANGED <<calling, m_avpacket>>
     ELSE at' = "send" /\ call' = "decode" /\ m_avpacket' = p /\ UNCHANGED answer
  /\ UNCHANGED <<handle, codec, troubled, newest, shown>>

Flush ==
  /\ at = "idle"
  /\ call' = "flush" /\ answer' = "none"
  /\ at' = IF Refuses THEN "flush" ELSE "send"
  /\ UNCHANGED <<handle, m_avpacket, codec, given, troubled, newest, shown>>

\* Decode returns; only then does Flush empty the codec.
Return(says) ==
  /\ answer' = IF call = "decode" THEN says ELSE answer
  /\ at' = IF call = "decode" THEN "idle" ELSE "flush"
  /\ call' = IF call = "decode" THEN "none" ELSE call

\* The codec takes a packet and has some more of its frames ready.
Take(data) ==
  /\ ~codec.draining /\ data # Nothing /\ Len(codec.held) < MaxHeld
  /\ \E n \in codec.ready..(Len(codec.held) + 1) :
       /\ Len(codec.held) + 1 = MaxHeld => n > 0
       /\ codec' = [codec EXCEPT !.held = Append(@, data), !.ready = n]
  /\ newest' = Head(data).no

Drain ==
  /\ ~codec.draining
  /\ codec' = [codec EXCEPT !.ready = Len(codec.held), !.draining = TRUE]
  /\ UNCHANGED newest

\* Mutant of SendTaken: the packet is sent a second time.
SendTakenTwice ==
  /\ at = "send" /\ call = "decode" /\ Take(m_avpacket.data)
  /\ at' = "resend" /\ given' = TRUE
  /\ UNCHANGED <<handle, m_avpacket, call, answer, troubled, shown>>

SendTaken ==
  /\ at = "send" /\ call = "decode" /\ Take(m_avpacket.data)
  /\ at' = "receive" /\ given' = TRUE
  /\ UNCHANGED <<handle, m_avpacket, call, answer, troubled, shown>>

SendNull ==
  /\ at = "send" /\ call = "flush" /\ Drain
  /\ at' = "receive"
  /\ UNCHANGED <<handle, m_avpacket, call, told, shown>>

\* EAGAIN: frames have to be received first.
SendAgain ==
  /\ at = "send" /\ codec.ready > 0
  /\ at' = "drain"
  /\ UNCHANGED <<handle, m_avpacket, codec, call, told, newest, shown>>

\* Mutant of SendFails: the error is not told.
SendFailsSilently ==
  /\ at = "send" /\ Return("true")
  /\ UNCHANGED <<handle, m_avpacket, codec, given, troubled, newest, shown>>

SendFails ==
  /\ at = "send" /\ Return("false")
  /\ UNCHANGED <<handle, m_avpacket, codec, given, troubled, newest, shown>>

\* After EAGAIN Decode sends m_avpacket, in a Flush as well: it holds the fields
\* of the packet before, whose bytes may be gone.
ResendTaken ==
  /\ at = "resend" /\ Take(m_avpacket.data)
  /\ at' = "receive"
  /\ given' = (call = "decode")
  /\ UNCHANGED <<handle, m_avpacket, call, answer, troubled, shown>>

\* What the second send answers is not looked at further.
ResendFails ==
  /\ at = "resend" /\ Return("true")
  /\ UNCHANGED <<handle, m_avpacket, codec, given, troubled, newest, shown>>

\* handleDecodedFrame: the callback gets a copy of the frame.
Receive ==
  /\ at \in {"drain", "receive"} /\ codec.ready > 0
  /\ codec' = [codec EXCEPT !.held = Tail(@), !.ready = @ - 1]
  /\ shown' = IF m_needToStop THEN shown ELSE Head(codec.held)
  /\ UNCHANGED <<handle, m_avpacket, calling, told, newest>>

\* The error may cost the frame.
ReceiveFails ==
  /\ at \in {"drain", "receive"}
  /\ \/ UNCHANGED codec
     \/ codec.ready > 0 /\ codec' = [codec EXCEPT !.held = Tail(@), !.ready = @ - 1]
  /\ troubled' = TRUE
  /\ IF at = "drain" THEN at' = "resend" /\ UNCHANGED <<call, answer>>
                     ELSE Return("false")
  /\ UNCHANGED <<handle, m_avpacket, given, newest, shown>>

\* EAGAIN, or the end of what was drained.
ReceiveNone ==
  /\ at \in {"drain", "receive"} /\ codec.ready = 0
  /\ IF at = "drain" THEN at' = "resend" /\ UNCHANGED <<call, answer, troubled>>
                     ELSE Return("true") /\ troubled' = FALSE
  /\ UNCHANGED <<handle, m_avpacket, codec, given, newest, shown>>

\* Mutant of FlushBuffers: the codec is left as it is.
FlushNoBuffers ==
  /\ at = "flush"
  /\ at' = "idle" /\ call' = "none"
  /\ UNCHANGED <<handle, m_avpacket, codec, told, newest, shown>>

\* avcodec_flush_buffers, on a decoder that is ready.
FlushBuffers ==
  /\ at = "flush"
  /\ at' = "idle" /\ call' = "none"
  /\ IF m_codecContext # "null" /\ m_isReady
     THEN codec' = NewCodec /\ troubled' = FALSE
     ELSE UNCHANGED <<codec, troubled>>
  /\ UNCHANGED <<handle, m_avpacket, answer, given, newest, shown>>

DecodeStep == \/ SendTaken \/ SendNull \/ SendAgain \/ SendFails
              \/ ResendTaken \/ ResendFails
              \/ Receive \/ ReceiveFails \/ ReceiveNone \/ FlushBuffers

----------------------------------------------------------------------------
\* Between two calls the codec never drains, and no frame waits in it but after
\* a receive that failed: so that the next packet is taken, and EAGAIN is not
\* met in an undisturbed stream.
EmptiedBetweenCalls ==
  at \in {"idle", "send"} =>
    ~codec.draining /\ (troubled \/ codec.ready = 0)

\* Decode says true of a packet that the codec did not take, only while trouble
\* from a receive that failed lasts.
TrueMeansGiven == at = "idle" /\ answer = "true" => given \/ troubled

Takes == Len(codec.held)' > Len(codec.held)

\* The codec takes every packet at most once and in the order of reading, unless
\* a Flush meets EAGAIN after a receive that failed: this sends the packet
\* before a second time.
OnceInOrder ==
  [][Takes => \/ newest' > newest
              \/ call = "flush" /\ troubled]_decoderVars

\* Every frame that the codec gives out reaches the callback, also after Close
\* and another Open.
FrameReachesCallback ==
  [][(at \in {"drain", "receive"} /\ at' = at) => shown' = Head(codec.held)]_decoderVars

\* A context is lost only where an Open has failed.
LeakedByFailure == leaked <= failed
=============================================================================
