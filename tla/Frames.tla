--------------------------------- MODULE Frames --------------------------------
(***************************************************************************)
(* The streaming frame decoder (src/wire.cpp, FrameDecoder::push) fed by a *)
(* byte stream that arrives in chunks of any size.                         *)
(*                                                                         *)
(* A frame is where it ends in the stream and what is wrong with it, if    *)
(* anything; the bytes themselves matter to the decoder only through that. *)
(* The stream is the concatenation of the frames sent, and the buffer is   *)
(* the stretch of it that has arrived and is not yet decoded.  A bad       *)
(* header says nothing of where its frame ends: what a peer writes after   *)
(* it counts as further frames.                                            *)
(*                                                                         *)
(* A definition whose name continues that of the next one after an         *)
(* underscore is a seeded fault of it, used to show that a property can    *)
(* fail.                                                                   *)
(***************************************************************************)
EXTENDS Integers, Sequences, FiniteSetsExt

CONSTANTS
    Header,      \* kFrameHeaderSize
    MaxPayload,  \* max_payload_
    MaxChunk,    \* kReceiveChunk: the largest piece one recv returns
    MaxFrames    \* bound: frames sent

\* What push can find: nothing wrong; magic, version, type, flags or the declared
\* length; the checksum over the whole frame.
Faults == {"none", "header", "checksum"}
Frame == [end: Nat, fault: Faults]

ASSUME FramesAssumption ==
    /\ {Header, MaxPayload, MaxChunk, MaxFrames} \subseteq Nat
    /\ Header > 0

VARIABLES
    sent,       \* the frames of the stream
    arrived,    \* bytes of it received
    delivered,  \* frames handed to the frame handler
    failed,     \* FrameDecoder::failed_: "no", "overflow" or the fault met
    peak,       \* history: the most bytes buffer_ has held, frames not yet cut off included
    waits       \* history: the peer has sent no frame before the last was handled

vars == <<sent, arrived, delivered, failed, peak, waits>>

\* The position in the stream at which frame i + 1 starts.
End(i) == IF i = 0 THEN 0 ELSE sent[i].end

Buffered == arrived - End(delivered)

Overflows_Never(n) == FALSE
Overflows_AtLimit(n) == Buffered + n >= MaxPayload + Header
Overflows(n) == Buffered + n > MaxPayload + Header

--------------------------------------------------------------------------------
(* push *)

\* The loop stops before frame i, with m bytes received: its header or its payload
\* is incomplete, or it is rejected.
HeaderIn(i, m) == m >= End(i - 1) + Header
Complete_WithSpare(i, m) == m > End(i)
Complete(i, m) == m >= End(i)

Rejected(i, m) ==
    \/ HeaderIn(i, m) /\ sent[i].fault = "header"
    \/ Complete(i, m) /\ sent[i].fault = "checksum"

\* The frames one call hands over: those that are complete and sound, up to the
\* first that is not.
Reaches(m) ==
    Max({delivered} \cup {i \in (delivered + 1)..Len(sent) :
            \A j \in (delivered + 1)..i : Complete(j, m) /\ ~Rejected(j, m)})

Push(n) ==
    LET m == arrived + n
        i == Reaches(m) + 1
    IN  /\ failed = "no" /\ arrived' = m
        /\ \/ /\ Overflows(n) /\ failed' = "overflow"
              /\ UNCHANGED <<delivered, peak>>
           \/ /\ ~Overflows(n) /\ delivered' = Reaches(m)
              /\ peak' = Max({peak, Buffered + n})
              /\ failed' = IF i <= Len(sent) /\ Rejected(i, m) THEN sent[i].fault ELSE "no"
    /\ UNCHANGED <<sent, waits>>

--------------------------------------------------------------------------------
Init ==
    /\ sent = <<>> /\ arrived = 0 /\ delivered = 0 /\ failed = "no"
    /\ peak = 0 /\ waits = TRUE

\* The peer writes a frame (encode_frame refuses a payload above the maximum).
Send(payload, fault) ==
    /\ Len(sent) < MaxFrames
    /\ sent' = Append(sent, [end |-> End(Len(sent)) + Header + payload, fault |-> fault])
    /\ waits' = (waits /\ delivered = Len(sent))
    /\ UNCHANGED <<arrived, delivered, failed, peak>>

Next ==
    \/ \E payload \in 0..MaxPayload, fault \in Faults : Send(payload, fault)
    \/ \E n \in 1..MaxChunk : arrived + n <= End(Len(sent)) /\ Push(n)

Spec == Init /\ [][Next]_vars

--------------------------------------------------------------------------------
(* Properties *)

Sound == \A i \in DOMAIN sent : sent[i].fault = "none"

\* README, invariant 10: however the stream is cut into chunks, the buffer never
\* holds more than one frame of the largest size, not even inside push before the
\* frames it has handed over are cut off; between calls it holds less than one.
BufferBounded ==
    /\ peak <= MaxPayload + Header
    /\ failed = "no" => Buffered < MaxPayload + Header

\* The bad frames, the number of frames before the first of them, and whether
\* enough of that one has arrived to tell that it is bad.
Bad == {i \in DOMAIN sent : sent[i].fault # "none"}
Leading == IF Bad = {} THEN Len(sent) ELSE Min(Bad) - 1
Exposed ==
    /\ Bad # {}
    /\ arrived >= IF sent[Min(Bad)].fault = "header" THEN End(Leading) + Header
                  ELSE End(Min(Bad))

\* What push has handed over and what it has rejected follows from the bytes that
\* have arrived, at every moment and however they were cut: all the frames before
\* the first bad one that are complete, and the fault of that one as soon as it
\* shows.  Only overflow depends on the cut: the chunk that met it would have put
\* more than one frame into the buffer, the rest of a frame and bytes of the next,
\* both of which may be sound.
DecodingFollowsArrival ==
    IF failed = "overflow"
    THEN delivered <= Leading /\ delivered + 1 < Len(sent) /\ End(delivered + 1) < arrived
    ELSE /\ delivered = Max({i \in 0..Leading : End(i) <= arrived})
         /\ failed = IF Exposed THEN sent[Min(Bad)].fault ELSE "no"

\* A peer that waits for each answer, as Client does, never has a sound stream
\* refused.  One that sends ahead may: push compares the bytes of all the frames
\* that arrive together with the bound for one.
SoundNeverRefused == Sound /\ waits => failed = "no"

=============================================================================
