------------------------------ MODULE FramesProofs -----------------------------
(***************************************************************************)
(* Theorems about the frame decoder, for every size of header, payload and *)
(* chunk, and streams of any length, cut in any way.                       *)
(***************************************************************************)
EXTENDS Frames, NaturalsInduction, WellFoundedInduction, TLAPS

\* Every set of numbers has a least one.
LEMMA LeastIn ==
    ASSUME NEW S \in SUBSET Nat, S # {}
    PROVE  Min(S) \in S /\ \A y \in S : Min(S) <= y
<1>1. PICK x \in S : \A y \in S : ~(<<y, x>> \in OpToRel(<, Nat))
  BY NatLessThanWellFounded, WFMin
<1>2. \A y \in S : ~(y < x)
  BY <1>1, Zenon DEF OpToRel
<1>3. \A y \in S : x <= y
  BY <1>2
<1>4. QED
  BY <1>3 DEF Min

\* Every bounded set of numbers has a greatest one.
LEMMA GreatestIn ==
    ASSUME NEW n \in Nat, NEW S \in SUBSET (0..n), S # {}
    PROVE  Max(S) \in S /\ \A y \in S : y <= Max(S)
<1> DEFINE T == {n - x : x \in S}
<1>1. T \in SUBSET Nat /\ T # {}
  <2>1. \A x \in S : n - x \in Nat
    OBVIOUS
  <2>2. QED
    BY <2>1, Zenon
<1>2. PICK t : t = Min(T)
  OBVIOUS
<1>3. t \in T /\ \A y \in T : t <= y
  <2> HIDE DEF T
  <2>1. QED
    BY <1>1, <1>2, LeastIn
<1>4. PICK x \in S : t = n - x
  BY <1>3
<1>5. ASSUME NEW y \in S PROVE y <= x
  <2>1. n - x <= n - y
    BY <1>3, <1>4
  <2>2. QED
    BY <2>1
<1>6. \A y \in S : x >= y
  BY <1>5
<1>7. QED
  BY <1>6 DEF Max

(***************************************************************************)
(* The invariant.                                                          *)
(***************************************************************************)

FramesTypeOK ==
    /\ sent \in Seq(Frame) /\ arrived \in Nat /\ delivered \in 0..Len(sent)
    /\ failed \in {"no", "overflow", "header", "checksum"}
    /\ peak \in Nat /\ waits \in BOOLEAN

\* Every frame has a header and at most the largest payload, and lies behind all
\* those before it.
Spaced ==
    \A i \in 1..Len(sent) :
        /\ End(i) <= End(i - 1) + Header + MaxPayload
        /\ \A j \in 0..(i - 1) : End(j) + Header <= End(i)

\* No more has arrived than was sent, and no less than what was handed over, all of
\* which is sound.
Within ==
    /\ End(delivered) <= arrived /\ arrived <= End(Len(sent))
    /\ \A i \in 1..delivered : sent[i].fault = "none"

\* A decoder that goes on waits for the rest of the next frame, and has found nothing
\* wrong with it; one that has rejected a frame rejected the next one; one that has
\* met too many bytes met more than the next one.
NextFrame ==
    LET i == delivered + 1 IN
    /\ failed = "no" /\ i <= Len(sent) => ~Complete(i, arrived) /\ ~Rejected(i, arrived)
    /\ failed \in Faults => i <= Len(sent) /\ failed = sent[i].fault /\ Rejected(i, arrived)
    /\ failed = "overflow" => i < Len(sent) /\ End(i) < arrived

\* A peer that waits has one frame on the way at most.
OneAtATime == waits => Len(sent) <= delivered + 1

FramesInv ==
    /\ FramesTypeOK /\ Spaced /\ Within /\ NextFrame /\ OneAtATime
    /\ peak <= MaxPayload + Header /\ SoundNeverRefused

\* Where frame i of the stream s ends.
Pos(s, i) == IF i = 0 THEN 0 ELSE s[i].end

\* The positions are numbers.
LEMMA EndType ==
    ASSUME FramesTypeOK
    PROVE  /\ Len(sent) \in Nat /\ \A i \in 0..Len(sent) : End(i) \in Nat
           /\ \A i \in 1..Len(sent) : sent[i] \in Frame /\ sent[i].fault \in Faults
<1>1. Len(sent) \in Nat /\ \A i \in 1..Len(sent) : sent[i] \in Frame
  BY DEF FramesTypeOK
<1>2. \A i \in 1..Len(sent) : sent[i].end \in Nat /\ sent[i].fault \in Faults
  BY <1>1 DEF Frame
<1>3. QED
  BY <1>1, <1>2 DEF End

\* The frame after those handed over has at most the largest size.
LEMMA NextEnd ==
    ASSUME FramesTypeOK, Spaced, delivered # Len(sent)
    PROVE  /\ delivered + 1 \in 1..Len(sent) /\ End(delivered + 1) \in Nat
           /\ End(delivered + 1) <= End(delivered) + Header + MaxPayload
<1> DEFINE i == delivered + 1
<1>1. delivered \in 0..Len(sent) /\ Len(sent) \in Nat
  BY EndType DEF FramesTypeOK
<1>2. i \in 1..Len(sent) /\ i - 1 = delivered
  BY <1>1
<1>3. End(i) <= End(delivered) + Header + MaxPayload /\ End(i) \in Nat
  BY <1>2, EndType DEF Spaced
<1>4. QED
  BY <1>2, <1>3

\* What is buffered between calls is less than a frame of the largest size.
LEMMA BufferedBound ==
    ASSUME FramesTypeOK, Spaced, Within, NextFrame, failed = "no"
    PROVE  Buffered < MaxPayload + Header
<1>1. /\ delivered \in 0..Len(sent) /\ arrived \in Nat /\ Len(sent) \in Nat
      /\ End(delivered) \in Nat /\ MaxPayload \in Nat /\ Header \in Nat /\ Header > 0
  BY EndType, FramesAssumption DEF FramesTypeOK
<1>2. CASE delivered = Len(sent)
  <2>1. arrived <= End(delivered)
    BY <1>2 DEF Within
  <2>2. QED
    BY <1>1, <2>1 DEF Buffered
<1>3. CASE delivered # Len(sent)
  <2> DEFINE i == delivered + 1
  <2>1. i \in 1..Len(sent)
    BY <1>3, NextEnd
  <2>2. End(i) <= End(delivered) + Header + MaxPayload /\ End(i) \in Nat
    BY <1>3, NextEnd
  <2>3. ~(arrived >= End(i))
    BY <2>1 DEF NextFrame, Complete
  <2> HIDE DEF i
  <2>4. QED
    BY <1>1, <2>2, <2>3 DEF Buffered
<1>4. QED
  BY <1>2, <1>3

\* The frames a call hands over are complete and sound, and the one after them, if
\* any, is incomplete or rejected.
LEMMA ReachesFacts ==
    ASSUME FramesTypeOK, NEW m \in Nat
    PROVE  /\ Reaches(m) \in delivered..Len(sent)
           /\ \A j \in (delivered + 1)..Reaches(m) : Complete(j, m) /\ ~Rejected(j, m)
           /\ Reaches(m) + 1 <= Len(sent) =>
                 ~(Complete(Reaches(m) + 1, m) /\ ~Rejected(Reaches(m) + 1, m))
<1> DEFINE Good(j) == Complete(j, m) /\ ~Rejected(j, m)
           S == {delivered} \cup {i \in (delivered + 1)..Len(sent) : \A j \in (delivered + 1)..i : Good(j)}
<1>1. Len(sent) \in Nat /\ delivered \in 0..Len(sent)
  BY EndType DEF FramesTypeOK
<1>2. S \in SUBSET (0..Len(sent)) /\ S # {}
  BY <1>1
<1>3. PICK r : r = Max(S)
  OBVIOUS
<1>4. r = Reaches(m)
  BY <1>3 DEF Reaches
<1>5. r \in S /\ \A y \in S : y <= r
  <2> HIDE DEF S
  <2>1. QED
    BY <1>1, <1>2, <1>3, GreatestIn
<1> HIDE DEF Good
<1>6. r \in delivered..Len(sent) /\ \A j \in (delivered + 1)..r : Good(j)
  BY <1>1, <1>5
<1>7. ASSUME r + 1 <= Len(sent), Good(r + 1) PROVE FALSE
  <2>1. r + 1 \in (delivered + 1)..Len(sent)
    BY <1>1, <1>6, <1>7
  <2>2. \A j \in (delivered + 1)..(r + 1) : j = r + 1 \/ j \in (delivered + 1)..r
    BY <1>1, <1>6
  <2>3. \A j \in (delivered + 1)..(r + 1) : Good(j)
    BY <1>6, <1>7, <2>2
  <2>4. r + 1 \in S
    BY <2>1, <2>3
  <2>5. r + 1 <= r
    BY <1>5, <2>4
  <2>6. QED
    BY <1>1, <1>6, <2>5
<1>8. QED
  BY <1>4, <1>6, <1>7 DEF Good

\* A frame is sent.
LEMMA SendKeeps ==
    ASSUME FramesInv, NEW payload \in 0..MaxPayload, NEW fault \in Faults, Send(payload, fault)
    PROVE  FramesInv'
<1> DEFINE n == Len(sent)
           e == End(n) + Header + payload
           f == [end |-> e, fault |-> fault]
<1>1. /\ FramesTypeOK /\ Spaced /\ Within /\ NextFrame /\ OneAtATime
      /\ peak <= MaxPayload + Header /\ SoundNeverRefused
  BY DEF FramesInv
<1>2. /\ n \in Nat /\ delivered \in 0..n /\ arrived \in Nat
      /\ \A i \in 0..n : End(i) \in Nat
      /\ MaxPayload \in Nat /\ Header \in Nat /\ Header > 0 /\ payload \in Nat /\ payload <= MaxPayload
  BY <1>1, EndType, FramesAssumption DEF FramesTypeOK
<1>3. e \in Nat /\ End(n) \in Nat
  BY <1>2
<1>4. f \in Frame
  BY <1>3 DEF Frame
<1>5. /\ sent' = Append(sent, f) /\ waits' = (waits /\ delivered = n)
      /\ arrived' = arrived /\ delivered' = delivered /\ failed' = failed /\ peak' = peak
  BY DEF Send
<1>6. /\ Len(sent') = n + 1 /\ sent' \in Seq(Frame) /\ sent'[n + 1] = f
      /\ \A i \in 1..n : sent'[i] = sent[i]
  BY <1>1, <1>4, <1>5 DEF FramesTypeOK
<1>7. f.end = e /\ f.fault = fault
  OBVIOUS
<1> HIDE DEF f
<1>8. FramesTypeOK'
  <2>1. delivered \in 0..(n + 1)
    BY <1>2
  <2>2. QED
    BY <1>1, <1>5, <1>6, <2>1 DEF FramesTypeOK
<1>9. (\A i \in 0..n : Pos(sent', i) = End(i)) /\ Pos(sent', n + 1) = e
  <2>1. \A i \in 0..n : IF i = 0 THEN Pos(sent', i) = 0 /\ End(i) = 0
                        ELSE Pos(sent', i) = sent'[i].end /\ End(i) = sent[i].end
    BY DEF End, Pos
  <2>2. \A i \in 0..n : i = 0 \/ i \in 1..n
    BY <1>2
  <2>3. n + 1 # 0
    BY <1>2
  <2>4. QED
    BY <1>6, <1>7, <2>1, <2>2, <2>3 DEF Pos
<1>10. Spaced'
  <2> SUFFICES ASSUME NEW i \in 1..(n + 1)
               PROVE  /\ Pos(sent', i) <= Pos(sent', i - 1) + Header + MaxPayload
                      /\ \A j \in 0..(i - 1) : Pos(sent', j) + Header <= Pos(sent', i)
    BY <1>6 DEF Spaced, End, Pos
  <2>1. CASE i \in 1..n
    <3>1. i - 1 \in 0..n /\ \A j \in 0..(i - 1) : j \in 0..n
      BY <1>2, <2>1
    <3>2. QED
      BY <1>1, <1>9, <2>1, <3>1 DEF Spaced
  <2>2. CASE i = n + 1
    <3>1. n + 1 - 1 = n
      BY <1>2
    <3>2. e <= End(n) + Header + MaxPayload
      BY <1>2, <1>3
    <3>3. ASSUME NEW j \in 0..n PROVE End(j) + Header <= e
      <4>1. CASE j = n
        BY <1>2, <1>3, <4>1
      <4>2. CASE j # n
        <5>1. n \in 1..n /\ j \in 0..(n - 1)
          BY <1>2, <4>2
        <5>2. End(j) + Header <= End(n)
          BY <1>1, <5>1 DEF Spaced
        <5>3. End(j) \in Nat
          BY <1>2
        <5>4. QED
          BY <1>2, <1>3, <5>2, <5>3
      <4>3. QED
        BY <4>1, <4>2
    <3> HIDE DEF e
    <3>4. QED
      BY <1>2, <1>9, <2>2, <3>1, <3>2, <3>3
  <2>3. QED
    BY <1>2, <2>1, <2>2
<1>11. Within'
  <2>1. Pos(sent', delivered) <= arrived /\ Pos(sent', n + 1) >= arrived
    BY <1>1, <1>2, <1>3, <1>9 DEF Within
  <2>2. \A i \in 1..delivered : i \in 1..n
    BY <1>2
  <2>3. \A i \in 1..delivered : sent'[i].fault = "none"
    BY <1>1, <1>6, <2>2 DEF Within
  <2>4. QED
    BY <1>5, <1>6, <2>1, <2>3 DEF Within, End, Pos
<1>12. NextFrame'
  <2> DEFINE i == delivered + 1
  <2>1. i \in Nat /\ i - 1 = delivered /\ i # 0
    BY <1>2
  <2>2. CASE i <= n
    <3>1. i \in 1..n /\ i \in 0..n /\ delivered \in 0..n
      BY <1>2, <2>2
    <3>2. Pos(sent', i) = End(i) /\ Pos(sent', delivered) = End(delivered) /\ sent'[i] = sent[i]
      BY <1>6, <1>9, <3>1
    <3>3. i <= n + 1 /\ (i < n => i < n + 1)
      BY <1>2, <2>2
    <3>4. QED
      BY <1>1, <1>5, <1>6, <2>1, <2>2, <3>2, <3>3 DEF NextFrame, Complete, Rejected, HeaderIn, End, Pos
  <2>3. CASE ~(i <= n)
    <3>1. i = n + 1 /\ delivered = n
      BY <1>2, <2>3
    <3>2. Pos(sent', i) = e /\ Pos(sent', delivered) = End(n) /\ arrived <= End(n)
      BY <1>1, <1>2, <1>9, <3>1 DEF Within
    <3>3. ~(arrived >= e) /\ ~(arrived >= End(n) + Header)
      BY <1>2, <1>3, <3>2
    <3>4. failed \notin Faults /\ failed # "overflow"
      <4>1. ~(i < n)
        BY <1>2, <2>3
      <4>2. QED
        BY <1>1, <2>3, <4>1 DEF NextFrame
    <3>5. QED
      BY <1>5, <1>6, <2>1, <3>2, <3>3, <3>4 DEF NextFrame, Complete, Rejected, HeaderIn, End, Pos
  <2>4. QED
    BY <2>2, <2>3
<1>13. OneAtATime' /\ (peak <= MaxPayload + Header)'
  <2>1. delivered = n => n + 1 <= delivered + 1
    BY <1>2
  <2>2. waits' => delivered = n
    BY <1>5
  <2>3. OneAtATime'
    BY <1>5, <1>6, <2>1, <2>2 DEF OneAtATime
  <2>4. QED
    BY <1>1, <1>5, <2>3
<1>14. SoundNeverRefused'
  <2>1. DOMAIN sent = 1..n /\ DOMAIN sent' = 1..(n + 1)
    BY <1>1, <1>6 DEF FramesTypeOK
  <2>2. \A i \in 1..n : i \in 1..(n + 1)
    BY <1>2
  <2>3. Sound' => Sound
    BY <1>6, <2>1, <2>2 DEF Sound
  <2>4. QED
    BY <1>1, <1>5, <2>3 DEF SoundNeverRefused
<1>15. QED
  BY <1>8, <1>10, <1>11, <1>12, <1>13, <1>14 DEF FramesInv

\* A chunk arrives.
LEMMA PushKeeps ==
    ASSUME FramesInv, NEW n \in 1..MaxChunk, arrived + n <= End(Len(sent)), Push(n)
    PROVE  FramesInv'
<1> DEFINE m == arrived + n
           r == Reaches(m)
<1>1. /\ FramesTypeOK /\ Spaced /\ Within /\ NextFrame /\ OneAtATime
      /\ peak <= MaxPayload + Header /\ SoundNeverRefused
  BY DEF FramesInv
<1>2. /\ Len(sent) \in Nat /\ delivered \in 0..Len(sent) /\ arrived \in Nat /\ n \in Nat /\ m \in Nat
      /\ \A i \in 0..Len(sent) : End(i) \in Nat
      /\ MaxPayload \in Nat /\ Header \in Nat /\ Header > 0
  BY <1>1, EndType, FramesAssumption DEF FramesTypeOK
<1>3. /\ failed = "no" /\ arrived' = m /\ sent' = sent /\ waits' = waits
      /\ \/ Overflows(n) /\ failed' = "overflow" /\ delivered' = delivered /\ peak' = peak
         \/ /\ ~Overflows(n) /\ delivered' = r /\ peak' = Max({peak, Buffered + n})
            /\ failed' = IF r + 1 <= Len(sent) /\ Rejected(r + 1, m) THEN sent[r + 1].fault ELSE "no"
  BY DEF Push
<1>4. m <= End(Len(sent)) /\ m >= arrived
  BY <1>2
<1>5. /\ r \in delivered..Len(sent)
      /\ \A j \in (delivered + 1)..r : Complete(j, m) /\ ~Rejected(j, m)
      /\ r + 1 <= Len(sent) => ~(Complete(r + 1, m) /\ ~Rejected(r + 1, m))
  BY <1>1, <1>2, ReachesFacts
<1> HIDE DEF m, r
<1>6. \A i \in 1..Len(sent) : sent[i].fault \in Faults
  BY <1>1, EndType
<1>7. Spaced'
  BY <1>1, <1>3 DEF Spaced, End
<1>8. CASE Overflows(n) /\ failed' = "overflow" /\ delivered' = delivered /\ peak' = peak
  <2>1. FramesTypeOK'
    BY <1>1, <1>2, <1>3, <1>8 DEF FramesTypeOK
  <2>2. Within'
    <3>1. End(delivered) <= m
      <4>1. End(delivered) \in Nat /\ End(delivered) <= arrived
        BY <1>1, <1>2 DEF Within
      <4>2. QED
        BY <1>2, <1>4, <4>1
    <3>2. QED
      BY <1>1, <1>3, <1>4, <1>8, <3>1 DEF Within, End
  <2>3. delivered + 1 < Len(sent) /\ End(delivered + 1) < m
    <3>1. arrived - End(delivered) + n > MaxPayload + Header
      BY <1>8 DEF Overflows, Buffered
    <3>2. End(Len(sent)) \in Nat /\ End(delivered) \in Nat /\ m = arrived + n
      BY <1>2 DEF m
    <3>3. m > End(delivered) + Header + MaxPayload
      BY <1>2, <3>1, <3>2
    <3>4. delivered # Len(sent)
      BY <1>2, <1>4, <3>2, <3>3
    <3>5. /\ delivered + 1 \in 1..Len(sent) /\ End(delivered + 1) \in Nat
          /\ End(delivered + 1) <= End(delivered) + Header + MaxPayload
      BY <1>1, <3>4, NextEnd
    <3>6. End(delivered + 1) < m
      BY <1>2, <3>2, <3>3, <3>5
    <3>7. delivered + 1 # Len(sent)
      BY <1>2, <1>4, <3>2, <3>5, <3>6
    <3>8. QED
      BY <1>2, <3>5, <3>6, <3>7
  <2>4. NextFrame'
    BY <1>3, <1>8, <2>3 DEF NextFrame, Faults, End
  <2>5. OneAtATime' /\ (peak <= MaxPayload + Header)'
    BY <1>1, <1>3, <1>8 DEF OneAtATime
  <2>6. ~waits
    <3>1. ~(Len(sent) <= delivered + 1)
      BY <1>2, <2>3
    <3>2. QED
      BY <1>1, <3>1 DEF OneAtATime
  <2>7. SoundNeverRefused'
    BY <1>3, <2>6 DEF SoundNeverRefused
  <2>8. QED
    BY <1>7, <2>1, <2>2, <2>4, <2>5, <2>7 DEF FramesInv
<1>9. CASE /\ ~Overflows(n) /\ delivered' = r /\ peak' = Max({peak, Buffered + n})
           /\ failed' = IF r + 1 <= Len(sent) /\ Rejected(r + 1, m) THEN sent[r + 1].fault ELSE "no"
  <2>1. r \in 0..Len(sent) /\ r \in Nat
    BY <1>2, <1>5
  <2>2. r + 1 <= Len(sent) => r + 1 \in 1..Len(sent)
    BY <1>2, <2>1
  <2>3. Rejected(r + 1, m) => sent[r + 1].fault \in {"header", "checksum"}
    BY DEF Rejected
  <2>4. \/ failed' = "no" /\ (r + 1 <= Len(sent) => ~Rejected(r + 1, m))
        \/ /\ r + 1 <= Len(sent) /\ failed' = sent[r + 1].fault /\ Rejected(r + 1, m)
           /\ failed' \in {"header", "checksum"}
    BY <1>9, <2>3
  <2>5. Buffered + n \in Nat /\ Buffered + n <= MaxPayload + Header
    <3>1. End(delivered) \in Nat /\ End(delivered) <= arrived
      BY <1>1, <1>2 DEF Within
    <3>2. ~(Buffered + n > MaxPayload + Header)
      BY <1>9 DEF Overflows
    <3>3. Buffered \in Nat
      BY <1>2, <3>1 DEF Buffered
    <3> HIDE DEF Buffered
    <3>4. QED
      BY <1>2, <3>2, <3>3
  <2>6. peak' \in Nat /\ peak' <= MaxPayload + Header
    <3>1. PICK b : b = Buffered + n
      OBVIOUS
    <3>2. peak \in Nat /\ b \in Nat /\ b <= MaxPayload + Header /\ peak <= MaxPayload + Header
      BY <1>1, <2>5, <3>1 DEF FramesTypeOK
    <3>3. \E x \in {peak, b} : \A y \in {peak, b} : x >= y
      BY <3>2
    <3>4. Max({peak, b}) \in {peak, b}
      BY <3>3 DEF Max
    <3>5. peak' \in {peak, b}
      BY <1>9, <3>1, <3>4
    <3>6. QED
      BY <3>2, <3>5
  <2>7. FramesTypeOK'
    <3>1. failed' \in {"no", "overflow", "header", "checksum"}
      BY <2>4
    <3>2. QED
      BY <1>1, <1>2, <1>3, <1>9, <2>1, <2>6, <3>1 DEF FramesTypeOK
  <2>8. Within'
    <3>1. End(r) <= m
      <4>1. CASE r = delivered
        <5>1. End(delivered) \in Nat /\ End(delivered) <= arrived
          BY <1>1, <1>2 DEF Within
        <5>2. QED
          BY <1>2, <1>4, <4>1, <5>1
      <4>2. CASE r # delivered
        <5>1. r \in (delivered + 1)..r
          BY <1>2, <1>5, <4>2
        <5>2. m >= End(r)
          BY <1>5, <5>1 DEF Complete
        <5>3. End(r) \in Nat
          BY <1>2, <2>1
        <5>4. QED
          BY <1>2, <5>2, <5>3
      <4>3. QED
        BY <4>1, <4>2
    <3>2. ASSUME NEW i \in 1..r PROVE sent[i].fault = "none"
      <4>1. CASE i \in 1..delivered
        BY <1>1, <4>1 DEF Within
      <4>2. CASE i \in (delivered + 1)..r
        <5>1. Complete(i, m) /\ ~Rejected(i, m)
          BY <1>5, <4>2
        <5>2. i \in 1..Len(sent) /\ i \in 0..Len(sent) /\ i - 1 \in 0..Len(sent) /\ i - 1 \in 0..(i - 1)
          BY <1>2, <2>1, <4>2
        <5>3. End(i - 1) + Header <= End(i) /\ m >= End(i)
          BY <1>1, <5>1, <5>2 DEF Spaced, Complete
        <5>4. End(i) \in Nat /\ End(i - 1) \in Nat
          BY <1>2, <5>2
        <5>5. m >= End(i - 1) + Header
          BY <1>2, <5>3, <5>4
        <5>6. sent[i].fault # "header" /\ sent[i].fault # "checksum"
          BY <5>1, <5>5 DEF Rejected, HeaderIn
        <5>7. QED
          BY <1>6, <5>2, <5>6 DEF Faults
      <4>3. QED
        BY <1>2, <2>1, <4>1, <4>2
    <3>3. QED
      BY <1>3, <1>4, <1>9, <3>1, <3>2 DEF Within, End
  <2>9. NextFrame'
    <3>1. /\ failed' = "no" /\ r + 1 <= Len(sent) => ~Complete(r + 1, m) /\ ~Rejected(r + 1, m)
          /\ failed' \in Faults => /\ r + 1 <= Len(sent) /\ failed' = sent[r + 1].fault
                                    /\ Rejected(r + 1, m)
          /\ failed' # "overflow"
      BY <1>5, <2>4 DEF Faults
    <3>2. QED
      BY <1>3, <1>9, <3>1 DEF NextFrame, Complete, Rejected, HeaderIn, End
  <2>10. OneAtATime'
    <3>1. r >= delivered
      BY <1>2, <1>5
    <3>2. Len(sent) <= delivered + 1 => Len(sent) <= r + 1
      BY <1>2, <2>1, <3>1
    <3>3. QED
      BY <1>1, <1>3, <1>9, <3>2 DEF OneAtATime
  <2>11. SoundNeverRefused'
    <3>1. DOMAIN sent = 1..Len(sent)
      BY <1>1 DEF FramesTypeOK
    <3>2. Sound => failed' = "no"
      BY <2>2, <2>4, <3>1 DEF Sound
    <3>3. QED
      BY <1>3, <3>2 DEF SoundNeverRefused, Sound
  <2>12. QED
    BY <1>7, <2>6, <2>7, <2>8, <2>9, <2>10, <2>11 DEF FramesInv
<1>10. QED
  BY <1>3, <1>8, <1>9

\* The invariant holds throughout.
LEMMA FramesInvHolds == Spec => []FramesInv
<1>1. Init => FramesInv
  <2> SUFFICES ASSUME Init PROVE FramesInv
    OBVIOUS
  <2>1. /\ sent = <<>> /\ Len(sent) = 0 /\ arrived = 0 /\ delivered = 0 /\ failed = "no"
        /\ peak = 0 /\ waits = TRUE /\ sent \in Seq(Frame)
    BY DEF Init
  <2>2. MaxPayload \in Nat /\ Header \in Nat
    BY FramesAssumption
  <2>3. FramesTypeOK
    BY <2>1 DEF FramesTypeOK
  <2>4. Spaced /\ NextFrame
    BY <2>1 DEF Spaced, NextFrame, Faults
  <2>5. Within /\ OneAtATime
    BY <2>1 DEF Within, OneAtATime, End
  <2>6. peak <= MaxPayload + Header /\ SoundNeverRefused
    BY <2>1, <2>2 DEF SoundNeverRefused
  <2>7. QED
    BY <2>3, <2>4, <2>5, <2>6 DEF FramesInv
<1>2. FramesInv /\ [Next]_vars => FramesInv'
  <2> SUFFICES ASSUME FramesInv, [Next]_vars PROVE FramesInv'
    OBVIOUS
  <2>1. CASE \E payload \in 0..MaxPayload, fault \in Faults : Send(payload, fault)
    BY <2>1, SendKeeps
  <2>2. CASE \E n \in 1..MaxChunk : arrived + n <= End(Len(sent)) /\ Push(n)
    BY <2>2, PushKeeps
  <2>3. CASE UNCHANGED vars
    BY <2>3 DEF vars, FramesInv, FramesTypeOK, Spaced, Within, NextFrame, OneAtATime,
                SoundNeverRefused, Sound, End, Complete, Rejected, HeaderIn
  <2>4. QED
    BY <2>1, <2>2, <2>3 DEF Next
<1>3. QED
  BY <1>1, <1>2, PTL DEF Spec

\* README, invariant 10: for streams of any length cut in any way, FrameDecoder's buffer
\* holds one frame of the largest size at most, and less than that between calls.
THEOREM BufferIsBounded == Spec => []BufferBounded
<1>1. FramesInv => BufferBounded
  BY BufferedBound DEF FramesInv, BufferBounded
<1>2. QED
  BY <1>1, FramesInvHolds, PTL

\* The first bad frame, and what lies before it.
LEMMA LeadingFacts ==
    ASSUME FramesTypeOK
    PROVE  /\ DOMAIN sent = 1..Len(sent) /\ Len(sent) \in Nat /\ Leading \in 0..Len(sent)
           /\ Bad # {} => /\ Min(Bad) = Leading + 1 /\ Leading + 1 \in 1..Len(sent)
                          /\ sent[Leading + 1].fault \in {"header", "checksum"}
           /\ Bad = {} => Leading = Len(sent)
           /\ \A i \in 1..Leading : sent[i].fault = "none"
<1>1. /\ DOMAIN sent = 1..Len(sent) /\ Len(sent) \in Nat
      /\ \A i \in 1..Len(sent) : sent[i].fault \in Faults
  BY EndType DEF FramesTypeOK
<1>2. CASE Bad = {}
  <2>1. Leading = Len(sent)
    BY <1>2 DEF Leading
  <2>2. \A i \in 1..Len(sent) : sent[i].fault = "none"
    BY <1>1, <1>2 DEF Bad
  <2>3. QED
    BY <1>1, <1>2, <2>1, <2>2
<1>3. CASE Bad # {}
  <2>1. Bad \in SUBSET (1..Len(sent)) /\ Bad \in SUBSET Nat
    BY <1>1 DEF Bad
  <2>2. PICK b : b = Min(Bad)
    OBVIOUS
  <2>3. b \in Bad /\ \A y \in Bad : b <= y
    BY <1>3, <2>1, <2>2, LeastIn
  <2>4. b \in 1..Len(sent) /\ sent[b].fault # "none"
    BY <1>1, <2>3 DEF Bad
  <2>5. Leading = b - 1
    BY <1>3, <2>2 DEF Leading
  <2>6. Leading \in 0..Len(sent) /\ Leading + 1 = b
    BY <1>1, <2>4, <2>5
  <2>7. ASSUME NEW i \in 1..Leading PROVE sent[i].fault = "none"
    <3>1. i \in 1..Len(sent) /\ ~(b <= i)
      BY <1>1, <2>4, <2>5
    <3>2. i \notin Bad
      BY <2>3, <3>1
    <3>3. QED
      BY <1>1, <3>1, <3>2 DEF Bad
  <2>8. sent[b].fault \in {"header", "checksum"}
    BY <1>1, <2>4 DEF Faults
  <2>9. QED
    BY <1>1, <1>3, <2>2, <2>4, <2>6, <2>7, <2>8
<1>4. QED
  BY <1>2, <1>3

\* Frames end in the order in which they were sent.
LEMMA EndOrder ==
    ASSUME FramesTypeOK, Spaced, NEW i \in 0..Len(sent), NEW j \in 0..i
    PROVE  End(j) \in Nat /\ End(i) \in Nat /\ End(j) <= End(i) /\ (j # i => End(j) + Header <= End(i))
<1>1. Len(sent) \in Nat /\ End(i) \in Nat /\ End(j) \in Nat /\ Header \in Nat
  BY EndType, FramesAssumption
<1>2. CASE j = i
  BY <1>1, <1>2
<1>3. CASE j # i
  <2>1. i \in 1..Len(sent) /\ j \in 0..(i - 1)
    BY <1>1, <1>3
  <2>2. End(j) + Header <= End(i)
    BY <2>1 DEF Spaced
  <2>3. QED
    BY <1>1, <2>2
<1>4. QED
  BY <1>2, <1>3

\* What FrameDecoder::push has handed over and rejected follows from what has arrived,
\* for streams of any length cut in any way; a decoder that has overflowed, which
\* does depend on the cut, was given bytes of more than one frame to hold.
THEOREM DecodingFollows == Spec => []DecodingFollowsArrival
<1>1. FramesInv => DecodingFollowsArrival
  <2> SUFFICES ASSUME FramesInv PROVE DecodingFollowsArrival
    OBVIOUS
  <2>1. FramesTypeOK /\ Spaced /\ Within /\ NextFrame
    BY DEF FramesInv
  <2>2. /\ Len(sent) \in Nat /\ delivered \in 0..Len(sent) /\ Header \in Nat /\ arrived \in Nat
        /\ \A i \in 0..Len(sent) : End(i) \in Nat
    BY <2>1, EndType, FramesAssumption DEF FramesTypeOK
  <2>3. /\ Leading \in 0..Len(sent)
        /\ Bad # {} => /\ Min(Bad) = Leading + 1 /\ Leading + 1 \in 1..Len(sent)
                       /\ sent[Leading + 1].fault \in {"header", "checksum"}
        /\ Bad = {} => Leading = Len(sent)
        /\ \A i \in 1..Leading : sent[i].fault = "none"
    BY <2>1, LeadingFacts
  <2>4. delivered <= Leading
    <3>1. SUFFICES ASSUME Leading < delivered PROVE FALSE
      BY <2>2, <2>3
    <3>2. Leading # Len(sent) /\ Leading + 1 \in 1..delivered
      BY <2>2, <2>3, <3>1
    <3>3. sent[Leading + 1].fault = "none"
      BY <2>1, <3>2 DEF Within
    <3>4. QED
      BY <2>3, <3>2, <3>3
  <2>5. CASE failed = "overflow"
    BY <2>1, <2>4, <2>5 DEF DecodingFollowsArrival, NextFrame
  <2>6. CASE failed # "overflow"
    <3> DEFINE next == delivered + 1
    <3>1. next \in Nat /\ next - 1 = delivered /\ (next <= Len(sent) => next \in 1..Len(sent))
      BY <2>2
    <3>2. failed = "no" \/ (failed \in Faults /\ failed # "none")
      BY <2>1, <2>6 DEF FramesTypeOK, Faults
    <3>3. next <= Leading => ~(End(next) <= arrived) /\ failed = "no"
      <4>1. SUFFICES ASSUME next <= Leading PROVE ~(End(next) <= arrived) /\ failed = "no"
        OBVIOUS
      <4>2. next \in 1..Leading /\ next <= Len(sent)
        BY <2>2, <2>3, <4>1
      <4>3. sent[next].fault = "none"
        BY <2>3, <4>2
      <4>4. failed = "no"
        BY <2>1, <3>2, <4>2, <4>3 DEF NextFrame
      <4>5. ~(arrived >= End(next))
        BY <2>1, <4>2, <4>4 DEF NextFrame, Complete
      <4>6. QED
        BY <2>2, <3>1, <4>2, <4>4, <4>5
    <3>4. delivered = Max({i \in 0..Leading : End(i) <= arrived})
      <4> DEFINE S == {i \in 0..Leading : End(i) <= arrived}
      <4>1. delivered \in S
        BY <2>1, <2>2, <2>3, <2>4 DEF Within
      <4>2. ASSUME NEW i \in S PROVE i <= delivered
        <5>1. SUFFICES ASSUME delivered < i PROVE FALSE
          BY <2>2, <2>3
        <5>2. i \in 0..Len(sent) /\ next \in 0..i /\ next <= Leading
          BY <2>2, <2>3, <5>1
        <5>3. End(next) <= End(i) /\ End(next) \in Nat /\ End(i) \in Nat
          BY <2>1, <5>2, EndOrder
        <5>4. End(i) <= arrived
          OBVIOUS
        <5>5. End(next) <= arrived
          BY <2>2, <5>3, <5>4
        <5>6. QED
          BY <3>3, <5>2, <5>5
      <4>3. Leading \in Nat /\ S \in SUBSET (0..Leading) /\ S # {}
        <5>1. Leading \in Nat
          BY <2>2, <2>3
        <5>2. S \in SUBSET (0..Leading)
          OBVIOUS
        <5> HIDE DEF S
        <5>3. QED
          BY <4>1, <5>1, <5>2
      <4>4. PICK x : x = Max(S)
        OBVIOUS
      <4>5. x \in S /\ \A y \in S : y <= x
        <5> HIDE DEF S
        <5>1. QED
          BY <4>3, <4>4, GreatestIn
      <4>6. x <= delivered /\ delivered <= x /\ x \in Nat
        BY <2>3, <4>1, <4>2, <4>3, <4>5
      <4>7. x = delivered
        BY <2>2, <4>6
      <4>8. QED
        BY <4>4, <4>7
    <3> DEFINE shows == IF sent[Leading + 1].fault = "header" THEN End(Leading) + Header
                        ELSE End(Leading + 1)
    <3>5. Exposed <=> Bad # {} /\ arrived >= shows
      BY <2>3 DEF Exposed
    <3>6. ASSUME Bad # {}, delivered = Leading
          PROVE  failed = IF Exposed THEN sent[Min(Bad)].fault ELSE "no"
      <4>1. /\ next = Leading + 1 /\ next <= Len(sent)
            /\ sent[next].fault \in {"header", "checksum"} /\ sent[Min(Bad)] = sent[next]
        BY <2>3, <3>1, <3>6
      <4>2. Rejected(next, arrived) <=> arrived >= shows
        <5>1. End(Leading) = End(next - 1)
          BY <3>1, <3>6
        <5>2. sent[next].fault = "header" \/ sent[next].fault = "checksum"
          BY <4>1
        <5> HIDE DEF next
        <5>3. QED
          BY <4>1, <5>1, <5>2 DEF Rejected, HeaderIn, Complete
      <4> HIDE DEF shows
      <4>3. CASE failed = "no"
        BY <2>1, <3>5, <4>1, <4>2, <4>3 DEF NextFrame
      <4>4. CASE failed \in Faults
        BY <2>1, <3>5, <3>6, <4>1, <4>2, <4>4 DEF NextFrame
      <4>5. QED
        BY <3>2, <4>3, <4>4
    <3>7. ASSUME Bad # {}, delivered # Leading
          PROVE  failed = IF Exposed THEN sent[Min(Bad)].fault ELSE "no"
      <4>1. next <= Leading /\ Leading \in 0..Len(sent) /\ next \in 0..Leading
        BY <2>2, <2>3, <2>4, <3>7
      <4>2. ~(End(next) <= arrived) /\ failed = "no"
        BY <3>3, <4>1
      <4>3. /\ End(next) <= End(Leading) /\ End(next) \in Nat /\ End(Leading) \in Nat
        BY <2>1, <4>1, EndOrder
      <4>4. /\ Leading + 1 \in 0..Len(sent) /\ Leading \in 0..(Leading + 1)
        BY <2>2, <2>3, <3>7
      <4>5. End(Leading) <= End(Leading + 1) /\ End(Leading + 1) \in Nat
        BY <2>1, <4>4, EndOrder
      <4>6. shows \in Nat /\ End(Leading) <= shows
        BY <2>2, <4>3, <4>5
      <4> HIDE DEF shows
      <4>7. ~(arrived >= shows)
        BY <2>2, <4>2, <4>3, <4>6
      <4>8. QED
        BY <3>5, <4>2, <4>7
    <3>8. ASSUME Bad = {} PROVE failed = "no" /\ ~Exposed
      <4>1. ~Exposed
        BY <3>8 DEF Exposed
      <4>2. next <= Len(sent) => next <= Leading
        BY <2>3, <3>8
      <4>3. failed = "no"
        BY <2>1, <3>2, <3>3, <4>2 DEF NextFrame
      <4>4. QED
        BY <4>1, <4>3
    <3>9. failed = IF Exposed THEN sent[Min(Bad)].fault ELSE "no"
      BY <3>6, <3>7, <3>8
    <3>10. QED
      BY <2>6, <3>4, <3>9 DEF DecodingFollowsArrival
  <2>7. QED
    BY <2>5, <2>6
<1>2. QED
  BY <1>1, FramesInvHolds, PTL

\* A peer that waits for each answer, as Client does, never has a sound stream refused
\* by FrameDecoder::push, whatever the sizes of its frames and of the chunks.
THEOREM SoundStreamsPass == Spec => []SoundNeverRefused
<1>1. FramesInv => SoundNeverRefused
  BY DEF FramesInv
<1>2. QED
  BY <1>1, FramesInvHolds, PTL

================================================================================
