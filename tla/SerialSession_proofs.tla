------------------------ MODULE SerialSession_proofs ------------------------
(***************************************************************************)
(* What the window and the break achieve for every size of frames, beats   *)
(* and buffers and any number of frames a call: the board's input buffer   *)
(* is never written while full, and a session that is open after a reset   *)
(* or a whole call has nothing left anywhere.                              *)
(*                                                                         *)
(* The argument counts bytes.  Every byte on its way in is of a frame the  *)
(* accelerator has not finished, and every byte on its way out of one it   *)
(* has; so what is on its way in is at most the frames not yet yielded,    *)
(* which the window bounds, and once the last frame is yielded nothing is  *)
(* on its way at all.                                                      *)
(*                                                                         *)
(* Counting says how many; that each frame yielded answers its own input   *)
(* needs which.  A stream is a set of places and the byte at each; every   *)
(* queue between the host's write and its read holds a stretch of the      *)
(* call's bytes in, or of its answers out, and the stretches follow one    *)
(* another with nothing between them.                                      *)
(***************************************************************************)
EXTENDS SerialSession, SequenceTheorems, TLAPS

InByte  == [call : {0, 1}, frame : Nat, at : Nat] \cup {NoByte}
OutByte == [of : Seq(InByte), at : Nat] \cup {NoByte}

InTypes ==
  /\ wire \in Seq(InByte) /\ rx \in Seq(InByte) /\ words \in Seq(InByte)
  /\ filled \in 0 .. InBytes - 1
  /\ collected \in Seq(InByte) /\ Len(collected) = InBytes - 1

OutTypes ==
  /\ remaining \in 0 .. OutBytes
  /\ pending \in Seq(OutByte) /\ Len(pending) = OutBytes
  /\ tx \in Seq(OutByte) /\ shifting \in Seq(OutByte)
  /\ inbox \in Seq(OutByte) /\ read \in Seq(OutByte)
  /\ given \in 0 .. OutBeats - 1 /\ computed \in BOOLEAN
  /\ IF computed THEN Len(words) = FrameIn ELSE given = 0

HostTypes ==
  /\ session \in {"closed", "breaking", "settling", "open", "streaming", "raised"}
  /\ held_low \in BOOLEAN /\ error = FALSE /\ call \in {0, 1}
  /\ sent \in 0 .. Count /\ answers \in Seq(Seq(OutByte))
  /\ Yielded <= sent /\ sent - Yielded <= Window

\* The bytes on their way in, and those on their way out.
BytesIn  == Len(wire) + Len(rx) + filled + Len(words)
BytesOut == Len(read) + Len(inbox) + Len(shifting) + Len(tx) + remaining

\* The accelerator has finished n frames of the call.
Flow(n) == /\ BytesIn + FrameIn * n <= FrameIn * sent
           /\ FrameOut * Yielded + BytesOut <= FrameOut * n + OutBytes * given

BoardEmpty == /\ {rx, words, tx} = {<< >>} /\ filled = 0 /\ remaining = 0
              /\ ~computed /\ given = 0

Resets ==
  /\ held_low => session \in {"breaking", "settling"}
  /\ session \in {"breaking", "settling"} => wire = << >> /\ read = << >>
  /\ session = "breaking" /\ held_low => BoardEmpty
  /\ session = "settling" => BoardEmpty /\ shifting = << >>

Empty == BoardEmpty /\ {wire, shifting, inbox, read} = {<< >>}

InFlight == session \in {"closed", "open", "streaming", "raised"} => \E n \in Nat : Flow(n)

Inv == /\ InTypes /\ OutTypes /\ HostTypes /\ Resets /\ InFlight
       /\ session = "open" => Empty

-----------------------------------------------------------------------------
(* Arithmetic of frames and bytes.                                         *)

LEMMA Sizes ==
  /\ InBytes \in Nat \ {0} /\ InBeats \in Nat \ {0} /\ FrameIn \in Nat \ {0}
  /\ OutBytes \in Nat \ {0} /\ OutBeats \in Nat \ {0} /\ FrameOut \in Nat \ {0}
  /\ RxDepth \in Nat \ {0} /\ TxDepth \in Nat \ {0} /\ Count \in Nat \ {0}
<1>1. ASSUME NEW x \in Nat \ {0}, NEW y \in Nat \ {0} PROVE x * y \in Nat \ {0}
  OBVIOUS
<1> QED
  BY <1>1, BridgeAssumption, SessionAssumption DEF FrameIn, FrameOut

LEMMA Grows ==
  ASSUME NEW a \in Nat, NEW x \in Int, NEW y \in Int, x <= y
  PROVE  a * x <= a * y
<1>1. a * (y - x) >= 0
  OBVIOUS
<1>2. a * (y - x) = a * y - a * x
  OBVIOUS
<1> QED
  BY <1>1, <1>2

LEMMA Cancels ==
  ASSUME NEW a \in Nat \ {0}, NEW x \in Int, NEW y \in Int, a * x < a * y
  PROVE  x < y
<1> SUFFICES ASSUME y <= x PROVE FALSE
  OBVIOUS
<1> QED
  BY Grows

LEMMA Quotient ==
  ASSUME NEW a \in Nat, NEW b \in Nat \ {0}
  PROVE  a \div b \in Nat /\ b * (a \div b) <= a
OBVIOUS

LEMMA WindowFits == Window \in Nat /\ FrameIn * Window <= RxDepth
<1>1. /\ RxDepth \div FrameIn \in Nat /\ FrameIn * (RxDepth \div FrameIn) <= RxDepth
      /\ TxDepth \div FrameOut \in Nat
  BY Sizes, Quotient
<1>2. Window \in Nat /\ Window <= RxDepth \div FrameIn
  BY <1>1 DEF Window
<1>3. FrameIn * Window <= FrameIn * (RxDepth \div FrameIn)
  BY <1>1, <1>2, Grows, Sizes
<1> QED
  BY <1>1, <1>2, <1>3, Sizes

LEMMA Lengths ==
  ASSUME InTypes, OutTypes, HostTypes
  PROVE  /\ {Len(wire), Len(rx), Len(words), Len(tx), Len(shifting), Len(inbox), Len(read)}
              \subseteq Nat
         /\ BytesIn \in Nat /\ BytesOut \in Nat /\ Yielded \in Nat /\ sent \in Nat
<1>1. Len(wire) \in Nat /\ Len(rx) \in Nat /\ Len(words) \in Nat
  BY LenProperties DEF InTypes
<1>2. Len(tx) \in Nat /\ Len(shifting) \in Nat /\ Len(inbox) \in Nat /\ Len(read) \in Nat
  BY LenProperties DEF OutTypes
<1>3. filled \in Nat /\ remaining \in Nat
  BY Sizes DEF InTypes, OutTypes
<1>4. Yielded \in Nat /\ sent \in Nat
  BY LenProperties, Sizes DEF HostTypes, Yielded
<1> QED
  BY <1>1, <1>2, <1>3, <1>4 DEF BytesIn, BytesOut

\* The beats given of a frame are less than the frame.
LEMMA GivenIsPart ==
  ASSUME NEW b \in Nat \ {0}, NEW o \in Nat \ {0}, NEW g \in 0 .. o - 1
  PROVE  b * g \in Nat /\ b * g + b <= b * o
<1>1. PICK h \in Nat : h = g + 1
  OBVIOUS
<1>2. b * h <= b * o
  BY <1>1, Grows
<1> QED
  BY <1>1, <1>2

LEMMA CountsFrames ==
  ASSUME NEW f \in Nat \ {0}, NEW x \in Nat, NEW y \in Nat, NEW r \in Nat,
         r < f, f * x <= f * y + r
  PROVE  x <= y
<1>1. PICK z \in Nat : z = y + 1
  OBVIOUS
<1>2. f * x < f * z
  BY <1>1
<1>3. x < z
  BY <1>2, Cancels
<1> QED
  BY <1>1, <1>3

\* What has been yielded was finished, and what was finished was sent.
LEMMA YieldedWasFinished ==
  ASSUME InTypes, OutTypes, HostTypes, NEW n \in Nat, Flow(n)
  PROVE  Yielded <= n /\ n <= sent
<1>1. OutBytes * given \in Nat /\ OutBytes * given < FrameOut
  BY Sizes, GivenIsPart DEF OutTypes, FrameOut
<1>2. /\ Yielded \in Nat /\ BytesOut \in Nat /\ BytesIn \in Nat /\ sent \in Nat
      /\ FrameOut \in Nat \ {0} /\ FrameIn \in Nat \ {0}
  BY Lengths, Sizes
<1>3. FrameOut * Yielded <= FrameOut * n + OutBytes * given
  BY <1>1, <1>2 DEF Flow
<1>4. FrameIn * n <= FrameIn * sent + 0
  BY <1>2 DEF Flow
<1> QED
  BY <1>1, <1>2, <1>3, <1>4, CountsFrames

\* The window keeps what is on its way in within the board's buffer.
LEMMA InputFits ==
  ASSUME InTypes, OutTypes, HostTypes, NEW n \in Nat, Flow(n)
  PROVE  Len(wire) + Len(rx) <= RxDepth
<1>1. /\ Yielded \in Nat /\ BytesIn \in Nat /\ sent \in Nat /\ FrameIn \in Nat \ {0}
      /\ RxDepth \in Nat /\ Window \in Nat /\ sent - Yielded <= Window
  BY Lengths, Sizes, WindowFits DEF HostTypes
<1>2. PICK d \in Nat : d = sent - n
  BY <1>1, YieldedWasFinished
<1>3. d <= Window
  BY <1>1, <1>2, YieldedWasFinished
<1>4. FrameIn * d <= FrameIn * Window
  BY <1>1, <1>3, Grows
<1>5. FrameIn * d = FrameIn * sent - FrameIn * n
  BY <1>1, <1>2
<1>6. BytesIn <= FrameIn * sent - FrameIn * n
  BY <1>1 DEF Flow
<1>7. BytesIn <= RxDepth
  BY <1>1, <1>4, <1>5, <1>6, WindowFits
<1>8. filled \in Nat
  BY Sizes DEF InTypes
<1> QED
  BY <1>1, <1>7, <1>8, Lengths DEF BytesIn

-----------------------------------------------------------------------------
(* One clock of the board, outside a break.                                *)

LEMMA MadeSequence ==
  ASSUME NEW S, NEW n \in Nat, NEW f \in [1 .. n -> S]
  PROVE  f \in Seq(S) /\ Len(f) = n
<1>1. f \in Seq(S)
  BY SeqDef
<1>2. DOMAIN f = 1 .. n /\ DOMAIN f = 1 .. Len(f) /\ Len(f) \in Nat
  BY <1>1, LenProperties
<1> QED
  BY <1>1, <1>2

LEMMA WrittenSequence ==
  ASSUME NEW S, NEW q \in Seq(S), NEW depth, NEW wr \in BOOLEAN, NEW rd \in BOOLEAN,
         NEW byte, wr => byte \in S, rd => q # << >>
  PROVE  /\ Written(q, depth, wr, byte, rd) \in Seq(S)
         /\ Len(Written(q, depth, wr, byte, rd))
              <= Len(q) + (IF wr THEN 1 ELSE 0) - (IF rd THEN 1 ELSE 0)
         /\ ~wr /\ ~rd => Written(q, depth, wr, byte, rd) = q
<1> DEFINE rest == IF rd THEN Tail(q) ELSE q
<1>1. /\ rest \in Seq(S) /\ Len(q) \in Nat /\ Len(rest) \in Nat
      /\ Len(rest) = Len(q) - (IF rd THEN 1 ELSE 0)
  BY HeadTailProperties, LenProperties
<1>2. byte \in S => Append(rest, byte) \in Seq(S) /\ Len(Append(rest, byte)) = Len(rest) + 1
  BY <1>1, AppendProperties
<1> HIDE DEF rest
<1>3. Written(q, depth, wr, byte, rd)
        = IF wr /\ Len(q) < depth THEN Append(rest, byte) ELSE rest
  BY DEF Written, rest
<1>4. ~wr /\ ~rd => Written(q, depth, wr, byte, rd) = q
  BY <1>3 DEF rest
<1>5. CASE wr /\ Len(q) < depth
  BY <1>1, <1>2, <1>3, <1>4, <1>5
<1>6. CASE ~(wr /\ Len(q) < depth)
  <2>1. Written(q, depth, wr, byte, rd) = rest
    BY <1>3, <1>6
  <2>2. Len(rest) <= Len(q) + (IF wr THEN 1 ELSE 0) - (IF rd THEN 1 ELSE 0)
    BY <1>1
  <2> QED
    BY <1>1, <1>4, <2>1, <2>2
<1> QED
  BY <1>5, <1>6

\* The accelerator gives the last beat of its frame.
Ends == Load(computed) /\ given = OutBeats - 1

LEMMA InputSide ==
  ASSUME InTypes, OutTypes, HostTypes, session # "breaking",
         NEW arrives \in BOOLEAN, NEW goes \in BOOLEAN,
         NEW accepts \in BOOLEAN, NEW computes \in BOOLEAN,
         BoardClock(arrives, goes, accepts, computes)
  PROVE  InTypes' /\ BytesIn' <= BytesIn - (IF Ends THEN FrameIn ELSE 0)
<1> DEFINE taken == AccelTakes(accepts)
           take  == RxTake(taken)
<1>1. /\ arrives => wire # << >>
      /\ rx' = Written(rx, RxDepth, arrives, IF arrives THEN Head(wire) ELSE NoByte, take)
      /\ filled' = IF take THEN (IF Last THEN 0 ELSE filled + 1) ELSE filled
      /\ collected' = IF take /\ ~Last THEN Shift(collected, Head(rx)) ELSE collected
      /\ wire' = IF arrives THEN Tail(wire) ELSE wire
      /\ words' = IF taken THEN words \o InBeat ELSE IF Ends THEN << >> ELSE words
  BY DEF BoardClock, BridgeClock, Accelerates, Working, AccelValid, Ends, Byte1
<1>2. take \in BOOLEAN /\ (take => rx # << >>) /\ (taken => take /\ Last /\ Len(words) < FrameIn)
      /\ (take /\ Last => taken)
  BY DEF AccelTakes, RxTake, InValid, RxHave
<1> HIDE DEF taken, take
<1>3. /\ wire' \in Seq(InByte) /\ Len(wire') = Len(wire) - (IF arrives THEN 1 ELSE 0)
      /\ arrives => Head(wire) \in InByte
  BY <1>1, HeadTailProperties DEF InTypes
<1>4. /\ rx' \in Seq(InByte)
      /\ Len(rx') <= Len(rx) + (IF arrives THEN 1 ELSE 0) - (IF take THEN 1 ELSE 0)
  BY <1>1, <1>2, <1>3, WrittenSequence DEF InTypes
<1>5. rx # << >> => Head(rx) \in InByte
  BY HeadTailProperties DEF InTypes
<1>6. collected' \in Seq(InByte) /\ Len(collected') = InBytes - 1
  <2>1. CASE take /\ ~Last /\ collected # << >>
    <3>1. /\ Tail(collected) \in Seq(InByte) /\ Len(Tail(collected)) = InBytes - 2
          /\ Head(rx) \in InByte
      BY <1>2, <1>5, <2>1, HeadTailProperties, Sizes DEF InTypes
    <3>2. collected' = Append(Tail(collected), Head(rx))
      BY <1>1, <2>1 DEF Shift
    <3> QED
      BY <3>1, <3>2, AppendProperties, Sizes
  <2>2. CASE ~(take /\ ~Last /\ collected # << >>)
    BY <1>1, <2>2 DEF InTypes, Shift
  <2> QED
    BY <2>1, <2>2
<1>7. rx # << >> => InBeat \in Seq(InByte) /\ Len(InBeat) = InBytes
  BY <1>5, AppendProperties, Sizes DEF InBeat, Byte1, InTypes
<1>8. filled \in Nat /\ Len(words) \in Nat /\ Len(rx) \in Nat /\ Len(wire) \in Nat
      /\ Len(rx') \in Nat
  BY <1>4, LenProperties, Lengths, Sizes DEF InTypes
<1>9. CASE taken
  <2>1. words' \in Seq(InByte) /\ Len(words') = Len(words) + InBytes
    BY <1>1, <1>2, <1>7, <1>9, ConcatProperties DEF InTypes
  <2>2. filled' = 0 /\ filled = InBytes - 1 /\ take
    BY <1>1, <1>2, <1>9 DEF Last
  <2>3. ~Ends
    BY <1>2, <1>8, <1>9, Sizes DEF OutTypes, Ends, Load
  <2>4. InTypes'
    BY <1>3, <1>4, <1>6, <2>1, <2>2, Sizes DEF InTypes
  <2> QED
    BY <1>3, <1>4, <1>8, <2>1, <2>2, <2>3, <2>4, Sizes DEF BytesIn
<1>10. CASE ~taken
  <2>1. filled' = IF take THEN filled + 1 ELSE filled
    BY <1>1, <1>2, <1>10
  <2>2. filled' \in 0 .. InBytes - 1
    BY <1>2, <1>10, <2>1, Sizes DEF InTypes, Last
  <2>3. /\ words' \in Seq(InByte)
        /\ Len(words') = Len(words) - (IF Ends THEN FrameIn ELSE 0)
    BY <1>1, <1>8, <1>10, EmptySeq, Sizes DEF InTypes, OutTypes, Ends, Load
  <2>4. InTypes'
    BY <1>3, <1>4, <1>6, <2>2, <2>3 DEF InTypes
  <2> QED
    BY <1>3, <1>4, <1>8, <2>1, <2>3, <2>4, Sizes DEF BytesIn
<1> QED
  BY <1>9, <1>10

LEMMA OutputSide ==
  ASSUME InTypes, OutTypes, HostTypes, session # "breaking",
         NEW arrives \in BOOLEAN, NEW goes \in BOOLEAN,
         NEW accepts \in BOOLEAN, NEW computes \in BOOLEAN,
         BoardClock(arrives, goes, accepts, computes)
  PROVE  /\ OutTypes'
         /\ BytesOut' <= BytesOut + (IF Load(computed) THEN OutBytes ELSE 0)
         /\ given' = IF Ends THEN 0 ELSE IF Load(computed) THEN given + 1 ELSE given
<1> DEFINE pops == TxPop(TxReady(goes))
<1>1. /\ remaining' = Left(Load(computed))
      /\ pending' = IF Load(computed) THEN AccelBeat
                    ELSE IF TxPush THEN Shift(pending, NoByte) ELSE pending
      /\ tx' = Written(tx, TxDepth, TxPush, Head(pending), pops)
      /\ shifting' = IF pops THEN <<Head(tx)>> ELSE IF goes THEN << >> ELSE shifting
      /\ inbox' = IF goes THEN inbox \o shifting ELSE inbox
      /\ given' = IF Load(computed) THEN (given + 1) % OutBeats ELSE given
      /\ computed' = IF computed THEN ~Ends ELSE computes
      /\ read' = read
      /\ goes => shifting # << >>
      /\ computes => Len(words) = FrameIn /\ ~computed
      /\ words' = IF AccelTakes(accepts) THEN words \o InBeat ELSE IF Ends THEN << >> ELSE words
  BY DEF BoardClock, BridgeClock, Accelerates, Working, AccelValid, Ends, Byte1
<1>2. pops \in BOOLEAN /\ (pops => tx # << >>) /\ (pops /\ ~goes => shifting = << >>)
  BY DEF TxPop, TxReady
<1> HIDE DEF pops
<1>3. /\ Len(tx) \in Nat /\ Len(shifting) \in Nat /\ Len(inbox) \in Nat /\ Len(read) \in Nat
      /\ Len(words) \in Nat /\ remaining \in 0 .. OutBytes /\ OutBytes \in Nat \ {0}
  BY LenProperties, Sizes DEF InTypes, OutTypes
<1>4. NoByte \in OutByte /\ pending # << >> /\ Head(pending) \in OutByte
      /\ Tail(pending) \in Seq(OutByte) /\ Len(Tail(pending)) = OutBytes - 1
  BY <1>3, EmptySeq, HeadTailProperties DEF OutTypes, OutByte
<1>5. AccelBeat \in Seq(OutByte) /\ Len(AccelBeat) = OutBytes
  <2>1. \A k \in 1 .. OutBytes : given * OutBytes + k \in Nat
    <3>1. given \in Nat /\ OutBytes \in Nat
      BY Sizes DEF OutTypes
    <3>2. given * OutBytes \in Nat
      BY <3>1
    <3> QED
      BY <3>1, <3>2
  <2>2. AccelBeat \in [1 .. OutBytes -> OutByte]
    BY <2>1 DEF AccelBeat, OutByte, InTypes
  <2> QED
    BY <1>3, <2>2, MadeSequence
<1>6. pending' \in Seq(OutByte) /\ Len(pending') = OutBytes
  <2>1. /\ Shift(pending, NoByte) \in Seq(OutByte)
        /\ Len(Shift(pending, NoByte)) = OutBytes
    BY <1>3, <1>4, AppendProperties DEF Shift
  <2> QED
    BY <1>1, <1>5, <2>1 DEF OutTypes
<1>7. /\ tx' \in Seq(OutByte) /\ Len(tx') \in Nat
      /\ Len(tx') <= Len(tx) + (IF TxPush THEN 1 ELSE 0) - (IF pops THEN 1 ELSE 0)
  <2>1. TxPush \in BOOLEAN
    BY DEF TxPush, Holding
  <2> QED
    BY <1>1, <1>2, <1>4, <2>1, WrittenSequence, LenProperties DEF OutTypes
<1>8. /\ shifting' \in Seq(OutByte) /\ inbox' \in Seq(OutByte)
      /\ Len(inbox') + Len(shifting') = Len(inbox) + Len(shifting) + (IF pops THEN 1 ELSE 0)
      /\ Len(inbox') \in Nat /\ Len(shifting') \in Nat
  <2>1. /\ inbox \o shifting \in Seq(OutByte)
        /\ Len(inbox \o shifting) = Len(inbox) + Len(shifting)
    BY ConcatProperties DEF OutTypes
  <2>2. pops => <<Head(tx)>> \in Seq(OutByte) /\ Len(<<Head(tx)>>) = 1
    BY <1>2, HeadTailProperties DEF OutTypes
  <2>3. << >> \in Seq(OutByte) /\ Len(<< >>) = 0
    BY EmptySeq
  <2>4. CASE pops /\ goes
    BY <1>1, <1>3, <2>1, <2>2, <2>4
  <2>5. CASE pops /\ ~goes
    BY <1>1, <1>2, <1>3, <2>2, <2>3, <2>5 DEF OutTypes
  <2>6. CASE ~pops /\ goes
    BY <1>1, <1>3, <2>1, <2>3, <2>6
  <2>7. CASE ~pops /\ ~goes
    BY <1>1, <1>3, <2>7 DEF OutTypes
  <2> QED
    BY <1>2, <2>4, <2>5, <2>6, <2>7
<1>9. /\ remaining' \in 0 .. OutBytes
      /\ remaining' + (IF TxPush THEN 1 ELSE 0)
           <= remaining + (IF Load(computed) THEN OutBytes ELSE 0)
  BY <1>1, <1>3 DEF Left, Load, TxPush, Holding
<1>10. /\ given' = IF Ends THEN 0 ELSE IF Load(computed) THEN given + 1 ELSE given
       /\ given' \in 0 .. OutBeats - 1
  <2>1. given \in 0 .. OutBeats - 1 /\ OutBeats \in Nat \ {0}
    BY Sizes DEF OutTypes
  <2>2. CASE Ends
    <3>1. given' = OutBeats % OutBeats
      BY <1>1, <2>1, <2>2 DEF Ends
    <3> QED
      BY <2>1, <2>2, <3>1
  <2>3. CASE Load(computed) /\ ~Ends
    <3>1. given' = (given + 1) % OutBeats /\ given + 1 \in 0 .. OutBeats - 1
      BY <1>1, <2>1, <2>3 DEF Ends
    <3> QED
      BY <2>1, <2>3, <3>1
  <2>4. CASE ~Load(computed)
    BY <1>1, <2>1, <2>4 DEF Ends
  <2> QED
    BY <2>2, <2>3, <2>4
<1>11. /\ computed' \in BOOLEAN
       /\ IF computed' THEN Len(words') = FrameIn ELSE given' = 0
  <2>1. CASE computed /\ Ends
    BY <1>1, <1>10, <2>1
  <2>2. CASE computed /\ ~Ends
    <3>1. Len(words) = FrameIn /\ FrameIn \in Nat
      BY <2>2, Sizes DEF OutTypes
    <3>2. ~AccelTakes(accepts)
      BY <3>1 DEF AccelTakes
    <3>3. words' = words /\ computed'
      BY <1>1, <2>2, <3>2
    <3>4. computed' \in BOOLEAN
      BY <1>1, <2>2
    <3> QED
      BY <3>1, <3>3, <3>4
  <2>3. CASE ~computed
    <3>1. ~Load(computed) /\ ~Ends /\ given' = 0 /\ computed' = computes
      BY <1>1, <2>3 DEF Load, Ends, OutTypes
    <3>2. computes => words' = words /\ Len(words) = FrameIn
      BY <1>1, <1>3, <3>1, Sizes DEF AccelTakes
    <3> QED
      BY <3>1, <3>2
  <2> QED
    BY <2>1, <2>2, <2>3 DEF OutTypes
<1>12. OutTypes'
  BY <1>1, <1>6, <1>7, <1>8, <1>9, <1>10, <1>11, Sizes DEF OutTypes, FrameIn
<1>13. BytesOut' <= BytesOut + (IF Load(computed) THEN OutBytes ELSE 0)
  <2> DEFINE push == IF TxPush THEN 1 ELSE 0
             pop  == IF pops THEN 1 ELSE 0
             load == IF Load(computed) THEN OutBytes ELSE 0
  <2>1. push \in Nat /\ pop \in Nat /\ load \in Nat
    BY <1>3
  <2>2. /\ Len(tx') <= Len(tx) + push - pop
        /\ Len(inbox') + Len(shifting') = Len(inbox) + Len(shifting) + pop
        /\ remaining' + push <= remaining + load
    BY <1>7, <1>8, <1>9
  <2>3. Len(read') = Len(read) /\ remaining \in Nat /\ remaining' \in Nat
    BY <1>1, <1>3, <1>9
  <2> HIDE DEF push, pop, load
  <2>4. /\ BytesOut' = Len(read') + Len(inbox') + Len(shifting') + Len(tx') + remaining'
        /\ BytesOut = Len(read) + Len(inbox) + Len(shifting) + Len(tx) + remaining
    BY DEF BytesOut
  <2>5. \A a, b, c, d, e, b1, c1, d1, e1, x, y, z \in Nat :
          /\ d1 <= d + x - y /\ b1 + c1 = b + c + y /\ e1 + x <= e + z
          => a + b1 + c1 + d1 + e1 <= a + b + c + d + e + z
    OBVIOUS
  <2>6. BytesOut' <= BytesOut + load
    BY <1>3, <1>7, <1>8, <2>1, <2>2, <2>3, <2>4, <2>5
  <2> QED
    BY <2>6 DEF load
<1> QED
  BY <1>10, <1>12, <1>13

\* What the clock leaves to the host.
LEMMA ClockHost ==
  ASSUME NEW arrives \in BOOLEAN, NEW goes \in BOOLEAN,
         NEW accepts \in BOOLEAN, NEW computes \in BOOLEAN,
         BoardClock(arrives, goes, accepts, computes)
  PROVE  /\ session' = session /\ call' = call /\ sent' = sent /\ answers' = answers
         /\ read' = read /\ Yielded' = Yielded /\ held_low' = (session = "breaking")
BY DEF BoardClock, Yielded

LEMMA OneMore ==
  ASSUME NEW a \in Nat, NEW x \in Nat
  PROVE  a * (x + 1) = a * x + a /\ a * x \in Nat
OBVIOUS

LEMMA Adds ==
  ASSUME NEW b1 \in Int, NEW b \in Int, NEW x \in Int, NEW y \in Int, NEW z \in Int,
         b1 <= b - z, b + x <= y
  PROVE  b1 + (x + z) <= y
OBVIOUS

LEMMA FlowKeeps ==
  ASSUME InTypes, OutTypes, HostTypes, session # "breaking",
         NEW arrives \in BOOLEAN, NEW goes \in BOOLEAN,
         NEW accepts \in BOOLEAN, NEW computes \in BOOLEAN,
         BoardClock(arrives, goes, accepts, computes),
         NEW n \in Nat, Flow(n)
  PROVE  \E m \in Nat : Flow(m)'
<1> DEFINE load == IF Load(computed) THEN OutBytes ELSE 0
           ends == IF Ends THEN FrameIn ELSE 0
           doneOut == FrameOut * Yielded
           sentIn  == FrameIn * sent
<1>1. /\ InTypes' /\ OutTypes' /\ BytesIn' <= BytesIn - ends /\ BytesOut' <= BytesOut + load
      /\ given' = IF Ends THEN 0 ELSE IF Load(computed) THEN given + 1 ELSE given
  BY InputSide, OutputSide
<1>2. sent' = sent /\ Yielded' = Yielded
  BY ClockHost
<1>3. /\ given \in Nat /\ BytesIn \in Nat /\ BytesOut \in Nat /\ Yielded \in Nat /\ sent \in Nat
      /\ FrameIn \in Nat /\ FrameOut \in Nat /\ OutBytes \in Nat /\ OutBeats \in Nat
  BY Lengths, Sizes DEF OutTypes
<1>4. BytesIn' \in Int /\ BytesOut' \in Int
  <2>1. /\ Len(wire') \in Nat /\ Len(rx') \in Nat /\ Len(words') \in Nat /\ Len(tx') \in Nat
        /\ Len(shifting') \in Nat /\ Len(inbox') \in Nat /\ Len(read') \in Nat
    BY <1>1, LenProperties DEF InTypes, OutTypes
  <2>2. filled' \in Nat /\ remaining' \in Nat
    BY <1>1, Sizes DEF InTypes, OutTypes
  <2> QED
    BY <2>1, <2>2 DEF BytesIn, BytesOut
<1>5. /\ BytesIn + FrameIn * n <= sentIn
      /\ doneOut + BytesOut <= FrameOut * n + OutBytes * given
      /\ doneOut \in Nat /\ sentIn \in Nat
  BY <1>3, OneMore DEF Flow
<1>6. \A m \in Nat :
        /\ BytesIn' + FrameIn * m <= sentIn
        /\ doneOut + BytesOut' <= FrameOut * m + OutBytes * given'
        => Flow(m)'
  BY <1>2 DEF Flow
<1> HIDE DEF doneOut, sentIn
<1>7. /\ BytesIn' \in Int /\ BytesIn \in Int /\ FrameIn * n \in Int /\ sentIn \in Int
      /\ BytesIn + FrameIn * n <= sentIn
  BY <1>3, <1>4, <1>5, OneMore
<1>8. CASE Ends
  <2>1. given = OutBeats - 1 /\ load = OutBytes /\ ends = FrameIn /\ given' = 0
    BY <1>1, <1>8 DEF Ends
  <2>2. /\ FrameIn * (n + 1) = FrameIn * n + FrameIn /\ FrameIn * n \in Nat
        /\ FrameOut * (n + 1) = FrameOut * n + FrameOut /\ FrameOut * n \in Nat
    BY <1>3, OneMore
  <2>3. OutBytes * given + OutBytes = FrameOut /\ OutBytes * given \in Nat
    <3>1. OutBytes * (given + 1) = OutBytes * given + OutBytes /\ OutBytes * given \in Nat
      BY <1>3, OneMore
    <3>2. given + 1 = OutBeats
      BY <1>3, <2>1
    <3> QED
      BY <3>1, <3>2 DEF FrameOut
  <2>4. OutBytes * given' = 0
    BY <1>3, <2>1
  <2>5. /\ BytesIn' <= BytesIn - FrameIn /\ BytesOut' <= BytesOut + OutBytes
    BY <1>1, <2>1
  <2> HIDE DEF load, ends
  <2>6. n + 1 \in Nat
    OBVIOUS
  <2>7. BytesIn' <= BytesIn - FrameIn /\ FrameIn \in Int
    BY <1>3, <2>5
  <2>8. BytesIn' + FrameIn * (n + 1) <= sentIn
    <3>1. BytesIn' + (FrameIn * n + FrameIn) <= sentIn
      BY ONLY <1>7, <2>7, Adds
    <3> QED
      BY <2>2, <3>1
  <2>9. doneOut + BytesOut' <= FrameOut * (n + 1) + OutBytes * given'
    BY <1>3, <1>4, <1>5, <2>2, <2>3, <2>4, <2>5
  <2> QED
    BY <1>6, <2>6, <2>8, <2>9
<1>9. CASE ~Ends
  <2>1. OutBytes * given' = OutBytes * given + load /\ OutBytes * given \in Nat
    <3>1. OutBytes * (given + 1) = OutBytes * given + OutBytes /\ OutBytes * given \in Nat
      BY <1>3, OneMore
    <3> QED
      BY <1>1, <1>9, <3>1
  <2>2. ends = 0 /\ load \in Nat
    BY <1>3, <1>9
  <2>3. BytesIn' <= BytesIn /\ BytesOut' <= BytesOut + load
    BY <1>1, <1>3, <2>2
  <2>4. FrameIn * n \in Nat /\ FrameOut * n \in Nat
    BY <1>3, OneMore
  <2> HIDE DEF load, ends
  <2>5. BytesIn' + FrameIn * n <= sentIn
    <3>1. BytesIn' <= BytesIn - 0
      BY <1>3, <2>3
    <3>2. BytesIn' + (FrameIn * n + 0) <= sentIn
      BY ONLY <1>7, <3>1, Adds
    <3> QED
      BY <2>4, <3>2
  <2>6. doneOut + BytesOut' <= FrameOut * n + OutBytes * given'
    BY <1>3, <1>4, <1>5, <2>1, <2>2, <2>3, <2>4
  <2> QED
    BY <1>6, <2>5, <2>6
<1> QED
  BY <1>8, <1>9

\* With nothing in the board and nothing coming, nothing happens.
LEMMA EmptyStays ==
  ASSUME session # "breaking", BoardEmpty, wire = << >>, shifting = << >>,
         NEW arrives \in BOOLEAN, NEW goes \in BOOLEAN,
         NEW accepts \in BOOLEAN, NEW computes \in BOOLEAN,
         BoardClock(arrives, goes, accepts, computes)
  PROVE  /\ BoardEmpty' /\ wire' = << >> /\ shifting' = << >> /\ inbox' = inbox
         /\ ~arrives
<1>1. /\ rx = << >> /\ words = << >> /\ tx = << >> /\ filled = 0 /\ remaining = 0
      /\ ~computed /\ given = 0
  BY DEF BoardEmpty
<1>2. ~arrives /\ ~goes /\ ~AccelTakes(accepts) /\ ~TxPop(TxReady(goes)) /\ ~TxPush
  BY <1>1 DEF BoardClock, AccelTakes, InValid, RxHave, TxPop, TxPush, Holding
<1>3. ~computes
  <2>1. computes => Len(words) = FrameIn
    BY DEF BoardClock
  <2>2. Len(words) = 0
    BY <1>1, EmptySeq
  <2> QED
    BY <2>1, <2>2, Sizes
<1>4. ~Load(computed) /\ ~RxTake(AccelTakes(accepts))
  BY <1>1 DEF Load, RxTake, RxHave
<1>5. /\ rx' = rx /\ filled' = filled /\ remaining' = remaining /\ tx' = tx
  BY <1>2, <1>4 DEF BoardClock, BridgeClock, AccelValid, Written, Left
<1>6. words' = words /\ given' = given /\ computed' = FALSE
  BY <1>1, <1>2, <1>3, <1>4 DEF BoardClock, Accelerates, Working, AccelValid
<1>7. wire' = wire /\ shifting' = shifting /\ inbox' = inbox
  BY <1>2 DEF BoardClock
<1>8. BoardEmpty'
  BY <1>1, <1>5, <1>6 DEF BoardEmpty
<1> QED
  BY <1>2, <1>7, <1>8

\* Every clock outside a break keeps the counts.
LEMMA ClockKeeps ==
  ASSUME Inv, session # "breaking",
         NEW arrives \in BOOLEAN, NEW goes \in BOOLEAN,
         NEW accepts \in BOOLEAN, NEW computes \in BOOLEAN,
         BoardClock(arrives, goes, accepts, computes)
  PROVE  Inv'
<1> USE DEF Inv
<1>1. InTypes' /\ OutTypes'
  BY InputSide, OutputSide
<1>2. /\ session' = session /\ call' = call /\ sent' = sent /\ answers' = answers
      /\ read' = read /\ Yielded' = Yielded /\ held_low' = FALSE
  BY ClockHost
<1>3. ~Overflow(arrives)
  <2>1. CASE session = "settling"
    BY <2>1, EmptyStays DEF Resets, Overflow
  <2>2. CASE session # "settling"
    <3>1. PICK n \in Nat : Flow(n)
      BY <2>2 DEF HostTypes, InFlight
    <3>2. Len(wire) + Len(rx) <= RxDepth
      BY <3>1, InputFits
    <3>3. arrives => Len(wire) > 0
      BY HeadTailProperties, LenProperties, EmptySeq DEF BoardClock, InTypes
    <3>4. Len(wire) \in Nat /\ Len(rx) \in Nat /\ RxDepth \in Nat
      BY Lengths, Sizes
    <3> QED
      BY <3>2, <3>3, <3>4 DEF Overflow
  <2> QED
    BY <2>1, <2>2
<1>4. error' = FALSE
  BY <1>3 DEF BoardClock, HostTypes
<1>5. Window' = Window
  BY DEF Window
<1>6. HostTypes'
  BY <1>2, <1>4, <1>5 DEF HostTypes
<1>7. Resets'
  BY <1>2, EmptyStays DEF Resets
<1>8. InFlight'
  BY <1>2, FlowKeeps DEF InFlight
<1>9. (session = "open" => Empty)'
  BY <1>2, EmptyStays DEF Empty
<1> QED
  BY <1>1, <1>6, <1>7, <1>8, <1>9

\* A clock in a break leaves the board empty, and sends on the byte it was sending.
LEMMA BreakKeeps ==
  ASSUME Inv, session = "breaking",
         NEW arrives \in BOOLEAN, NEW goes \in BOOLEAN,
         NEW accepts \in BOOLEAN, NEW computes \in BOOLEAN,
         BoardClock(arrives, goes, accepts, computes)
  PROVE  Inv'
<1> USE DEF Inv
<1>1. /\ session' = session /\ call' = call /\ sent' = sent /\ answers' = answers
      /\ read' = read /\ Yielded' = Yielded /\ held_low' = TRUE
  BY ClockHost
<1>2. BridgeClear /\ words' = << >> /\ given' = 0 /\ computed' = FALSE /\ error' = FALSE
  BY DEF BoardClock, Accelerates
<1>3. wire = << >> /\ wire' = << >>
  BY DEF BoardClock, Resets
<1>4. /\ shifting' \in Seq(OutByte) /\ inbox' \in Seq(OutByte)
  <2>1. (tx # << >> /\ shifting' = <<Head(tx)>>) \/ shifting' \in {<< >>, shifting}
    BY DEF BoardClock, TxPop
  <2>2. tx # << >> => <<Head(tx)>> \in Seq(OutByte)
    BY HeadTailProperties DEF OutTypes
  <2>3. << >> \in Seq(OutByte) /\ inbox \o shifting \in Seq(OutByte)
    BY EmptySeq, ConcatProperties DEF OutTypes
  <2> QED
    BY <2>1, <2>2, <2>3 DEF BoardClock, OutTypes
<1>5. /\ NoBytes(InBytes - 1) \in Seq(InByte) /\ Len(NoBytes(InBytes - 1)) = InBytes - 1
      /\ NoBytes(OutBytes) \in Seq(OutByte) /\ Len(NoBytes(OutBytes)) = OutBytes
  <2>1. InBytes - 1 \in Nat /\ OutBytes \in Nat
    BY Sizes
  <2>2. /\ NoBytes(InBytes - 1) \in [1 .. InBytes - 1 -> InByte]
        /\ NoBytes(OutBytes) \in [1 .. OutBytes -> OutByte]
    BY DEF NoBytes, InByte, OutByte
  <2> QED
    BY <2>1, <2>2, MadeSequence
<1>6. BoardEmpty'
  BY <1>2 DEF BoardEmpty, BridgeClear
<1>7. << >> \in Seq(InByte) /\ << >> \in Seq(OutByte)
  BY EmptySeq
<1>8. InTypes'
  BY <1>2, <1>3, <1>5, <1>7, Sizes DEF InTypes, BridgeClear
<1>9. OutTypes'
  <2>1. /\ remaining' = 0 /\ pending' = NoBytes(OutBytes) /\ tx' = << >>
        /\ read' \in Seq(OutByte)
    BY <1>1, <1>2 DEF OutTypes, BridgeClear
  <2>2. 0 \in 0 .. OutBytes /\ 0 \in 0 .. OutBeats - 1
    BY Sizes
  <2> QED
    BY <1>2, <1>4, <1>5, <1>7, <2>1, <2>2 DEF OutTypes
<1>10. Window' = Window
  BY DEF Window
<1>11. HostTypes'
  BY <1>1, <1>2, <1>10 DEF HostTypes
<1>12. Resets'
  BY <1>1, <1>3, <1>6 DEF Resets
<1> QED
  BY <1>1, <1>8, <1>9, <1>11, <1>12 DEF InFlight

-----------------------------------------------------------------------------
(* The host's steps.                                                       *)

LEMMA SubSequence ==
  ASSUME NEW S, NEW q \in Seq(S), NEW m \in 1 .. Len(q) + 1, NEW n \in m - 1 .. Len(q)
  PROVE  SubSeq(q, m, n) \in Seq(S) /\ Len(SubSeq(q, m, n)) = n - m + 1
BY SubSeqProperties

LEMMA BoardStays ==
  ASSUME UNCHANGED board
  PROVE  /\ rx' = rx /\ filled' = filled /\ collected' = collected
         /\ remaining' = remaining /\ pending' = pending /\ tx' = tx
         /\ words' = words /\ computed' = computed /\ given' = given
         /\ shifting' = shifting /\ error' = error /\ BoardEmpty' = BoardEmpty
         /\ Window' = Window
BY DEF board, bridge, accelerator, BoardEmpty, Window

LEMMA NoneIsZero == Len(<< >>) = 0
OBVIOUS

LEMMA EmptyIs ==
  ASSUME Empty
  PROVE  /\ wire = << >> /\ rx = << >> /\ words = << >> /\ tx = << >> /\ shifting = << >>
         /\ inbox = << >> /\ read = << >>
         /\ filled = 0 /\ remaining = 0 /\ given = 0 /\ ~computed
BY DEF Empty, BoardEmpty

LEMMA ResetKeeps ==
  ASSUME Inv, Opens \/ Unbreaks
  PROVE  Inv'
<1> USE DEF Inv
<1>1. /\ UNCHANGED board /\ wire' = wire /\ inbox' = inbox /\ held_low' = held_low
      /\ call' = call /\ sent' = sent /\ answers' = answers /\ Yielded' = Yielded
  BY DEF Opens, Unbreaks, BoardKeeps, Yielded
<1>2. InTypes'
  BY <1>1, BoardStays DEF InTypes
<1>3. read' \in Seq(OutByte)
  BY EmptySeq DEF Opens, Unbreaks, OutTypes
<1>4. OutTypes'
  BY <1>1, <1>3, BoardStays DEF OutTypes
<1>5. session' \in {"breaking", "settling"}
  BY DEF Opens, Unbreaks
<1>6. HostTypes'
  BY <1>1, <1>5, BoardStays DEF HostTypes
<1>7. Resets'
  <2>1. CASE Opens
    BY <1>1, <2>1, BoardStays DEF Opens, Resets
  <2>2. CASE Unbreaks
    BY <1>1, <2>2, BoardStays DEF Unbreaks, Resets
  <2> QED
    BY <2>1, <2>2
<1> QED
  BY <1>2, <1>4, <1>5, <1>6, <1>7 DEF InFlight

LEMMA SettleKeeps ==
  ASSUME Inv, Settles
  PROVE  Inv'
<1> USE DEF Inv
<1>1. /\ UNCHANGED board /\ wire' = wire /\ inbox' = << >> /\ held_low' = held_low
      /\ call' = call /\ sent' = sent /\ answers' = answers /\ Yielded' = Yielded
      /\ read' = read /\ session' = "open" /\ session = "settling" /\ ~held_low
  BY DEF Settles, Yielded, Discarded
<1>2. InTypes'
  BY <1>1, BoardStays DEF InTypes
<1>3. OutTypes'
  BY <1>1, BoardStays, EmptySeq DEF OutTypes
<1>4. HostTypes'
  BY <1>1, BoardStays DEF HostTypes
<1>5. Resets'
  BY <1>1 DEF Resets
<1>6. Empty'
  BY <1>1, BoardStays DEF Resets, Empty
<1>7. Flow(Yielded)'
  <2>1. BytesIn' = 0 /\ BytesOut' = 0 /\ given' = 0
    <3>1. /\ wire' = << >> /\ rx' = << >> /\ words' = << >> /\ tx' = << >>
          /\ shifting' = << >> /\ inbox' = << >> /\ read' = << >>
          /\ filled' = 0 /\ remaining' = 0 /\ given' = 0
      BY <1>6 DEF Empty, BoardEmpty
    <3> QED
      BY <3>1, NoneIsZero DEF BytesIn, BytesOut
  <2>2. Yielded \in Nat /\ sent \in Nat /\ Yielded <= sent
    BY Lengths DEF HostTypes
  <2>3. FrameIn * Yielded <= FrameIn * sent
    BY <2>2, Grows, Sizes
  <2>4. /\ FrameIn * Yielded \in Nat /\ FrameIn * sent \in Nat /\ FrameOut * Yielded \in Nat
        /\ OutBytes * given' = 0
    BY <2>1, <2>2, OneMore, Sizes
  <2> QED
    BY <1>1, <2>1, <2>3, <2>4 DEF Flow
<1>8. Yielded \in Nat
  BY Lengths
<1>9. InFlight'
  <2>1. PICK m \in Nat : Flow(m)'
    BY <1>1, <1>7, <1>8
  <2> QED
    BY <2>1 DEF InFlight
<1> QED
  BY <1>2, <1>3, <1>4, <1>5, <1>6, <1>9

LEMMA CallKeeps ==
  ASSUME Inv, ~Reuses, Calls
  PROVE  Inv'
<1> USE DEF Inv
<1>1. /\ UNCHANGED board /\ wire' = wire /\ inbox' = inbox /\ held_low' = held_low
      /\ call' = 1 - call /\ sent' = 0 /\ answers' = << >> /\ read' = << >>
      /\ session' = "streaming" /\ session = "open"
  BY DEF Calls, BoardKeeps
<1>2. Empty /\ << >> \in Seq(OutByte) /\ << >> \in Seq(Seq(OutByte)) /\ Yielded' = 0
  BY <1>1, EmptySeq DEF Yielded
<1>3. InTypes'
  BY <1>1, BoardStays DEF InTypes
<1>4. OutTypes'
  BY <1>1, <1>2, BoardStays DEF OutTypes
<1>5. HostTypes'
  BY <1>1, <1>2, BoardStays, Sizes, WindowFits DEF HostTypes
<1>6. Resets'
  BY <1>1 DEF Resets
<1>7. Flow(0)'
  <2>1. BytesIn' = 0 /\ BytesOut' = 0 /\ given' = 0
    <3>1. /\ wire' = << >> /\ rx' = << >> /\ words' = << >> /\ tx' = << >>
          /\ shifting' = << >> /\ inbox' = << >> /\ read' = << >>
          /\ filled' = 0 /\ remaining' = 0 /\ given' = 0
      BY <1>1, <1>2, BoardStays, EmptyIs
    <3> QED
      BY <3>1, NoneIsZero DEF BytesIn, BytesOut
  <2> QED
    BY <1>1, <1>2, <2>1, Sizes DEF Flow
<1>8. InFlight'
  <2>1. PICK m \in Nat : Flow(m)'
    BY <1>7
  <2> QED
    BY <2>1 DEF InFlight
<1> QED
  BY <1>1, <1>3, <1>4, <1>5, <1>6, <1>8

LEMMA SendKeeps ==
  ASSUME Inv, Sends
  PROVE  Inv'
<1> USE DEF Inv
<1>1. /\ UNCHANGED board /\ wire' = wire \o Frame(sent + 1) /\ inbox' = inbox
      /\ held_low' = held_low /\ call' = call /\ sent' = sent + 1 /\ answers' = answers
      /\ read' = read /\ Yielded' = Yielded /\ session' = session
      /\ session = "streaming" /\ sent < Count /\ sent - Yielded < Window
  BY DEF Sends, BoardKeeps, MaySend, Yielded
<1>2. /\ sent \in Nat /\ Yielded \in Nat /\ BytesIn \in Nat /\ FrameIn \in Nat /\ Window \in Nat
      /\ Count \in Nat
  BY Lengths, Sizes, WindowFits
<1>3. Frame(sent + 1) \in Seq(InByte) /\ Len(Frame(sent + 1)) = FrameIn
  <2>1. Frame(sent + 1) \in [1 .. FrameIn -> InByte]
    BY <1>2 DEF Frame, InByte, HostTypes
  <2> QED
    BY <1>2, <2>1, MadeSequence
<1>4. wire' \in Seq(InByte) /\ Len(wire') = Len(wire) + FrameIn
  BY <1>1, <1>3, ConcatProperties DEF InTypes
<1>5. InTypes'
  BY <1>1, <1>4, BoardStays DEF InTypes
<1>6. OutTypes'
  BY <1>1, BoardStays DEF OutTypes
<1>7. sent' \in 0 .. Count /\ Yielded <= sent' /\ sent' - Yielded <= Window
  BY <1>1, <1>2 DEF HostTypes
<1>8. HostTypes'
  BY <1>1, <1>7, BoardStays DEF HostTypes
<1>9. Resets'
  BY <1>1 DEF Resets
<1>10. InFlight'
  <2>1. PICK n \in Nat : Flow(n)
    BY <1>1 DEF InFlight
  <2>2. BytesOut' = BytesOut
    BY <1>1, BoardStays DEF BytesOut
  <2>3. BytesIn' = BytesIn + FrameIn
    <3>1. Len(wire) \in Nat /\ Len(rx) \in Nat /\ filled \in Nat /\ Len(words) \in Nat
      BY Lengths, Sizes DEF InTypes
    <3>2. /\ BytesIn' = Len(wire') + Len(rx) + filled + Len(words)
          /\ BytesIn = Len(wire) + Len(rx) + filled + Len(words)
      BY BoardStays, <1>1 DEF BytesIn
    <3>3. FrameIn \in Nat /\ Len(wire') = Len(wire) + FrameIn
      BY <1>2, <1>4
    <3> QED
      BY ONLY <3>1, <3>2, <3>3
  <2>4. FrameIn * sent' = FrameIn * sent + FrameIn /\ FrameIn * sent \in Nat /\ FrameIn * n \in Nat
    BY <1>1, <1>2, OneMore
  <2>5. BytesIn + FrameIn * n <= FrameIn * sent
    BY <2>1 DEF Flow
  <2>6. BytesIn' + FrameIn * n <= FrameIn * sent'
    BY <1>2, <2>3, <2>4, <2>5
  <2>7. Flow(n)'
    BY <1>1, <2>1, <2>2, <2>6, BoardStays DEF Flow
  <2> QED
    BY <2>7 DEF InFlight
<1> QED
  BY <1>1, <1>5, <1>6, <1>8, <1>9, <1>10

\* With every frame finished there is nothing on its way in.
LEMMA AllFinished ==
  ASSUME InTypes, OutTypes, HostTypes, NEW n \in Nat, Flow(n), n >= Count
  PROVE  /\ n = Count
         /\ wire = << >> /\ rx = << >> /\ words = << >> /\ filled = 0
         /\ ~computed /\ given = 0
<1>1. n = sent /\ n = Count
  <2>1. sent \in Nat /\ Count \in Nat /\ sent <= Count
    BY Lengths, Sizes DEF HostTypes
  <2> QED
    BY <2>1, YieldedWasFinished
<1>2. BytesIn = 0
  <2>1. BytesIn \in Nat /\ FrameIn * n \in Nat
    BY Lengths, Sizes, OneMore
  <2> QED
    BY <1>1, <2>1 DEF Flow
<1>3. Len(wire) = 0 /\ Len(rx) = 0 /\ filled = 0 /\ Len(words) = 0
  <2>1. Len(wire) \in Nat /\ Len(rx) \in Nat /\ filled \in Nat /\ Len(words) \in Nat
    BY Lengths, Sizes DEF InTypes
  <2> QED
    BY <1>2, <2>1 DEF BytesIn
<1>4. wire = << >> /\ rx = << >> /\ words = << >>
  BY <1>3, EmptySeq DEF InTypes
<1>5. ~computed /\ given = 0
  BY <1>3, Sizes DEF OutTypes
<1> QED
  BY <1>1, <1>3, <1>4, <1>5

LEMMA FadeKeeps ==
  ASSUME Inv, TimesOut \/ Closes
  PROVE  Inv'
<1> USE DEF Inv
<1>1. /\ UNCHANGED board /\ wire' = wire /\ inbox' = inbox
      /\ held_low' = held_low /\ call' = call /\ sent' = sent /\ answers' = answers
      /\ read' = read /\ Yielded' = Yielded
      /\ session \in {"streaming", "open", "raised"} /\ session' \in {"raised", "closed"}
  BY DEF TimesOut, Closes, BoardKeeps, Yielded
<1>2. InTypes' /\ OutTypes'
  BY <1>1, BoardStays DEF InTypes, OutTypes
<1>3. HostTypes'
  BY <1>1, BoardStays DEF HostTypes
<1>4. Resets'
  BY <1>1 DEF Resets
<1>5. \A n \in Nat : Flow(n) => Flow(n)'
  BY <1>1, BoardStays DEF Flow, BytesIn, BytesOut
<1>6. InFlight'
  BY <1>1, <1>5 DEF InFlight
<1> QED
  BY <1>1, <1>2, <1>3, <1>4, <1>6

LEMMA DeathKeeps ==
  ASSUME Inv, Dies
  PROVE  Inv'
<1> USE DEF Inv
<1>1. /\ UNCHANGED board /\ inbox' = inbox
      /\ held_low' = held_low /\ call' = call /\ sent' = sent /\ answers' = answers
      /\ read' = read /\ Yielded' = Yielded
      /\ session \in {"streaming", "raised"} /\ session' = "closed"
  BY DEF Dies, BoardKeeps, Yielded
<1>2. wire' \in Seq(InByte) /\ Len(wire') <= Len(wire) /\ Len(wire') \in Nat
  <2>1. PICK left \in 0 .. Len(wire) : wire' = SubSeq(wire, 1, left)
    BY DEF Dies
  <2>2. Len(wire) \in Nat
    BY Lengths
  <2>3. wire' \in Seq(InByte) /\ Len(wire') = left - 1 + 1
    BY <2>1, <2>2, SubSequence DEF InTypes
  <2> QED
    BY <2>1, <2>2, <2>3
<1>3. InTypes'
  BY <1>1, <1>2, BoardStays DEF InTypes
<1>4. OutTypes'
  BY <1>1, BoardStays DEF OutTypes
<1>5. HostTypes'
  BY <1>1, BoardStays DEF HostTypes
<1>6. Resets'
  BY <1>1 DEF Resets
<1>7. PICK n \in Nat : Flow(n)
  BY <1>1 DEF InFlight
<1>8. Flow(n)'
  <2>1. Len(wire) \in Nat /\ Len(rx) \in Nat /\ filled \in Nat /\ Len(words) \in Nat
    BY Lengths, Sizes DEF InTypes
  <2>2. BytesIn' \in Nat /\ BytesIn \in Nat /\ BytesIn' <= BytesIn
    BY <1>1, <1>2, <2>1, BoardStays DEF BytesIn
  <2>3. FrameIn * n \in Nat /\ FrameIn * sent \in Nat
    BY Lengths, Sizes, OneMore
  <2>4. BytesIn + FrameIn * n <= FrameIn * sent
    BY <1>7 DEF Flow
  <2>5. BytesIn' + FrameIn * n <= FrameIn * sent
    BY <2>2, <2>3, <2>4
  <2> QED
    BY <1>1, <1>7, <2>5, BoardStays DEF Flow, BytesOut
<1> QED
  BY <1>1, <1>3, <1>4, <1>5, <1>6, <1>8 DEF InFlight

\* What is read goes from the line to the frames yielded, or is kept.
LEMMA ReadParts ==
  ASSUME Inv, Reads
  PROVE  \E count \in Nat :
           /\ Yielded + count <= Count
           /\ answers' \in Seq(Seq(OutByte)) /\ Yielded' = Yielded + count
           /\ read' \in Seq(OutByte)
           /\ Len(read') = Len(read) + Len(inbox) - FrameOut * count
           /\ session' = IF Yielded + count = Count THEN "open" ELSE "streaming"
           /\ FrameOut * count \in 0 .. Len(read \o inbox)
           /\ read' = SubSeq(read \o inbox, FrameOut * count + 1, Len(read \o inbox))
           /\ \A k \in 1 .. Yielded : answers'[k] = answers[k]
           /\ \A j \in 0 .. count - 1 :
                answers'[Yielded + j + 1]
                  = SubSeq(read \o inbox, FrameOut * j + 1, FrameOut * j + FrameOut)
<1> USE DEF Inv
<1> DEFINE bytes == read \o inbox
           left  == Count - Yielded
           count == IF Whole(bytes) < left THEN Whole(bytes) ELSE left
           yields == [k \in 1 .. count |->
                        SubSeq(bytes, (k - 1) * FrameOut + 1, k * FrameOut)]
<1>1. /\ answers' = answers \o yields
      /\ read' = SubSeq(bytes, count * FrameOut + 1, Len(bytes))
      /\ session' = IF Yielded + count = Count THEN "open" ELSE "streaming"
  BY DEF Reads
<1>2. bytes \in Seq(OutByte) /\ Len(bytes) = Len(read) + Len(inbox) /\ Len(bytes) \in Nat
  BY ConcatProperties, LenProperties DEF OutTypes
<1>3. /\ Yielded \in Nat /\ Count \in Nat /\ FrameOut \in Nat \ {0} /\ Yielded <= Count
  <2>1. Yielded \in Nat /\ sent \in Nat /\ Count \in Nat /\ FrameOut \in Nat \ {0}
    BY Lengths, Sizes
  <2>2. Yielded <= sent /\ sent <= Count
    BY <2>1 DEF HostTypes
  <2> QED
    BY <2>1, <2>2
<1> HIDE DEF bytes
<1>4. Whole(bytes) \in Nat /\ FrameOut * Whole(bytes) <= Len(bytes)
  BY <1>2, <1>3, Quotient DEF Whole
<1>5. count \in Nat /\ count <= Whole(bytes) /\ Yielded + count <= Count
  BY <1>3, <1>4
<1> HIDE DEF count
<1>6. FrameOut * count \in Nat /\ FrameOut * count <= Len(bytes)
  <2>1. FrameOut * count <= FrameOut * Whole(bytes)
    BY <1>3, <1>4, <1>5, Grows
  <2>2. FrameOut * count \in Nat /\ FrameOut * Whole(bytes) \in Nat
    BY <1>3, <1>4, <1>5, OneMore
  <2> QED
    BY <1>2, <1>4, <2>1, <2>2
<1>7. \A k \in 1 .. count :
        /\ SubSeq(bytes, (k - 1) * FrameOut + 1, k * FrameOut) \in Seq(OutByte)
        /\ \A j \in Nat : j + 1 = k =>
             SubSeq(bytes, (k - 1) * FrameOut + 1, k * FrameOut)
               = SubSeq(bytes, FrameOut * j + 1, FrameOut * j + FrameOut)
  <2> SUFFICES ASSUME NEW k \in 1 .. count
               PROVE  /\ SubSeq(bytes, (k - 1) * FrameOut + 1, k * FrameOut) \in Seq(OutByte)
                      /\ \A j \in Nat : j + 1 = k =>
                           SubSeq(bytes, (k - 1) * FrameOut + 1, k * FrameOut)
                             = SubSeq(bytes, FrameOut * j + 1, FrameOut * j + FrameOut)
    OBVIOUS
  <2>1. PICK j \in Nat : j = k - 1
    BY <1>5
  <2>2. /\ FrameOut * j \in Nat /\ FrameOut * (j + 1) = FrameOut * j + FrameOut
        /\ FrameOut * k <= FrameOut * count
    BY <1>3, <1>5, <2>1, OneMore, Grows
  <2>3. (k - 1) * FrameOut = FrameOut * j /\ k * FrameOut = FrameOut * j + FrameOut
    BY <1>3, <2>1, <2>2
  <2>4. FrameOut * k = FrameOut * j + FrameOut
    BY <2>1, <2>2
  <2>5. /\ FrameOut * j + 1 \in 1 .. Len(bytes) + 1
        /\ FrameOut * j + FrameOut \in FrameOut * j + 1 - 1 .. Len(bytes)
    BY <1>2, <1>3, <1>6, <2>2, <2>4
  <2>6. SubSeq(bytes, FrameOut * j + 1, FrameOut * j + FrameOut) \in Seq(OutByte)
    BY <1>2, <2>5, SubSequence
  <2>7. \A i \in Nat : i + 1 = k => i = j
    BY <2>1
  <2> QED
    BY <2>3, <2>6, <2>7
<1>8. yields \in Seq(Seq(OutByte)) /\ Len(yields) = count
  <2>1. yields \in [1 .. count -> Seq(OutByte)]
    BY <1>7
  <2> HIDE DEF yields
  <2> QED
    BY <1>5, <2>1, MadeSequence
<1>11. \A j \in 0 .. count - 1 :
         yields[j + 1] = SubSeq(bytes, FrameOut * j + 1, FrameOut * j + FrameOut)
  <2> SUFFICES ASSUME NEW j \in 0 .. count - 1
               PROVE  yields[j + 1] = SubSeq(bytes, FrameOut * j + 1, FrameOut * j + FrameOut)
    OBVIOUS
  <2>1. PICK k \in 1 .. count : k = j + 1
    BY <1>5
  <2>2. yields[k] = SubSeq(bytes, (k - 1) * FrameOut + 1, k * FrameOut)
    OBVIOUS
  <2>3. yields[k] = SubSeq(bytes, FrameOut * j + 1, FrameOut * j + FrameOut)
    <3>1. j \in Nat
      BY <1>5
    <3>2. SubSeq(bytes, (k - 1) * FrameOut + 1, k * FrameOut)
            = SubSeq(bytes, FrameOut * j + 1, FrameOut * j + FrameOut)
      BY <1>7, <2>1, <3>1
    <3> QED
      BY <2>2, <3>2
  <2> QED
    BY <2>1, <2>3
<1> HIDE DEF yields
<1>9. answers' \in Seq(Seq(OutByte)) /\ Yielded' = Yielded + count
  BY <1>1, <1>8, ConcatProperties DEF HostTypes, Yielded
<1>10. read' \in Seq(OutByte) /\ Len(read') = Len(read) + Len(inbox) - FrameOut * count
  <2>1. count * FrameOut = FrameOut * count
    BY <1>3, <1>5
  <2>2. /\ FrameOut * count + 1 \in 1 .. Len(bytes) + 1
        /\ Len(bytes) \in FrameOut * count + 1 - 1 .. Len(bytes)
    BY <1>2, <1>6
  <2>3. /\ SubSeq(bytes, FrameOut * count + 1, Len(bytes)) \in Seq(OutByte)
        /\ Len(SubSeq(bytes, FrameOut * count + 1, Len(bytes)))
             = Len(bytes) - (FrameOut * count + 1) + 1
    BY <1>2, <2>2, SubSequence
  <2> QED
    BY <1>1, <1>2, <1>6, <2>1, <2>3
<1>12. /\ \A k \in 1 .. Yielded : answers'[k] = answers[k]
       /\ \A j \in 0 .. count - 1 : answers'[Yielded + j + 1] = yields[j + 1]
  <2>1. answers \in Seq(Seq(OutByte)) /\ Len(answers) = Yielded
    BY DEF HostTypes, Yielded
  <2>2. \A k \in 1 .. Yielded : answers'[k] = answers[k]
    BY <1>1, <1>8, <2>1, ConcatProperties
  <2>3. ASSUME NEW j \in 0 .. count - 1 PROVE answers'[Yielded + j + 1] = yields[j + 1]
    <3>1. PICK i \in Len(answers) + 1 .. Len(answers) + Len(yields) : i = Yielded + j + 1
      BY <1>3, <1>5, <1>8, <2>1
    <3>2. (answers \o yields)[i] = yields[i - Len(answers)]
      BY <1>8, <2>1, ConcatProperties
    <3>3. i - Len(answers) = j + 1
      BY <1>3, <2>1, <3>1
    <3> QED
      BY <1>1, <3>1, <3>2, <3>3
  <2> QED
    BY <2>2, <2>3
<1>13. read' = SubSeq(bytes, FrameOut * count + 1, Len(bytes))
  <2>1. count * FrameOut = FrameOut * count
    BY <1>3, <1>5
  <2> QED
    BY <1>1, <2>1
<1>14. FrameOut * count \in 0 .. Len(bytes)
  BY <1>2, <1>6
<1>15. \A j \in 0 .. count - 1 :
         answers'[Yielded + j + 1] = SubSeq(bytes, FrameOut * j + 1, FrameOut * j + FrameOut)
  BY <1>11, <1>12
<1>16. bytes = read \o inbox
  BY DEF bytes
<1> USE <1>5
<1> WITNESS count \in Nat
<1> QED
  BY <1>1, <1>5, <1>9, <1>10, <1>12, <1>13, <1>14, <1>15, <1>16

LEMMA ReadKeeps ==
  ASSUME Inv, Reads
  PROVE  Inv'
<1> USE DEF Inv
<1>1. /\ UNCHANGED board /\ wire' = wire /\ inbox' = << >> /\ held_low' = held_low
      /\ call' = call /\ sent' = sent /\ session = "streaming"
  BY DEF Reads
<1>2. PICK count \in Nat :
           /\ Yielded + count <= Count
           /\ answers' \in Seq(Seq(OutByte)) /\ Yielded' = Yielded + count
           /\ read' \in Seq(OutByte)
           /\ Len(read') = Len(read) + Len(inbox) - FrameOut * count
           /\ session' = IF Yielded + count = Count THEN "open" ELSE "streaming"
  BY ReadParts
<1>3. PICK n \in Nat : Flow(n)
  BY <1>1 DEF InFlight
<1>4. InTypes'
  BY <1>1, BoardStays DEF InTypes
<1>5. OutTypes'
  BY <1>1, <1>2, EmptySeq, BoardStays DEF OutTypes
<1>6. /\ Yielded \in Nat /\ sent \in Nat /\ FrameOut \in Nat \ {0} /\ Window \in Nat
      /\ BytesOut \in Nat
  BY Lengths, Sizes, WindowFits
<1>7. FrameOut * Yielded' + BytesOut' = FrameOut * Yielded + BytesOut /\ BytesOut' \in Nat
  <2>1. FrameOut * (Yielded + count) = FrameOut * Yielded + FrameOut * count
    BY <1>6
  <2>2. FrameOut * Yielded \in Nat /\ FrameOut * count \in Nat
    BY <1>6, OneMore
  <2>3. /\ Len(read) \in Nat /\ Len(inbox) \in Nat /\ Len(shifting) \in Nat /\ Len(tx) \in Nat
        /\ remaining \in Nat /\ Len(read') \in Nat
    BY <1>2, Lengths, Sizes, LenProperties DEF OutTypes
  <2>4. /\ BytesOut' = Len(read') + Len(shifting) + Len(tx) + remaining
        /\ BytesOut = Len(read) + Len(inbox) + Len(shifting) + Len(tx) + remaining
    <3>1. BytesOut' = Len(read') + 0 + Len(shifting) + Len(tx) + remaining
      BY <1>1, BoardStays, NoneIsZero DEF BytesOut
    <3> QED
      BY <2>3, <3>1 DEF BytesOut
  <2>5. BytesOut' + FrameOut * count = BytesOut /\ BytesOut' \in Nat
    <3>1. Len(read') + FrameOut * count = Len(read) + Len(inbox)
      BY <1>2, <2>2, <2>3
    <3>2. /\ Len(read') \in Nat /\ Len(shifting) \in Nat /\ Len(tx) \in Nat /\ remaining \in Nat
          /\ Len(read) \in Nat /\ Len(inbox) \in Nat /\ FrameOut * count \in Nat
      BY <2>2, <2>3
    <3>3. Len(read') + Len(shifting) + Len(tx) + remaining + FrameOut * count
            = Len(read) + Len(inbox) + Len(shifting) + Len(tx) + remaining
      BY ONLY <3>1, <3>2
    <3>4. Len(read') + Len(shifting) + Len(tx) + remaining \in Nat
      BY ONLY <3>2
    <3> QED
      BY ONLY <2>4, <3>3, <3>4
  <2>6. FrameOut * Yielded' = FrameOut * Yielded + FrameOut * count
    BY <1>2, <2>1
  <2> QED
    <3>1. BytesOut \in Nat /\ BytesOut' \in Nat /\ BytesOut' + FrameOut * count = BytesOut
      BY <1>6, <2>5
    <3>2. \A d, f, b, b1 \in Nat : b1 + f = b => (d + f) + b1 = d + b
      OBVIOUS
    <3>3. (FrameOut * Yielded + FrameOut * count) + BytesOut' = FrameOut * Yielded + BytesOut
      BY ONLY <2>2, <3>1, <3>2
    <3> QED
      BY <2>6, <3>1, <3>3
<1>8. Flow(n)'
  <2>1. FrameOut * Yielded + BytesOut <= FrameOut * n + OutBytes * given
    BY <1>3 DEF Flow
  <2>2. FrameOut * Yielded' + BytesOut' <= FrameOut * n + OutBytes * given'
    <3>1. given' = given
      BY <1>1, BoardStays
    <3>2. FrameOut * Yielded' + BytesOut' = FrameOut * Yielded + BytesOut
      BY <1>7
    <3> QED
      BY <2>1, <3>1, <3>2
  <2>3. BytesIn' = BytesIn
    BY <1>1, BoardStays DEF BytesIn
  <2> QED
    BY <1>1, <1>3, <2>2, <2>3 DEF Flow
<1>9. OutBytes * given \in Nat /\ OutBytes * given < FrameOut
  BY Sizes, GivenIsPart DEF OutTypes, FrameOut
<1>10. /\ Yielded' \in Nat /\ FrameOut * Yielded' \in Nat /\ FrameOut * n \in Nat
       /\ FrameOut * Yielded' + BytesOut' <= FrameOut * n + OutBytes * given
  <2>1. Yielded' \in Nat
    BY <1>2, <1>6
  <2>2. FrameOut * Yielded' \in Nat /\ FrameOut * n \in Nat
    BY <1>6, <2>1, OneMore
  <2>3. FrameOut * Yielded + BytesOut <= FrameOut * n + OutBytes * given
    BY <1>3 DEF Flow
  <2>4. FrameOut * Yielded' + BytesOut' = FrameOut * Yielded + BytesOut
    BY <1>7
  <2> QED
    BY <2>1, <2>2, <2>3, <2>4
<1>11. Yielded' <= n /\ Yielded' <= sent
  <2>1. FrameOut * Yielded' <= FrameOut * n + OutBytes * given
    <3>1. \A d, b, x \in Nat : d + b <= x => d <= x
      OBVIOUS
    <3>2. FrameOut * n + OutBytes * given \in Nat
      BY <1>9, <1>10
    <3> QED
      BY <1>7, <1>10, <3>1, <3>2
  <2>2. Yielded' <= n
    BY <1>6, <1>9, <1>10, <2>1, CountsFrames
  <2> QED
    BY <1>3, <1>6, <1>10, <2>2, YieldedWasFinished
<1>12. HostTypes'
  <2>1. sent - Yielded' <= Window
    BY <1>2, <1>6 DEF HostTypes
  <2> QED
    BY <1>1, <1>2, <1>11, <2>1, BoardStays DEF HostTypes
<1>13. Resets'
  BY <1>1, <1>2 DEF Resets
<1>14. InFlight'
  <2>1. PICK m \in Nat : Flow(m)'
    BY <1>8
  <2> QED
    BY <2>1 DEF InFlight
<1>15. (session = "open" => Empty)'
  <2> SUFFICES ASSUME Yielded' = Count PROVE Empty'
    BY <1>2
  <2>1. /\ n = Count /\ wire = << >> /\ rx = << >> /\ words = << >> /\ filled = 0
        /\ ~computed /\ given = 0
    <3>1. n >= Count
      BY <1>11, Sizes
    <3> QED
      BY <1>3, <3>1, AllFinished
  <2>2. BytesOut' = 0
    <3>1. OutBytes * given = 0
      BY <2>1, Sizes
    <3>2. FrameOut * Yielded' + BytesOut' <= FrameOut * Yielded' + 0
      BY <1>10, <2>1, <3>1
    <3> QED
      BY <1>7, <1>10, <3>2
  <2>3. /\ Len(read') = 0 /\ Len(shifting) = 0 /\ Len(tx) = 0 /\ remaining = 0
    <3>1. /\ Len(shifting) \in Nat /\ Len(tx) \in Nat /\ remaining \in Nat
          /\ Len(read') \in Nat
      BY <1>2, Lengths, Sizes, LenProperties DEF OutTypes
    <3>2. BytesOut' = Len(read') + 0 + Len(shifting) + Len(tx) + remaining
      BY <1>1, BoardStays, NoneIsZero DEF BytesOut
    <3> QED
      BY <2>2, <3>1, <3>2
  <2>4. read' = << >> /\ shifting = << >> /\ tx = << >>
    BY <1>2, <2>3, EmptySeq DEF OutTypes
  <2> QED
    BY <1>1, <2>1, <2>3, <2>4, BoardStays DEF Empty, BoardEmpty
<1> QED
  BY <1>4, <1>5, <1>12, <1>13, <1>14, <1>15

-----------------------------------------------------------------------------

LEMMA InitKeeps == SessionInit => Inv
<1> SUFFICES ASSUME SessionInit PROVE Inv
  OBVIOUS
<1>1. /\ rx = << >> /\ words = << >> /\ tx = << >> /\ shifting = << >> /\ wire = << >>
      /\ inbox = << >> /\ read = << >> /\ answers = << >>
      /\ filled = 0 /\ remaining = 0 /\ given = 0 /\ computed = FALSE /\ error = FALSE
      /\ session = "closed" /\ held_low = FALSE /\ call = 0 /\ sent = 0
      /\ collected = NoBytes(InBytes - 1) /\ pending = NoBytes(OutBytes)
  BY DEF SessionInit, BridgeInit
<1>2. /\ collected \in Seq(InByte) /\ Len(collected) = InBytes - 1
      /\ pending \in Seq(OutByte) /\ Len(pending) = OutBytes
  <2>1. InBytes - 1 \in Nat /\ OutBytes \in Nat
    BY Sizes
  <2>2. /\ NoBytes(InBytes - 1) \in [1 .. InBytes - 1 -> InByte]
        /\ NoBytes(OutBytes) \in [1 .. OutBytes -> OutByte]
    BY DEF NoBytes, InByte, OutByte
  <2> QED
    BY <1>1, <2>1, <2>2, MadeSequence
<1>3. << >> \in Seq(InByte) /\ << >> \in Seq(OutByte) /\ << >> \in Seq(Seq(OutByte))
  BY EmptySeq
<1>4. 0 \in 0 .. InBytes - 1 /\ 0 \in 0 .. OutBytes /\ 0 \in 0 .. OutBeats - 1 /\ 0 \in 0 .. Count
  BY Sizes
<1>5. InTypes /\ OutTypes
  BY <1>1, <1>2, <1>3, <1>4 DEF InTypes, OutTypes
<1>6. Yielded = 0 /\ BytesIn = 0 /\ BytesOut = 0
  BY <1>1, NoneIsZero DEF Yielded, BytesIn, BytesOut
<1>7. HostTypes
  <2>1. Yielded <= sent /\ sent - Yielded <= Window
    BY <1>1, <1>6, WindowFits
  <2> QED
    BY <1>1, <1>3, <1>4, <2>1 DEF HostTypes
<1>8. Flow(0)
  BY <1>1, <1>6, Sizes DEF Flow
<1> QED
  BY <1>1, <1>5, <1>7, <1>8 DEF Inv, Resets, InFlight

LEMMA StutterKeeps ==
  ASSUME Inv, UNCHANGED sessionVars
  PROVE  Inv'
BY DEF Inv, sessionVars, board, bridge, accelerator, host, InTypes, OutTypes, HostTypes, Resets,
       InFlight, Flow, BytesIn, BytesOut, Empty, BoardEmpty, Yielded, Window

LEMMA NextKeeps ==
  ASSUME ~Reuses, Inv, [SessionNext]_sessionVars
  PROVE  Inv'
<1>1. CASE \E arrives, goes, accepts, computes \in BOOLEAN :
             BoardClock(arrives, goes, accepts, computes)
  BY <1>1, ClockKeeps, BreakKeeps
<1>2. CASE Opens \/ Unbreaks
  BY <1>2, ResetKeeps
<1>3. CASE Settles
  BY <1>3, SettleKeeps
<1>4. CASE Calls
  BY <1>4, CallKeeps
<1>5. CASE Sends
  BY <1>5, SendKeeps
<1>6. CASE Reads
  BY <1>6, ReadKeeps
<1>7. CASE TimesOut \/ Closes
  BY <1>7, FadeKeeps
<1>8. CASE Dies
  BY <1>8, DeathKeeps
<1>9. CASE UNCHANGED sessionVars
  BY <1>9, StutterKeeps
<1> QED
  BY <1>1, <1>2, <1>3, <1>4, <1>5, <1>6, <1>7, <1>8, <1>9 DEF SessionNext, HostNext

\* A caller that opens a new session after one that raised never fills the
\* board's input buffer, whatever the sizes, and however slow the accelerator,
\* the line and the host (serial_link.py window).
THEOREM SessionNeverOverflows ==
  ASSUME ~Reuses
  PROVE  SessionSpec => []NeverOverflows
<1>1. SessionInit => Inv
  BY InitKeeps
<1>2. Inv /\ [SessionNext]_sessionVars => Inv'
  BY NextKeeps
<1>3. Inv => NeverOverflows
  BY DEF Inv, HostTypes, NeverOverflows
<1> QED
  BY <1>1, <1>2, <1>3, PTL DEF SessionSpec

\* To such a caller, a session that has been reset, or whose call of `stream` has
\* ended, leaves no byte anywhere, in the line, the board or the host, whatever
\* earlier hosts left half sent (serial_link.py reset, host.py `leftover`).
THEOREM SessionNothingLeft ==
  ASSUME ~Reuses
  PROVE  SessionSpec => []NothingLeft
<1>1. SessionInit => Inv
  BY InitKeeps
<1>2. Inv /\ [SessionNext]_sessionVars => Inv'
  BY NextKeeps
<1>3. Inv => NothingLeft
  BY EmptyIs DEF Inv, NothingLeft
<1> QED
  BY <1>1, <1>2, <1>3, PTL DEF SessionSpec

-----------------------------------------------------------------------------
(***************************************************************************)
(* Which byte is where.  A stream is a set of <<place, byte>>, and what a   *)
(* queue holds is a stretch of it.                                         *)

Stretch(stream, q, from) == \A j \in 1 .. Len(q) : <<from + j, q[j]>> \in stream

LEMMA StretchNone == ASSUME NEW R, NEW from PROVE Stretch(R, << >>, from)
BY NoneIsZero DEF Stretch

LEMMA StretchAppend ==
  ASSUME NEW S, NEW R, NEW q \in Seq(S), NEW from \in Nat, NEW x \in S,
         Stretch(R, q, from), <<from + Len(q) + 1, x>> \in R
  PROVE  Stretch(R, Append(q, x), from)
<1>1. Len(q) \in Nat
  BY LenProperties
<1> SUFFICES ASSUME NEW j \in 1 .. Len(q) + 1 PROVE <<from + j, Append(q, x)[j]>> \in R
  BY AppendProperties DEF Stretch
<1>2. CASE j = Len(q) + 1
  <2>1. from + j = from + Len(q) + 1 /\ Append(q, x)[j] = x
    BY <1>1, <1>2, AppendProperties
  <2> QED
    BY <2>1
<1>3. CASE j # Len(q) + 1
  <2>1. j \in 1 .. Len(q) /\ Append(q, x)[j] = q[j]
    BY <1>1, <1>3, AppendProperties
  <2> QED
    BY <2>1 DEF Stretch
<1> QED
  BY <1>2, <1>3

LEMMA StretchTail ==
  ASSUME NEW S, NEW R, NEW q \in Seq(S), q # << >>, NEW from \in Nat, Stretch(R, q, from)
  PROVE  /\ <<from + 1, Head(q)>> \in R
         /\ Stretch(R, Tail(q), from + 1)
<1>1. /\ Len(q) \in Nat \ {0} /\ Len(Tail(q)) = Len(q) - 1 /\ Head(q) = q[1]
      /\ \A j \in 1 .. Len(q) - 1 : Tail(q)[j] = q[j + 1]
  BY HeadTailProperties, LenProperties, EmptySeq
<1>2. <<from + 1, Head(q)>> \in R
  BY <1>1 DEF Stretch
<1>3. ASSUME NEW j \in 1 .. Len(Tail(q)) PROVE <<from + 1 + j, Tail(q)[j]>> \in R
  <2>1. j + 1 \in 1 .. Len(q) /\ from + 1 + j = from + (j + 1) /\ Tail(q)[j] = q[j + 1]
    BY <1>1
  <2> QED
    BY <2>1 DEF Stretch
<1> QED
  BY <1>2, <1>3 DEF Stretch

LEMMA StretchConcat ==
  ASSUME NEW S, NEW R, NEW p \in Seq(S), NEW q \in Seq(S), NEW from \in Nat,
         Stretch(R, p, from), Stretch(R, q, from + Len(p))
  PROVE  Stretch(R, p \o q, from)
<1>1. /\ Len(p) \in Nat /\ Len(q) \in Nat /\ Len(p \o q) = Len(p) + Len(q)
  BY ConcatProperties, LenProperties
<1> SUFFICES ASSUME NEW j \in 1 .. Len(p) + Len(q) PROVE <<from + j, (p \o q)[j]>> \in R
  BY <1>1 DEF Stretch
<1>2. CASE j <= Len(p)
  <2>1. j \in 1 .. Len(p) /\ (p \o q)[j] = p[j]
    BY <1>1, <1>2, ConcatProperties
  <2> QED
    BY <2>1 DEF Stretch
<1>3. CASE j > Len(p)
  <2>1. /\ j - Len(p) \in 1 .. Len(q) /\ (p \o q)[j] = q[j - Len(p)]
        /\ from + Len(p) + (j - Len(p)) = from + j
    BY <1>1, <1>3, ConcatProperties
  <2> QED
    BY <2>1 DEF Stretch
<1>4. j <= Len(p) \/ j > Len(p)
  BY <1>1
<1> QED
  BY <1>2, <1>3, <1>4

LEMMA StretchPart ==
  ASSUME NEW S, NEW R, NEW q \in Seq(S), NEW from \in Nat, Stretch(R, q, from),
         NEW m \in 1 .. Len(q) + 1, NEW n \in m - 1 .. Len(q)
  PROVE  Stretch(R, SubSeq(q, m, n), from + (m - 1))
<1>1. Len(q) \in Nat /\ Len(SubSeq(q, m, n)) = n - m + 1
  BY SubSequence, LenProperties
<1>2. \A j \in 1 .. n - m + 1 : SubSeq(q, m, n)[j] = q[m + j - 1]
  BY SubSeqProperties
<1> SUFFICES ASSUME NEW j \in 1 .. n - m + 1
             PROVE  <<from + (m - 1) + j, SubSeq(q, m, n)[j]>> \in R
  BY <1>1 DEF Stretch
<1>3. m + j - 1 \in 1 .. Len(q) /\ from + (m - 1) + j = from + (m + j - 1)
  BY <1>1
<1> QED
  BY <1>2, <1>3 DEF Stretch

\* A buffer that is not full keeps its stretch.
LEMMA WrittenStretch ==
  ASSUME NEW S, NEW R, NEW q \in Seq(S), NEW depth, NEW wr \in BOOLEAN, NEW rd \in BOOLEAN,
         NEW byte, NEW from \in Nat, Stretch(R, q, from), rd => q # << >>,
         wr => byte \in S /\ Len(q) < depth /\ <<from + Len(q) + 1, byte>> \in R
  PROVE  /\ Stretch(R, Written(q, depth, wr, byte, rd), from + (IF rd THEN 1 ELSE 0))
         /\ Len(Written(q, depth, wr, byte, rd))
              = Len(q) + (IF wr THEN 1 ELSE 0) - (IF rd THEN 1 ELSE 0)
<1> DEFINE rest == IF rd THEN Tail(q) ELSE q
           then == from + (IF rd THEN 1 ELSE 0)
<1>1. /\ rest \in Seq(S) /\ Len(q) \in Nat /\ Len(rest) = Len(q) - (IF rd THEN 1 ELSE 0)
  BY HeadTailProperties, LenProperties
<1>2. Stretch(R, rest, then) /\ then \in Nat /\ then + Len(rest) = from + Len(q)
  <2>1. CASE rd
    <3>1. Stretch(R, Tail(q), from + 1)
      BY <2>1, StretchTail
    <3> QED
      BY <1>1, <2>1, <3>1
  <2>2. CASE ~rd
    BY <1>1, <2>2
  <2> QED
    BY <2>1, <2>2
<1>3. Written(q, depth, wr, byte, rd) = IF wr THEN Append(rest, byte) ELSE rest
  BY DEF Written
<1> HIDE DEF rest, then
<1>4. CASE wr
  <2>1. Stretch(R, Append(rest, byte), then)
    BY <1>1, <1>2, <1>4, StretchAppend
  <2>2. Len(Append(rest, byte)) = Len(rest) + 1
    BY <1>1, <1>4, AppendProperties
  <2> QED
    BY <1>1, <1>3, <1>4, <2>1, <2>2 DEF then
<1>5. CASE ~wr
  BY <1>1, <1>2, <1>3, <1>5 DEF then
<1> QED
  BY <1>4, <1>5

-----------------------------------------------------------------------------
(* The bytes of a call, in the order the host writes them, and the answers  *)
(* to its frames, in the order the board should give them.                 *)

AskedOf(c, f)  == [k \in 1 .. FrameIn |-> [call |-> c, frame |-> f, at |-> k]]
InStream(c)    == {<<FrameIn * f + k, [call |-> c, frame |-> f + 1, at |-> k]>> :
                     f \in Nat, k \in 1 .. FrameIn}
OutStream(c)   == {<<FrameOut * f + k, [of |-> AskedOf(c, f + 1), at |-> k]>> :
                     f \in Nat, k \in 1 .. FrameOut}

LEMMA OnePlace ==
  ASSUME NEW a \in Nat \ {0}, NEW f \in Nat, NEW g \in Nat,
         NEW k \in 1 .. a, NEW l \in 1 .. a, a * f + k = a * g + l
  PROVE  f = g /\ k = l
<1>1. a * f \in Nat /\ a * g \in Nat
  BY OneMore
<1>2. f <= g
  <2>1. a * f <= a * g + (l - 1) /\ l - 1 \in Nat /\ l - 1 < a
    BY <1>1
  <2> QED
    BY <2>1, CountsFrames
<1>3. g <= f
  <2>1. a * g <= a * f + (k - 1) /\ k - 1 \in Nat /\ k - 1 < a
    BY <1>1
  <2> QED
    BY <2>1, CountsFrames
<1>4. f = g
  BY <1>2, <1>3
<1> QED
  BY <1>1, <1>4

LEMMA InPlace ==
  ASSUME NEW c, NEW f \in Nat, NEW k \in 1 .. FrameIn, NEW x, <<FrameIn * f + k, x>> \in InStream(c)
  PROVE  x = [call |-> c, frame |-> f + 1, at |-> k]
<1>1. PICK g \in Nat, l \in 1 .. FrameIn :
        <<FrameIn * f + k, x>> = <<FrameIn * g + l, [call |-> c, frame |-> g + 1, at |-> l]>>
  BY DEF InStream
<1>2. FrameIn * f + k = FrameIn * g + l /\ x = [call |-> c, frame |-> g + 1, at |-> l]
  BY <1>1
<1>3. f = g /\ k = l
  <2>1. FrameIn \in Nat \ {0}
    BY Sizes
  <2> QED
    BY <1>2, <2>1, OnePlace
<1> QED
  BY <1>2, <1>3

LEMMA OutPlace ==
  ASSUME NEW c, NEW f \in Nat, NEW k \in 1 .. FrameOut, NEW x,
         <<FrameOut * f + k, x>> \in OutStream(c)
  PROVE  x = [of |-> AskedOf(c, f + 1), at |-> k]
<1>1. PICK g \in Nat, l \in 1 .. FrameOut :
        <<FrameOut * f + k, x>> = <<FrameOut * g + l, [of |-> AskedOf(c, g + 1), at |-> l]>>
  BY DEF OutStream
<1>2. FrameOut * f + k = FrameOut * g + l /\ x = [of |-> AskedOf(c, g + 1), at |-> l]
  BY <1>1
<1>3. f = g /\ k = l
  <2>1. FrameOut \in Nat \ {0}
    BY Sizes
  <2> QED
    BY <1>2, <2>1, OnePlace
<1> QED
  BY <1>2, <1>3

\* A whole frame taken from the line is the frame the host sent.
LEMMA WholeFrame ==
  ASSUME NEW S, NEW c, NEW f \in Nat, NEW q \in Seq(S), Len(q) = FrameIn,
         Stretch(InStream(c), q, FrameIn * f)
  PROVE  q = AskedOf(c, f + 1)
<1>1. q = [k \in 1 .. FrameIn |-> q[k]]
  BY LenProperties
<1>2. \A k \in 1 .. FrameIn : q[k] = [call |-> c, frame |-> f + 1, at |-> k]
  BY InPlace DEF Stretch
<1> QED
  BY <1>1, <1>2 DEF AskedOf

\* The bytes collected of a beat are the last `filled` of the register.
Collects(stream, from) ==
  \A j \in 1 .. filled : <<from + j, collected[InBytes - 1 - filled + j]>> \in stream

\* From the byte `from` on: what the accelerator, the bridge and the line hold.
InPath(c, from) == \E x, y, z \in Nat :
  /\ x = from + Len(words) /\ y = x + filled /\ z = y + Len(rx)
  /\ z + Len(wire) = FrameIn * sent
  /\ Stretch(InStream(c), words, from) /\ Collects(InStream(c), x)
  /\ Stretch(InStream(c), rx, y) /\ Stretch(InStream(c), wire, z)

\* From the frames yielded to the byte `to`: what host, line and bridge hold.
OutPath(c, to) == \E v, w, x, y \in Nat :
  /\ v = FrameOut * Yielded + Len(read) /\ w = v + Len(inbox) /\ x = w + Len(shifting)
  /\ y = x + Len(tx) /\ y + remaining = to
  /\ Stretch(OutStream(c), read, FrameOut * Yielded) /\ Stretch(OutStream(c), inbox, v)
  /\ Stretch(OutStream(c), shifting, w) /\ Stretch(OutStream(c), tx, x)
  /\ \A j \in 1 .. remaining : <<y + j, pending[j]>> \in OutStream(c)

\* The accelerator is at frame n + 1 of the call.
Path(n) == InPath(call, FrameIn * n) /\ OutPath(call, FrameOut * n + OutBytes * given)
Ordered == session = "streaming" => \E n \in Nat : Path(n)

LEMMA PathFlows ==
  ASSUME InTypes, OutTypes, HostTypes, NEW n \in Nat, Path(n)
  PROVE  Flow(n)
<1>1. /\ {Len(wire), Len(rx), Len(words), Len(tx), Len(shifting), Len(inbox), Len(read)}
           \subseteq Nat
      /\ filled \in Nat /\ remaining \in Nat /\ FrameIn * n \in Nat /\ FrameOut * n \in Nat
      /\ OutBytes * given \in Nat /\ FrameOut * Yielded \in Nat /\ FrameIn * sent \in Nat
  <2>1. Yielded \in Nat /\ sent \in Nat /\ given \in Nat
    BY Lengths, Sizes DEF OutTypes
  <2> QED
    BY <2>1, Lengths, Sizes, OneMore DEF InTypes, OutTypes
<1>2. FrameIn * n + Len(words) + filled + Len(rx) + Len(wire) = FrameIn * sent
  BY DEF Path, InPath
<1>3. FrameOut * Yielded + Len(read) + Len(inbox) + Len(shifting) + Len(tx) + remaining
        = FrameOut * n + OutBytes * given
  BY DEF Path, OutPath
<1>4. BytesIn + FrameIn * n <= FrameIn * sent
  BY <1>1, <1>2 DEF BytesIn
<1>5. FrameOut * Yielded + BytesOut <= FrameOut * n + OutBytes * given
  BY <1>1, <1>3 DEF BytesOut
<1> QED
  BY <1>4, <1>5 DEF Flow

LEMMA InputMoves ==
  ASSUME InTypes, OutTypes, HostTypes, session = "streaming",
         NEW arrives \in BOOLEAN, NEW goes \in BOOLEAN,
         NEW accepts \in BOOLEAN, NEW computes \in BOOLEAN,
         BoardClock(arrives, goes, accepts, computes), NEW n \in Nat, Flow(n),
         NEW c, NEW from \in Nat, InPath(c, from),
         NEW to, to = from + (IF Ends THEN FrameIn ELSE 0)
  PROVE  InPath(c, to)'
<1> DEFINE taken == AccelTakes(accepts)
           take  == RxTake(taken)
           byte  == IF arrives THEN Head(wire) ELSE NoByte
<1>1. /\ arrives => wire # << >>
      /\ rx' = Written(rx, RxDepth, arrives, byte, take)
      /\ filled' = IF take THEN (IF Last THEN 0 ELSE filled + 1) ELSE filled
      /\ collected' = IF take /\ ~Last THEN Shift(collected, Head(rx)) ELSE collected
      /\ wire' = IF arrives THEN Tail(wire) ELSE wire
      /\ words' = IF taken THEN words \o InBeat ELSE IF Ends THEN << >> ELSE words
      /\ sent' = sent
  BY DEF BoardClock, BridgeClock, Accelerates, Working, AccelValid, Ends, Byte1
<1>2. take \in BOOLEAN /\ (take => rx # << >>) /\ (taken => take /\ Last /\ Len(words) < FrameIn)
      /\ (take /\ Last => taken)
  BY DEF AccelTakes, RxTake, InValid, RxHave
<1>3. PICK R : R = InStream(c)
  OBVIOUS
<1>4. PICK x, y, z \in Nat :
        /\ x = from + Len(words) /\ y = x + filled /\ z = y + Len(rx)
        /\ z + Len(wire) = FrameIn * sent
        /\ Stretch(R, words, from) /\ Collects(R, x) /\ Stretch(R, rx, y) /\ Stretch(R, wire, z)
  BY <1>3 DEF InPath
<1> HIDE DEF taken, take, byte
<1>0. Len(wire) \in Nat /\ Len(rx) \in Nat /\ RxDepth \in Nat
  BY Lengths, Sizes
<1>5. /\ Stretch(R, wire', z + (IF arrives THEN 1 ELSE 0))
      /\ Len(wire') = Len(wire) - (IF arrives THEN 1 ELSE 0)
      /\ arrives => byte \in InByte /\ <<z + 1, byte>> \in R
  <2>1. CASE arrives
    <3>1. wire # << >> /\ wire \in Seq(InByte)
      BY <1>1, <2>1 DEF InTypes
    <3>2. /\ <<z + 1, Head(wire)>> \in R /\ Stretch(R, Tail(wire), z + 1)
          /\ Head(wire) \in InByte /\ Len(Tail(wire)) = Len(wire) - 1
      BY <1>4, <3>1, StretchTail, HeadTailProperties
    <3> QED
      BY <1>1, <2>1, <3>2 DEF byte
  <2>2. CASE ~arrives
    <3>1. wire' = wire /\ z + 0 = z
      BY <1>1, <2>2
    <3> QED
      BY <1>0, <1>4, <2>2, <3>1
  <2> QED
    BY <2>1, <2>2
<1>6. /\ Stretch(R, rx', y + (IF take THEN 1 ELSE 0))
      /\ Len(rx') = Len(rx) + (IF arrives THEN 1 ELSE 0) - (IF take THEN 1 ELSE 0)
  <2>1. rx \in Seq(InByte)
    BY DEF InTypes
  <2>2. arrives => Len(rx) < RxDepth
    <3>1. Len(wire) + Len(rx) <= RxDepth
      BY InputFits
    <3>2. arrives => Len(wire) # 0
      BY <1>1, EmptySeq DEF InTypes
    <3> QED
      BY <1>0, <3>1, <3>2
  <2>3. arrives => byte \in InByte /\ Len(rx) < RxDepth /\ <<y + Len(rx) + 1, byte>> \in R
    BY <1>4, <1>5, <2>2
  <2>4. Stretch(R, rx, y)
    BY <1>4
  <2> QED
    BY <1>1, <1>2, <2>1, <2>3, <2>4, WrittenStretch
<1>7. take => Head(rx) \in InByte /\ <<y + 1, Head(rx)>> \in R
  BY <1>2, <1>4, StretchTail, HeadTailProperties DEF InTypes
<1>8. /\ filled \in Nat /\ Len(words) \in Nat /\ Len(rx) \in Nat /\ Len(wire) \in Nat
      /\ InBytes \in Nat \ {0} /\ FrameIn \in Nat \ {0} /\ filled \in 0 .. InBytes - 1
      /\ collected \in Seq(InByte) /\ Len(collected) = InBytes - 1 /\ words \in Seq(InByte)
  BY LenProperties, Lengths, Sizes DEF InTypes
<1>9. CASE taken
  <2>1. take /\ filled = InBytes - 1 /\ filled' = 0 /\ y + 1 = x + InBytes
    <3>1. take /\ Last /\ filled' = 0 /\ filled = InBytes - 1
      BY <1>1, <1>2, <1>9 DEF Last
    <3>2. y = x + filled
      BY <1>4
    <3> QED
      BY <1>8, <3>1, <3>2
  <2>2. Stretch(R, collected, x)
    BY <1>4, <1>8, <2>1 DEF Collects, Stretch
  <2>3. InBeat \in Seq(InByte) /\ Len(InBeat) = InBytes /\ Stretch(R, InBeat, x)
    <3>1. x + Len(collected) + 1 = y + 1
      BY <1>8, <2>1
    <3>2. Stretch(R, Append(collected, Head(rx)), x)
      BY <1>4, <1>7, <1>8, <2>1, <2>2, <3>1, StretchAppend
    <3>3. /\ Append(collected, Head(rx)) \in Seq(InByte)
          /\ Len(Append(collected, Head(rx))) = InBytes - 1 + 1
      BY <1>7, <1>8, <2>1, AppendProperties
    <3> QED
      BY <1>8, <3>2, <3>3 DEF InBeat, Byte1
  <2>4. Stretch(R, words', from) /\ Len(words') = Len(words) + InBytes
    BY <1>1, <1>4, <1>8, <1>9, <2>3, StretchConcat, ConcatProperties
  <2>5. ~Ends
    BY <1>2, <1>8, <1>9 DEF OutTypes, Ends, Load
  <2>6. to = from
    BY <2>5
  <2>7. Collects(R, x + InBytes)'
    BY <2>1 DEF Collects
  <2>8. /\ x + InBytes = to + Len(words') /\ y + 1 = x + InBytes + filled'
        /\ z + (IF arrives THEN 1 ELSE 0) = y + 1 + Len(rx')
        /\ z + (IF arrives THEN 1 ELSE 0) + Len(wire') = FrameIn * sent'
    <3>1. PICK a \in 0 .. 1 : a = IF arrives THEN 1 ELSE 0
      OBVIOUS
    <3>2. Len(rx') = Len(rx) + a - 1 /\ Len(wire') = Len(wire) - a
      BY <1>5, <1>6, <2>1, <3>1
    <3>3. x + InBytes = to + Len(words')
      BY <1>4, <1>8, <2>4, <2>6
    <3>4. y + 1 = x + InBytes + filled'
      BY <1>8, <2>1
    <3>5. z + a = y + 1 + Len(rx')
      BY <1>4, <1>8, <3>2
    <3>6. z + a + Len(wire') = FrameIn * sent'
      <4>1. z + Len(wire) = FrameIn * sent'
        BY <1>1, <1>4
      <4>2. z + a + Len(wire') = z + Len(wire)
        BY <1>8, <3>2
      <4> QED
        BY <4>1, <4>2
    <3> QED
      BY <3>1, <3>3, <3>4, <3>5, <3>6
  <2>9. x + InBytes \in Nat /\ y + 1 \in Nat /\ z + (IF arrives THEN 1 ELSE 0) \in Nat
    BY <1>8
  <2> QED
    BY <1>3, <1>5, <1>6, <2>1, <2>4, <2>6, <2>7, <2>8, <2>9 DEF InPath
<1>10. CASE ~taken
  <2>1. filled' = filled + (IF take THEN 1 ELSE 0) /\ (take => filled < InBytes - 1)
    BY <1>1, <1>2, <1>8, <1>10 DEF Last
  <2>2. Stretch(R, words', to) /\ x = to + Len(words')
    <3>1. CASE Ends
      <4>1. words' = << >> /\ Len(words) = FrameIn
        BY <1>1, <1>10, <3>1 DEF OutTypes, Ends, Load
      <4> QED
        BY <1>4, <1>8, <3>1, <4>1, StretchNone, NoneIsZero
    <3>2. CASE ~Ends
      BY <1>1, <1>4, <1>8, <1>10, <3>2
    <3> QED
      BY <3>1, <3>2
  <2>3. Collects(R, x)'
    <3>1. CASE take
      <4>1. /\ filled' = filled + 1 /\ filled + 1 <= InBytes - 1 /\ collected # << >>
            /\ collected' = Append(Tail(collected), Head(rx))
        BY <1>1, <1>8, <2>1, <3>1, EmptySeq DEF Shift, Last
      <4>2. /\ Tail(collected) \in Seq(InByte) /\ Len(Tail(collected)) = InBytes - 2
            /\ \A i \in 1 .. InBytes - 2 : Tail(collected)[i] = collected[i + 1]
        BY <1>8, <4>1, HeadTailProperties
      <4>3. /\ \A i \in 1 .. InBytes - 2 : collected'[i] = collected[i + 1]
            /\ collected'[InBytes - 1] = Head(rx)
        BY <1>7, <1>8, <3>1, <4>1, <4>2, AppendProperties
      <4> SUFFICES ASSUME NEW j \in 1 .. filled + 1
                   PROVE  <<x + j, collected'[InBytes - 1 - (filled + 1) + j]>> \in R
        BY <4>1 DEF Collects
      <4>4. CASE j = filled + 1
        <5>1. x + j = y + 1 /\ InBytes - 1 - (filled + 1) + j = InBytes - 1
          BY <1>4, <1>8, <4>4
        <5> QED
          BY <1>7, <3>1, <4>3, <5>1
      <4>5. CASE j # filled + 1
        <5>1. PICK i \in 1 .. InBytes - 2 : i = InBytes - 1 - (filled + 1) + j
          BY <1>8, <4>1, <4>5
        <5>2. j \in 1 .. filled /\ i + 1 = InBytes - 1 - filled + j
          BY <1>8, <4>5, <5>1
        <5> QED
          BY <1>4, <4>3, <5>1, <5>2 DEF Collects
      <4> QED
        BY <4>4, <4>5
    <3>2. CASE ~take
      BY <1>1, <1>4, <3>2 DEF Collects
    <3> QED
      BY <3>1, <3>2
  <2>4. /\ y + (IF take THEN 1 ELSE 0) = x + filled'
        /\ z + (IF arrives THEN 1 ELSE 0) = y + (IF take THEN 1 ELSE 0) + Len(rx')
        /\ z + (IF arrives THEN 1 ELSE 0) + Len(wire') = FrameIn * sent'
    <3>1. PICK a \in 0 .. 1 : a = IF arrives THEN 1 ELSE 0
      OBVIOUS
    <3>2. PICK t \in 0 .. 1 : t = IF take THEN 1 ELSE 0
      OBVIOUS
    <3>3. Len(rx') = Len(rx) + a - t /\ Len(wire') = Len(wire) - a /\ filled' = filled + t
      BY <1>5, <1>6, <2>1, <3>1, <3>2
    <3>4. y + t = x + filled'
      BY <1>4, <1>8, <3>3
    <3>5. z + a = y + t + Len(rx')
      BY <1>4, <1>8, <3>3
    <3>6. z + a + Len(wire') = FrameIn * sent'
      <4>1. z + Len(wire) = FrameIn * sent'
        BY <1>1, <1>4
      <4>2. z + a + Len(wire') = z + Len(wire)
        BY <1>8, <3>3
      <4> QED
        BY <4>1, <4>2
    <3> QED
      BY <3>1, <3>2, <3>4, <3>5, <3>6
  <2>5. y + (IF take THEN 1 ELSE 0) \in Nat /\ z + (IF arrives THEN 1 ELSE 0) \in Nat
    OBVIOUS
  <2> QED
    BY <1>3, <1>4, <1>5, <1>6, <2>2, <2>3, <2>4, <2>5 DEF InPath
<1> QED
  BY <1>9, <1>10

LEMMA StretchOne ==
  ASSUME NEW R, NEW x, NEW from \in Nat, <<from + 1, x>> \in R
  PROVE  Stretch(R, <<x>>, from) /\ Len(<<x>>) = 1
<1>1. Len(<<x>>) = 1 /\ <<x>>[1] = x
  OBVIOUS
<1> QED
  BY <1>1 DEF Stretch

\* A beat of the answer to frame f + 1, given when `given` were given before it.
LEMMA BeatPlaces ==
  ASSUME OutTypes, InTypes, computed, NEW c, NEW f \in Nat,
         Stretch(InStream(c), words, FrameIn * f),
         NEW to, to = FrameOut * f + OutBytes * given, NEW j \in 1 .. OutBytes
  PROVE  to \in Nat /\ <<to + j, AccelBeat[j]>> \in OutStream(c)
<1>1. words = AskedOf(c, f + 1)
  BY WholeFrame DEF InTypes, OutTypes
<1>2. PICK g \in 0 .. OutBeats - 1 : g = given
  BY DEF OutTypes
<1>3. /\ OutBytes \in Nat \ {0} /\ OutBeats \in Nat \ {0} /\ FrameOut \in Nat \ {0}
      /\ OutBytes * g \in Nat /\ OutBytes * g + OutBytes <= FrameOut /\ FrameOut * f \in Nat
  BY Sizes, GivenIsPart, OneMore DEF FrameOut
<1>4. PICK k \in 1 .. FrameOut : k = OutBytes * g + j
  BY <1>3
<1>5. AccelBeat[j] = [of |-> AskedOf(c, f + 1), at |-> k]
  <2>1. g * OutBytes = OutBytes * g
    BY <1>3
  <2> QED
    BY <1>1, <1>2, <1>4, <2>1 DEF AccelBeat
<1>6. to = FrameOut * f + OutBytes * g /\ to \in Nat
  BY <1>2, <1>3
<1>7. to + j = FrameOut * f + k
  BY <1>3, <1>4, <1>6
<1>8. <<FrameOut * f + k, [of |-> AskedOf(c, f + 1), at |-> k]>> \in OutStream(c)
  BY DEF OutStream
<1> QED
  BY <1>5, <1>6, <1>7, <1>8

LEMMA OutputMoves ==
  ASSUME InTypes, OutTypes, HostTypes, session = "streaming",
         NEW arrives \in BOOLEAN, NEW goes \in BOOLEAN,
         NEW accepts \in BOOLEAN, NEW computes \in BOOLEAN,
         BoardClock(arrives, goes, accepts, computes),
         NEW c, NEW f \in Nat, Stretch(InStream(c), words, FrameIn * f),
         NEW from, from = FrameOut * f + OutBytes * given, OutPath(c, from),
         NEW to, to = from + (IF Load(computed) THEN OutBytes ELSE 0)
  PROVE  OutPath(c, to)'
<1> DEFINE pops == TxPop(TxReady(goes))
           load == Load(computed)
<1>1. /\ remaining' = Left(load)
      /\ pending' = IF load THEN AccelBeat
                    ELSE IF TxPush THEN Shift(pending, NoByte) ELSE pending
      /\ tx' = Written(tx, TxDepth, TxPush, Head(pending), pops)
      /\ shifting' = IF pops THEN <<Head(tx)>> ELSE IF goes THEN << >> ELSE shifting
      /\ inbox' = IF goes THEN inbox \o shifting ELSE inbox
      /\ read' = read /\ Yielded' = Yielded
  BY ClockHost DEF BoardClock, BridgeClock, AccelValid, Byte1
<1>2. pops \in BOOLEAN /\ (pops => tx # << >>) /\ (pops /\ ~goes => shifting = << >>)
  BY DEF TxPop, TxReady
<1>3. /\ TxPush \in BOOLEAN /\ load \in BOOLEAN
      /\ (TxPush => remaining # 0 /\ Len(tx) < TxDepth /\ ~load)
      /\ (load => remaining = 0 /\ computed)
  BY DEF TxPush, Holding, Load, OutTypes
<1> HIDE DEF pops, load
<1>4. PICK R : R = OutStream(c)
  OBVIOUS
<1>5. PICK u, v, w, x, y \in Nat :
        /\ u = FrameOut * Yielded
        /\ v = u + Len(read) /\ w = v + Len(inbox) /\ x = w + Len(shifting)
        /\ y = x + Len(tx) /\ y + remaining = from
        /\ Stretch(R, read, u) /\ Stretch(R, inbox, v)
        /\ Stretch(R, shifting, w) /\ Stretch(R, tx, x)
        /\ \A j \in 1 .. remaining : <<y + j, pending[j]>> \in R
  <2>1. FrameOut * Yielded \in Nat
    BY Lengths, Sizes, OneMore
  <2> QED
    BY <1>4, <2>1 DEF OutPath
<1>6. /\ Len(tx) \in Nat /\ Len(shifting) \in Nat /\ Len(inbox) \in Nat /\ Len(read) \in Nat
      /\ remaining \in 0 .. OutBytes /\ OutBytes \in Nat \ {0}
      /\ tx \in Seq(OutByte) /\ shifting \in Seq(OutByte) /\ inbox \in Seq(OutByte)
      /\ pending \in Seq(OutByte) /\ Len(pending) = OutBytes
  BY LenProperties, Sizes DEF OutTypes
<1>7. pending # << >> /\ Head(pending) = pending[1] /\ Head(pending) \in OutByte
      /\ Tail(pending) \in Seq(OutByte) /\ Len(Tail(pending)) = OutBytes - 1
      /\ \A j \in 1 .. OutBytes - 1 : Tail(pending)[j] = pending[j + 1]
  BY <1>6, EmptySeq, HeadTailProperties
<1>14. /\ v = u + Len(read) /\ w = v + Len(inbox) /\ x = w + Len(shifting)
       /\ y = x + Len(tx) /\ from = y + remaining
  BY <1>5
<1>8. PICK push, pop \in 0 .. 1 : /\ push = IF TxPush THEN 1 ELSE 0
                                  /\ pop = IF pops THEN 1 ELSE 0
  OBVIOUS
<1>9. Stretch(R, tx', x + pop) /\ Len(tx') = Len(tx) + push - pop
  <2>1. TxPush => <<x + Len(tx) + 1, Head(pending)>> \in R
    <3>1. TxPush => 1 \in 1 .. remaining
      BY <1>3, <1>6
    <3>2. x + Len(tx) + 1 = y + 1
      BY <1>5
    <3> QED
      BY <1>5, <1>7, <3>1, <3>2
  <2>2. TxPush => Head(pending) \in OutByte /\ Len(tx) < TxDepth
    BY <1>3, <1>7
  <2>3. Stretch(R, tx, x)
    BY <1>5
  <2> QED
    BY <1>1, <1>2, <1>3, <1>6, <1>8, <2>1, <2>2, <2>3, WrittenStretch
<1>10. PICK w1 \in Nat :
         /\ w1 = v + Len(inbox') /\ x + pop = w1 + Len(shifting')
         /\ Stretch(R, inbox', v) /\ Stretch(R, shifting', w1)
  <2>1. /\ inbox \o shifting \in Seq(OutByte)
        /\ Len(inbox \o shifting) = Len(inbox) + Len(shifting)
        /\ Stretch(R, inbox \o shifting, v)
    BY <1>5, <1>6, StretchConcat, ConcatProperties
  <2>2. pops => Stretch(R, <<Head(tx)>>, x) /\ Len(<<Head(tx)>>) = 1
    <3>1. pops => <<x + 1, Head(tx)>> \in R
      BY <1>2, <1>5, <1>6, StretchTail
    <3> QED
      BY <3>1, StretchOne
  <2>3. /\ x = v + Len(inbox \o shifting) /\ x = w + Len(shifting) /\ w = v + Len(inbox)
        /\ Stretch(R, inbox, v) /\ Stretch(R, shifting, w)
        /\ Stretch(R, << >>, x) /\ Len(<< >>) = 0
    <3>1. Stretch(R, << >>, x) /\ Len(<< >>) = 0
      BY StretchNone, NoneIsZero
    <3>2. Stretch(R, inbox, v) /\ Stretch(R, shifting, w)
      BY <1>5
    <3> QED
      BY <1>6, <1>14, <2>1, <3>1, <3>2
  <2>4. CASE pops /\ goes
    BY <1>1, <1>8, <2>1, <2>2, <2>3, <2>4
  <2>5. CASE pops /\ ~goes
    <3>1. shifting = << >> /\ x = w
      BY <1>2, <2>3, <2>5
    <3> QED
      BY <1>1, <1>8, <2>2, <2>3, <2>5, <3>1
  <2>6. CASE ~pops /\ goes
    BY <1>1, <1>8, <2>1, <2>3, <2>6
  <2>7. CASE ~pops /\ ~goes
    BY <1>1, <1>8, <2>3, <2>7
  <2> QED
    BY <1>2, <2>4, <2>5, <2>6, <2>7
<1>11. /\ y + push + remaining' = to
       /\ \A j \in 1 .. remaining' : <<y + push + j, pending'[j]>> \in R
  <2>1. CASE load
    <3>1. push = 0 /\ remaining = 0 /\ remaining' = OutBytes /\ pending' = AccelBeat /\ y = from
          /\ to = from + OutBytes
      BY <1>1, <1>3, <1>5, <1>8, <2>1 DEF Left, load
    <3>2. \A j \in 1 .. OutBytes : <<from + j, AccelBeat[j]>> \in R
      BY <1>3, <1>4, <2>1, BeatPlaces
    <3> QED
      BY <3>1, <3>2
  <2>2. CASE TxPush
    <3>1. /\ push = 1 /\ remaining' = remaining - 1 /\ to = from
          /\ pending' = Append(Tail(pending), NoByte)
      <4>1. remaining' = remaining - 1 /\ pending' = Shift(pending, NoByte)
        BY <1>1, <1>3, <2>2 DEF Left
      <4> QED
        BY <1>3, <1>6, <1>7, <1>8, <1>14, <2>2, <4>1 DEF Shift, load
    <3>2. y + push + remaining' = to
      BY <1>5, <1>6, <3>1
    <3>3. ASSUME NEW j \in 1 .. remaining - 1 PROVE <<y + 1 + j, pending'[j]>> \in R
      <4>1. j \in 1 .. OutBytes - 1 /\ j + 1 \in 1 .. remaining /\ y + 1 + j = y + (j + 1)
        BY <1>6
      <4>2. pending'[j] = pending[j + 1]
        <5>1. Append(Tail(pending), NoByte)[j] = Tail(pending)[j]
          BY <1>6, <1>7, <4>1, AppendProperties DEF OutByte
        <5> QED
          BY <1>7, <3>1, <4>1, <5>1
      <4> QED
        BY <1>5, <4>1, <4>2
    <3> QED
      BY <3>1, <3>2, <3>3
  <2>3. CASE ~load /\ ~TxPush
    <3>1. push = 0 /\ remaining' = remaining /\ pending' = pending /\ to = from
      <4>1. remaining' = remaining /\ pending' = pending
        BY <1>1, <2>3 DEF Left
      <4> QED
        BY <1>6, <1>8, <1>14, <2>3, <4>1 DEF load
    <3>2. \A j \in 1 .. remaining : <<y + j, pending[j]>> \in R
      BY <1>5
    <3> QED
      BY <1>14, <3>1, <3>2
  <2> QED
    BY <1>3, <2>1, <2>2, <2>3
<1>12. x + pop \in Nat /\ y + push \in Nat /\ y + push = x + pop + Len(tx')
  <2>1. Len(tx') = Len(tx) + push - pop
    BY <1>9
  <2>2. y = x + Len(tx) /\ Len(tx) \in Nat
    BY <1>6, <1>14
  <2> QED
    BY <2>1, <2>2
<1>13. /\ v = FrameOut * Yielded' + Len(read') /\ Stretch(R, read', FrameOut * Yielded')
  BY <1>1, <1>5
<1> QED
  BY <1>4, <1>9, <1>10, <1>11, <1>12, <1>13 DEF OutPath

\* The board's clock carries the bytes on, in their order.
LEMMA PathMoves ==
  ASSUME InTypes, OutTypes, HostTypes, session = "streaming",
         NEW arrives \in BOOLEAN, NEW goes \in BOOLEAN,
         NEW accepts \in BOOLEAN, NEW computes \in BOOLEAN,
         BoardClock(arrives, goes, accepts, computes),
         NEW n \in Nat, Path(n)
  PROVE  \E m \in Nat : Path(m)'
<1>1. PICK c : c = call
  OBVIOUS
<1>2. InPath(c, FrameIn * n) /\ OutPath(c, FrameOut * n + OutBytes * given)
  BY <1>1 DEF Path
<1>3. Flow(n)
  BY PathFlows
<1>4. call' = c
  BY <1>1, ClockHost
<1>5. FrameIn * n \in Nat /\ FrameIn \in Nat \ {0}
  BY Sizes, OneMore
<1>6. Stretch(InStream(c), words, FrameIn * n)
  BY <1>2 DEF InPath
<1>7. PICK into : into = FrameIn * n + (IF Ends THEN FrameIn ELSE 0)
  OBVIOUS
<1>8. InPath(c, into)'
  BY <1>2, <1>3, <1>5, <1>7, InputMoves
<1>9. PICK from : from = FrameOut * n + OutBytes * given
  OBVIOUS
<1>10. PICK to : to = from + (IF Load(computed) THEN OutBytes ELSE 0)
  OBVIOUS
<1>11. OutPath(c, to)'
  BY <1>2, <1>6, <1>9, <1>10, OutputMoves
<1>12. given' = IF Ends THEN 0 ELSE IF Load(computed) THEN given + 1 ELSE given
  BY OutputSide
<1>13. /\ given \in Nat /\ OutBytes \in Nat /\ OutBeats \in Nat /\ FrameOut \in Nat
       /\ FrameOut * n \in Nat /\ OutBytes * given \in Nat
  BY Sizes, OneMore DEF OutTypes
<1>14. CASE Ends
  <2>1. into = FrameIn * (n + 1)
    BY <1>5, <1>7, <1>14
  <2>2. to = FrameOut * (n + 1) + OutBytes * given'
    <3>1. Load(computed) /\ given + 1 = OutBeats /\ given' = 0
      BY <1>12, <1>13, <1>14, Sizes DEF Ends
    <3>2. OutBytes * (given + 1) = OutBytes * given + OutBytes
      BY <1>13, OneMore
    <3>3. FrameOut = OutBytes * given + OutBytes
      BY <3>1, <3>2 DEF FrameOut
    <3>4. FrameOut * (n + 1) = FrameOut * n + FrameOut /\ OutBytes * given' = 0
      BY <1>13, <3>1, OneMore
    <3>5. to = FrameOut * n + OutBytes * given + OutBytes
      BY <1>9, <1>10, <3>1
    <3> QED
      BY <1>13, <3>3, <3>4, <3>5
  <2>3. Path(n + 1)'
    BY <1>4, <1>8, <1>11, <2>1, <2>2 DEF Path
  <2> QED
    BY <2>3
<1>15. CASE ~Ends
  <2>1. into = FrameIn * n
    BY <1>5, <1>7, <1>15
  <2>2. to = FrameOut * n + OutBytes * given'
    <3>1. CASE Load(computed)
      <4>1. given' = given + 1 /\ to = FrameOut * n + OutBytes * given + OutBytes
        BY <1>9, <1>10, <1>12, <1>15, <3>1
      <4>2. OutBytes * (given + 1) = OutBytes * given + OutBytes
        BY <1>13, OneMore
      <4> QED
        BY <1>13, <4>1, <4>2
    <3>2. CASE ~Load(computed)
      BY <1>9, <1>10, <1>12, <1>13, <1>15, <3>2
    <3> QED
      BY <3>1, <3>2
  <2>3. Path(n)'
    BY <1>4, <1>8, <1>11, <2>1, <2>2 DEF Path
  <2> QED
    BY <2>3
<1> QED
  BY <1>14, <1>15

-----------------------------------------------------------------------------
(* The host's steps, and the theorem.                                      *)

\* The answer to frame f of call c, whole.
AnswerTo(c, f) == [b \in 1 .. FrameOut |-> [of |-> AskedOf(c, f), at |-> b]]

LEMMA WholeAnswer ==
  ASSUME NEW S, NEW c, NEW f \in Nat, NEW q \in Seq(S), Len(q) = FrameOut,
         Stretch(OutStream(c), q, FrameOut * f)
  PROVE  q = AnswerTo(c, f + 1)
<1>1. q = [k \in 1 .. FrameOut |-> q[k]]
  BY LenProperties
<1>2. \A k \in 1 .. FrameOut : q[k] = [of |-> AskedOf(c, f + 1), at |-> k]
  BY OutPlace DEF Stretch
<1> QED
  BY <1>1, <1>2 DEF AnswerTo

LEMMA AnswersAre == AnswersItsInputs <=> \A k \in 1 .. Yielded : answers[k] = AnswerTo(call, k)
BY DEF AnswersItsInputs, AnswerTo, Frame, AskedOf

LEMMA InMember ==
  ASSUME NEW c, NEW f \in Nat, NEW k \in 1 .. FrameIn
  PROVE  <<FrameIn * f + k, [call |-> c, frame |-> f + 1, at |-> k]>> \in InStream(c)
BY DEF InStream

LEMMA OutStays ==
  ASSUME NEW c, NEW to, OutPath(c, to), Yielded' = Yielded, read' = read, inbox' = inbox,
         shifting' = shifting, tx' = tx, remaining' = remaining, pending' = pending
  PROVE  OutPath(c, to)'
BY DEF OutPath

LEMMA InStays ==
  ASSUME NEW c, NEW from, InPath(c, from), words' = words, filled' = filled,
         collected' = collected, rx' = rx, wire' = wire, sent' = sent
  PROVE  InPath(c, from)'
BY DEF InPath, Collects

LEMMA Distributes ==
  ASSUME NEW a \in Nat, NEW x \in Nat, NEW y \in Nat
  PROVE  a * (x + y) = a * x + a * y /\ a * x \in Nat /\ a * y \in Nat
OBVIOUS

LEMMA SendOrdered ==
  ASSUME Inv, Sends, NEW n \in Nat, Path(n)
  PROVE  Path(n)'
<1> USE DEF Inv
<1>1. /\ UNCHANGED board /\ inbox' = inbox /\ call' = call /\ answers' = answers
      /\ read' = read /\ Yielded' = Yielded /\ sent' = sent + 1 /\ wire' = wire \o Frame(sent + 1)
  BY DEF Sends, BoardKeeps, Yielded
<1>2. PICK c \in {0, 1}, m \in Nat : c = call /\ m = sent
  BY Lengths DEF HostTypes
<1>3. PICK R : R = InStream(c)
  OBVIOUS
<1>4. PICK x, y, z \in Nat :
        /\ x = FrameIn * n + Len(words) /\ y = x + filled /\ z = y + Len(rx)
        /\ z + Len(wire) = FrameIn * m
        /\ Stretch(R, words, FrameIn * n) /\ Collects(R, x) /\ Stretch(R, rx, y)
        /\ Stretch(R, wire, z)
  BY <1>2, <1>3 DEF Path, InPath
<1>5. FrameIn \in Nat \ {0} /\ FrameIn * m \in Nat /\ FrameIn * (m + 1) = FrameIn * m + FrameIn
      /\ Len(wire) \in Nat
  BY OneMore, Sizes, Lengths
<1>6. /\ Frame(m + 1) \in Seq(InByte) /\ Len(Frame(m + 1)) = FrameIn
      /\ \A k \in 1 .. FrameIn : Frame(m + 1)[k] = [call |-> c, frame |-> m + 1, at |-> k]
  <2>1. Frame(m + 1) \in [1 .. FrameIn -> InByte]
    BY <1>2 DEF Frame, InByte
  <2> QED
    BY <1>2, <1>5, <2>1, MadeSequence DEF Frame
<1>7. Stretch(R, Frame(m + 1), z + Len(wire))
  <2>1. ASSUME NEW k \in 1 .. FrameIn
        PROVE  <<FrameIn * m + k, [call |-> c, frame |-> m + 1, at |-> k]>> \in R
    BY <1>3, InMember
  <2>2. z + Len(wire) = FrameIn * m
    BY <1>4
  <2> QED
    BY <1>6, <2>1, <2>2 DEF Stretch
<1>8. Stretch(R, wire', z) /\ Len(wire') = Len(wire) + FrameIn
  <2>1. wire' = wire \o Frame(m + 1)
    BY <1>1, <1>2
  <2> QED
    BY <1>4, <1>6, <1>7, <2>1, StretchConcat, ConcatProperties DEF InTypes
<1>9. z + Len(wire') = FrameIn * sent'
  <2>1. z + Len(wire) = FrameIn * m
    BY <1>4
  <2>2. z + Len(wire') = FrameIn * m + FrameIn
    BY <1>5, <1>8, <2>1
  <2> QED
    BY <1>1, <1>2, <1>5, <2>2
<1>10. Collects(R, x)'
  BY <1>1, <1>4, BoardStays DEF Collects
<1>11. InPath(c, FrameIn * n)'
  <2>1. PICK from : from = FrameIn * n
    OBVIOUS
  <2>2. /\ x = from + Len(words') /\ y = x + filled' /\ z = y + Len(rx')
        /\ Stretch(R, words', from) /\ Stretch(R, rx', y)
    BY <1>1, <1>4, <2>1, BoardStays
  <2>3. InPath(c, from)'
    BY <1>3, <1>8, <1>9, <1>10, <2>2 DEF InPath
  <2> QED
    BY <2>1, <2>3
<1>12. PICK to : to = FrameOut * n + OutBytes * given
  OBVIOUS
<1>13. OutPath(c, to)'
  BY <1>1, <1>2, <1>12, BoardStays, OutStays DEF Path
<1>14. to = FrameOut * n + OutBytes * given'
  BY <1>1, <1>12, BoardStays
<1> QED
  BY <1>1, <1>2, <1>11, <1>13, <1>14 DEF Path

LEMMA ReadOrdered ==
  ASSUME Inv, Reads, NEW n \in Nat, Path(n), AnswersItsInputs
  PROVE  Path(n)' /\ AnswersItsInputs'
<1> USE DEF Inv
<1>1. /\ UNCHANGED board /\ wire' = wire /\ inbox' = << >> /\ call' = call /\ sent' = sent
  BY DEF Reads
<1>2. PICK count \in Nat :
           /\ answers' \in Seq(Seq(OutByte)) /\ Yielded' = Yielded + count
           /\ read' \in Seq(OutByte)
           /\ FrameOut * count \in 0 .. Len(read \o inbox)
           /\ read' = SubSeq(read \o inbox, FrameOut * count + 1, Len(read \o inbox))
           /\ \A k \in 1 .. Yielded : answers'[k] = answers[k]
           /\ \A j \in 0 .. count - 1 :
                answers'[Yielded + j + 1]
                  = SubSeq(read \o inbox, FrameOut * j + 1, FrameOut * j + FrameOut)
  BY ReadParts
<1>3. PICK c, d \in Nat, bytes \in Seq(OutByte) : c = call /\ d = Yielded /\ bytes = read \o inbox
  BY Lengths, ConcatProperties DEF HostTypes, OutTypes
<1>4. PICK R : R = OutStream(c)
  OBVIOUS
<1>5. PICK v, w, x, y \in Nat :
        /\ v = FrameOut * d + Len(read) /\ w = v + Len(inbox) /\ x = w + Len(shifting)
        /\ y = x + Len(tx) /\ y + remaining = FrameOut * n + OutBytes * given
        /\ Stretch(R, read, FrameOut * d) /\ Stretch(R, inbox, v)
        /\ Stretch(R, shifting, w) /\ Stretch(R, tx, x)
        /\ \A j \in 1 .. remaining : <<y + j, pending[j]>> \in R
  BY <1>3, <1>4 DEF Path, OutPath
<1>6. /\ FrameOut \in Nat \ {0} /\ FrameOut * d \in Nat /\ FrameOut * count \in Nat
      /\ FrameOut * (d + count) = FrameOut * d + FrameOut * count
      /\ Len(read) \in Nat /\ Len(inbox) \in Nat
  <2>1. FrameOut \in Nat \ {0}
    BY Sizes
  <2>2. Len(read) \in Nat /\ Len(inbox) \in Nat
    BY Lengths
  <2> QED
    BY <2>1, <2>2, Distributes
<1>7. /\ Stretch(R, bytes, FrameOut * d) /\ Len(bytes) = Len(read) + Len(inbox)
      /\ Len(bytes) \in Nat /\ FrameOut * d + Len(bytes) = w
  <2>1. v = FrameOut * d + Len(read) /\ Stretch(R, inbox, v) /\ Stretch(R, read, FrameOut * d)
    BY <1>5
  <2>2. Stretch(R, read \o inbox, FrameOut * d) /\ Len(read \o inbox) = Len(read) + Len(inbox)
    BY <1>6, <2>1, StretchConcat, ConcatProperties DEF OutTypes
  <2>3. w = v + Len(inbox)
    BY <1>5
  <2> QED
    BY <1>3, <1>6, <2>1, <2>2, <2>3
<1>8. \A j \in 0 .. count - 1 : answers'[d + j + 1] = AnswerTo(c, d + j + 1)
  <2> SUFFICES ASSUME NEW j \in 0 .. count - 1
               PROVE  answers'[d + j + 1] = AnswerTo(c, d + j + 1)
    OBVIOUS
  <2>0. j \in Nat /\ j + 1 <= count /\ j + 1 \in Nat
    OBVIOUS
  <2>1. /\ FrameOut * j \in Nat /\ FrameOut * (j + 1) = FrameOut * j + FrameOut
        /\ FrameOut * (j + 1) <= FrameOut * count
        /\ FrameOut * (d + j) = FrameOut * d + FrameOut * j
    BY <1>6, <2>0, OneMore, Distributes, Grows
  <2>2. PICK fd, fj \in Nat : fd = FrameOut * d /\ fj = FrameOut * j
    BY <1>6, <2>1
  <2>9. FrameOut * count <= Len(bytes)
    BY <1>2, <1>3
  <2>10. fj + FrameOut <= Len(bytes)
    BY <1>6, <1>7, <2>1, <2>2, <2>9
  <2>11. PICK lo \in 1 .. Len(bytes) + 1, hi \in 0 .. Len(bytes) :
           lo = fj + 1 /\ hi = fj + FrameOut /\ hi \in lo - 1 .. Len(bytes)
    <3>1. fj + 1 \in 1 .. Len(bytes) + 1 /\ fj + FrameOut \in fj + 1 - 1 .. Len(bytes)
      BY <1>6, <1>7, <2>10
    <3> QED
      BY <3>1
  <2>3. PICK q \in Seq(OutByte) : q = SubSeq(bytes, lo, hi) /\ Len(q) = hi - lo + 1
    BY <2>11, SubSequence
  <2>4. Len(q) = FrameOut
    BY <1>6, <2>3, <2>11
  <2>5. Stretch(R, q, fd + (lo - 1))
    BY <1>7, <2>2, <2>3, <2>11, StretchPart
  <2>6. fd + (lo - 1) = FrameOut * (d + j)
    BY <2>1, <2>2, <2>11
  <2>7. q = AnswerTo(c, d + j + 1)
    <3>1. d + j \in Nat
      BY <2>1
    <3> QED
      BY <1>4, <2>4, <2>5, <2>6, <3>1, WholeAnswer
  <2>8. answers'[d + j + 1] = SubSeq(bytes, fj + 1, fj + FrameOut)
    BY <1>2, <1>3, <2>2
  <2> QED
    BY <2>3, <2>7, <2>8, <2>11
<1>9. AnswersItsInputs'
  <2>1. \A k \in 1 .. d : answers'[k] = AnswerTo(c, k)
    BY <1>2, <1>3, AnswersAre
  <2>2. ASSUME NEW k \in 1 .. d + count PROVE answers'[k] = AnswerTo(c, k)
    <3>1. CASE k <= d
      BY <2>1, <3>1
    <3>2. CASE k > d
      <4>1. PICK j \in 0 .. count - 1 : k = d + j + 1
        <5>1. k - d - 1 \in 0 .. count - 1 /\ k = d + (k - d - 1) + 1
          BY <3>2
        <5> QED
          BY <5>1
      <4> QED
        BY <1>8, <4>1
    <3> QED
      BY <3>1, <3>2
  <2>3. \A k \in (1 .. Yielded)' : answers'[k] = AnswerTo(call', k)
    BY <1>1, <1>2, <1>3, <2>2
  <2> QED
    BY <2>3 DEF AnswersItsInputs, AnswerTo, Frame, AskedOf
<1>10. /\ Stretch(R, read', FrameOut * (d + count)) /\ Len(read') = Len(bytes) - FrameOut * count
  <2>1. PICK fd, fc \in Nat : fd = FrameOut * d /\ fc = FrameOut * count /\ fc <= Len(bytes)
    BY <1>2, <1>3, <1>6
  <2>2. PICK lo \in 1 .. Len(bytes) + 1, hi \in 0 .. Len(bytes) :
          lo = fc + 1 /\ hi = Len(bytes) /\ hi \in lo - 1 .. Len(bytes)
    <3>1. fc + 1 \in 1 .. Len(bytes) + 1 /\ Len(bytes) \in fc + 1 - 1 .. Len(bytes)
      BY <1>7, <2>1
    <3> QED
      BY <3>1
  <2>3. read' = SubSeq(bytes, lo, hi)
    BY <1>2, <1>3, <2>1, <2>2
  <2>4. Stretch(R, read', fd + (lo - 1)) /\ Len(read') = hi - lo + 1
    BY <1>7, <2>1, <2>2, <2>3, StretchPart, SubSequence
  <2>5. fd + (lo - 1) = FrameOut * (d + count)
    BY <1>6, <2>1, <2>2
  <2>6. Len(read') = Len(bytes) - fc
    BY <1>7, <2>2, <2>4
  <2> QED
    BY <2>1, <2>4, <2>5, <2>6
<1>11. /\ w = FrameOut * Yielded' + Len(read') /\ Stretch(R, read', FrameOut * Yielded')
       /\ w = w + Len(inbox') /\ Stretch(R, inbox', w)
  <2>1. Len(inbox') = 0 /\ Stretch(R, inbox', w)
    BY <1>1, NoneIsZero, StretchNone
  <2>2. FrameOut * Yielded' = FrameOut * (d + count)
    BY <1>2, <1>3
  <2>3. w = FrameOut * (d + count) + Len(read')
    BY <1>6, <1>7, <1>10
  <2> QED
    BY <1>10, <2>1, <2>2, <2>3
<1>12. OutPath(c, FrameOut * n + OutBytes * given)'
  <2>1. /\ x = w + Len(shifting') /\ y = x + Len(tx')
        /\ y + remaining' = FrameOut * n + OutBytes * given'
    BY <1>1, <1>5, BoardStays
  <2>2. /\ Stretch(R, shifting', w) /\ Stretch(R, tx', x)
        /\ \A j \in 1 .. remaining' : <<y + j, pending'[j]>> \in R
    BY <1>1, <1>5, BoardStays
  <2> QED
    BY <1>4, <1>11, <2>1, <2>2 DEF OutPath
<1>13. InPath(call, FrameIn * n)'
  BY <1>1, BoardStays DEF Path, InPath, Collects
<1> QED
  BY <1>1, <1>3, <1>9, <1>12, <1>13 DEF Path

LEMMA CallOrdered ==
  ASSUME Inv, ~Reuses, Calls
  PROVE  Path(0)' /\ AnswersItsInputs'
<1> USE DEF Inv
<1>1. /\ UNCHANGED board /\ wire' = wire /\ inbox' = inbox /\ sent' = 0 /\ answers' = << >>
      /\ read' = << >> /\ Empty /\ Yielded' = 0
  BY NoneIsZero DEF Calls, BoardKeeps, Yielded
<1>2. /\ wire' = << >> /\ rx' = << >> /\ words' = << >> /\ tx' = << >> /\ shifting' = << >>
      /\ inbox' = << >> /\ filled' = 0 /\ remaining' = 0 /\ given' = 0
  BY <1>1, EmptyIs, BoardStays
<1>3. FrameIn * 0 = 0 /\ FrameOut * 0 = 0 /\ OutBytes * 0 = 0
  BY Sizes
<1>4. \A R : Stretch(R, << >>, 0)
  BY StretchNone
<1>5. InPath(call, 0)'
  <2>1. \A R : Collects(R, 0)'
    BY <1>2 DEF Collects
  <2> QED
    BY <1>1, <1>2, <1>3, <1>4, <2>1, NoneIsZero DEF InPath
<1>6. OutPath(call, 0)'
  BY <1>1, <1>2, <1>3, <1>4, NoneIsZero DEF OutPath
<1>7. FrameOut * 0 + OutBytes * given' = 0
  BY <1>2, <1>3
<1> QED
  BY <1>1, <1>3, <1>5, <1>6, <1>7 DEF Path, AnswersItsInputs

\* What is where, and what has been answered.
OrderInv == Inv /\ Ordered /\ AnswersItsInputs

LEMMA OrderKeeps ==
  ASSUME ~Reuses, OrderInv, [SessionNext]_sessionVars
  PROVE  OrderInv'
<1> USE DEF OrderInv
<1>1. Inv'
  BY NextKeeps
<1>2. call' = call /\ answers' = answers => AnswersItsInputs'
  BY DEF AnswersItsInputs, Frame, Yielded
<1>3. CASE \E arrives, goes, accepts, computes \in BOOLEAN :
             BoardClock(arrives, goes, accepts, computes)
  <2>1. PICK arrives, goes, accepts, computes \in BOOLEAN :
          BoardClock(arrives, goes, accepts, computes)
    BY <1>3
  <2>2. session' = session /\ AnswersItsInputs'
    BY <1>2, <2>1, ClockHost
  <2>3. CASE session = "streaming"
    <3>1. PICK n \in Nat : Path(n)
      BY <2>3 DEF Ordered
    <3>2. \E m \in Nat : Path(m)'
      BY <2>1, <2>3, <3>1, PathMoves DEF Inv
    <3> QED
      BY <1>1, <2>2, <3>2 DEF Ordered
  <2> QED
    BY <1>1, <2>2, <2>3 DEF Ordered
<1>4. CASE Calls
  <2>1. Path(0)' /\ AnswersItsInputs'
    BY <1>4, CallOrdered
  <2> QED
    BY <1>1, <2>1 DEF Ordered
<1>5. CASE Sends
  <2>1. AnswersItsInputs' /\ session = "streaming"
    BY <1>2, <1>5 DEF Sends
  <2>2. PICK n \in Nat : Path(n)
    BY <2>1 DEF Ordered
  <2>3. Path(n)'
    BY <1>5, <2>2, SendOrdered
  <2> QED
    BY <1>1, <2>1, <2>3 DEF Ordered
<1>6. CASE Reads
  <2>1. PICK n \in Nat : Path(n)
    BY <1>6 DEF Ordered, Reads
  <2>2. Path(n)' /\ AnswersItsInputs'
    BY <1>6, <2>1, ReadOrdered
  <2> QED
    BY <1>1, <2>2 DEF Ordered
<1>7. CASE Opens \/ Unbreaks \/ Settles \/ TimesOut \/ Closes \/ Dies
  <2>1. session' # "streaming" /\ call' = call /\ answers' = answers
    BY <1>7 DEF Opens, Unbreaks, Settles, TimesOut, Closes, Dies
  <2> QED
    BY <1>1, <1>2, <2>1 DEF Ordered
<1>8. CASE UNCHANGED sessionVars
  <2>1. /\ UNCHANGED board /\ wire' = wire /\ inbox' = inbox /\ session' = session
        /\ call' = call /\ sent' = sent /\ answers' = answers /\ read' = read /\ Yielded' = Yielded
    BY <1>8 DEF sessionVars, host, Yielded
  <2>2. ASSUME NEW n \in Nat, Path(n) PROVE Path(n)'
    <3>1. PICK c, to : c = call /\ to = FrameOut * n + OutBytes * given
      OBVIOUS
    <3>2. InPath(c, FrameIn * n)' /\ OutPath(c, to)'
      BY <2>1, <2>2, <3>1, BoardStays, InStays, OutStays DEF Path
    <3>3. c = call' /\ to = FrameOut * n + OutBytes * given'
      BY <2>1, <3>1, BoardStays
    <3> QED
      BY <3>2, <3>3 DEF Path
  <2> QED
    BY <1>1, <1>2, <2>1, <2>2 DEF Ordered
<1> QED
  BY <1>3, <1>4, <1>5, <1>6, <1>7, <1>8 DEF SessionNext, HostNext

\* To a caller that opens a new session after one that raised, every frame
\* `stream` yields is the answer to its own input frame, whole and in order, for
\* every size of frames, beats and buffers, any number of frames and however slow
\* the two sides (serial_link.py stream, uart_bridge.ml, uart_top.ml).
THEOREM SessionAnswersItsInputs ==
  ASSUME ~Reuses
  PROVE  SessionSpec => []AnswersItsInputs
<1>1. SessionInit => OrderInv
  <2>1. SessionInit => answers = << >> /\ session = "closed"
    BY DEF SessionInit
  <2>2. SessionInit => Ordered /\ AnswersItsInputs
    BY <2>1, NoneIsZero DEF Ordered, AnswersItsInputs, Yielded
  <2> QED
    BY <2>2, InitKeeps DEF OrderInv
<1>2. OrderInv /\ [SessionNext]_sessionVars => OrderInv'
  BY OrderKeeps
<1>3. OrderInv => AnswersItsInputs
  BY DEF OrderInv
<1> QED
  BY <1>1, <1>2, <1>3, PTL DEF SessionSpec

=============================================================================
