--------------------------- MODULE Streams_proofs ---------------------------
(***************************************************************************)
(* The streaming designs: the FIFO implements a bounded queue at every     *)
(* depth, the residual block with five of them delivers in order, and a    *)
(* windowed layer hands on the windows of every image in order.            *)
(***************************************************************************)
EXTENDS OtfFifo, StreamForkJoin, WindowStream, SequenceTheorems, TLAPS

-----------------------------------------------------------------------------
(* The circular buffer of otf_fifo.ml: its pointers, its count and the     *)
(* words in use keep agreeing, so that every step is one of the queue.     *)

IInv == TypeOK /\ PointersAgree

\* A pointer that advances stays inside the memory.
LEMMA AdvanceInSlots ==
  ASSUME NEW ptr \in Slots
  PROVE  Advance(ptr) \in Slots
BY DepthAssumption DEF Slots, Advance

\* The pointers, the count and the memory words in use keep agreeing on every
\* clock edge and on a clear (otf_fifo.ml create).
LEMMA InductiveStep ==
  ASSUME IInv, [Next]_vars
  PROVE  IInv'
<1> USE DepthAssumption
<1>1. ASSUME NEW valid \in BOOLEAN, NEW ready \in BOOLEAN, NEW data \in Beats,
             Clock(valid, data, ready)
      PROVE  IInv'
  <2> DEFINE push == valid /\ SReady
             pop  == MValid /\ ready
  <2>1. TypeOK'
    <3>1. wptr' \in Slots /\ rptr' \in Slots
      BY <1>1, AdvanceInSlots DEF IInv, TypeOK, Clock
    <3>2. count' \in 0 .. Depth
      BY <1>1 DEF IInv, TypeOK, Clock, SReady, MValid
    <3>3. mem' \in [Slots -> Beats \cup {PowerUp}]
      BY <1>1 DEF IInv, TypeOK, Clock
    <3>4. QED
      BY <3>1, <3>2, <3>3 DEF TypeOK
  <2>2. (wptr = IF rptr + count < Depth THEN rptr + count
                                        ELSE rptr + count - Depth)'
    BY <1>1 DEF IInv, TypeOK, PointersAgree, Clock, SReady, MValid, Slots, Advance
  <2>3. ASSUME NEW i \in (0 .. count - 1)'
        PROVE  (mem[Slot(i)] \in Beats)'
    <3>1. CASE i = count - (IF pop THEN 1 ELSE 0)
      <4>1. push /\ Slot(i)' = wptr
        BY <1>1, <2>1, <3>1
           DEF IInv, TypeOK, PointersAgree, Clock, SReady, MValid, Slots, Advance, Slot
      <4>2. QED
        BY <1>1, <4>1 DEF IInv, TypeOK, Clock, SReady, MValid
    <3>2. CASE i # count - (IF pop THEN 1 ELSE 0)
      <4> DEFINE j == i + (IF pop THEN 1 ELSE 0)
      <4>1. j \in 0 .. count - 1 /\ Slot(i)' = Slot(j)
        BY <1>1, <3>2
           DEF IInv, TypeOK, PointersAgree, Clock, SReady, MValid, Slots, Advance, Slot
      <4>2. mem[Slot(j)] \in Beats
        BY <4>1 DEF IInv, PointersAgree
      <4>3. Slot(j) \in Slots /\ (push => Slot(j) # wptr)
        BY <4>1 DEF IInv, TypeOK, PointersAgree, SReady, Slots, Slot
      <4>4. mem'[Slot(j)] = mem[Slot(j)]
        BY <1>1, <4>3 DEF IInv, TypeOK, Clock, SReady, MValid
      <4>5. QED
        BY <4>1, <4>2, <4>4
    <3>3. QED
      BY <3>1, <3>2
  <2>4. QED
    BY <2>1, <2>2, <2>3 DEF IInv, PointersAgree
<1>2. CASE Clear
  BY <1>2 DEF IInv, TypeOK, PointersAgree, Clear, Slots, Slot
<1>3. CASE UNCHANGED vars
  BY <1>3 DEF IInv, TypeOK, PointersAgree, vars, Slot
<1>4. QED
  BY <1>1, <1>2, <1>3 DEF Next

\* Type correctness of the registers of otf_fifo.ml at every depth.
THEOREM FifoTypeOK == Spec => []TypeOK
<1>1. Init => IInv
  BY DepthAssumption DEF Init, IInv, TypeOK, PointersAgree, Slots, Slot
<1>2. IInv /\ [Next]_vars => IInv'
  BY InductiveStep
<1>3. IInv => TypeOK
  BY DEF IInv
<1>4. QED
  BY <1>1, <1>2, <1>3, PTL DEF Spec

\* The write pointer is always `count` slots ahead of the read pointer and
\* only written words are ever read (otf_fifo.ml wptr, rptr, count, stored).
THEOREM FifoPointersAgree == Spec => []PointersAgree
<1>1. Init => IInv
  BY DepthAssumption DEF Init, IInv, TypeOK, PointersAgree, Slots, Slot
<1>2. IInv /\ [Next]_vars => IInv'
  BY InductiveStep
<1>3. IInv => PointersAgree
  BY DEF IInv
<1>4. QED
  BY <1>1, <1>2, <1>3, PTL DEF Spec

-----------------------------------------------------------------------------
(* The refinement: every step of the registers is a step of the queue.     *)

\* A sequence that agrees with s and has one more element is s with that
\* element appended.
LEMMA AppendedAtEnd ==
  ASSUME NEW S, NEW s \in Seq(S), NEW t \in Seq(S), NEW e \in S,
         Len(t) = Len(s) + 1, t[Len(s) + 1] = e,
         \A i \in 1 .. Len(s) : s[i] = t[i]
  PROVE  t = s \o <<e>>
<1>1. <<e>> \in Seq(S) /\ Len(<<e>>) = 1 /\ <<e>>[1] = e
  OBVIOUS
<1>2. s \o <<e>> \in Seq(S) /\ Len(s \o <<e>>) = Len(t)
  BY <1>1, ConcatProperties
<1>3. ASSUME NEW i \in 1 .. Len(t)
      PROVE  t[i] = (s \o <<e>>)[i]
  <2>1. Len(s) \in Nat
    BY LenProperties
  <2>2. (s \o <<e>>)[i] = IF i <= Len(s) THEN s[i] ELSE <<e>>[i - Len(s)]
    BY <1>1, <2>1, ConcatProperties
  <2>3. CASE i <= Len(s)
    BY <2>1, <2>2, <2>3
  <2>4. CASE i = Len(s) + 1
    BY <1>1, <2>1, <2>2, <2>4
  <2>5. QED
    BY <2>1, <2>3, <2>4
<1>4. QED
  BY <1>2, <1>3, SeqEqual

\* Putting a beat behind the held ones appends it, taking the oldest one
\* drops the head: the view of a step without a clear.
LEMMA ClockIsQueueClock ==
  ASSUME IInv, NEW valid \in BOOLEAN, NEW ready \in BOOLEAN, NEW data \in Beats,
         Clock(valid, data, ready)
  PROVE  Abstract!Clock(valid, data, ready)
<1> USE DepthAssumption
<1> DEFINE push  == valid /\ SReady
           pop   == MValid /\ ready
           kept  == IF pop THEN Tail(Held) ELSE Held
           added == IF push THEN <<data>> ELSE << >>
<1>1. Held \in Seq(Beats) /\ Len(Held) = count
  BY DEF IInv, TypeOK, PointersAgree, Held, Slots
<1>2. /\ Abstract!SReady <=> SReady
      /\ Abstract!MValid <=> MValid
  BY <1>1 DEF Abstract!SReady, Abstract!MValid, SReady, MValid, IInv, TypeOK
<1>3. count' \in 0 .. Depth /\ count' = (IF pop THEN count - 1 ELSE count)
                                          + (IF push THEN 1 ELSE 0)
  BY DEF IInv, TypeOK, Clock, SReady, MValid
<1>4. Len(kept) = (IF pop THEN count - 1 ELSE count) /\ kept \in Seq(Beats)
  BY <1>1 DEF IInv, TypeOK, MValid
<1>5. ASSUME NEW i \in 1 .. Len(kept)
      PROVE  kept[i] = Held'[i]
  <2>1. kept[i] = Held[IF pop THEN i + 1 ELSE i]
    BY <1>1, <1>4 DEF MValid, IInv, TypeOK
  <2> DEFINE j == IF pop THEN i + 1 ELSE i
  <2>2. j \in 1 .. count /\ Held[j] = mem[Slot(j - 1)]
    BY <1>1, <1>4 DEF Held, MValid, IInv, TypeOK
  <2>3. i \in 1 .. count' /\ Held'[i] = mem'[Slot(i - 1)']
    BY <1>3, <1>4 DEF Held, MValid, IInv, TypeOK
  <2>4. Slot(i - 1)' = Slot(j - 1)
    BY <2>2 DEF IInv, TypeOK, Clock, MValid, Slots, Advance, Slot
  <2>5. Slot(j - 1) \in Slots /\ (push => Slot(j - 1) # wptr)
    BY <2>2 DEF IInv, TypeOK, PointersAgree, SReady, Slots, Slot
  <2>6. mem'[Slot(j - 1)] = mem[Slot(j - 1)]
    BY <2>5 DEF IInv, TypeOK, Clock
  <2>7. QED
    BY <2>1, <2>2, <2>3, <2>4, <2>6
<1>6. push => Held'[count'] = data
  <2> SUFFICES ASSUME push PROVE Held'[count'] = data
    OBVIOUS
  <2>1. mem'[wptr] = data
    BY DEF IInv, TypeOK, Clock
  <2>2. PICK n \in 1 .. Depth : n = count'
    BY <1>3 DEF IInv, TypeOK, SReady, MValid
  <2>3. Slot(n - 1)' = wptr
    BY <1>3, <2>2
       DEF IInv, TypeOK, PointersAgree, Clock, SReady, MValid, Slots, Advance, Slot
  <2>4. Held'[n] = mem'[Slot(n - 1)']
    BY <2>2 DEF Held
  <2>5. QED
    BY <2>1, <2>2, <2>3, <2>4
<1>7. Held' \in Seq(Beats) /\ Len(Held') = count'
  BY InductiveStep, <1>3 DEF IInv, TypeOK, PointersAgree, Held, Slots, Next
<1>8. Held' = kept \o added
  <2> HIDE DEF kept
  <2>1. CASE push
    <3>1. Len(Held') = Len(kept) + 1
      BY <2>1, <1>3, <1>4, <1>7 DEF IInv, TypeOK
    <3>2. Held'[Len(kept) + 1] = data
      BY <2>1, <1>6, <1>7, <3>1
    <3>3. Held' = kept \o <<data>>
      BY <1>4, <1>5, <1>7, <3>1, <3>2, AppendedAtEnd
    <3>4. QED
      BY <2>1, <3>3
  <2>2. CASE ~push
    <3>1. Held' = kept
      BY <2>2, <1>3, <1>4, <1>5, <1>7, SeqEqual DEF IInv, TypeOK
    <3>2. QED
      BY <2>2, <3>1, <1>4, ConcatEmptySeq
  <2>3. QED
    BY <2>1, <2>2
<1>9. QED
  BY <1>2, <1>8 DEF Abstract!Clock

\* otf_fifo.ml implements the bounded queue of StreamQueue at every depth: no
\* beat is lost, repeated, invented or reordered.
THEOREM FifoImplementsQueue == Spec => ImplementsQueue
<1>1. Init => IInv /\ Abstract!Init
  BY DepthAssumption
     DEF Init, IInv, TypeOK, PointersAgree, Slots, Slot, Abstract!Init, Held
<1>2. IInv /\ [Next]_vars => IInv'
  BY InductiveStep
<1>3. IInv /\ [Next]_vars => [Abstract!Next]_Held
  <2> SUFFICES ASSUME IInv, [Next]_vars
               PROVE  [Abstract!Next]_Held
    OBVIOUS
  <2>1. ASSUME NEW valid \in BOOLEAN, NEW ready \in BOOLEAN, NEW data \in Beats,
               Clock(valid, data, ready)
        PROVE  Abstract!Next
    BY <2>1, ClockIsQueueClock DEF Abstract!Next
  <2>2. CASE Clear
    BY <2>2 DEF Clear, Held, Abstract!Next, Abstract!Clear
  <2>3. CASE UNCHANGED vars
    BY <2>3 DEF vars, Held, Slot
  <2>4. QED
    BY <2>1, <2>2, <2>3 DEF Next
<1>4. QED
  BY <1>1, <1>2, <1>3, PTL DEF Spec, ImplementsQueue, Abstract!Spec

-----------------------------------------------------------------------------
(* The residual block, for every fold of the matrix vector unit that the   *)
(* converters can work at, its weights in either memory, FIFOs of any      *)
(* depth, any number of frames and clears, and any pace of the host and    *)
(* the consumer.                                                           *)
(*                                                                         *)
(* Every FIFO and register holds a stretch of a stream that is known from  *)
(* the start of the run: the words, the wide words, the results, the sums. *)
(* The argument is where each stretch begins.  It begins where the next    *)
(* one ends, so that one number, the sums the last converter has loaded,   *)
(* places them all, up to the fork on the short branch and up to the       *)
(* position of the matrix vector unit on the long one.                     *)

\* A stretch of n from after the b-th.
Stretch(stream, b, n) == [i \in 1 .. n |-> stream[b + i]]

\* A queue holds n words of a stream, from after the b-th.
Holds(queue, stream, b, n) ==
  n \in Nat /\ Len(queue) = n /\ queue = Stretch(stream, b, n)

\* The queue of an edge holds words of a stream, from after the b-th.
Carries(edge, stream, b) == Holds(queues[edge], stream, b, Len(queues[edge]))

Values(stream) == {stream[k] : k \in Nat}

HostWords   == [k \in Nat |-> Word(k)]
Wides   == [k \in Nat |-> WideWord(k)]
Results == [k \in Nat |-> ResultOf(k)]
Sums    == [k \in Nat |-> [left |-> ResultOf(k), right |-> WideWord(k)]]

Unit(b) == IF b THEN 1 ELSE 0

\* What the two branches have taken from their FIFOs, and the add has summed.
Eaten(branch) == accepted + Unit(sent[branch]) - Len(queues[branch])
Summed(u)     == u + Len(queues["sum"])

Types ==
  /\ accepted \in Nat /\ delivered \in Nat /\ sent \in [Branches -> BOOLEAN]
  /\ full \in BOOLEAN /\ loaded \in BOOLEAN /\ out_valid \in BOOLEAN /\ issued \in BOOLEAN
  /\ fill \in 0 .. Ratio - 1 /\ slot \in 0 .. Ratio - 1
  /\ segments = [k \in 0 .. Ratio - 1 |-> segments[k]]
  /\ act_buf = [k \in 0 .. SF - 1 |-> act_buf[k]]

Forked ==
  \A branch \in Branches :
    Eaten(branch) \in Nat /\ Carries(branch, HostWords, Eaten(branch))

\* `n` wide words have gone into their FIFO.
Packed(n) ==
  /\ Eaten("skip") = Ratio * (n + Unit(full)) + fill
  /\ full => fill = 0 /\ segments = Wides[n + 1]
  /\ ~full => \A k \in 0 .. fill - 1 : segments[k] = Word(Ratio * n + k + 1)

\* The positions of the matrix vector unit: vector, fold, word of the vector.
Positions == Nat \X (0 .. NF - 1) \X (0 .. SF - 1)
After(p) == IF p[3] < SF - 1 THEN <<p[1], p[2], p[3] + 1>>
            ELSE IF p[2] < NF - 1 THEN <<p[1], p[2] + 1, 0>>
            ELSE <<p[1] + 1, 0, 0>>

IssueAt(p) == [first |-> p[3] = 0, last |-> p[3] = SF - 1, nf |-> p[2],
               act |-> Word(SF * p[1] + p[3] + 1), waddr |-> p[2] * SF + p[3]]

\* The words of the vector and the weights of the fold, from the first.
Terms(p) == [k \in Nat |-> <<Word(SF * p[1] + k), p[2] * SF + k - 1>>]

\* It reads at p.
Fetches(p) ==
  /\ p[2] = nf /\ p[3] = sf
  /\ Eaten("long") = SF * p[1] + (IF nf = 0 THEN sf ELSE SF)
  /\ \A k \in 0 .. SF - 1 : nf > 0 \/ k < sf => act_buf[k] = Word(SF * p[1] + k + 1)

\* It adds up at e, a step behind in block RAM; n results have gone into the FIFO.
Executes(e, n) ==
  /\ e[3] > 0 => acc = [bias |-> e[2], terms |-> Stretch(Terms(e), 0, e[3])]
  /\ NF * e[1] + e[2] = n + Unit(out_valid)
  /\ out_valid => out_data = Results[n + 1]

Multiplied(n) ==
  \E p, e \in Positions :
    /\ Fetches(p) /\ Executes(e, n)
    /\ IF BlockRam /\ issued THEN stage = IssueAt(e) /\ p = After(e) ELSE p = e

Joined(u) ==
  /\ Carries("sum", Sums, u)
  /\ Carries("wide", Wides, Summed(u))
  /\ Carries("out", Results, Summed(u))

Unpacked(u) ==
  /\ delivered + Ratio * Unit(loaded) = Ratio * u + slot
  /\ IF loaded THEN u > 0 /\ holding = Sums[u] ELSE slot = 0

Placed(u) == /\ Unpacked(u) /\ Joined(u)
             /\ Packed(Summed(u) + Len(queues["wide"]))
             /\ Multiplied(Summed(u) + Len(queues["out"]))

Inv == Types /\ Forked /\ \E u \in Nat : Placed(u)

-----------------------------------------------------------------------------
(* Stretches, and a FIFO that holds one.                                   *)

LEMMA FoldSizes ==
  ASSUME FoldAssumption
  PROVE  SF \in Nat \ {0} /\ NF \in Nat \ {0} /\ Ratio \in Nat \ {0}
<1>1. SF \in Nat \ {0} /\ NF \in Nat \ {0} /\ SF > NF
  BY DEF FoldAssumption
<1>2. SF \div NF \in Nat \ {0}
  BY <1>1
<1> QED
  BY <1>1, <1>2 DEF Ratio

LEMMA Wraps ==
  ASSUME NEW size \in Nat \ {0}, NEW n \in 0 .. size - 1
  PROVE  /\ n = size - 1 => (n + 1) % size = 0
         /\ n # size - 1 => (n + 1) % size = n + 1 /\ n + 1 \in 0 .. size - 1
<1>1. CASE n = size - 1
  <2>1. (n + 1) % size = size % size
    BY <1>1
  <2> QED
    BY <1>1, <2>1
<1>2. CASE n # size - 1
  <2>1. n + 1 \in 0 .. size - 1
    BY <1>2
  <2> QED
    BY <1>2, <2>1
<1> QED
  BY <1>1, <1>2

LEMMA Euclid ==
  ASSUME NEW size \in Nat \ {0}, NEW q \in Nat, NEW n \in 0 .. size - 1
  PROVE  (size * q + n) \div size = q /\ (size * q + n) % size = n
OBVIOUS

LEMMA StretchIs ==
  ASSUME NEW f, NEW b \in Nat, NEW n \in Nat
  PROVE  /\ Stretch(f, b, n) \in Seq(Values(f)) /\ Len(Stretch(f, b, n)) = n
         /\ DOMAIN Stretch(f, b, n) = 1 .. n
         /\ \A i \in 1 .. n : Stretch(f, b, n)[i] = f[b + i]
<1>1. Stretch(f, b, n) \in [1 .. n -> Values(f)]
  BY DEF Stretch, Values
<1>2. Stretch(f, b, n) \in Seq(Values(f))
  BY <1>1, SeqDef
<1>3. DOMAIN Stretch(f, b, n) = 1 .. n
  BY DEF Stretch
<1>4. Len(Stretch(f, b, n)) = n
  BY <1>2, <1>3, LenProperties
<1> QED
  BY <1>2, <1>3, <1>4 DEF Stretch

LEMMA StretchGoes ==
  ASSUME NEW f, NEW b \in Nat, NEW n \in Nat, n > 0
  PROVE  /\ Stretch(f, b, n) # << >> /\ Head(Stretch(f, b, n)) = f[b + 1]
         /\ Tail(Stretch(f, b, n)) = Stretch(f, b + 1, n - 1)
<1> DEFINE q == Stretch(f, b, n)
           r == Stretch(f, b + 1, n - 1)
           S == Values(f)
<1>1. n - 1 \in Nat /\ b + 1 \in Nat
  OBVIOUS
<1>2. q \in Seq(S) /\ Len(q) = n /\ \A i \in 1 .. n : q[i] = f[b + i]
  BY StretchIs
<1>3. r \in Seq(S) /\ Len(r) = n - 1 /\ \A i \in 1 .. n - 1 : r[i] = f[b + 1 + i]
  BY <1>1, StretchIs
<1> HIDE DEF q, r, S
<1>4. q # << >>
  BY <1>2, EmptySeq
<1>5. /\ Head(q) = q[1] /\ Tail(q) \in Seq(S) /\ Len(Tail(q)) = n - 1
      /\ \A i \in 1 .. Len(Tail(q)) : Tail(q)[i] = q[i + 1]
  BY <1>2, <1>4, HeadTailProperties
<1>6. \A i \in 1 .. n - 1 : Tail(q)[i] = r[i]
  <2> SUFFICES ASSUME NEW i \in 1 .. n - 1 PROVE Tail(q)[i] = r[i]
    OBVIOUS
  <2>1. i + 1 \in 1 .. n /\ b + (i + 1) = b + 1 + i
    OBVIOUS
  <2> QED
    BY <1>2, <1>3, <1>5, <2>1
<1>7. Tail(q) = r
  BY <1>3, <1>5, <1>6, SeqEqual
<1>8. Head(q) = f[b + 1]
  BY <1>2, <1>5
<1> QED
  BY <1>4, <1>7, <1>8 DEF q, r

LEMMA StretchGrows ==
  ASSUME NEW f, NEW b \in Nat, NEW n \in Nat
  PROVE  /\ Stretch(f, b, n) \o <<f[b + n + 1]>> = Stretch(f, b, n + 1)
         /\ Append(Stretch(f, b, n), f[b + n + 1]) = Stretch(f, b, n + 1)
         /\ Stretch(f, b, n) \o << >> = Stretch(f, b, n)
<1> DEFINE q == Stretch(f, b, n)
           r == Stretch(f, b, n + 1)
           S == Values(f)
           x == f[b + n + 1]
<1>1. q \in Seq(S) /\ Len(q) = n /\ \A i \in 1 .. n : q[i] = f[b + i]
  BY StretchIs
<1>2. n + 1 \in Nat
  OBVIOUS
<1>3. r \in Seq(S) /\ Len(r) = n + 1 /\ \A i \in 1 .. n + 1 : r[i] = f[b + i]
  BY <1>2, StretchIs
<1>4. x \in S /\ x = f[b + (n + 1)]
  BY DEF Values
<1> HIDE DEF q, r, S, x
<1>5. /\ Append(q, x) \in Seq(S) /\ Len(Append(q, x)) = n + 1
      /\ Append(q, x)[n + 1] = x /\ \A i \in 1 .. n : Append(q, x)[i] = q[i]
  BY <1>1, <1>4, AppendProperties
<1>6. \A i \in 1 .. n + 1 : Append(q, x)[i] = r[i]
  <2> SUFFICES ASSUME NEW i \in 1 .. n + 1 PROVE Append(q, x)[i] = r[i]
    OBVIOUS
  <2>1. CASE i = n + 1
    BY <1>3, <1>4, <1>5, <2>1
  <2>2. CASE i # n + 1
    <3>1. i \in 1 .. n
      BY <2>2
    <3> QED
      BY <1>1, <1>3, <1>5, <3>1
  <2> QED
    BY <2>1, <2>2
<1>7. Append(q, x) = r
  BY <1>3, <1>5, <1>6, SeqEqual
<1>8. q \o <<x>> = Append(q, x) /\ q \o << >> = q
  BY <1>1, <1>4, AppendIsConcat, ConcatEmptySeq
<1> QED
  BY <1>7, <1>8 DEF q, r, x

LEMMA HeadIs ==
  ASSUME NEW f, NEW b \in Nat, NEW n \in Nat, NEW edge, Holds(queues[edge], f, b, n)
  PROVE  /\ CanPop(edge) <=> n > 0
         /\ CanPop(edge) => HeadOf(edge) = f[b + 1]
<1>1. CASE n > 0
  <2>1. Stretch(f, b, n) # << >> /\ Head(Stretch(f, b, n)) = f[b + 1]
    BY <1>1, StretchGoes
  <2>2. queues[edge] # << >> /\ Head(queues[edge]) = f[b + 1]
    BY <2>1 DEF Holds
  <2> QED
    BY <1>1, <2>2 DEF CanPop, HeadOf
<1>2. CASE ~(n > 0)
  <2>1. n = 0
    BY <1>2
  <2>2. Stretch(f, b, n) \in Seq(Values(f)) /\ Len(Stretch(f, b, n)) = 0
    BY <2>1, StretchIs
  <2>3. queues[edge] = << >>
    <3>1. Stretch(f, b, n) = << >>
      BY <2>2, EmptySeq
    <3> QED
      BY <3>1 DEF Holds
  <2> QED
    BY <1>2, <2>3 DEF CanPop
<1> QED
  BY <1>1, <1>2

LEMMA QueueKeeps ==
  ASSUME NEW f, NEW b \in Nat, NEW n \in Nat, NEW edge, Holds(queues[edge], f, b, n),
         NEW valid \in BOOLEAN, NEW ready \in BOOLEAN, NEW data,
         valid => data = f[b + n + 1],
         NEW next, next = Clocked(edge, valid, data, ready),
         NEW pop \in 0 .. 1, pop = Unit(CanPop(edge) /\ ready),
         NEW push \in 0 .. 1, push = Unit(valid /\ CanPush(edge))
  PROVE  Holds(next, f, b + pop, n - pop + push)
<1>1. PICK rest : rest = IF CanPop(edge) /\ ready THEN Tail(queues[edge]) ELSE queues[edge]
  OBVIOUS
<1>2. PICK kept, start \in Nat : /\ kept = n - pop /\ start = b + pop
                                /\ rest = Stretch(f, start, kept)
  <2>1. CASE CanPop(edge) /\ ready
    <3>1. n > 0 /\ pop = 1
      BY <2>1, HeadIs DEF Unit
    <3>2. Tail(queues[edge]) = Stretch(f, b + 1, n - 1) /\ n - 1 \in Nat
      <4>1. Tail(Stretch(f, b, n)) = Stretch(f, b + 1, n - 1)
        BY <3>1, StretchGoes
      <4>2. n - 1 \in Nat
        BY <3>1
      <4> QED
        BY <4>1, <4>2 DEF Holds
    <3>3. PICK less, on \in Nat : less = n - 1 /\ on = b + 1
      BY <3>1
    <3>4. rest = Stretch(f, on, less)
      BY <1>1, <2>1, <3>2, <3>3
    <3>5. less = n - pop /\ on = b + pop
      BY <3>1, <3>3
    <3> QED
      BY <3>4, <3>5
  <2>2. CASE ~(CanPop(edge) /\ ready)
    <3>1. pop = 0 /\ n - pop = n /\ b + pop = b
      BY <2>2 DEF Unit
    <3> QED
      BY <1>1, <2>2, <3>1 DEF Holds
  <2> QED
    BY <2>1, <2>2
<1>3. next = rest \o (IF valid /\ CanPush(edge) THEN <<data>> ELSE << >>)
  BY <1>1 DEF Clocked
<1>4. CASE valid /\ CanPush(edge)
  <2>1. push = 1 /\ kept + 1 \in Nat /\ n - pop + push = kept + 1
        /\ start + kept + 1 = b + n + 1
    BY <1>2, <1>4 DEF Unit
  <2>2. data = f[start + kept + 1]
    BY <1>4, <2>1
  <2>3. next = Stretch(f, start, kept + 1)
    <3>1. /\ Stretch(f, start, kept) \o <<f[start + kept + 1]>>
              = Stretch(f, start, kept + 1)
      BY StretchGrows
    <3> QED
      BY <1>2, <1>3, <1>4, <2>2, <3>1
  <2>4. Len(next) = kept + 1
    <3>1. PICK size \in Nat : size = kept + 1
      BY <2>1
    <3>2. Len(Stretch(f, start, size)) = size
      BY StretchIs
    <3> QED
      BY <2>3, <3>1, <3>2
  <2> QED
    BY <2>1, <2>3, <2>4 DEF Holds
<1>5. CASE ~(valid /\ CanPush(edge))
  <2>1. push = 0 /\ n - pop + push = kept
    BY <1>2, <1>5 DEF Unit
  <2>2. next = Stretch(f, start, kept)
    <3>1. Stretch(f, start, kept) \o << >> = Stretch(f, start, kept)
      BY StretchGrows
    <3> QED
      BY <1>2, <1>3, <1>5, <3>1
  <2>3. Len(next) = kept
    <3>1. Len(Stretch(f, start, kept)) = kept
      BY <1>2, StretchIs
    <3> QED
      BY <2>2, <3>1
  <2> QED
    BY <1>2, <2>1, <2>2, <2>3 DEF Holds
<1> QED
  BY <1>2, <1>4, <1>5 DEF Holds

LEMMA SameStreams ==
  ASSUME run' = run
  PROVE  /\ HostWords' = HostWords /\ Wides' = Wides /\ Results' = Results /\ Sums' = Sums
         /\ \A k : Word(k)' = Word(k)
<1>1. \A k : Word(k)' = Word(k)
  BY DEF Word
<1>2. \A k : WideWord(k)' = WideWord(k)
  BY DEF Word, WideWord
<1>3. \A k : ResultOf(k)' = ResultOf(k)
  BY DEF Word, ResultOf, VectorOf, Mvau!Result
<1> QED
  BY <1>1, <1>2, <1>3 DEF HostWords, Wides, Results, Sums

\* `pop` words leave a queue and `push` come.
Advances(edge, stream, b, pop, push) ==
  /\ Len(queues'[edge]) \in Nat
  /\ Len(queues'[edge]) = Len(queues[edge]) - pop + push
  /\ Holds(queues'[edge], stream, b + pop, Len(queues'[edge]))

LEMMA EdgeSteps ==
  ASSUME NEW stream, NEW b \in Nat, NEW edge, Carries(edge, stream, b),
         NEW valid \in BOOLEAN, NEW ready \in BOOLEAN, NEW data,
         valid => data = stream[b + Len(queues[edge]) + 1],
         queues'[edge] = Clocked(edge, valid, data, ready),
         NEW pop \in 0 .. 1, pop = Unit(CanPop(edge) /\ ready),
         NEW push \in 0 .. 1, push = Unit(valid /\ CanPush(edge))
  PROVE  Advances(edge, stream, b, pop, push)
<1>1. PICK n \in Nat : n = Len(queues[edge]) /\ Holds(queues[edge], stream, b, n)
  BY DEF Carries, Holds
<1>2. PICK next : next = queues'[edge]
  OBVIOUS
<1>3. /\ valid => data = stream[b + n + 1]
      /\ next = Clocked(edge, valid, data, ready)
  BY <1>1, <1>2
<1>4. Holds(next, stream, b + pop, n - pop + push)
  BY <1>1, <1>3, QueueKeeps
<1>5. PICK size : size = n - pop + push
  OBVIOUS
<1>6. Holds(next, stream, b + pop, size)
  BY <1>4, <1>5
<1>7. size \in Nat /\ Len(next) = size
  BY <1>6 DEF Holds
<1> QED
  BY <1>1, <1>2, <1>5, <1>6, <1>7 DEF Advances

-----------------------------------------------------------------------------
(* One clock edge, unit by unit.                                           *)

\* The unit behind the fork takes its word.
Takes(branch) == IF branch = "long" THEN Mvau!SReady(CanPush("out")) ELSE Dwc!PackReady

LEMMA ForkSteps ==
  ASSUME Types, Forked, NEW fresh \in BOOLEAN, NEW ready \in BOOLEAN, Tick(fresh, ready),
         NEW branch \in Branches,
         NEW pop \in 0 .. 1, pop = Unit(CanPop(branch) /\ Takes(branch))
  PROVE  /\ Eaten(branch)' = Eaten(branch) + pop
         /\ Carries(branch, HostWords, Eaten(branch))'
<1> DEFINE valid == Valid(fresh)
           data  == IF valid THEN Word(accepted + 1) ELSE Unwritten
           mvalid == valid /\ ~sent[branch]
<1>1. PICK push \in 0 .. 1 : push = Unit(mvalid /\ CanPush(branch))
  BY DEF Unit
<1>2. PICK b, n \in Nat : /\ b = Eaten(branch) /\ n = Len(queues[branch])
                          /\ Holds(queues[branch], HostWords, b, n)
  BY DEF Forked, Carries, Holds
<1>3. accepted \in Nat /\ sent[branch] \in BOOLEAN
  BY DEF Types
<1>4. b + n = accepted + Unit(sent[branch])
  <2>1. PICK early \in 0 .. 1 : early = Unit(sent[branch])
    BY DEF Unit
  <2>2. b = accepted + early - n
    BY <1>2, <2>1 DEF Eaten
  <2> QED
    BY <1>3, <2>1, <2>2
<1>5. queues'[branch] = Clocked(branch, mvalid, data, Takes(branch))
  <2>1. CASE branch = "long"
    BY <2>1 DEF Tick, Edges, DupMValid, Takes
  <2>2. CASE branch = "skip"
    BY <2>2 DEF Tick, Edges, DupMValid, Takes
  <2> QED
    BY <2>1, <2>2 DEF Branches
<1>6. mvalid => data = HostWords[b + n + 1]
  <2> SUFFICES ASSUME mvalid PROVE data = HostWords[b + n + 1]
    OBVIOUS
  <2>1. b + n + 1 = accepted + 1 /\ accepted + 1 \in Nat
    BY <1>3, <1>4 DEF Unit
  <2> QED
    BY <2>1 DEF HostWords
<1>7. mvalid \in BOOLEAN /\ Takes(branch) \in BOOLEAN
  BY DEF Takes, Mvau!SReady, Dwc!PackReady, Mvau!NeedInput
<1>8. Advances(branch, HostWords, b, pop, push)
  <2>1. PICK stream, valid2, data2, go :
          stream = HostWords /\ valid2 = mvalid /\ data2 = data /\ go = Takes(branch)
    OBVIOUS
  <2>2. /\ Carries(branch, stream, b) /\ valid2 \in BOOLEAN /\ go \in BOOLEAN
        /\ valid2 => data2 = stream[b + Len(queues[branch]) + 1]
        /\ queues'[branch] = Clocked(branch, valid2, data2, go)
        /\ pop = Unit(CanPop(branch) /\ go) /\ push = Unit(valid2 /\ CanPush(branch))
    BY <1>1, <1>2, <1>5, <1>6, <1>7, <2>1 DEF Carries
  <2>3. Advances(branch, stream, b, pop, push)
    <3> HIDE DEF valid, mvalid, data
    <3> QED
      BY <2>2, EdgeSteps
  <2> QED
    BY <2>1, <2>3
<1>9. accepted' + Unit(sent'[branch]) = accepted + Unit(sent[branch]) + push
  <2>1. /\ sent' = IF ~valid THEN sent
                   ELSE [br \in Branches |->
                           ~DupSReady(DupReady) /\ (sent[br] \/ DupReady[br])]
        /\ accepted' = IF valid /\ DupSReady(DupReady) THEN accepted + 1 ELSE accepted
    BY DEF Tick, DupClock
  <2>2. DupReady[branch] = CanPush(branch)
    BY DEF DupReady
  <2>3. CASE ~valid
    BY <1>1, <1>3, <2>1, <2>3 DEF Unit
  <2>4. CASE valid /\ DupSReady(DupReady)
    <3>1. sent[branch] \/ CanPush(branch)
      BY <2>2, <2>4 DEF DupSReady
    <3>2. sent'[branch] = FALSE
      BY <2>1, <2>4
    <3> QED
      BY <1>1, <1>3, <2>1, <2>4, <3>1, <3>2 DEF Unit
  <2>5. CASE valid /\ ~DupSReady(DupReady)
    <3>1. sent'[branch] = (sent[branch] \/ CanPush(branch))
      BY <2>1, <2>2, <2>5
    <3>2. accepted' = accepted
      BY <2>1, <2>5
    <3>3. CASE sent[branch]
      <4>1. push = 0 /\ sent'[branch]
        BY <1>1, <3>1, <3>3 DEF Unit
      <4> QED
        BY <1>3, <3>2, <3>3, <4>1 DEF Unit
    <3>4. CASE ~sent[branch] /\ CanPush(branch)
      <4>1. push = 1 /\ sent'[branch]
        BY <1>1, <2>5, <3>1, <3>4 DEF Unit
      <4> QED
        BY <1>3, <3>2, <3>4, <4>1 DEF Unit
    <3>5. CASE ~sent[branch] /\ ~CanPush(branch)
      <4>1. push = 0 /\ ~sent'[branch]
        BY <1>1, <3>1, <3>5 DEF Unit
      <4> QED
        BY <1>3, <3>2, <3>5, <4>1 DEF Unit
    <3> QED
      BY <3>3, <3>4, <3>5
  <2> QED
    BY <2>3, <2>4, <2>5
<1>10. Eaten(branch)' = b + pop
  <2>1. PICK early, late, size \in Nat :
          early = Unit(sent[branch]) /\ late = Unit(sent'[branch]) /\ size = Len(queues'[branch])
    BY <1>8 DEF Unit, Advances
  <2>2. b + n = accepted + early /\ accepted' + late = accepted + early + push
        /\ size = n - pop + push
    BY <1>2, <1>4, <1>8, <1>9, <2>1 DEF Advances
  <2>3. Eaten(branch)' = accepted' + late - size
    BY <2>1 DEF Eaten
  <2>4. accepted' \in Nat
    BY <1>3 DEF Tick
  <2>5. accepted' + late - size = b + pop
    <3>1. accepted' + late = b + n + push
      BY <2>2
    <3>2. size = n - pop + push
      BY <2>2
    <3>3. PICK total \in Nat : total = accepted'
      BY <2>4
    <3>4. total + late = b + n + push
      BY <3>1, <3>3
    <3>5. total + late - size = b + pop
      BY <3>2, <3>4
    <3> QED
      BY <3>3, <3>5
  <2> QED
    BY <2>3, <2>5
<1>11. HostWords' = HostWords
  BY SameStreams DEF Tick
<1> QED
  BY <1>2, <1>8, <1>10, <1>11 DEF Carries, Advances

LEMMA PackSteps ==
  ASSUME FoldAssumption, Types, NEW n \in Nat, Packed(n), NEW fresh \in BOOLEAN, NEW ready \in BOOLEAN,
         Tick(fresh, ready), Eaten("skip") \in Nat,
         CanPop("skip") => HeadOf("skip") = HostWords[Eaten("skip") + 1],
         NEW pop \in 0 .. 1, pop = Unit(CanPop("skip") /\ Dwc!PackReady),
         Eaten("skip")' = Eaten("skip") + pop,
         NEW push \in 0 .. 1, push = Unit(full /\ CanPush("wide")),
         NEW packed, packed = n + push
  PROVE  /\ full' \in BOOLEAN /\ fill' \in 0 .. Ratio - 1
         /\ segments' = [k \in 0 .. Ratio - 1 |-> segments'[k]]
         /\ Packed(packed)'
<1>1. Ratio \in Nat \ {0}
  BY FoldSizes
<1>2. /\ full \in BOOLEAN /\ fill \in 0 .. Ratio - 1
      /\ segments = [k \in 0 .. Ratio - 1 |-> segments[k]]
  BY DEF Types
<1>3. PICK head : head = HeadOf("skip")
  OBVIOUS
<1>4. /\ fill' = IF CanPop("skip") /\ ~full THEN (fill + 1) % Ratio ELSE fill
      /\ full' = IF full THEN ~CanPush("wide") ELSE CanPop("skip") /\ ~full /\ fill = Ratio - 1
      /\ segments' = IF CanPop("skip") /\ ~full THEN [segments EXCEPT ![fill] = head] ELSE segments
      /\ run' = run
  BY <1>3 DEF Tick, Dwc!PackClock, Dwc!Following
<1>5. Wides' = Wides /\ \A k : Word(k)' = Word(k)
  BY <1>4, SameStreams
<1>6. segments' = [k \in 0 .. Ratio - 1 |-> segments'[k]]
  BY <1>2, <1>4
<1>7. full' \in BOOLEAN /\ fill' \in 0 .. Ratio - 1
  <2>1. full' \in BOOLEAN
    BY <1>2, <1>4
  <2>2. fill' \in 0 .. Ratio - 1
    <3>1. CASE CanPop("skip") /\ ~full /\ fill = Ratio - 1
      <4>1. fill' = 0
        BY <1>1, <1>2, <1>4, <3>1, Wraps
      <4> QED
        BY <1>1, <4>1
    <3>2. CASE CanPop("skip") /\ ~full /\ fill # Ratio - 1
      BY <1>1, <1>2, <1>4, <3>2, Wraps
    <3>3. CASE ~(CanPop("skip") /\ ~full)
      BY <1>2, <1>4, <3>3
    <3> QED
      BY <3>1, <3>2, <3>3
  <2> QED
    BY <2>1, <2>2
<1>8. Packed(packed)'
  <2>1. CASE full
    <3>1. fill' = fill /\ segments' = segments /\ pop = 0 /\ fill = 0
      BY <1>4, <2>1 DEF Unit, Dwc!PackReady, Packed
    <3>2. Eaten("skip")' = Ratio * (n + 1) + 0 /\ segments = Wides[n + 1]
      BY <2>1, <3>1 DEF Packed, Unit
    <3>3. CASE CanPush("wide")
      <4>1. full' = FALSE /\ push = 1
        BY <1>4, <2>1, <3>3 DEF Unit
      <4>2. packed = n + 1
        BY <4>1
      <4> QED
        BY <1>1, <3>1, <3>2, <4>1, <4>2 DEF Packed, Unit
    <3>4. CASE ~CanPush("wide")
      <4>1. full' = TRUE /\ push = 0
        BY <1>4, <2>1, <3>4 DEF Unit
      <4>2. packed = n
        BY <4>1
      <4> QED
        BY <1>1, <1>5, <3>1, <3>2, <4>1, <4>2 DEF Packed, Unit
    <3> QED
      BY <3>3, <3>4
  <2>2. CASE ~full
    <3>1. push = 0 /\ packed = n /\ Eaten("skip") = Ratio * n + fill
      BY <1>1, <1>2, <2>2 DEF Unit, Packed
    <3>2. \A k \in 0 .. fill - 1 : segments[k] = Word(Ratio * n + k + 1)
      BY <2>2 DEF Packed
    <3>3. CASE ~CanPop("skip")
      <4>1. fill' = fill /\ segments' = segments /\ pop = 0 /\ full' = FALSE
        BY <1>4, <2>2, <3>3 DEF Unit
      <4>2. Eaten("skip")' = Ratio * (n + 0) + fill'
        BY <1>1, <1>2, <3>1, <4>1
      <4>3. \A k \in 0 .. fill' - 1 : segments'[k] = Word(Ratio * n + k + 1)'
        BY <1>5, <3>2, <4>1
      <4>4. Packed(n)'
        BY <4>1, <4>2, <4>3 DEF Packed, Unit
      <4> QED
        BY <3>1, <4>4
    <3>4. CASE CanPop("skip")
      <4>1. /\ fill' = (fill + 1) % Ratio /\ segments' = [segments EXCEPT ![fill] = head]
            /\ pop = 1 /\ full' = (fill = Ratio - 1)
        BY <1>4, <2>2, <3>4 DEF Unit, Dwc!PackReady
      <4>2. PICK at \in Nat : at = Ratio * n /\ Eaten("skip") = at + fill
        BY <1>1, <3>1
      <4>3. head = Word(at + fill + 1)
        <5>1. at + fill + 1 \in Nat
          BY <1>2, <4>2
        <5> QED
          BY <1>3, <3>4, <4>2, <5>1 DEF HostWords
      <4>4. \A k \in 0 .. fill : segments'[k] = Word(at + k + 1)
        <5> SUFFICES ASSUME NEW k \in 0 .. fill PROVE segments'[k] = Word(at + k + 1)
          OBVIOUS
        <5>1. CASE k = fill
          BY <1>2, <4>1, <4>3, <5>1
        <5>2. CASE k # fill
          <6>1. k \in 0 .. fill - 1 /\ segments'[k] = segments[k]
            BY <1>2, <4>1, <5>2
          <6>2. segments[k] = Word(Ratio * n + k + 1)
            BY <3>2, <6>1
          <6> QED
            BY <4>2, <6>1, <6>2
        <5> QED
          BY <5>1, <5>2
      <4>5. CASE fill = Ratio - 1
        <5>1. fill' = 0 /\ full' = TRUE
          BY <1>1, <1>2, <4>1, <4>5, Wraps
        <5>2. Eaten("skip")' = Ratio * (n + 1) + 0
          BY <1>1, <4>1, <4>2, <4>5
        <5>3. segments' = Wides[n + 1]
          <6>1. WideWord(n + 1) = [i \in 0 .. Ratio - 1 |-> Word(at + i + 1)]
            <7>1. (n + 1 - 1) * Ratio = at
              BY <1>1, <4>2
            <7> QED
              BY <7>1 DEF WideWord
          <6>2. segments' = [i \in 0 .. Ratio - 1 |-> Word(at + i + 1)]
            BY <1>6, <4>4, <4>5
          <6> QED
            BY <6>1, <6>2 DEF Wides
        <5>4. Packed(n)'
          BY <1>5, <5>1, <5>2, <5>3 DEF Packed, Unit
        <5> QED
          BY <3>1, <5>4
      <4>6. CASE fill # Ratio - 1
        <5>1. fill' = fill + 1 /\ full' = FALSE
          BY <1>1, <1>2, <4>1, <4>6, Wraps
        <5>2. Eaten("skip")' = Ratio * (n + 0) + fill'
          BY <1>1, <1>2, <4>1, <4>2, <5>1
        <5>3. \A k \in 0 .. fill' - 1 : segments'[k] = Word(Ratio * n + k + 1)'
          BY <1>2, <1>5, <4>2, <4>4, <5>1
        <5>4. Packed(n)'
          BY <5>1, <5>2, <5>3 DEF Packed, Unit
        <5> QED
          BY <3>1, <5>4
      <4> QED
        BY <4>5, <4>6
    <3> QED
      BY <3>3, <3>4
  <2> QED
    BY <1>2, <2>1, <2>2
<1> QED
  BY <1>6, <1>7, <1>8

LEMMA UnpackSteps ==
  ASSUME FoldAssumption, Types, NEW u \in Nat, Unpacked(u),
         NEW fresh \in BOOLEAN, NEW ready \in BOOLEAN, Tick(fresh, ready),
         CanPop("sum") => HeadOf("sum") = Sums[u + 1],
         NEW pop \in 0 .. 1, pop = Unit(CanPop("sum") /\ ~loaded),
         NEW next \in Nat, next = u + pop
  PROVE  /\ loaded' \in BOOLEAN /\ slot' \in 0 .. Ratio - 1 /\ delivered' \in Nat
         /\ Unpacked(next)'
<1>1. Ratio \in Nat \ {0}
  BY FoldSizes
<1>2. loaded \in BOOLEAN /\ slot \in 0 .. Ratio - 1 /\ delivered \in Nat
  BY DEF Types
<1>3. /\ slot' = IF loaded /\ ready THEN (slot + 1) % Ratio ELSE slot
      /\ loaded' = IF loaded THEN ~(loaded /\ ready /\ slot = Ratio - 1)
                   ELSE ~loaded /\ CanPop("sum")
      /\ holding' = IF ~loaded /\ CanPop("sum") THEN HeadOf("sum") ELSE holding
      /\ delivered' = IF loaded /\ ready THEN delivered + 1 ELSE delivered
      /\ run' = run
  BY DEF Tick, Dwc!UnpackClock, Dwc!Following
<1>4. Sums' = Sums
  BY <1>3, SameStreams
<1>5. IF CanPop("sum") /\ ~loaded THEN next = u + 1 ELSE next = u
  <2>1. pop = IF CanPop("sum") /\ ~loaded THEN 1 ELSE 0
    BY DEF Unit
  <2> QED
    BY <2>1
<1>6. CASE loaded /\ ready /\ slot = Ratio - 1
  <2>1. slot' = 0 /\ loaded' = FALSE /\ delivered' = delivered + 1 /\ next = u
    <3>1. (slot + 1) % Ratio = 0
      BY <1>1, <1>2, <1>6, Wraps
    <3> QED
      BY <1>3, <1>6, <1>5, <3>1
  <2>2. delivered + Ratio = Ratio * u + slot
    BY <1>1, <1>6 DEF Unpacked, Unit
  <2>3. delivered' + Ratio * 0 = Ratio * u + slot'
    <3>1. PICK at \in Nat : at = Ratio * u
      BY <1>1
    <3> QED
      BY <1>1, <1>2, <1>6, <2>1, <2>2, <3>1
  <2>4. Unpacked(u)'
    BY <2>1, <2>3 DEF Unpacked, Unit
  <2>5. 0 \in 0 .. Ratio - 1 /\ delivered' \in Nat
    BY <1>1, <1>2, <2>1
  <2> QED
    BY <2>1, <2>4, <2>5
<1>7. CASE loaded /\ ready /\ slot # Ratio - 1
  <2>1. slot' = slot + 1 /\ slot + 1 \in 0 .. Ratio - 1
    BY <1>1, <1>2, <1>3, <1>7, Wraps
  <2>2. loaded' = TRUE /\ delivered' = delivered + 1 /\ next = u /\ holding' = holding
    BY <1>3, <1>7, <1>5
  <2>3. delivered + Ratio = Ratio * u + slot /\ u > 0 /\ holding = Sums[u]
    BY <1>1, <1>7 DEF Unpacked, Unit
  <2>4. delivered' + Ratio * 1 = Ratio * u + slot'
    <3>1. PICK at \in Nat : at = Ratio * u
      BY <1>1
    <3> QED
      BY <1>1, <1>2, <2>1, <2>2, <2>3, <3>1
  <2>5. Unpacked(u)'
    BY <1>4, <2>2, <2>3, <2>4 DEF Unpacked, Unit
  <2> QED
    BY <1>1, <1>2, <2>1, <2>2, <2>5
<1>8. CASE loaded /\ ~ready
  <2>1. /\ slot' = slot /\ loaded' = TRUE /\ delivered' = delivered
        /\ next = u /\ holding' = holding
    BY <1>3, <1>8, <1>5
  <2>2. Unpacked(u)'
    BY <1>4, <1>8, <2>1 DEF Unpacked, Unit
  <2> QED
    BY <1>2, <2>1, <2>2
<1>9. CASE ~loaded /\ CanPop("sum")
  <2>1. /\ slot' = slot /\ loaded' = TRUE /\ delivered' = delivered
        /\ next = u + 1 /\ holding' = Sums[u + 1]
    BY <1>3, <1>9, <1>5
  <2>2. delivered + Ratio * 0 = Ratio * u + slot /\ slot = 0
    BY <1>9 DEF Unpacked, Unit
  <2>3. delivered' + Ratio * 1 = Ratio * (u + 1) + slot'
    BY <1>1, <1>2, <2>1, <2>2
  <2>4. Unpacked(next)'
    BY <1>4, <2>1, <2>3 DEF Unpacked, Unit
  <2> QED
    BY <1>2, <2>1, <2>4
<1>10. CASE ~loaded /\ ~CanPop("sum")
  <2>1. /\ slot' = slot /\ loaded' = FALSE /\ delivered' = delivered /\ next = u
    BY <1>3, <1>10, <1>5
  <2>2. Unpacked(u)'
    BY <1>10, <2>1 DEF Unpacked, Unit
  <2> QED
    BY <1>2, <2>1, <2>2
<1> QED
  BY <1>2, <1>6, <1>7, <1>8, <1>9, <1>10

\* The join after a clock edge: `s` sums before it, `summing` of them new.
Joins(u, s, lenW, lenO, next, summing, result, wide) ==
  /\ Joined(next)' /\ Summed(next)' = s + summing
  /\ Len(queues["wide"])' = lenW - summing + wide
  /\ Len(queues["out"])' = lenO - summing + result

LEMMA JoinSteps ==
  ASSUME Types, NEW u \in Nat, Joined(u),
         NEW fresh \in BOOLEAN, NEW ready \in BOOLEAN, Tick(fresh, ready),
         NEW s \in Nat, s = Summed(u),
         NEW lenW \in Nat, lenW = Len(queues["wide"]),
         NEW lenO \in Nat, lenO = Len(queues["out"]),
         out_valid => out_data = Results[s + lenO + 1],
         full => segments = Wides[s + lenW + 1],
         NEW pop \in 0 .. 1, pop = Unit(CanPop("sum") /\ ~loaded),
         NEW summing \in 0 .. 1, summing = Unit(Taken),
         NEW result \in 0 .. 1, result = Unit(out_valid /\ CanPush("out")),
         NEW wide \in 0 .. 1, wide = Unit(full /\ CanPush("wide")),
         NEW next \in Nat, next = u + pop
  PROVE  Joins(u, s, lenW, lenO, next, summing, result, wide)
<1>1. /\ Len(queues["sum"]) \in Nat /\ Len(queues["wide"]) \in Nat
      /\ Len(queues["out"]) \in Nat
  BY DEF Joined, Carries, Holds
<1>2. s = u + Len(queues["sum"])
  BY <1>1 DEF Summed
<1>3. run' = run
  BY DEF Tick
<1>4. Sums' = Sums /\ Wides' = Wides /\ Results' = Results
  BY <1>3, SameStreams
<1>5. /\ queues'["out"] = Clocked("out", out_valid, out_data, Taken)
      /\ queues'["wide"] = Clocked("wide", full, segments, Taken)
      /\ queues'["sum"] = Clocked("sum", Both, Sum, ~loaded)
  BY DEF Tick, Edges, Dwc!UnpackReady
<1>6. Taken \in BOOLEAN /\ Both \in BOOLEAN /\ (~loaded) \in BOOLEAN
      /\ out_valid \in BOOLEAN /\ full \in BOOLEAN
  BY DEF Types, Taken, Both
<1>7. /\ (CanPop("out") /\ Taken) = Taken /\ (CanPop("wide") /\ Taken) = Taken
      /\ (Both /\ CanPush("sum")) = Taken
  BY DEF Taken, Both
<1>8. Advances("out", Results, s, summing, result)
  <2>1. Carries("out", Results, s)
    BY <1>2 DEF Joined
  <2>2. summing = Unit(CanPop("out") /\ Taken)
    BY <1>7
  <2>3. PICK stream, data, valid, go :
          stream = Results /\ data = out_data /\ valid = out_valid /\ go = Taken
    OBVIOUS
  <2>4. /\ valid => data = stream[s + Len(queues["out"]) + 1]
        /\ queues'["out"] = Clocked("out", valid, data, go)
        /\ Carries("out", stream, s) /\ valid \in BOOLEAN /\ go \in BOOLEAN
        /\ summing = Unit(CanPop("out") /\ go) /\ result = Unit(valid /\ CanPush("out"))
    BY <1>2, <1>5, <1>6, <2>1, <2>2, <2>3
  <2>5. Advances("out", stream, s, summing, result)
    BY <2>4, EdgeSteps
  <2> QED
    BY <2>3, <2>5
<1>9. Advances("wide", Wides, s, summing, wide)
  <2>1. Carries("wide", Wides, s)
    BY <1>2 DEF Joined
  <2>2. summing = Unit(CanPop("wide") /\ Taken)
    BY <1>7
  <2>3. PICK stream, data, valid, go :
          stream = Wides /\ data = segments /\ valid = full /\ go = Taken
    OBVIOUS
  <2>4. /\ valid => data = stream[s + Len(queues["wide"]) + 1]
        /\ queues'["wide"] = Clocked("wide", valid, data, go)
        /\ Carries("wide", stream, s) /\ valid \in BOOLEAN /\ go \in BOOLEAN
        /\ summing = Unit(CanPop("wide") /\ go) /\ wide = Unit(valid /\ CanPush("wide"))
    BY <1>2, <1>5, <1>6, <2>1, <2>2, <2>3
  <2>5. Advances("wide", stream, s, summing, wide)
    BY <2>4, EdgeSteps
  <2> QED
    BY <2>3, <2>5
<1>10. Advances("sum", Sums, u, pop, summing)
  <2>1. Carries("sum", Sums, u)
    BY DEF Joined
  <2>2. Both => Sum = Sums[s + 1]
    <3>1. CanPop("out") => HeadOf("out") = Results[s + 1]
      BY <1>1, <1>2, HeadIs DEF Joined, Carries
    <3>2. CanPop("wide") => HeadOf("wide") = Wides[s + 1]
      BY <1>1, <1>2, HeadIs DEF Joined, Carries
    <3>3. s + 1 \in Nat
      OBVIOUS
    <3> QED
      BY <3>1, <3>2, <3>3 DEF Sum, Sums, Results, Wides, Both
  <2>3. PICK stream, data, valid, go :
          stream = Sums /\ data = Sum /\ valid = Both /\ go = ~loaded
    OBVIOUS
  <2>4. /\ valid => data = stream[u + Len(queues["sum"]) + 1]
        /\ queues'["sum"] = Clocked("sum", valid, data, go)
        /\ Carries("sum", stream, u) /\ valid \in BOOLEAN /\ go \in BOOLEAN
        /\ pop = Unit(CanPop("sum") /\ go) /\ summing = Unit(valid /\ CanPush("sum"))
    BY <1>2, <1>5, <1>6, <1>7, <2>1, <2>2, <2>3
  <2>5. Advances("sum", stream, u, pop, summing)
    BY <2>4, EdgeSteps
  <2> QED
    BY <2>3, <2>5
<1>11. Summed(next)' = s + summing
  <2>1. PICK had, has \in Nat : /\ had = Len(queues["sum"]) /\ has = Len(queues'["sum"])
                                /\ has = had - pop + summing
    BY <1>1, <1>10 DEF Advances
  <2>2. next + has = s + summing
    <3>1. next + has = u + had + summing
      <4>1. has = had - pop + summing
        BY <2>1
      <4> QED
        BY <4>1
    <3>2. s = u + had
      BY <1>2, <2>1
    <3> QED
      BY <3>1, <3>2
  <2> QED
    BY <2>1, <2>2 DEF Summed
<1> QED
  BY <1>1, <1>4, <1>8, <1>9, <1>10, <1>11 DEF Joined, Carries, Advances, Joins

-----------------------------------------------------------------------------
(* The matrix vector unit: it reads at one position and adds up at another. *)

LEMMA AfterIs ==
  ASSUME FoldAssumption, NEW p \in Positions
  PROVE  /\ p[1] \in Nat /\ p[2] \in 0 .. NF - 1 /\ p[3] \in 0 .. SF - 1
         /\ After(p) \in Positions
         /\ p[3] # SF - 1 => /\ After(p)[1] = p[1] /\ After(p)[2] = p[2]
                             /\ After(p)[3] = p[3] + 1
         /\ p[3] = SF - 1 /\ p[2] # NF - 1 =>
              After(p)[1] = p[1] /\ After(p)[2] = p[2] + 1 /\ After(p)[3] = 0
         /\ p[3] = SF - 1 /\ p[2] = NF - 1 =>
              After(p)[1] = p[1] + 1 /\ After(p)[2] = 0 /\ After(p)[3] = 0
<1>1. SF \in Nat \ {0} /\ NF \in Nat \ {0}
  BY FoldSizes
<1>2. p[1] \in Nat /\ p[2] \in 0 .. NF - 1 /\ p[3] \in 0 .. SF - 1
  BY DEF Positions
<1>3. CASE p[3] # SF - 1
  <2>1. After(p) = <<p[1], p[2], p[3] + 1>> /\ p[3] + 1 \in 0 .. SF - 1
    BY <1>1, <1>2, <1>3 DEF After
  <2> QED
    BY <1>2, <1>3, <2>1 DEF Positions
<1>4. CASE p[3] = SF - 1 /\ p[2] # NF - 1
  <2>1. After(p) = <<p[1], p[2] + 1, 0>> /\ p[2] + 1 \in 0 .. NF - 1 /\ 0 \in 0 .. SF - 1
    BY <1>1, <1>2, <1>4 DEF After
  <2> QED
    BY <1>2, <1>4, <2>1 DEF Positions
<1>5. CASE p[3] = SF - 1 /\ p[2] = NF - 1
  <2>1. After(p) = <<p[1] + 1, 0, 0>> /\ 0 \in 0 .. NF - 1 /\ 0 \in 0 .. SF - 1
    BY <1>1, <1>2, <1>5 DEF After
  <2> QED
    BY <1>2, <1>5, <2>1 DEF Positions
<1> QED
  BY <1>3, <1>4, <1>5

\* What the long branch offers it is the word the FIFO stands at.
Fed == CanPop("long") => HeadOf("long") = HostWords[Eaten("long") + 1]

MvauSteps == Mvau!Step(CanPop("long"), CanPush("out"))
Adds  == Mvau!MacValid(CanPop("long"), CanPush("out"))

LEMMA IssueIs ==
  ASSUME FoldAssumption, Fed, MvauSteps, Eaten("long") \in Nat, NEW p \in Positions, Fetches(p)
  PROVE  Mvau!Issue(HeadOf("long")) = IssueAt(p)
<1>1. SF \in Nat \ {0} /\ p[1] \in Nat /\ p[2] \in 0 .. NF - 1 /\ p[3] \in 0 .. SF - 1
  BY FoldSizes, AfterIs
<1>2. p[2] = nf /\ p[3] = sf
  BY DEF Fetches
<1>3. PICK base \in Nat : base = SF * p[1]
  BY <1>1
<1>4. CASE nf = 0
  <2>1. CanPop("long")
    BY <1>4 DEF MvauSteps, Mvau!Step, Mvau!NeedInput
  <2>2. Eaten("long") = base + sf
    BY <1>3, <1>4 DEF Fetches
  <2>3. base + sf + 1 \in Nat
    BY <1>1, <1>2
  <2>4. HeadOf("long") = Word(base + sf + 1)
    BY <2>1, <2>2, <2>3 DEF Fed, HostWords
  <2> QED
    BY <1>2, <1>3, <1>4, <2>4 DEF Mvau!Issue, Mvau!NeedInput, IssueAt
<1>5. CASE nf # 0
  <2>1. sf \in 0 .. SF - 1 /\ nf > 0
    BY <1>1, <1>2, <1>5
  <2>2. act_buf[sf] = Word(base + sf + 1)
    BY <1>3, <2>1 DEF Fetches
  <2> QED
    BY <1>2, <1>3, <1>5, <2>2 DEF Mvau!Issue, Mvau!NeedInput, IssueAt
<1> QED
  BY <1>4, <1>5

LEMMA FetchSteps ==
  ASSUME FoldAssumption, Types, Fed, Eaten("long") \in Nat, NEW p \in Positions, Fetches(p),
         NEW fresh \in BOOLEAN, NEW ready \in BOOLEAN, Tick(fresh, ready),
         NEW pop \in 0 .. 1, pop = Unit(CanPop("long") /\ Mvau!SReady(CanPush("out"))),
         Eaten("long")' = Eaten("long") + pop
  PROVE  /\ act_buf' = [k \in 0 .. SF - 1 |-> act_buf'[k]]
         /\ MvauSteps => Fetches(After(p))'
         /\ ~MvauSteps => Fetches(p)'
<1>1. /\ SF \in Nat \ {0} /\ NF \in Nat \ {0}
      /\ p[1] \in Nat /\ p[2] \in 0 .. NF - 1 /\ p[3] \in 0 .. SF - 1
  BY FoldSizes, AfterIs
<1>2. p[2] = nf /\ p[3] = sf
  BY DEF Fetches
<1>3. PICK base \in Nat : base = SF * p[1] /\ base + SF = SF * (p[1] + 1)
  BY <1>1
<1>4. Eaten("long") = base + (IF nf = 0 THEN sf ELSE SF)
  BY <1>3 DEF Fetches
<1>5. \A k \in 0 .. SF - 1 : nf > 0 \/ k < sf => act_buf[k] = Word(base + k + 1)
  BY <1>3 DEF Fetches
<1>6. act_buf = [k \in 0 .. SF - 1 |-> act_buf[k]]
  BY DEF Types
<1>7. /\ sf' = IF MvauSteps THEN Mvau!Wrap(sf, SF) ELSE sf
      /\ nf' = IF MvauSteps /\ sf = SF - 1 THEN Mvau!Wrap(nf, NF) ELSE nf
      /\ act_buf' = IF MvauSteps /\ nf = 0 THEN [act_buf EXCEPT ![sf] = HeadOf("long")] ELSE act_buf
      /\ run' = run
  BY DEF Tick, Mvau!Clock, Mvau!NeedInput, MvauSteps
<1>8. \A k : Word(k)' = Word(k)
  BY <1>7, SameStreams
<1>9. act_buf' = [k \in 0 .. SF - 1 |-> act_buf'[k]]
  BY <1>6, <1>7
<1>10. pop = IF MvauSteps /\ nf = 0 THEN 1 ELSE 0
  <2>1. CanPop("long") /\ Mvau!SReady(CanPush("out")) <=> MvauSteps /\ nf = 0
    BY DEF MvauSteps, Mvau!SReady, Mvau!Step, Mvau!NeedInput
  <2> QED
    BY <2>1 DEF Unit
<1>11. CASE ~MvauSteps
  <2>1. sf' = sf /\ nf' = nf /\ act_buf' = act_buf /\ Eaten("long")' = Eaten("long")
    BY <1>4, <1>7, <1>10, <1>11
  <2>2. Fetches(p)'
    BY <1>8, <2>1 DEF Fetches
  <2> QED
    BY <1>9, <1>11, <2>2
<1>12. CASE MvauSteps
  <2>1. nf = 0 => HeadOf("long") = Word(base + sf + 1)
    <3>1. Mvau!Issue(HeadOf("long")) = IssueAt(p)
      BY <1>12, IssueIs
    <3>2. Mvau!Issue(HeadOf("long")).act = IssueAt(p).act
      BY <3>1
    <3> QED
      BY <1>2, <1>3, <3>2 DEF Mvau!Issue, Mvau!NeedInput, IssueAt
  <2>2. \A k \in 0 .. SF - 1 : nf > 0 \/ k < sf + 1 => act_buf'[k] = Word(base + k + 1)
    <3> SUFFICES ASSUME NEW k \in 0 .. SF - 1, nf > 0 \/ k < sf + 1
                 PROVE  act_buf'[k] = Word(base + k + 1)
      OBVIOUS
    <3>1. CASE nf > 0
      BY <1>1, <1>2, <1>5, <1>7, <1>12, <3>1
    <3>2. CASE nf = 0 /\ k = sf
      BY <1>6, <1>7, <1>12, <2>1, <3>2
    <3>3. CASE nf = 0 /\ k # sf
      <4>1. k < sf /\ act_buf'[k] = act_buf[k]
        BY <1>1, <1>2, <1>6, <1>7, <1>12, <3>3
      <4> QED
        BY <1>5, <4>1
    <3> QED
      BY <1>1, <1>2, <3>1, <3>2, <3>3
  <2>3. CASE sf # SF - 1
    <3>1. sf' = sf + 1 /\ nf' = nf
      BY <1>7, <1>12, <2>3 DEF Mvau!Wrap
    <3>2. After(p)[1] = p[1] /\ After(p)[2] = p[2] /\ After(p)[3] = p[3] + 1
      BY <1>2, <2>3, AfterIs
    <3>3. Eaten("long")' = base + (IF nf' = 0 THEN sf' ELSE SF)
      BY <1>1, <1>2, <1>4, <1>10, <1>12, <3>1
    <3>4. \A k \in 0 .. SF - 1 : nf' > 0 \/ k < sf' => act_buf'[k] = Word(base + k + 1)'
      BY <1>8, <2>2, <3>1
    <3>5. Fetches(After(p))'
      BY <1>2, <1>3, <3>1, <3>2, <3>3, <3>4 DEF Fetches
    <3> QED
      BY <1>9, <1>12, <3>5
  <2>4. CASE sf = SF - 1 /\ nf # NF - 1
    <3>1. sf' = 0 /\ nf' = nf + 1
      BY <1>7, <1>12, <2>4 DEF Mvau!Wrap
    <3>2. After(p)[1] = p[1] /\ After(p)[2] = p[2] + 1 /\ After(p)[3] = 0
      BY <1>2, <2>4, AfterIs
    <3>3. Eaten("long")' = base + (IF nf' = 0 THEN sf' ELSE SF)
      BY <1>1, <1>2, <1>4, <1>10, <1>12, <2>4, <3>1
    <3>4. \A k \in 0 .. SF - 1 : nf' > 0 \/ k < sf' => act_buf'[k] = Word(base + k + 1)'
      BY <1>1, <1>2, <1>8, <2>2, <2>4, <3>1
    <3>5. Fetches(After(p))'
      BY <1>2, <1>3, <3>1, <3>2, <3>3, <3>4 DEF Fetches
    <3> QED
      BY <1>9, <1>12, <3>5
  <2>5. CASE sf = SF - 1 /\ nf = NF - 1
    <3>1. sf' = 0 /\ nf' = 0
      BY <1>7, <1>12, <2>5 DEF Mvau!Wrap
    <3>2. After(p)[1] = p[1] + 1 /\ After(p)[2] = 0 /\ After(p)[3] = 0
      BY <1>2, <2>5, AfterIs
    <3>3. Eaten("long")' = SF * (p[1] + 1) + 0
      <4>1. Eaten("long")' = base + SF
        BY <1>1, <1>2, <1>4, <1>10, <1>12, <2>5
      <4> QED
        BY <1>1, <1>3, <4>1
    <3>4. \A k \in 0 .. SF - 1 : ~(nf' > 0 \/ k < sf')
      BY <3>1
    <3>5. Fetches(After(p))'
      BY <3>1, <3>2, <3>3, <3>4 DEF Fetches
    <3> QED
      BY <1>9, <1>12, <3>5
  <2> QED
    BY <2>3, <2>4, <2>5
<1> QED
  BY <1>11, <1>12

LEMMA ResultIs ==
  ASSUME FoldAssumption, NEW e \in Positions, NEW k \in Nat, k = NF * e[1] + e[2]
  PROVE  Results[k + 1] = Mvau!Requant([bias |-> e[2], terms |-> Stretch(Terms(e), 0, SF)], e[2])
<1>1. /\ SF \in Nat \ {0} /\ NF \in Nat \ {0} /\ e[1] \in Nat /\ e[2] \in 0 .. NF - 1
  BY FoldSizes, AfterIs
<1>2. k \div NF = e[1] /\ k % NF = e[2]
  <2>1. PICK vector, fold : vector = e[1] /\ fold = e[2]
    OBVIOUS
  <2>2. (NF * vector + fold) \div NF = vector /\ (NF * vector + fold) % NF = fold
    BY <1>1, <2>1, Euclid
  <2> QED
    BY <2>1, <2>2
<1>3. PICK base \in Nat : base = SF * e[1] /\ base = e[1] * SF
  BY <1>1
<1>4. k + 1 \in Nat /\ k + 1 - 1 = k
  OBVIOUS
<1>5. ResultOf(k + 1) = Mvau!Result([i \in 1 .. SF |-> Word(base + i)], e[2])
  <2>1. ((k + 1 - 1) \div NF) * SF = base /\ (k + 1 - 1) % NF = e[2]
    BY <1>2, <1>3, <1>4
  <2>2. VectorOf(k + 1) = [i \in 1 .. SF |-> Word(base + i)]
    BY <2>1 DEF VectorOf
  <2> QED
    BY <2>1, <2>2 DEF ResultOf
<1>6. Mvau!Result([i \in 1 .. SF |-> Word(base + i)], e[2])
        = [sum  |-> [bias  |-> e[2],
                     terms |-> [j \in 1 .. SF |-> <<Word(base + j), e[2] * SF + j - 1>>]],
           mult |-> e[2]]
  BY DEF Mvau!Result
<1>7. Stretch(Terms(e), 0, SF) = [j \in 1 .. SF |-> <<Word(base + j), e[2] * SF + j - 1>>]
  <2>1. \A j \in 1 .. SF : 0 + j = j /\ j \in Nat
    BY <1>1
  <2>2. \A j \in 1 .. SF : Terms(e)[0 + j] = <<Word(base + j), e[2] * SF + j - 1>>
    BY <1>3, <2>1 DEF Terms
  <2> QED
    BY <2>2 DEF Stretch
<1> QED
  BY <1>4, <1>5, <1>6, <1>7 DEF Results, Mvau!Requant

LEMMA AccumulateIs ==
  ASSUME FoldAssumption, NEW e \in Positions,
         e[3] > 0 => acc = [bias |-> e[2], terms |-> Stretch(Terms(e), 0, e[3])]
  PROVE  Mvau!Accumulate(IssueAt(e)) = [bias |-> e[2], terms |-> Stretch(Terms(e), 0, e[3] + 1)]
<1>1. /\ SF \in Nat \ {0} /\ NF \in Nat \ {0} /\ e[1] \in Nat
      /\ e[2] \in 0 .. NF - 1 /\ e[3] \in 0 .. SF - 1
  BY FoldSizes, AfterIs
<1>2. PICK step \in Nat : step = e[3]
  BY <1>1
<1> DEFINE term == <<IssueAt(e).act, IssueAt(e).waddr>>
           sum  == Stretch(Terms(e), 0, step)
<1>3. term = Terms(e)[0 + step + 1]
  <2>1. PICK base, weights \in Nat : base = SF * e[1] /\ weights = e[2] * SF
    BY <1>1
  <2>2. 0 + step + 1 = step + 1 /\ step + 1 \in Nat
    OBVIOUS
  <2>3. Terms(e)[step + 1] = <<Word(base + (step + 1)), weights + (step + 1) - 1>>
    BY <2>1, <2>2 DEF Terms
  <2>4. term = <<Word(base + step + 1), weights + step>>
    BY <1>2, <2>1 DEF IssueAt
  <2>5. base + (step + 1) = base + step + 1 /\ weights + (step + 1) - 1 = weights + step
    OBVIOUS
  <2> QED
    BY <2>2, <2>3, <2>4, <2>5
<1>4. Append(sum, term) = Stretch(Terms(e), 0, step + 1)
  <2>1. PICK terms : terms = Terms(e)
    OBVIOUS
  <2>2. Append(Stretch(terms, 0, step), terms[0 + step + 1]) = Stretch(terms, 0, step + 1)
    BY StretchGrows
  <2> QED
    BY <1>3, <2>1, <2>2
<1>5. (IF IssueAt(e).first THEN [bias |-> IssueAt(e).nf, terms |-> << >>] ELSE acc)
        = [bias |-> e[2], terms |-> sum]
  <2>1. IssueAt(e).first = (step = 0) /\ IssueAt(e).nf = e[2]
    BY <1>2 DEF IssueAt
  <2>2. CASE step = 0
    <3>1. sum = << >>
      <4>1. PICK terms : terms = Terms(e)
        OBVIOUS
      <4>2. Stretch(terms, 0, 0) \in Seq(Values(terms)) /\ Len(Stretch(terms, 0, 0)) = 0
        BY StretchIs
      <4>3. Stretch(terms, 0, 0) = << >>
        BY <4>2, EmptySeq
      <4> QED
        BY <2>2, <4>1, <4>3
    <3> QED
      BY <2>1, <2>2, <3>1
  <2>3. CASE step # 0
    <3>1. acc = [bias |-> e[2], terms |-> sum]
      BY <1>2, <2>3
    <3> QED
      BY <2>1, <2>3, <3>1
  <2> QED
    BY <2>2, <2>3
<1> HIDE DEF sum, term
<1>6. Mvau!Accumulate(IssueAt(e)) = [[bias |-> e[2], terms |-> sum] EXCEPT !.terms = Append(@, term)]
  BY <1>5 DEF Mvau!Accumulate, term
<1>7. [[bias |-> e[2], terms |-> sum] EXCEPT !.terms = Append(@, term)]
        = [bias |-> e[2], terms |-> Append(sum, term)]
  OBVIOUS
<1> QED
  BY <1>2, <1>4, <1>6, <1>7

LEMMA ExecuteSteps ==
  ASSUME FoldAssumption, out_valid \in BOOLEAN, NEW e \in Positions, NEW n \in Nat, Executes(e, n),
         NEW fresh \in BOOLEAN, NEW ready \in BOOLEAN, Tick(fresh, ready),
         NEW push \in 0 .. 1, push = Unit(out_valid /\ CanPush("out")),
         NEW next \in Nat, next = n + push,
         Adds => Mvau!Mac(HeadOf("long")) = IssueAt(e),
         Adds /\ e[3] = SF - 1 => ~out_valid \/ CanPush("out")
  PROVE  /\ out_valid' \in BOOLEAN
         /\ Adds => Executes(After(e), next)'
         /\ ~Adds => Executes(e, next)'
<1>1. /\ SF \in Nat \ {0} /\ NF \in Nat \ {0} /\ e[1] \in Nat
      /\ e[2] \in 0 .. NF - 1 /\ e[3] \in 0 .. SF - 1
  BY FoldSizes, AfterIs
<1> DEFINE mac    == Mvau!Mac(HeadOf("long"))
           finish == Adds /\ mac.last
<1>2. /\ acc' = IF Adds THEN Mvau!Accumulate(mac) ELSE acc
      /\ out_valid' = (finish \/ (out_valid /\ ~CanPush("out")))
      /\ out_data' = IF finish THEN Mvau!Requant(Mvau!Accumulate(mac), mac.nf) ELSE out_data
      /\ run' = run
  BY DEF Tick, Mvau!Clock, Adds
<1>3. Results' = Results /\ \A k : Word(k)' = Word(k)
  BY <1>2, SameStreams
<1>4. Terms(e)' = Terms(e) /\ Terms(After(e))' = Terms(After(e))
  BY <1>3 DEF Terms
<1>5. out_valid' \in BOOLEAN
  BY <1>2
<1>6. IF out_valid /\ CanPush("out") THEN next = n + 1 ELSE next = n
  <2>1. push = IF out_valid /\ CanPush("out") THEN 1 ELSE 0
    BY DEF Unit
  <2> QED
    BY <2>1
<1>7. PICK k \in Nat : /\ k = NF * e[1] + e[2] /\ k = n + Unit(out_valid)
                       /\ out_valid => out_data = Results[n + 1]
  BY <1>1 DEF Executes
\* What the output register holds when nothing is finished this cycle.
<1>8. ~finish => /\ k = next + Unit(out_valid')
                 /\ out_valid' => out_data' = Results'[next + 1]
  <2> SUFFICES ASSUME ~finish
               PROVE  /\ k = next + Unit(out_valid')
                      /\ out_valid' => out_data' = Results'[next + 1]
    OBVIOUS
  <2>1. out_valid' = (out_valid /\ ~CanPush("out")) /\ out_data' = out_data
    BY <1>2
  <2>2. CASE out_valid /\ CanPush("out")
    <3>1. next = n + 1 /\ k = n + 1 /\ ~out_valid'
      BY <1>6, <1>7, <2>1, <2>2 DEF Unit
    <3> QED
      BY <3>1 DEF Unit
  <2>3. CASE out_valid /\ ~CanPush("out")
    BY <1>3, <1>6, <1>7, <2>1, <2>3 DEF Unit
  <2>4. CASE ~out_valid
    BY <1>6, <1>7, <2>1, <2>4 DEF Unit
  <2> QED
    BY <2>2, <2>3, <2>4
<1>9. CASE ~Adds
  <2>1. ~finish /\ acc' = acc
    BY <1>2, <1>9
  <2>2. e[3] > 0 => acc' = [bias |-> e[2], terms |-> Stretch(Terms(e)', 0, e[3])]
    BY <1>4, <2>1 DEF Executes
  <2>3. Executes(e, next)'
    BY <1>7, <1>8, <2>1, <2>2 DEF Executes, Stretch
  <2> QED
    BY <1>5, <1>9, <2>3
<1>10. CASE Adds
  <2>1. mac = IssueAt(e)
    BY <1>10
  <2>2. mac.last = (e[3] = SF - 1) /\ mac.nf = e[2]
    BY <2>1 DEF IssueAt
  <2>3. acc' = [bias |-> e[2], terms |-> Stretch(Terms(e), 0, e[3] + 1)]
    <3>1. e[3] > 0 => acc = [bias |-> e[2], terms |-> Stretch(Terms(e), 0, e[3])]
      BY DEF Executes
    <3> QED
      BY <1>2, <1>10, <2>1, <3>1, AccumulateIs
  <2>4. CASE e[3] # SF - 1
    <3>1. ~finish
      BY <2>2, <2>4
    <3>2. After(e)[1] = e[1] /\ After(e)[2] = e[2] /\ After(e)[3] = e[3] + 1
      BY <2>4, AfterIs
    <3>3. Terms(After(e)) = Terms(e)
      BY <3>2 DEF Terms
    <3>4. After(e)[3] > 0 =>
            acc' = [bias |-> After(e)[2], terms |-> Stretch(Terms(After(e))', 0, After(e)[3])]
      BY <1>4, <2>3, <3>2, <3>3
    <3>5. Executes(After(e), next)'
      BY <1>7, <1>8, <3>1, <3>2, <3>4 DEF Executes, Stretch
    <3> QED
      BY <1>5, <1>10, <3>5
  <2>5. CASE e[3] = SF - 1
    <3>1. finish /\ (~out_valid \/ CanPush("out"))
      BY <1>10, <2>2, <2>5
    <3>2. out_valid' = TRUE
      BY <1>2, <3>1
    <3>3. NF * e[1] + e[2] = next
      <4>1. next = n + Unit(out_valid)
        BY <1>6, <3>1 DEF Unit
      <4> QED
        BY <1>7, <4>1
    <3>4. out_data' = Results[next + 1]
      <4>1. acc' = [bias |-> e[2], terms |-> Stretch(Terms(e), 0, SF)]
        <5>1. e[3] + 1 = SF
          BY <1>1, <2>5
        <5> QED
          BY <2>3, <5>1
      <4>2. out_data' = Mvau!Requant(acc', e[2])
        BY <1>2, <1>10, <2>2, <3>1
      <4>3. Results[next + 1] = Mvau!Requant([bias |-> e[2], terms |-> Stretch(Terms(e), 0, SF)], e[2])
        BY <3>3, ResultIs
      <4> QED
        BY <4>1, <4>2, <4>3
    <3>5. After(e)[3] = 0 /\ NF * After(e)[1] + After(e)[2] = next + 1
      <4>1. CASE e[2] # NF - 1
        <5>1. After(e)[1] = e[1] /\ After(e)[2] = e[2] + 1 /\ After(e)[3] = 0
          BY <2>5, <4>1, AfterIs
        <5>2. NF * e[1] \in Nat
          BY <1>1
        <5> QED
          BY <1>1, <3>3, <5>1, <5>2
      <4>2. CASE e[2] = NF - 1
        <5>1. After(e)[1] = e[1] + 1 /\ After(e)[2] = 0 /\ After(e)[3] = 0
          BY <2>5, <4>2, AfterIs
        <5>2. NF * (e[1] + 1) = NF * e[1] + NF /\ NF * e[1] \in Nat
          BY <1>1
        <5> QED
          BY <1>1, <3>3, <4>2, <5>1, <5>2
      <4> QED
        BY <4>1, <4>2
    <3>6. Executes(After(e), next)'
      BY <1>3, <3>2, <3>4, <3>5 DEF Executes, Unit
    <3> QED
      BY <1>5, <1>10, <3>6
  <2> QED
    BY <2>4, <2>5
<1> QED
  BY <1>9, <1>10

LEMMA MultiplySteps ==
  ASSUME FoldAssumption, BlockRam \in BOOLEAN, Types, Fed, Eaten("long") \in Nat,
         NEW n \in Nat, Multiplied(n),
         NEW fresh \in BOOLEAN, NEW ready \in BOOLEAN, Tick(fresh, ready),
         NEW pop \in 0 .. 1, pop = Unit(CanPop("long") /\ Mvau!SReady(CanPush("out"))),
         Eaten("long")' = Eaten("long") + pop,
         NEW push \in 0 .. 1, push = Unit(out_valid /\ CanPush("out")),
         NEW next \in Nat, next = n + push
  PROVE  /\ issued' \in BOOLEAN /\ out_valid' \in BOOLEAN
         /\ act_buf' = [k \in 0 .. SF - 1 |-> act_buf'[k]]
         /\ Multiplied(next)'
<1>1. PICK p, e \in Positions :
        /\ Fetches(p) /\ Executes(e, n)
        /\ IF BlockRam /\ issued THEN stage = IssueAt(e) /\ p = After(e) ELSE p = e
  BY DEF Multiplied
<1>2. issued \in BOOLEAN /\ out_valid \in BOOLEAN
  BY DEF Types
<1>3. PICK go \in BOOLEAN : go = Mvau!Go(CanPush("out"))
  BY DEF Mvau!Go
<1>4. /\ issued' = IF BlockRam /\ go THEN MvauSteps ELSE issued
      /\ stage' = IF BlockRam /\ go THEN Mvau!Issue(HeadOf("long")) ELSE stage
      /\ run' = run
  BY <1>3 DEF Tick, Mvau!Clock, MvauSteps
<1>5. MvauSteps => go
  BY <1>3 DEF MvauSteps, Mvau!Step
<1>6. Adds = IF BlockRam THEN go /\ issued ELSE MvauSteps
  BY <1>3 DEF Adds, MvauSteps, Mvau!MacValid
<1>7. MvauSteps => Mvau!Issue(HeadOf("long")) = IssueAt(p)
  BY <1>1, IssueIs
<1>8. Adds => Mvau!Mac(HeadOf("long")) = IssueAt(e)
  <2>1. CASE BlockRam
    BY <1>1, <1>6, <2>1 DEF Mvau!Mac
  <2>2. CASE ~BlockRam
    BY <1>1, <1>6, <1>7, <2>2 DEF Mvau!Mac
  <2> QED
    BY <2>1, <2>2
<1>9. Adds /\ e[3] = SF - 1 => ~out_valid \/ CanPush("out")
  <2> SUFFICES ASSUME Adds, e[3] = SF - 1 PROVE ~out_valid \/ CanPush("out")
    OBVIOUS
  <2>1. Mvau!StepHeld
    <3>1. CASE BlockRam
      <4>1. issued /\ stage.last
        <5>1. issued /\ stage = IssueAt(e)
          BY <1>1, <1>6, <3>1
        <5>2. IssueAt(e).last
          BY DEF IssueAt
        <5> QED
          BY <5>1, <5>2
      <4> QED
        BY <3>1, <4>1 DEF Mvau!StepHeld
    <3>2. CASE ~BlockRam
      <4>1. sf = SF - 1
        BY <1>1, <3>2 DEF Fetches
      <4> QED
        BY <3>2, <4>1 DEF Mvau!StepHeld
    <3> QED
      BY <3>1, <3>2
  <2>2. go
    BY <1>5, <1>6
  <2> QED
    BY <1>3, <2>1, <2>2 DEF Mvau!Go, Mvau!OutFree
<1>10. /\ act_buf' = [k \in 0 .. SF - 1 |-> act_buf'[k]]
       /\ MvauSteps => Fetches(After(p))'
       /\ ~MvauSteps => Fetches(p)'
  BY <1>1, FetchSteps
<1>11. /\ out_valid' \in BOOLEAN
       /\ Adds => Executes(After(e), next)'
       /\ ~Adds => Executes(e, next)'
  BY <1>1, <1>2, <1>8, <1>9, ExecuteSteps
<1>12. \A q \in Positions : IssueAt(q)' = IssueAt(q)
  BY <1>4, SameStreams DEF IssueAt
<1>13. After(p) \in Positions /\ After(e) \in Positions
  BY AfterIs
<1>14. issued' \in BOOLEAN
  BY <1>2, <1>4 DEF MvauSteps, Mvau!Step
<1>15. PICK p2, e2 \in Positions :
         p2 = (IF MvauSteps THEN After(p) ELSE p) /\ e2 = (IF Adds THEN After(e) ELSE e)
  BY <1>13
<1>16. Fetches(p2)' /\ Executes(e2, next)'
  BY <1>10, <1>11, <1>15
<1>17. IF BlockRam /\ issued' THEN stage' = IssueAt(e2) /\ p2 = After(e2) ELSE p2 = e2
  <2>1. CASE ~BlockRam
    BY <1>1, <1>6, <1>15, <2>1
  <2>2. CASE BlockRam /\ issued
    <3>1. stage = IssueAt(e) /\ p = After(e)
      BY <1>1, <2>2
    <3>2. CASE ~go
      BY <1>4, <1>5, <1>6, <1>15, <2>2, <3>1, <3>2
    <3>3. CASE go /\ MvauSteps
      BY <1>4, <1>6, <1>7, <1>15, <2>2, <3>1, <3>3
    <3>4. CASE go /\ ~MvauSteps
      BY <1>4, <1>6, <1>15, <2>2, <3>1, <3>4
    <3> QED
      BY <3>2, <3>3, <3>4
  <2>3. CASE BlockRam /\ ~issued
    <3>1. p = e /\ ~Adds
      BY <1>1, <1>6, <2>3
    <3>2. CASE MvauSteps
      BY <1>4, <1>5, <1>7, <1>15, <2>3, <3>1, <3>2
    <3>3. CASE ~MvauSteps
      BY <1>4, <1>15, <2>3, <3>1, <3>3
    <3> QED
      BY <3>2, <3>3
  <2> QED
    BY <2>1, <2>2, <2>3
<1>18. Multiplied(next)'
  <2>1. IssueAt(e2)' = IssueAt(e2)
    BY <1>12
  <2> QED
    BY <1>16, <1>17, <2>1 DEF Multiplied
<1> QED
  BY <1>10, <1>11, <1>14, <1>18

-----------------------------------------------------------------------------
(* The block.                                                              *)

\* Nothing in flight: the state of reset and of a clear.
Empty ==
  /\ accepted = 0 /\ delivered = 0
  /\ queues = [edge \in Edges |-> << >>]
  /\ sent = [branch \in Branches |-> FALSE]
  /\ full = FALSE /\ fill = 0 /\ segments = [k \in 0 .. Ratio - 1 |-> segments[k]]
  /\ loaded = FALSE /\ slot = 0
  /\ sf = 0 /\ nf = 0 /\ issued = FALSE /\ out_valid = FALSE
  /\ act_buf = [k \in 0 .. SF - 1 |-> act_buf[k]]

LEMMA EmptyInv ==
  ASSUME FoldAssumption
  PROVE  Empty => Inv
<1> SUFFICES ASSUME Empty PROVE Inv
  OBVIOUS
<1>1. SF \in Nat \ {0} /\ NF \in Nat \ {0} /\ Ratio \in Nat \ {0}
  BY FoldSizes
<1>2. Types
  <2>1. 0 \in 0 .. Ratio - 1
    BY <1>1
  <2>2. [branch \in Branches |-> FALSE] \in [Branches -> BOOLEAN]
    OBVIOUS
  <2> QED
    BY <2>1, <2>2 DEF Empty, Types
<1>3. \A edge \in Edges : queues[edge] = << >>
  BY DEF Empty
<1>4. \A stream : Stretch(stream, 0, 0) = << >>
  <2> SUFFICES ASSUME NEW stream PROVE Stretch(stream, 0, 0) = << >>
    OBVIOUS
  <2>1. Stretch(stream, 0, 0) \in Seq(Values(stream)) /\ Len(Stretch(stream, 0, 0)) = 0
    BY StretchIs
  <2> QED
    BY <2>1, EmptySeq
<1>5. \A edge \in Edges : Len(queues[edge]) = 0 /\ \A stream : Carries(edge, stream, 0)
  BY <1>3, <1>4 DEF Carries, Holds
<1>6. \A branch \in Branches : Eaten(branch) = 0 /\ branch \in Edges
  BY <1>5 DEF Empty, Eaten, Unit, Branches, Edges
<1>7. Forked
  BY <1>5, <1>6 DEF Forked
<1>8. Summed(0) = 0
  BY <1>5 DEF Summed, Edges
<1>9. Unpacked(0)
  BY <1>1 DEF Empty, Unpacked, Unit
<1>10. Joined(0)
  BY <1>5, <1>8 DEF Joined, Edges
<1>11. Packed(0)
  <2>1. Eaten("skip") = Ratio * (0 + 0) + 0
    BY <1>1, <1>6 DEF Branches
  <2>2. \A k \in 0 .. fill - 1 : FALSE
    BY DEF Empty
  <2> QED
    BY <2>1, <2>2 DEF Empty, Packed, Unit
<1>12. Multiplied(0)
  <2>1. PICK p \in Positions : p = <<0, 0, 0>>
    <3>1. 0 \in 0 .. NF - 1 /\ 0 \in 0 .. SF - 1
      BY <1>1
    <3>2. <<0, 0, 0>> \in Positions
      BY <3>1 DEF Positions
    <3> QED
      BY <3>2
  <2>2. p[1] = 0 /\ p[2] = 0 /\ p[3] = 0
    BY <2>1
  <2>3. Fetches(p)
    <3>1. Eaten("long") = SF * 0 + 0
      BY <1>1, <1>6 DEF Branches
    <3>2. \A k \in 0 .. SF - 1 : ~(nf > 0 \/ k < sf)
      BY <1>1 DEF Empty
    <3> QED
      BY <2>2, <3>1, <3>2 DEF Fetches, Empty
  <2>4. Executes(p, 0)
    <3>1. NF * 0 + 0 = 0 + 0
      BY <1>1
    <3> QED
      BY <2>2, <3>1 DEF Executes, Empty, Unit
  <2> QED
    BY <2>3, <2>4 DEF Multiplied, Empty
<1>13. Placed(0)
  <2>1. Summed(0) + Len(queues["wide"]) = 0 /\ Summed(0) + Len(queues["out"]) = 0
    BY <1>5, <1>8 DEF Edges
  <2> QED
    BY <1>9, <1>10, <1>11, <1>12, <2>1 DEF Placed
<1> QED
  BY <1>2, <1>7, <1>13 DEF Inv

LEMMA InitInv ==
  ASSUME FoldAssumption
  PROVE  BlockInit => Inv
<1>1. BlockInit => Empty
  BY DEF BlockInit, Mvau!Init, Dwc!Init, Empty
<1> QED
  BY <1>1, EmptyInv

LEMMA ClearKeeps ==
  ASSUME FoldAssumption, Types, ClearAll
  PROVE  Inv'
<1>1. Empty'
  BY DEF Types, ClearAll, DupClear, Dwc!PackClear, Dwc!UnpackClear, Mvau!Clock, Empty
<1>2. (Empty => Inv)'
  BY EmptyInv, PTL
<1> QED
  BY <1>1, <1>2

LEMMA TickKeeps ==
  ASSUME FoldAssumption, BlockRam \in BOOLEAN, Inv,
         NEW fresh \in BOOLEAN, NEW ready \in BOOLEAN, Tick(fresh, ready)
  PROVE  Inv'
<1>1. Types /\ Forked
  BY DEF Inv
<1>2. PICK u \in Nat : Placed(u)
  BY DEF Inv
<1>3. /\ Unpacked(u) /\ Joined(u)
      /\ Packed(Summed(u) + Len(queues["wide"]))
      /\ Multiplied(Summed(u) + Len(queues["out"]))
  BY <1>2 DEF Placed
<1>4. PICK popL, popS, pop, summing, result, wide \in 0 .. 1 :
        /\ popL = Unit(CanPop("long") /\ Mvau!SReady(CanPush("out")))
        /\ popS = Unit(CanPop("skip") /\ Dwc!PackReady)
        /\ pop = Unit(CanPop("sum") /\ ~loaded)
        /\ summing = Unit(Taken)
        /\ result = Unit(out_valid /\ CanPush("out"))
        /\ wide = Unit(full /\ CanPush("wide"))
  BY DEF Unit
<1>5. Eaten("long")' = Eaten("long") + popL /\ Carries("long", HostWords, Eaten("long"))'
  BY <1>1, <1>4, ForkSteps DEF Takes, Branches
<1>6. Eaten("skip")' = Eaten("skip") + popS /\ Carries("skip", HostWords, Eaten("skip"))'
  BY <1>1, <1>4, ForkSteps DEF Takes, Branches
<1>7. Eaten("long") \in Nat /\ Eaten("skip") \in Nat
  BY <1>1 DEF Forked, Branches
<1>8. Forked'
  BY <1>4, <1>5, <1>6, <1>7 DEF Forked, Branches
<1>9. PICK next \in Nat : next = u + pop
  OBVIOUS
<1>10. PICK lenW, lenO, s \in Nat :
         lenW = Len(queues["wide"]) /\ lenO = Len(queues["out"]) /\ s = Summed(u)
  BY <1>3 DEF Joined, Carries, Holds, Summed
<1>11. full => segments = Wides[s + lenW + 1]
  BY <1>3, <1>10 DEF Packed
<1>12. out_valid => out_data = Results[s + lenO + 1]
  BY <1>3, <1>10 DEF Multiplied, Executes
<1>13. Joins(u, s, lenW, lenO, next, summing, result, wide)
  BY <1>1, <1>3, <1>4, <1>9, <1>10, <1>11, <1>12, JoinSteps
<1>14. PICK packed, done \in Nat : packed = s + lenW + wide /\ done = s + lenO + result
  BY <1>10
<1>15. /\ (Summed(next) + Len(queues["wide"]))' = packed
       /\ (Summed(next) + Len(queues["out"]))' = done
  <2>1. /\ Summed(next)' = s + summing
        /\ Len(queues["wide"])' = lenW - summing + wide
        /\ Len(queues["out"])' = lenO - summing + result
    BY <1>13 DEF Joins
  <2>2. /\ (s + summing) + (lenW - summing + wide) = packed
        /\ (s + summing) + (lenO - summing + result) = done
    BY <1>14
  <2> QED
    BY <2>1, <2>2
<1>16. /\ full' \in BOOLEAN /\ fill' \in 0 .. Ratio - 1
       /\ segments' = [k \in 0 .. Ratio - 1 |-> segments'[k]]
       /\ Packed(packed)'
  <2>1. CanPop("skip") => HeadOf("skip") = HostWords[Eaten("skip") + 1]
    BY <1>1, <1>7, HeadIs DEF Forked, Carries, Holds, Branches
  <2>2. PICK n \in Nat : n = s + lenW /\ Packed(n) /\ packed = n + wide
    BY <1>3, <1>10, <1>14
  <2> QED
    BY <1>1, <1>4, <1>6, <1>7, <2>1, <2>2, PackSteps
<1>17. /\ issued' \in BOOLEAN /\ out_valid' \in BOOLEAN
       /\ act_buf' = [k \in 0 .. SF - 1 |-> act_buf'[k]]
       /\ Multiplied(done)'
  <2>1. Fed
    BY <1>1, <1>7, HeadIs DEF Forked, Carries, Holds, Branches, Fed
  <2>2. PICK n \in Nat : n = s + lenO /\ Multiplied(n) /\ done = n + result
    BY <1>3, <1>10, <1>14
  <2> QED
    BY <1>1, <1>4, <1>5, <1>7, <2>1, <2>2, MultiplySteps
<1>18. /\ loaded' \in BOOLEAN /\ slot' \in 0 .. Ratio - 1 /\ delivered' \in Nat
       /\ Unpacked(next)'
  <2>1. CanPop("sum") => HeadOf("sum") = Sums[u + 1]
    BY <1>3, HeadIs DEF Joined, Carries, Holds
  <2> QED
    BY <1>1, <1>3, <1>4, <1>9, <2>1, UnpackSteps
<1>19. accepted' \in Nat /\ sent' \in [Branches -> BOOLEAN]
  <2>1. accepted \in Nat /\ sent \in [Branches -> BOOLEAN]
    BY <1>1 DEF Types
  <2> QED
    BY <2>1 DEF Tick, DupClock, DupSReady, DupReady
<1>20. Types'
  BY <1>16, <1>17, <1>18, <1>19 DEF Types
<1>21. Placed(next)'
  BY <1>13, <1>15, <1>16, <1>17, <1>18 DEF Placed, Joins
<1> QED
  BY <1>8, <1>20, <1>21 DEF Inv

LEMMA InvDelivers ==
  ASSUME FoldAssumption
  PROVE  Inv => DeliveredInOrder
<1> SUFFICES ASSUME Inv, loaded
             PROVE  LET k == (delivered \div Ratio) + 1
                    IN  /\ holding = [left |-> ResultOf(k), right |-> WideWord(k)]
                        /\ slot = delivered % Ratio
  BY DEF DeliveredInOrder
<1>1. Ratio \in Nat \ {0} /\ slot \in 0 .. Ratio - 1 /\ delivered \in Nat
  BY FoldSizes DEF Inv, Types
<1>2. PICK u \in Nat : Unpacked(u)
  BY DEF Inv, Placed
<1>3. delivered + Ratio = Ratio * u + slot /\ u > 0 /\ holding = Sums[u]
  BY <1>1, <1>2 DEF Unpacked, Unit
<1>4. PICK before \in Nat : u = before + 1
  <2>1. u - 1 \in Nat /\ u = (u - 1) + 1
    BY <1>3
  <2> QED
    BY <2>1
<1>5. delivered = Ratio * before + slot
  BY <1>1, <1>3, <1>4
<1>6. delivered \div Ratio = before /\ delivered % Ratio = slot
  BY <1>1, <1>5, Euclid
<1> QED
  BY <1>3, <1>4, <1>6 DEF Sums

LEMMA SameInv ==
  ASSUME Inv, UNCHANGED blockVars
  PROVE  Inv'
<1>1. /\ run' = run /\ accepted' = accepted /\ queues' = queues /\ sent' = sent
      /\ sf' = sf /\ nf' = nf /\ act_buf' = act_buf /\ issued' = issued /\ stage' = stage
      /\ acc' = acc /\ out_valid' = out_valid /\ out_data' = out_data
      /\ full' = full /\ fill' = fill /\ segments' = segments
      /\ loaded' = loaded /\ slot' = slot /\ holding' = holding /\ delivered' = delivered
  BY DEF blockVars, mvau, dwc
<1>2. /\ HostWords' = HostWords /\ Wides' = Wides /\ Results' = Results /\ Sums' = Sums
      /\ \A k : Word(k)' = Word(k)
  BY <1>1, SameStreams
<1>3. \A branch : Eaten(branch)' = Eaten(branch)
  BY <1>1 DEF Eaten
<1>4. Types'
  BY <1>1 DEF Inv, Types
<1>5. Forked'
  BY <1>1, <1>2, <1>3 DEF Inv, Forked, Carries
<1>6. PICK u \in Nat : Placed(u)
  BY DEF Inv
<1>7. Summed(u)' = Summed(u)
  BY <1>1 DEF Summed
<1>8. Unpacked(u)'
  BY <1>1, <1>2, <1>6 DEF Placed, Unpacked
<1>9. Joined(u)'
  BY <1>1, <1>2, <1>6, <1>7 DEF Placed, Joined, Carries
<1>10. PICK n : n = Summed(u) + Len(queues["wide"])
  OBVIOUS
<1>11. Packed(n)'
  BY <1>1, <1>2, <1>3, <1>6, <1>10 DEF Placed, Packed
<1>12. PICK m : m = Summed(u) + Len(queues["out"])
  OBVIOUS
<1>13. Multiplied(m)'
  <2>1. PICK p, e \in Positions :
          /\ Fetches(p) /\ Executes(e, m)
          /\ IF BlockRam /\ issued THEN stage = IssueAt(e) /\ p = After(e) ELSE p = e
    BY <1>6, <1>12 DEF Placed, Multiplied
  <2>2. Fetches(p)'
    BY <1>1, <1>2, <1>3, <2>1 DEF Fetches
  <2>3. Terms(e)' = Terms(e)
    BY <1>2 DEF Terms
  <2>4. Executes(e, m)'
    BY <1>1, <1>2, <2>1, <2>3 DEF Executes, Stretch
  <2>5. IssueAt(e)' = IssueAt(e)
    BY <1>2 DEF IssueAt
  <2> QED
    BY <1>1, <2>1, <2>2, <2>4, <2>5 DEF Multiplied
<1>14. Placed(u)'
  BY <1>1, <1>7, <1>8, <1>9, <1>10, <1>11, <1>12, <1>13 DEF Placed
<1> QED
  BY <1>4, <1>5, <1>14 DEF Inv

\* Slice by slice, what leaves the block is the words the host sent since the
\* last clear in their order, each beside the result of the matrix vector unit
\* for its own position: however the FIFOs fill, the host pauses or the
\* consumer stalls (otf_dup.ml, otf_mvau.ml, otf_dwc.ml, otf_add.ml).
THEOREM BlockDeliversInOrder ==
  ASSUME FoldAssumption, BlockRam \in BOOLEAN
  PROVE  BlockSpec => []DeliveredInOrder
<1>1. BlockInit => Inv
  BY InitInv
<1>2. Inv /\ [BlockNext]_blockVars => Inv'
  <2> SUFFICES ASSUME Inv, [BlockNext]_blockVars PROVE Inv'
    OBVIOUS
  <2>1. CASE \E fresh, ready \in BOOLEAN : Tick(fresh, ready)
    <3>1. PICK fresh, ready \in BOOLEAN : Tick(fresh, ready)
      BY <2>1
    <3> QED
      BY <3>1, TickKeeps
  <2>2. CASE ClearAll
    BY <2>2, ClearKeeps DEF Inv
  <2>3. CASE UNCHANGED blockVars
    BY <2>3, SameInv
  <2> QED
    BY <2>1, <2>2, <2>3 DEF BlockNext
<1>3. Inv => DeliveredInOrder
  BY InvDelivers
<1> QED
  BY <1>1, <1>2, <1>3, PTL DEF BlockSpec

-----------------------------------------------------------------------------
(* The windowed layers.  The registers are told by numbers that never      *)
(* wrap: P pixels are written, F images are read, the consumer has had x   *)
(* beats of two images.  The writer may be a buffer's depth ahead of the   *)
(* oldest pixel the reader may still want, so that what it overwrites is   *)
(* let go of; and the reader, which has found every earlier read written,  *)
(* is less than an image ahead of it.  So the sign bits of the wrapped     *)
(* differences decide as the numbers do, a read finds its own pixel in the *)
(* slot it shares with others, and the beats come in numpy's order.        *)
(* Numbers first.                                                          *)

\* A number of two digits, and its digits.
LEMMA Digits ==
  ASSUME NEW b \in Nat \ {0}, NEW a \in Nat, NEW n \in 0 .. b - 1
  PROVE  (a * b + n) \div b = a /\ (a * b + n) % b = n
OBVIOUS

\* A digit below m in front of one below b: a number below m * b.
LEMMA DigitsBelow ==
  ASSUME NEW b \in Nat \ {0}, NEW m \in Nat, NEW a \in 0 .. m - 1, NEW n \in 0 .. b - 1
  PROVE  a * b + n \in 0 .. m * b - 1
<1>1. a + 1 <= m /\ a \in Nat /\ m - (a + 1) \in Nat
  OBVIOUS
<1>2. (m - (a + 1)) * b >= 0
  BY <1>1
<1>3. m * b = (m - (a + 1)) * b + a * b + b
  BY <1>1
<1>4. a * b \in Nat
  BY <1>1
<1> QED
  BY <1>1, <1>2, <1>3, <1>4

\* A remainder, from the quotient.
LEMMA ModIs ==
  ASSUME NEW m \in Nat \ {0}, NEW k \in Int, NEW r \in 0 .. m - 1
  PROVE  (k * m + r) % m = r
OBVIOUS

\* Every number is its quotient and its remainder.
LEMMA Parts ==
  ASSUME NEW m \in Nat \ {0}, NEW x \in Int
  PROVE  x = (x \div m) * m + (x % m) /\ (x % m) \in 0 .. m - 1 /\ x \div m \in Int
OBVIOUS

\* A sum wraps to the same word whether its parts have wrapped or not.
LEMMA ModSum ==
  ASSUME NEW m \in Nat \ {0}, NEW x \in Int, NEW y \in Int
  PROVE  ((x % m) + y) % m = (x + y) % m
<1>1. PICK k \in Int : x = k * m + (x % m) /\ (x % m) \in 0 .. m - 1
  <2>1. x \in Int /\ m \in Nat \ {0}
    OBVIOUS
  <2>2. x = (x \div m) * m + (x % m) /\ (x % m) \in 0 .. m - 1 /\ x \div m \in Int
    BY <2>1, Parts
  <2> QED
    BY <2>2
<1> DEFINE z == (x % m) + y
<1>2. z \in Int
  BY <1>1
<1> HIDE DEF z
<1>3. PICK l \in Int : z = l * m + (z % m) /\ z % m \in 0 .. m - 1
  BY <1>2, Parts
<1>4. x + y = k * m + z
  BY <1>1 DEF z
<1>5. x + y = (k + l) * m + (z % m) /\ k + l \in Int
  BY <1>3, <1>4
<1>6. (x + y) % m = (z % m)
  BY <1>3, <1>5, ModIs
<1> QED
  BY <1>6 DEF z

\* The sign bit reads a small difference however often the counters have wrapped.
LEMMA SignedIs ==
  ASSUME Words \in Nat \ {0}, Words % 2 = 0, NEW x \in Int, NEW k \in Int,
         2 * x < Words, -Words <= 2 * x
  PROVE  Signed(x + k * Words) = x
<1>1. CASE x >= 0
  <2>1. (k * Words + x) % Words = x
    BY <1>1, ModIs
  <2>2. x + k * Words = k * Words + x
    OBVIOUS
  <2> QED
    BY <1>1, <2>1, <2>2 DEF Signed
<1>2. CASE x < 0
  <2>0. k - 1 \in Int /\ x + Words \in 0 .. Words - 1
    BY <1>2
  <2>1. ((k - 1) * Words + (x + Words)) % Words = x + Words
    BY <2>0, ModIs
  <2>2. x + k * Words = (k - 1) * Words + (x + Words)
    OBVIOUS
  <2>3. x + Words >= Words \div 2
    BY <1>2
  <2> QED
    BY <1>2, <2>1, <2>2, <2>3 DEF Signed
<1> QED
  BY <1>1, <1>2

\* The sign bit reads a small number as it is.
LEMMA SignedSmall ==
  ASSUME Words \in Nat \ {0}, Words % 2 = 0, NEW x \in Int, 2 * x < Words, -Words <= 2 * x
  PROVE  Signed(x) = x
<1> DEFINE y == x + 0 * Words
<1>1. 0 \in Int
  OBVIOUS
<1>2. Signed(y) = x
  BY <1>1, SignedIs
<1>3. y = x
  OBVIOUS
<1> QED
  BY <1>2, <1>3

-----------------------------------------------------------------------------
(* The unit, its counters and the oldest pixel they may still want.         *)

\* The pixels of an image, and the reads of a kernel row.
HW == g.h * g.w
Kwg == g.kw \div g.par

\* The unit is one made for a layer.
UnitOK == \E layer \in Geometries : unit = Elaborated(layer)

\* What the layers' assumption says of the unit that is made for one
\* (otf_swu_line.ml Config).
LEMMA UnitIs ==
  ASSUME LayersAssumption, UnitOK
  PROVE  /\ {g.h, g.w, g.kh, g.kw, g.sh, g.sw, g.dh, g.dw, g.cg, g.par} \subseteq Nat \ {0}
         /\ {g.pt, g.pl} \subseteq Nat
         /\ unit.ofm_h \in Nat \ {0} /\ unit.ofm_w \in Nat \ {0}
         /\ g.pooled \in BOOLEAN /\ (g.pooled => g.par = 1)
         /\ 2 * HW < Words
         /\ unit.depth \in Nat \ {0} /\ 2 * unit.depth < Words /\ Words % unit.depth = 0
         /\ unit.counts = <<g.cg, Kwg, g.kh, unit.ofm_w, unit.ofm_h>>
         /\ AtLeastZero((unit.ofm_h - 1) * g.sh - g.pt) * g.w
              + AtLeastZero((unit.ofm_w - 1) * g.sw - g.pl) <= HW
         /\ g.kw % g.par = 0
<1>1. PICK layer \in Geometries : unit = Elaborated(layer)
  BY DEF UnitOK
<1>2. Sound(layer) /\ StaysInImage(layer)
  BY DEF LayersAssumption
<1>3. g = layer /\ unit.depth = BufferDepth(layer) /\ unit.ofm_h = OfmH(layer)
      /\ unit.ofm_w = OfmW(layer)
      /\ unit.counts = <<layer.cg, layer.kw \div layer.par, layer.kh, OfmW(layer), OfmH(layer)>>
  BY <1>1 DEF Elaborated, g
<1> HIDE <1>1
<1>4. OfmH(layer) \in Int /\ OfmW(layer) \in Int
  BY <1>2 DEF Sound, OfmH, OfmW
<1>5. OfmH(layer) \in Nat \ {0} /\ OfmW(layer) \in Nat \ {0}
  BY <1>2, <1>4 DEF Sound
<1>6. AtLeastZero((OfmH(layer) - 1) * layer.sh - layer.pt) * layer.w
         + AtLeastZero((OfmW(layer) - 1) * layer.sw - layer.pl) <= layer.h * layer.w
  BY <1>2 DEF StaysInImage, WayBack
<1>7. 2 * (layer.h * layer.w) < Words
  BY <1>2 DEF Sound
<1> QED
  BY <1>2, <1>3, <1>5, <1>6, <1>7 DEF Sound, HW, Kwg

\* The reads of a kernel row cover it exactly.
LEMMA KwgIs ==
  ASSUME LayersAssumption, UnitOK
  PROVE  Kwg \in Nat \ {0} /\ g.kw = Kwg * g.par
<1>1. g.kw \in Nat \ {0} /\ g.par \in Nat \ {0} /\ g.kw % g.par = 0
  BY UnitIs
<1>2. g.kw = g.par * (g.kw \div g.par) + (g.kw % g.par) /\ g.kw \div g.par \in Nat
  BY <1>1
<1>3. g.kw = g.par * (g.kw \div g.par)
  BY <1>1, <1>2
<1> QED
  BY <1>1, <1>2, <1>3 DEF Kwg

\* A place of the five counters.
IsPlace(q) == /\ q \in [1 .. 5 -> Nat]
              /\ q[1] < g.cg /\ q[2] < Kwg /\ q[3] < g.kh
              /\ q[4] < unit.ofm_w /\ q[5] < unit.ofm_h

\* The pixel a place reads in copy j, and whether there is one.
RowAt(q) == q[5] * g.sh + q[3] * g.dh - g.pt
ColAt(q, j) == q[4] * g.sw + (q[2] * g.par + j) * g.dw - g.pl
Seen(q, j) == RowAt(q) \in 0 .. g.h - 1 /\ ColAt(q, j) \in 0 .. g.w - 1
PixelAt(q, j) == RowAt(q) * g.w + ColAt(q, j)

\* The first pixel of the window and of the next row's first window, and the older.
HereAt(q) == AtLeastZero(q[5] * g.sh - g.pt) * g.w + AtLeastZero(q[4] * g.sw - g.pl)
NextAt(q) == AtLeastZero((q[5] + 1) * g.sh - g.pt) * g.w
OldestAt(q) == IF q[5] # unit.ofm_h - 1 /\ NextAt(q) < HereAt(q) THEN NextAt(q) ELSE HereAt(q)

LEMMA Clamped ==
  ASSUME NEW a \in Int
  PROVE  AtLeastZero(a) \in Nat /\ a <= AtLeastZero(a) /\ (a >= 0 => AtLeastZero(a) = a)
         /\ (a <= 0 => AtLeastZero(a) = 0)
BY DEF AtLeastZero, Larger

\* Cutting off at zero keeps the order.
LEMMA ClampedGrows ==
  ASSUME NEW a \in Int, NEW b \in Int, a <= b
  PROVE  AtLeastZero(a) <= AtLeastZero(b)
BY DEF AtLeastZero, Larger

\* Multiplying by what is not negative keeps the order.
LEMMA TimesGrows ==
  ASSUME NEW a \in Int, NEW b \in Int, NEW c \in Nat, a <= b
  PROVE  a * c <= b * c
<1>1. (b - a) * c >= 0
  OBVIOUS
<1> QED
  BY <1>1

\* A window that stays in the image begins in it.
LEMMA HereBelow ==
  ASSUME LayersAssumption, UnitOK, NEW q, IsPlace(q)
  PROVE  HereAt(q) \in 0 .. HW
<1> DEFINE r == AtLeastZero(q[5] * g.sh - g.pt)
           c == AtLeastZero(q[4] * g.sw - g.pl)
           R == AtLeastZero((unit.ofm_h - 1) * g.sh - g.pt)
           C == AtLeastZero((unit.ofm_w - 1) * g.sw - g.pl)
<1>1. /\ g.w \in Nat \ {0} /\ g.h \in Nat \ {0} /\ g.sh \in Nat /\ g.sw \in Nat
      /\ g.pt \in Nat /\ g.pl \in Nat
      /\ unit.ofm_h \in Nat \ {0} /\ unit.ofm_w \in Nat \ {0}
      /\ R * g.w + C <= HW
  BY UnitIs
<1>2. q[5] \in Nat /\ q[4] \in Nat /\ q[5] <= unit.ofm_h - 1 /\ q[4] <= unit.ofm_w - 1
  BY <1>1 DEF IsPlace
<1>3. q[5] * g.sh <= (unit.ofm_h - 1) * g.sh /\ q[4] * g.sw <= (unit.ofm_w - 1) * g.sw
  BY <1>1, <1>2, TimesGrows
<1>4. r <= R /\ c <= C
  BY <1>1, <1>2, <1>3, ClampedGrows
<1>5. r \in Nat /\ c \in Nat /\ R \in Nat /\ C \in Nat
  BY <1>1, <1>2, Clamped
<1> HIDE DEF r, c, R, C
<1>6. r * g.w <= R * g.w /\ r * g.w \in Nat
  BY <1>1, <1>4, <1>5, TimesGrows
<1>7. R * g.w \in Nat
  BY <1>1, <1>5
<1>8. HW \in Nat
  BY <1>1 DEF HW
<1>9. HereAt(q) = r * g.w + c
  BY DEF HereAt, r, c
<1> HIDE DEF HW
<1> QED
  BY <1>1, <1>4, <1>5, <1>6, <1>7, <1>8, <1>9

\* So does the first window of the next row.
LEMMA NextBelow ==
  ASSUME LayersAssumption, UnitOK, NEW q, IsPlace(q), q[5] # unit.ofm_h - 1
  PROVE  NextAt(q) \in 0 .. HW
<1> DEFINE r == AtLeastZero((q[5] + 1) * g.sh - g.pt)
           R == AtLeastZero((unit.ofm_h - 1) * g.sh - g.pt)
           C == AtLeastZero((unit.ofm_w - 1) * g.sw - g.pl)
<1>1. /\ g.w \in Nat \ {0} /\ g.h \in Nat \ {0} /\ g.sh \in Nat /\ g.sw \in Nat
      /\ g.pt \in Nat /\ g.pl \in Nat
      /\ unit.ofm_h \in Nat \ {0} /\ unit.ofm_w \in Nat \ {0}
      /\ R * g.w + C <= HW
  BY UnitIs
<1>2. q[5] \in Nat /\ q[5] + 1 <= unit.ofm_h - 1
  <2>1. q[5] \in Nat /\ q[5] < unit.ofm_h
    BY DEF IsPlace
  <2> QED
    BY <1>1, <2>1
<1>3. (q[5] + 1) * g.sh <= (unit.ofm_h - 1) * g.sh
  BY <1>1, <1>2, TimesGrows
<1>4. r <= R
  BY <1>1, <1>2, <1>3, ClampedGrows
<1>5. r \in Nat /\ R \in Nat /\ C \in Nat
  BY <1>1, <1>2, Clamped
<1> HIDE DEF r, R, C
<1>6. r * g.w <= R * g.w /\ r * g.w \in Nat
  BY <1>1, <1>4, <1>5, TimesGrows
<1>7. R * g.w \in Nat
  BY <1>1, <1>5
<1>8. HW \in Nat
  BY <1>1 DEF HW
<1>9. NextAt(q) = r * g.w
  BY DEF NextAt, r
<1> HIDE DEF HW
<1> QED
  BY <1>1, <1>4, <1>5, <1>6, <1>7, <1>8, <1>9

\* The oldest pixel the reader may still want is in the image, or just after it.
LEMMA OldestBelow ==
  ASSUME LayersAssumption, UnitOK, NEW q, IsPlace(q)
  PROVE  OldestAt(q) \in 0 .. HW /\ OldestAt(q) <= HereAt(q)
BY HereBelow, NextBelow DEF OldestAt

\* What a read needs is not older than the oldest pixel.
LEMMA SeenIsYoung ==
  ASSUME LayersAssumption, UnitOK, NEW q, IsPlace(q), NEW j \in Copies, Seen(q, j)
  PROVE  PixelAt(q, j) \in 0 .. HW - 1 /\ OldestAt(q) <= PixelAt(q, j)
<1> DEFINE r == AtLeastZero(q[5] * g.sh - g.pt)
           c == AtLeastZero(q[4] * g.sw - g.pl)
           row == RowAt(q)
           col == ColAt(q, j)
<1>1. /\ g.w \in Nat \ {0} /\ g.h \in Nat \ {0} /\ g.sh \in Nat /\ g.sw \in Nat
      /\ g.dh \in Nat /\ g.dw \in Nat /\ g.par \in Nat \ {0}
      /\ g.pt \in Nat /\ g.pl \in Nat
  BY UnitIs
<1>2. q[5] \in Nat /\ q[4] \in Nat /\ q[3] \in Nat /\ q[2] \in Nat /\ j \in Nat
  BY <1>1 DEF IsPlace, Copies
<1>3. row \in 0 .. g.h - 1 /\ col \in 0 .. g.w - 1
  BY DEF Seen
<1>4. q[5] * g.sh - g.pt \in Int /\ q[5] * g.sh - g.pt <= row
  <2>1. q[3] * g.dh \in Nat /\ q[5] * g.sh \in Nat
    BY <1>1, <1>2
  <2> QED
    BY <1>1, <2>1 DEF RowAt
<1>5. q[4] * g.sw - g.pl \in Int /\ q[4] * g.sw - g.pl <= col
  <2>1. q[2] * g.par + j \in Nat /\ q[4] * g.sw \in Nat
    BY <1>1, <1>2
  <2>2. (q[2] * g.par + j) * g.dw \in Nat
    BY <1>1, <2>1
  <2> QED
    BY <1>1, <2>1, <2>2 DEF ColAt
<1>6. r \in Nat /\ r <= row /\ c \in Nat /\ c <= col
  BY <1>3, <1>4, <1>5, Clamped
<1> HIDE DEF r, c, row, col
<1>7. row \in Int /\ row <= g.h - 1 /\ col \in Int
  BY <1>1, <1>3
<1>8. r * g.w <= row * g.w /\ row * g.w <= (g.h - 1) * g.w
  BY <1>1, <1>6, <1>7, TimesGrows
<1>9. row * g.w \in Nat /\ r * g.w \in Nat /\ (g.h - 1) * g.w = HW - g.w /\ HW \in Nat
  BY <1>1, <1>3, <1>6 DEF HW
<1>10. PixelAt(q, j) = row * g.w + col /\ HereAt(q) = r * g.w + c
  BY DEF PixelAt, HereAt, row, col, r, c
<1>11. PixelAt(q, j) \in 0 .. HW - 1 /\ HereAt(q) <= PixelAt(q, j)
  <2> HIDE DEF HW
  <2> QED
    BY <1>1, <1>3, <1>6, <1>8, <1>9, <1>10
<1> QED
  BY <1>11, OldestBelow, <1>9, HereBelow

-----------------------------------------------------------------------------
(* The comparison of wrapped positions, and the counters' next place.      *)

\* The unit's comparison of two wrapped positions picks the older of the two
\* (otf_swu_line.ml oldest).
LEMMA OldestIs ==
  ASSUME LayersAssumption, UnitOK, IsPlace(rd), NEW base \in Int, frame_base = base
  PROVE  Oldest = frame_base + OldestAt(rd)
<1>1. /\ g.w \in Nat \ {0} /\ g.h \in Nat \ {0} /\ g.sh \in Nat /\ g.sw \in Nat
      /\ g.pt \in Nat /\ g.pl \in Nat
      /\ unit.ofm_h \in Nat \ {0} /\ 2 * HW < Words
  BY UnitIs
<1>2. Words \in Nat \ {0} /\ Words % 2 = 0
  BY DEF LayersAssumption
<1>3. AtLeastZero(-g.pl) = 0
  <2>1. -g.pl \in Int /\ -g.pl <= 0
    BY <1>1
  <2> QED
    BY <2>1, Clamped
<1>4. HereAt(rd) \in 0 .. HW
  BY HereBelow
<1>5. OldestHere = base + HereAt(rd)
  <2> DEFINE x == AtLeastZero(rd[5] * g.sh - g.pt) * g.w
             y == AtLeastZero(rd[4] * g.sw - g.pl)
  <2>1. x \in Int /\ y \in Int
    <3>1. rd[5] \in Nat /\ rd[4] \in Nat
      BY DEF IsPlace
    <3>2. rd[5] * g.sh - g.pt \in Int /\ rd[4] * g.sw - g.pl \in Int
      BY <1>1, <3>1
    <3>3. AtLeastZero(rd[5] * g.sh - g.pt) \in Nat /\ y \in Nat
      BY <3>2, Clamped
    <3> QED
      BY <1>1, <3>3
  <2>2. OldestHere = base + x + y /\ HereAt(rd) = x + y
    BY DEF OldestHere, HereAt
  <2> HIDE DEF x, y
  <2> QED
    BY <2>1, <2>2
<1>6. CASE rd[5] = unit.ofm_h - 1
  BY <1>5, <1>6 DEF Oldest, OldestAt
<1>7. CASE rd[5] # unit.ofm_h - 1
  <2>1. NextAt(rd) \in 0 .. HW
    BY <1>7, NextBelow
  <2>2. OldestNext = base + NextAt(rd)
    <3> DEFINE x == AtLeastZero((rd[5] + 1) * g.sh - g.pt) * g.w
               y == AtLeastZero(-g.pl)
    <3>1. OldestNext = frame_base + x + y
      BY DEF OldestNext
    <3>3. NextAt(rd) = x
      BY DEF NextAt
    <3>2. y = 0 /\ x \in Nat
      BY <1>3, <2>1, <3>3
    <3> HIDE DEF x, y
    <3> QED
      BY <3>1, <3>2, <3>3
  <2>3. HW \in Nat
    BY <1>1 DEF HW
  <2>4. OldestNext - OldestHere = NextAt(rd) - HereAt(rd)
    <3> HIDE DEF HW
    <3> QED
      BY <1>4, <1>5, <2>1, <2>2, <2>3
  <2> DEFINE d == NextAt(rd) - HereAt(rd)
  <2>5. d \in Int /\ 2 * d < Words /\ -Words <= 2 * d
    <3> HIDE DEF HW
    <3> QED
      BY <1>1, <1>2, <1>4, <2>1, <2>3
  <2> HIDE DEF d
  <2>6. Signed(d) = d
    BY <1>2, <2>5, SignedSmall
  <2>8. Signed(OldestNext - OldestHere) < 0 <=> NextAt(rd) < HereAt(rd)
    <3>1. Signed(OldestNext - OldestHere) = d
      BY <2>4, <2>6 DEF d
    <3>2. d < 0 <=> NextAt(rd) < HereAt(rd)
      <4> HIDE DEF HW
      <4> QED
        BY <1>4, <2>1, <2>3 DEF d
    <3> QED
      BY <3>1, <3>2
  <2> QED
    BY <1>5, <1>7, <2>2, <2>8 DEF Oldest, OldestAt
<1> QED
  BY <1>6, <1>7

\* The place the counters have after one more beat.
Follows(q, r) ==
  \/ /\ q[1] # g.cg - 1 /\ r[1] = q[1] + 1
     /\ r[2] = q[2] /\ r[3] = q[3] /\ r[4] = q[4] /\ r[5] = q[5]
  \/ /\ q[1] = g.cg - 1 /\ q[2] # Kwg - 1 /\ r[1] = 0 /\ r[2] = q[2] + 1
     /\ r[3] = q[3] /\ r[4] = q[4] /\ r[5] = q[5]
  \/ /\ q[1] = g.cg - 1 /\ q[2] = Kwg - 1 /\ q[3] # g.kh - 1
     /\ r[1] = 0 /\ r[2] = 0 /\ r[3] = q[3] + 1 /\ r[4] = q[4] /\ r[5] = q[5]
  \/ /\ q[1] = g.cg - 1 /\ q[2] = Kwg - 1 /\ q[3] = g.kh - 1 /\ q[4] # unit.ofm_w - 1
     /\ r[1] = 0 /\ r[2] = 0 /\ r[3] = 0 /\ r[4] = q[4] + 1 /\ r[5] = q[5]
  \/ /\ q[1] = g.cg - 1 /\ q[2] = Kwg - 1 /\ q[3] = g.kh - 1 /\ q[4] = unit.ofm_w - 1
     /\ q[5] # unit.ofm_h - 1
     /\ r[1] = 0 /\ r[2] = 0 /\ r[3] = 0 /\ r[4] = 0 /\ r[5] = q[5] + 1

\* The first and the last place of an image.
IsFirst(r) == r[1] = 0 /\ r[2] = 0 /\ r[3] = 0 /\ r[4] = 0 /\ r[5] = 0
IsLast(q) == /\ q[1] = g.cg - 1 /\ q[2] = Kwg - 1 /\ q[3] = g.kh - 1 /\ q[4] = unit.ofm_w - 1
             /\ q[5] = unit.ofm_h - 1

\* When each of the five counters moves.
LEMMA StepsAre ==
  ASSUME LayersAssumption, UnitOK
  PROVE  /\ Steps(1)
         /\ Steps(2) <=> rd[1] = g.cg - 1
         /\ Steps(3) <=> rd[1] = g.cg - 1 /\ rd[2] = Kwg - 1
         /\ Steps(4) <=> rd[1] = g.cg - 1 /\ rd[2] = Kwg - 1 /\ rd[3] = g.kh - 1
         /\ Steps(5) <=> /\ rd[1] = g.cg - 1 /\ rd[2] = Kwg - 1 /\ rd[3] = g.kh - 1
                         /\ rd[4] = unit.ofm_w - 1
         /\ Steps(6) <=> IsLast(rd)
<1>1. unit.counts = <<g.cg, Kwg, g.kh, unit.ofm_w, unit.ofm_h>>
  BY UnitIs
<1> DEFINE last(k) == rd[k] = unit.counts[k] - 1
<1>2. /\ last(1) <=> rd[1] = g.cg - 1
      /\ last(2) <=> rd[2] = Kwg - 1
      /\ last(3) <=> rd[3] = g.kh - 1
      /\ last(4) <=> rd[4] = unit.ofm_w - 1
      /\ last(5) <=> rd[5] = unit.ofm_h - 1
  BY <1>1
<1>3. \A k \in 1 .. 6 : Steps(k) <=> \A j \in 1 .. k - 1 : last(j)
  BY DEF Steps
<1> HIDE DEF last
<1>4. /\ Steps(1)
      /\ Steps(2) <=> last(1)
      /\ Steps(3) <=> last(1) /\ last(2)
      /\ Steps(4) <=> last(1) /\ last(2) /\ last(3)
      /\ Steps(5) <=> last(1) /\ last(2) /\ last(3) /\ last(4)
      /\ Steps(6) <=> last(1) /\ last(2) /\ last(3) /\ last(4) /\ last(5)
  BY <1>3
<1> QED
  BY <1>2, <1>4 DEF IsLast

\* A beat takes the reader to the next place or, from the last, to the first
\* (otf_swu_line.ml rd_cg, kxg, ky, ow, oh).
LEMMA ReaderAdvances ==
  ASSUME LayersAssumption, UnitOK, IsPlace(rd),
         NEW r, r = [k \in 1 .. 5 |-> IF Steps(k) THEN Wrap(rd[k], unit.counts[k]) ELSE rd[k]]
  PROVE  IsPlace(r) /\ IF IsLast(rd) THEN IsFirst(r) ELSE Follows(rd, r)
<1>1. unit.counts = <<g.cg, Kwg, g.kh, unit.ofm_w, unit.ofm_h>>
  BY UnitIs
<1>2. /\ g.cg \in Nat \ {0} /\ g.kh \in Nat \ {0}
      /\ unit.ofm_w \in Nat \ {0} /\ unit.ofm_h \in Nat \ {0}
  BY UnitIs
<1>3. Kwg \in Nat \ {0}
  BY KwgIs
<1>4. rd \in [1 .. 5 -> Nat] /\ rd[1] \in 0 .. g.cg - 1 /\ rd[2] \in 0 .. Kwg - 1
      /\ rd[3] \in 0 .. g.kh - 1 /\ rd[4] \in 0 .. unit.ofm_w - 1 /\ rd[5] \in 0 .. unit.ofm_h - 1
  BY <1>2, <1>3 DEF IsPlace
<1>5. /\ r[1] = IF rd[1] = g.cg - 1 THEN 0 ELSE rd[1] + 1
      /\ r[2] = IF Steps(2) THEN (IF rd[2] = Kwg - 1 THEN 0 ELSE rd[2] + 1) ELSE rd[2]
      /\ r[3] = IF Steps(3) THEN (IF rd[3] = g.kh - 1 THEN 0 ELSE rd[3] + 1) ELSE rd[3]
      /\ r[4] = IF Steps(4) THEN (IF rd[4] = unit.ofm_w - 1 THEN 0 ELSE rd[4] + 1) ELSE rd[4]
      /\ r[5] = IF Steps(5) THEN (IF rd[5] = unit.ofm_h - 1 THEN 0 ELSE rd[5] + 1) ELSE rd[5]
      /\ DOMAIN r = 1 .. 5 /\ r = [k \in 1 .. 5 |-> r[k]]
  BY <1>1, StepsAre DEF Wrap
<1>6. \A k \in 1 .. 5 : r[k] \in Nat
  BY <1>2, <1>3, <1>4, <1>5
<1>7. IsPlace(r)
  BY <1>2, <1>3, <1>4, <1>5, <1>6 DEF IsPlace
<1>8. CASE IsLast(rd)
  BY <1>5, <1>7, <1>8, StepsAre DEF IsLast, IsFirst
<1>9. CASE ~IsLast(rd)
  <2> SUFFICES Follows(rd, r)
    BY <1>7, <1>9
  <2>1. CASE rd[1] # g.cg - 1
    BY <1>5, <2>1, StepsAre DEF Follows
  <2>2. CASE rd[1] = g.cg - 1 /\ rd[2] # Kwg - 1
    BY <1>5, <2>2, StepsAre DEF Follows
  <2>3. CASE rd[1] = g.cg - 1 /\ rd[2] = Kwg - 1 /\ rd[3] # g.kh - 1
    BY <1>5, <2>3, StepsAre DEF Follows
  <2>4. CASE /\ rd[1] = g.cg - 1 /\ rd[2] = Kwg - 1 /\ rd[3] = g.kh - 1
             /\ rd[4] # unit.ofm_w - 1
    BY <1>5, <2>4, StepsAre DEF Follows
  <2>5. CASE /\ rd[1] = g.cg - 1 /\ rd[2] = Kwg - 1 /\ rd[3] = g.kh - 1
             /\ rd[4] = unit.ofm_w - 1 /\ rd[5] # unit.ofm_h - 1
    BY <1>5, <2>5, StepsAre DEF Follows
  <2> QED
    BY <1>9, <2>1, <2>2, <2>3, <2>4, <2>5 DEF IsLast
<1> QED
  BY <1>8, <1>9

-----------------------------------------------------------------------------
(* What the reader lets go of.                                             *)

\* As the reader goes on, the oldest pixel it may want gets no older, within an
\* image and from one to the next: what it has let go of it never reads again.
LEMMA OldestGrows ==
  ASSUME LayersAssumption, UnitOK, NEW q, NEW r, IsPlace(q), IsPlace(r), Follows(q, r)
  PROVE  OldestAt(q) <= OldestAt(r)
<1>1. /\ g.w \in Nat \ {0} /\ g.h \in Nat \ {0} /\ g.sh \in Nat /\ g.sw \in Nat
      /\ g.pt \in Nat /\ g.pl \in Nat
      /\ unit.ofm_h \in Nat \ {0} /\ unit.ofm_w \in Nat \ {0}
  BY UnitIs
<1>2. HW \in Nat
  BY <1>1 DEF HW
<1>3. /\ HereAt(q) \in 0 .. HW /\ HereAt(r) \in 0 .. HW
      /\ q[5] # unit.ofm_h - 1 => NextAt(q) \in 0 .. HW
      /\ r[5] # unit.ofm_h - 1 => NextAt(r) \in 0 .. HW
  BY HereBelow, NextBelow
<1>4. q[4] \in Nat /\ q[5] \in Nat /\ q[5] < unit.ofm_h
  BY DEF IsPlace
<1>5. CASE r[4] = q[4] /\ r[5] = q[5]
  <2>1. HereAt(r) = HereAt(q) /\ NextAt(r) = NextAt(q)
    BY <1>5 DEF HereAt, NextAt
  <2>2. OldestAt(r) = OldestAt(q)
    BY <1>5, <2>1 DEF OldestAt
  <2>3. OldestAt(q) \in 0 .. HW
    BY OldestBelow
  <2> QED
    BY <1>2, <2>2, <2>3
<1>6. CASE r[4] = q[4] + 1 /\ r[5] = q[5]
  <2> DEFINE x == AtLeastZero(q[5] * g.sh - g.pt) * g.w
             c == AtLeastZero(q[4] * g.sw - g.pl)
             d == AtLeastZero((q[4] + 1) * g.sw - g.pl)
  <2>1. HereAt(r) = x + d /\ HereAt(q) = x + c /\ NextAt(r) = NextAt(q)
    BY <1>6 DEF HereAt, NextAt
  <2>2. q[4] * g.sw <= (q[4] + 1) * g.sw /\ q[4] * g.sw \in Int /\ (q[4] + 1) * g.sw \in Int
    BY <1>1, <1>4, TimesGrows
  <2>3. c <= d /\ c \in Nat /\ d \in Nat
    BY <1>1, <2>2, ClampedGrows, Clamped
  <2>4. x \in Nat
    <3>1. q[5] * g.sh - g.pt \in Int
      BY <1>1, <1>4
    <3>2. AtLeastZero(q[5] * g.sh - g.pt) \in Nat
      BY <3>1, Clamped
    <3> QED
      BY <1>1, <3>2
  <2> HIDE DEF x, c, d
  <2>5. HereAt(q) <= HereAt(r)
    BY <2>1, <2>3, <2>4
  <2> HIDE DEF HW
  <2>6. CASE q[5] = unit.ofm_h - 1
    BY <1>6, <2>5, <2>6 DEF OldestAt
  <2>7. CASE q[5] # unit.ofm_h - 1
    BY <1>2, <1>3, <1>6, <2>1, <2>5, <2>7 DEF OldestAt
  <2> QED
    BY <2>6, <2>7
<1>7. CASE r[4] = 0 /\ r[5] = q[5] + 1 /\ q[5] # unit.ofm_h - 1
  <2>1. AtLeastZero(r[4] * g.sw - g.pl) = 0
    <3>1. r[4] * g.sw - g.pl = -g.pl /\ -g.pl \in Int /\ -g.pl <= 0
      BY <1>1, <1>7
    <3> QED
      BY <3>1, Clamped
  <2>2. HereAt(r) = NextAt(q)
    <3> DEFINE x == AtLeastZero((q[5] + 1) * g.sh - g.pt) * g.w
               y == AtLeastZero(r[4] * g.sw - g.pl)
    <3>1. HereAt(r) = x + y /\ NextAt(q) = x
      BY <1>7 DEF HereAt, NextAt
    <3>2. x \in Nat /\ y = 0
      BY <1>3, <1>7, <2>1, <3>1
    <3> HIDE DEF x, y
    <3> QED
      BY <3>1, <3>2
  <2>3. r[5] # unit.ofm_h - 1 => NextAt(q) <= NextAt(r)
    <3> SUFFICES ASSUME r[5] # unit.ofm_h - 1 PROVE NextAt(q) <= NextAt(r)
      OBVIOUS
    <3> DEFINE a == AtLeastZero((q[5] + 1) * g.sh - g.pt)
               b == AtLeastZero((r[5] + 1) * g.sh - g.pt)
    <3>1. q[5] + 1 <= r[5] + 1 /\ q[5] + 1 \in Int /\ r[5] + 1 \in Int
      BY <1>4, <1>7
    <3>2. (q[5] + 1) * g.sh <= (r[5] + 1) * g.sh
      BY <1>1, <3>1, TimesGrows
    <3>3. a <= b /\ a \in Int /\ b \in Int
      BY <1>1, <3>1, <3>2, ClampedGrows, Clamped
    <3> HIDE DEF a, b
    <3>4. a * g.w <= b * g.w
      BY <1>1, <3>3, TimesGrows
    <3> QED
      BY <3>4 DEF NextAt, a, b
  <2> HIDE DEF HW
  <2>4. OldestAt(q) <= NextAt(q)
    BY <1>2, <1>3, <1>7 DEF OldestAt
  <2>5. NextAt(q) <= OldestAt(r)
    BY <1>2, <1>3, <1>7, <2>2, <2>3 DEF OldestAt
  <2>6. OldestAt(q) \in 0 .. HW /\ OldestAt(r) \in 0 .. HW
    BY OldestBelow
  <2> QED
    BY <1>2, <1>3, <1>7, <2>4, <2>5, <2>6
<1> QED
  BY <1>5, <1>6, <1>7 DEF Follows

-----------------------------------------------------------------------------
(* The places in the order of their beats.                                 *)

\* A place in one of two images: its window, the read in it, and its beat.
At(image, q) == image * Windows + (q[5] * unit.ofm_w + q[4])
Step(q)      == q[3] * Kwg + q[2]
Reads        == g.kh * Kwg
Index(image, q) == (At(image, q) * Reads + Step(q)) * g.cg + q[1]
Full == Windows * Reads * g.cg

\* The sizes are positive.
LEMMA Sizes ==
  ASSUME LayersAssumption, UnitOK
  PROVE  /\ Windows \in Nat \ {0} /\ Reads \in Nat \ {0} /\ g.cg \in Nat \ {0}
         /\ Full \in Nat \ {0} /\ HW \in Nat \ {0}
         /\ unit.ofm_w \in Nat \ {0} /\ unit.ofm_h \in Nat \ {0}
         /\ Kwg \in Nat \ {0} /\ g.kh \in Nat \ {0} /\ g.par \in Nat \ {0}
<1>1. /\ g.cg \in Nat \ {0} /\ unit.ofm_w \in Nat \ {0} /\ unit.ofm_h \in Nat \ {0}
      /\ g.kh \in Nat \ {0} /\ g.par \in Nat \ {0} /\ g.h \in Nat \ {0} /\ g.w \in Nat \ {0}
  BY UnitIs
<1>2. Kwg \in Nat \ {0}
  BY KwgIs
<1>3. Windows \in Nat \ {0} /\ Reads \in Nat \ {0} /\ HW \in Nat \ {0}
  BY <1>1, <1>2 DEF Windows, Reads, HW
<1>4. Full \in Nat \ {0}
  BY <1>1, <1>3 DEF Full
<1> QED
  BY <1>1, <1>2, <1>3, <1>4

\* The counters' values, and the numbers they make up, are in range.
LEMMA PlaceParts ==
  ASSUME LayersAssumption, UnitOK, NEW q, IsPlace(q)
  PROVE  /\ q[1] \in 0 .. g.cg - 1 /\ q[2] \in 0 .. Kwg - 1 /\ q[3] \in 0 .. g.kh - 1
         /\ q[4] \in 0 .. unit.ofm_w - 1 /\ q[5] \in 0 .. unit.ofm_h - 1
         /\ Step(q) \in 0 .. Reads - 1
         /\ q[5] * unit.ofm_w + q[4] \in 0 .. Windows - 1
<1>1. /\ q[1] \in 0 .. g.cg - 1 /\ q[2] \in 0 .. Kwg - 1 /\ q[3] \in 0 .. g.kh - 1
      /\ q[4] \in 0 .. unit.ofm_w - 1 /\ q[5] \in 0 .. unit.ofm_h - 1
  BY Sizes DEF IsPlace
<1>2. Step(q) \in 0 .. Reads - 1
  BY <1>1, Sizes, DigitsBelow DEF Step, Reads
<1>3. q[5] * unit.ofm_w + q[4] \in 0 .. Windows - 1
  BY <1>1, Sizes, DigitsBelow DEF Windows
<1> QED
  BY <1>1, <1>2, <1>3

\* The number of a place's beat among those of two images.
LEMMA IndexIn ==
  ASSUME LayersAssumption, UnitOK, NEW q, IsPlace(q), NEW image \in 0 .. 1
  PROVE  /\ At(image, q) \in 0 .. 2 * Windows - 1
         /\ Index(image, q) = image * Full + Index(0, q)
         /\ Index(0, q) \in 0 .. Full - 1
         /\ Index(image, q) \in 0 .. 2 * Full - 1
<1> DEFINE p == q[5] * unit.ofm_w + q[4]
           s == Step(q)
<1>1. /\ Windows \in Nat \ {0} /\ Reads \in Nat \ {0} /\ g.cg \in Nat \ {0}
      /\ Full \in Nat \ {0}
  BY Sizes
<1>2. p \in 0 .. Windows - 1 /\ s \in 0 .. Reads - 1 /\ q[1] \in 0 .. g.cg - 1
  BY PlaceParts
<1>3. /\ At(image, q) = image * Windows + p /\ At(0, q) = 0 * Windows + p
      /\ Index(image, q) = ((image * Windows + p) * Reads + s) * g.cg + q[1]
      /\ Index(0, q) = ((0 * Windows + p) * Reads + s) * g.cg + q[1]
  BY DEF At, Index
<1> HIDE DEF p, s
<1>4. 0 * Windows + p = p
  BY <1>1, <1>2
<1>5. p * Reads + s \in 0 .. Windows * Reads - 1 /\ Windows * Reads \in Nat
  BY <1>1, <1>2, DigitsBelow
<1>6. (p * Reads + s) * g.cg + q[1] \in 0 .. (Windows * Reads) * g.cg - 1
  BY <1>1, <1>2, <1>5, DigitsBelow
<1>7. Index(0, q) \in 0 .. Full - 1
  BY <1>3, <1>4, <1>6 DEF Full
<1>8. Index(image, q) = image * Full + Index(0, q)
  <2>1. ((image * Windows + p) * Reads + s) * g.cg + q[1]
           = image * (Windows * Reads * g.cg) + ((p * Reads + s) * g.cg + q[1])
    BY <1>1, <1>2
  <2> QED
    BY <1>3, <1>4, <2>1 DEF Full
<1>9. Index(image, q) \in 0 .. 2 * Full - 1
  <2>1. image = 0 \/ image = 1
    OBVIOUS
  <2> QED
    BY <1>1, <1>7, <1>8, <2>1
<1>10. At(image, q) \in 0 .. 2 * Windows - 1
  <2>1. image = 0 \/ image = 1
    OBVIOUS
  <2> QED
    BY <1>1, <1>2, <1>3, <2>1
<1> QED
  BY <1>7, <1>8, <1>9, <1>10

\* The next place has the next beat.
LEMMA IndexAfter ==
  ASSUME LayersAssumption, UnitOK, NEW q, IsPlace(q), NEW r, IsPlace(r), Follows(q, r)
  PROVE  Index(0, r) = Index(0, q) + 1
<1> DEFINE p == q[5] * unit.ofm_w + q[4]
           t == r[5] * unit.ofm_w + r[4]
           s == Step(q)
           u == Step(r)
<1>1. /\ Windows \in Nat \ {0} /\ Reads \in Nat \ {0} /\ g.cg \in Nat \ {0}
      /\ Kwg \in Nat \ {0} /\ g.kh \in Nat \ {0} /\ unit.ofm_w \in Nat \ {0}
      /\ unit.ofm_h \in Nat \ {0}
  BY Sizes
<1>2. /\ p \in 0 .. Windows - 1 /\ s \in 0 .. Reads - 1 /\ q[1] \in 0 .. g.cg - 1
      /\ q[2] \in 0 .. Kwg - 1 /\ q[3] \in 0 .. g.kh - 1
      /\ q[4] \in 0 .. unit.ofm_w - 1 /\ q[5] \in 0 .. unit.ofm_h - 1
      /\ t \in 0 .. Windows - 1 /\ u \in 0 .. Reads - 1 /\ r[1] \in 0 .. g.cg - 1
  BY PlaceParts
<1>3. /\ Index(0, q) = ((0 * Windows + p) * Reads + s) * g.cg + q[1]
      /\ Index(0, r) = ((0 * Windows + t) * Reads + u) * g.cg + r[1]
  BY DEF At, Index
<1>4. 0 * Windows + p = p /\ 0 * Windows + t = t
  BY <1>1, <1>2
<1>5. CASE q[1] # g.cg - 1
  <2>1. r[1] = q[1] + 1 /\ p = t /\ s = u
    BY <1>5 DEF Follows, Step
  <2> HIDE DEF p, t, s, u
  <2> QED
    BY <1>1, <1>2, <1>3, <1>4, <2>1
<1>6. CASE q[1] = g.cg - 1
  <2>1. \/ p = t /\ u = s + 1
        \/ s = Reads - 1 /\ u = 0 /\ t = p + 1
    <3>1. CASE q[2] # Kwg - 1
      <4>1. p = t
        BY <1>6, <3>1 DEF Follows
      <4>2. u = s + 1
        BY <1>1, <1>2, <1>6, <3>1 DEF Follows, Step
      <4> QED
        BY <4>1, <4>2
    <3>2. CASE q[2] = Kwg - 1 /\ q[3] # g.kh - 1
      <4>1. p = t
        BY <1>6, <3>2 DEF Follows
      <4>2. r[2] = 0 /\ r[3] = q[3] + 1
        BY <1>6, <3>2 DEF Follows
      <4>3. u = s + 1
        BY <1>1, <1>2, <3>2, <4>2 DEF Step
      <4> QED
        BY <4>1, <4>3
    <3>3. CASE q[2] = Kwg - 1 /\ q[3] = g.kh - 1
      <4>1. r[2] = 0 /\ r[3] = 0
        BY <1>6, <3>3 DEF Follows
      <4>2. u = 0 /\ s = Reads - 1
        BY <1>1, <3>3, <4>1 DEF Step, Reads
      <4>3. CASE q[4] # unit.ofm_w - 1
        <5>1. r[4] = q[4] + 1 /\ r[5] = q[5]
          BY <1>6, <3>3, <4>3 DEF Follows
        <5>2. t = p + 1
          BY <1>1, <1>2, <5>1
        <5> QED
          BY <4>2, <5>2
      <4>4. CASE q[4] = unit.ofm_w - 1
        <5>1. r[4] = 0 /\ r[5] = q[5] + 1
          BY <1>6, <3>3, <4>4 DEF Follows
        <5>2. t = p + 1
          BY <1>1, <1>2, <4>4, <5>1
        <5> QED
          BY <4>2, <5>2
      <4> QED
        BY <4>3, <4>4
    <3> QED
      BY <3>1, <3>2, <3>3
  <2>2. r[1] = 0
    BY <1>6 DEF Follows
  <2> HIDE DEF p, t, s, u
  <2>3. t * Reads + u = p * Reads + s + 1
    BY <1>1, <1>2, <2>1
  <2> DEFINE x == p * Reads + s
  <2>4. x \in Nat /\ t * Reads + u = x + 1 /\ p * Reads + s = x
    BY <1>1, <1>2, <2>3
  <2> HIDE DEF x
  <2> QED
    BY <1>1, <1>2, <1>3, <1>4, <1>6, <2>2, <2>4
<1> QED
  BY <1>5, <1>6

\* The first place has an image's first beat, the last its last.
LEMMA IndexEnds ==
  ASSUME LayersAssumption, UnitOK, NEW q, IsPlace(q), NEW r, IsPlace(r),
         IsLast(q), IsFirst(r)
  PROVE  Index(0, q) = Full - 1 /\ Index(0, r) = 0
<1>1. /\ Windows \in Nat \ {0} /\ Reads \in Nat \ {0} /\ g.cg \in Nat \ {0}
      /\ Kwg \in Nat \ {0} /\ g.kh \in Nat \ {0} /\ unit.ofm_w \in Nat \ {0}
      /\ unit.ofm_h \in Nat \ {0}
  BY Sizes
<1>2. q[5] * unit.ofm_w + q[4] = Windows - 1 /\ Step(q) = Reads - 1
  <2>1. q[5] * unit.ofm_w + q[4] = (unit.ofm_h - 1) * unit.ofm_w + (unit.ofm_w - 1)
        /\ Step(q) = (g.kh - 1) * Kwg + (Kwg - 1)
    BY DEF IsLast, Step
  <2> DEFINE a == unit.ofm_h
             b == unit.ofm_w
             c == g.kh
             d == Kwg
  <2>2. Windows = a * b /\ Reads = c * d
    BY DEF Windows, Reads
  <2>3. q[5] * unit.ofm_w + q[4] = (a - 1) * b + (b - 1) /\ Step(q) = (c - 1) * d + (d - 1)
    BY <2>1
  <2>4. a \in Nat /\ b \in Nat /\ c \in Nat /\ d \in Nat
    BY <1>1
  <2> HIDE DEF a, b, c, d
  <2>5. (a - 1) * b + (b - 1) = a * b - 1 /\ (c - 1) * d + (d - 1) = c * d - 1
    BY <2>4
  <2> QED
    BY <2>2, <2>3, <2>5
<1>3. At(0, q) = Windows - 1
  BY <1>1, <1>2 DEF At
<1>4. Index(0, q) = ((Windows - 1) * Reads + (Reads - 1)) * g.cg + (g.cg - 1)
  BY <1>2, <1>3 DEF Index, IsLast
<1>5. Index(0, q) = Full - 1
  <2>1. (Windows - 1) * Reads + (Reads - 1) = Windows * Reads - 1 /\ Windows * Reads \in Nat
    BY <1>1
  <2> DEFINE x == Windows * Reads
  <2>2. Index(0, q) = (x - 1) * g.cg + (g.cg - 1) /\ x \in Nat /\ Full = x * g.cg
    BY <1>4, <2>1 DEF Full
  <2> HIDE DEF x
  <2> QED
    BY <1>1, <2>2
<1>6. At(0, r) = 0 /\ Step(r) = 0
  BY <1>1 DEF IsFirst, At, Step
<1>7. Index(0, r) = 0
  BY <1>1, <1>6 DEF IsFirst, Index
<1> QED
  BY <1>5, <1>7

\* Numbers with the same digits are the same.
LEMMA SameDigits ==
  ASSUME NEW b \in Nat \ {0}, NEW a \in Nat, NEW n \in 0 .. b - 1, NEW c \in Nat, NEW m \in 0 .. b - 1,
         a * b + n = c * b + m
  PROVE  a = c /\ n = m
BY Digits

\* No two places have the same beat.
LEMMA IndexOne ==
  ASSUME LayersAssumption, UnitOK, NEW q, IsPlace(q), NEW r, IsPlace(r),
         Index(0, q) = Index(0, r)
  PROVE  r[1] = q[1] /\ r[2] = q[2] /\ r[3] = q[3] /\ r[4] = q[4] /\ r[5] = q[5]
<1> DEFINE p == q[5] * unit.ofm_w + q[4]
           t == r[5] * unit.ofm_w + r[4]
           s == Step(q)
           u == Step(r)
<1>1. /\ Windows \in Nat \ {0} /\ Reads \in Nat \ {0} /\ g.cg \in Nat \ {0}
      /\ Kwg \in Nat \ {0} /\ g.kh \in Nat \ {0} /\ unit.ofm_w \in Nat \ {0}
      /\ unit.ofm_h \in Nat \ {0}
  BY Sizes
<1>2. /\ p \in 0 .. Windows - 1 /\ s \in 0 .. Reads - 1 /\ q[1] \in 0 .. g.cg - 1
      /\ q[2] \in 0 .. Kwg - 1 /\ q[3] \in 0 .. g.kh - 1
      /\ q[4] \in 0 .. unit.ofm_w - 1 /\ q[5] \in 0 .. unit.ofm_h - 1
      /\ t \in 0 .. Windows - 1 /\ u \in 0 .. Reads - 1 /\ r[1] \in 0 .. g.cg - 1
      /\ r[2] \in 0 .. Kwg - 1 /\ r[3] \in 0 .. g.kh - 1
      /\ r[4] \in 0 .. unit.ofm_w - 1 /\ r[5] \in 0 .. unit.ofm_h - 1
  BY PlaceParts
<1>3. /\ Index(0, q) = ((0 * Windows + p) * Reads + s) * g.cg + q[1]
      /\ Index(0, r) = ((0 * Windows + t) * Reads + u) * g.cg + r[1]
  BY DEF At, Index
<1>4. 0 * Windows + p = p /\ 0 * Windows + t = t
  BY <1>1, <1>2
<1> DEFINE x == p * Reads + s
           y == t * Reads + u
<1>5. x * g.cg + q[1] = y * g.cg + r[1]
  BY <1>3, <1>4
<1>a. /\ p = q[5] * unit.ofm_w + q[4] /\ t = r[5] * unit.ofm_w + r[4]
      /\ s = q[3] * Kwg + q[2] /\ u = r[3] * Kwg + r[2]
  BY DEF Step
<1> HIDE DEF p, t, s, u
<1>6. x \in Nat /\ y \in Nat
  BY <1>1, <1>2
<1>b. x = p * Reads + s /\ y = t * Reads + u
  OBVIOUS
<1> HIDE DEF x, y
<1>7. x = y /\ q[1] = r[1]
  <2>1. g.cg \in Nat \ {0} /\ q[1] \in 0 .. g.cg - 1 /\ r[1] \in 0 .. g.cg - 1
    BY <1>1, <1>2
  <2> QED
    BY <1>5, <1>6, <2>1, SameDigits
<1>8. p * Reads + s = t * Reads + u /\ p \in Nat /\ t \in Nat
  <2>1. p * Reads + s = t * Reads + u
    BY <1>7, <1>b
  <2>2. p \in Nat /\ t \in Nat
    BY <1>1, <1>2
  <2> QED
    BY <2>1, <2>2
<1>9. p = t /\ s = u
  <2>1. Reads \in Nat \ {0} /\ s \in 0 .. Reads - 1 /\ u \in 0 .. Reads - 1
    BY <1>1, <1>2
  <2> QED
    BY <1>8, <2>1, SameDigits
<1>10. q[5] * unit.ofm_w + q[4] = r[5] * unit.ofm_w + r[4] /\ q[5] \in Nat /\ r[5] \in Nat
       /\ q[3] * Kwg + q[2] = r[3] * Kwg + r[2] /\ q[3] \in Nat /\ r[3] \in Nat
  <2>1. /\ q[5] * unit.ofm_w + q[4] = r[5] * unit.ofm_w + r[4]
        /\ q[3] * Kwg + q[2] = r[3] * Kwg + r[2]
    BY <1>9, <1>a
  <2>2. q[5] \in Nat /\ r[5] \in Nat /\ q[3] \in Nat /\ r[3] \in Nat
    BY <1>1, <1>2
  <2> QED
    BY <2>1, <2>2
<1>11. q[5] = r[5] /\ q[4] = r[4]
  <2>1. /\ unit.ofm_w \in Nat \ {0}
        /\ q[4] \in 0 .. unit.ofm_w - 1 /\ r[4] \in 0 .. unit.ofm_w - 1
    BY <1>1, <1>2
  <2> QED
    BY <1>10, <2>1, SameDigits
<1>12. q[3] = r[3] /\ q[2] = r[2]
  <2>1. Kwg \in Nat \ {0} /\ q[2] \in 0 .. Kwg - 1 /\ r[2] \in 0 .. Kwg - 1
    BY <1>1, <1>2
  <2>2. q[3] \in Nat /\ r[3] \in Nat /\ q[3] * Kwg + q[2] = r[3] * Kwg + r[2]
    BY <1>10
  <2>3. (q[3] * Kwg + q[2]) \div Kwg = q[3] /\ (q[3] * Kwg + q[2]) % Kwg = q[2]
    BY <2>1, <2>2, Digits
  <2>4. (r[3] * Kwg + r[2]) \div Kwg = r[3] /\ (r[3] * Kwg + r[2]) % Kwg = r[2]
    BY <2>1, <2>2, Digits
  <2> QED
    BY <2>2, <2>3, <2>4
<1> QED
  BY <1>7, <1>11, <1>12

-----------------------------------------------------------------------------
(* What numpy has at a place of the counters.                              *)

\* The beat that belongs at a place.
BeatAt(image, q) ==
  [j \in 1 .. g.par |->
     IF Seen(q, j - 1) THEN [pixel |-> image * HW + PixelAt(q, j - 1), cg |-> q[1]] ELSE Pad]

\* An element of a window, where numpy has it and where the unit's counters have it.
LEMMA ElementIs ==
  ASSUME LayersAssumption, UnitOK, NEW q, IsPlace(q), NEW image \in 0 .. 1, NEW j \in 1 .. g.par
  PROVE  Element(image, q[5], q[4], q[3], q[2] * g.par + j - 1, q[1])
           = IF Seen(q, j - 1) THEN [pixel |-> image * HW + PixelAt(q, j - 1), cg |-> q[1]] ELSE Pad
<1> DEFINE row == q[5] * g.sh + q[3] * g.dh - g.pt
           col == q[4] * g.sw + (q[2] * g.par + j - 1) * g.dw - g.pl
<1>1. /\ g.w \in Nat \ {0} /\ g.h \in Nat \ {0} /\ g.sh \in Nat /\ g.sw \in Nat
      /\ g.dh \in Nat /\ g.dw \in Nat /\ g.par \in Nat \ {0}
      /\ g.pt \in Nat /\ g.pl \in Nat
  BY UnitIs
<1>2. q[5] \in Nat /\ q[4] \in Nat /\ q[3] \in Nat /\ q[2] \in Nat /\ j \in Nat /\ q[1] \in Nat
  BY <1>1 DEF IsPlace
<1>3. q[2] * g.par + j - 1 = q[2] * g.par + (j - 1)
  BY <1>1, <1>2
<1>4. row = RowAt(q) /\ col = ColAt(q, j - 1)
  BY <1>3 DEF RowAt, ColAt
<1>5. RowAt(q) \in Int /\ ColAt(q, j - 1) \in Int
  <2>1. q[2] * g.par + (j - 1) \in Int
    BY <1>1, <1>2
  <2>2. (q[2] * g.par + (j - 1)) * g.dw \in Int /\ q[4] * g.sw \in Int
    BY <1>1, <1>2, <2>1
  <2>3. q[5] * g.sh + q[3] * g.dh \in Int
    BY <1>1, <1>2
  <2> DEFINE x == q[5] * g.sh + q[3] * g.dh
             y == q[4] * g.sw
             z == (q[2] * g.par + (j - 1)) * g.dw
  <2>4. RowAt(q) = x - g.pt
    BY <1>1, <1>2 DEF RowAt
  <2>6. ColAt(q, j - 1) = y + z - g.pl
    BY <1>1, <1>2, <2>2 DEF ColAt
  <2>5. x \in Int /\ y \in Int /\ z \in Int
    BY <2>2, <2>3
  <2> HIDE DEF x, y, z
  <2> QED
    BY <1>1, <2>4, <2>5, <2>6
<1>6. Element(image, q[5], q[4], q[3], q[2] * g.par + j - 1, q[1])
        = IF row \in 0 .. g.h - 1 /\ col \in 0 .. g.w - 1
          THEN [pixel |-> image * g.h * g.w + row * g.w + col, cg |-> q[1]] ELSE Pad
  BY DEF Element
<1> HIDE DEF row, col
<1>7. image * g.h * g.w + row * g.w + col = image * HW + PixelAt(q, j - 1)
  <2> DEFINE x == RowAt(q)
             y == ColAt(q, j - 1)
  <2>1. PixelAt(q, j - 1) = x * g.w + y /\ x \in Int /\ y \in Int
    BY <1>5 DEF PixelAt
  <2>2. row = x /\ col = y
    BY <1>4
  <2> HIDE DEF x, y
  <2> QED
    BY <1>1, <2>1, <2>2 DEF HW
<1> QED
  BY <1>4, <1>6, <1>7 DEF Seen

\* numpy's beat of a number is what belongs at the place that has it (Im2Col.apply).
LEMMA WindowBeatIs ==
  ASSUME LayersAssumption, UnitOK, NEW q, IsPlace(q), NEW image \in 0 .. 1
  PROVE  WindowBeat(Index(image, q)) = BeatAt(image, q)
<1> DEFINE n == Index(image, q)
           a == At(image, q)
           s == Step(q)
           p == q[5] * unit.ofm_w + q[4]
           beats == g.cg * (Window \div g.par)
<1>1. /\ Windows \in Nat \ {0} /\ Reads \in Nat \ {0} /\ g.cg \in Nat \ {0}
      /\ Kwg \in Nat \ {0} /\ g.kh \in Nat \ {0} /\ unit.ofm_w \in Nat \ {0}
      /\ unit.ofm_h \in Nat \ {0} /\ g.par \in Nat \ {0}
  BY Sizes
<1>2. /\ p \in 0 .. Windows - 1 /\ s \in 0 .. Reads - 1 /\ q[1] \in 0 .. g.cg - 1
      /\ q[2] \in 0 .. Kwg - 1 /\ q[3] \in 0 .. g.kh - 1
      /\ q[4] \in 0 .. unit.ofm_w - 1 /\ q[5] \in 0 .. unit.ofm_h - 1
  BY PlaceParts
<1>3. n = (a * Reads + s) * g.cg + q[1] /\ a = image * Windows + p
  BY DEF Index, At
<1>4. a \in Nat
  <2> HIDE DEF a, p
  <2>1. image \in Nat /\ p \in Nat
    BY <1>1, <1>2
  <2> QED
    BY <1>1, <1>3, <2>1
<1>5. Window \div g.par = Reads
  <2>1. g.kw = Kwg * g.par
    BY KwgIs
  <2>2. Window = Reads * g.par + 0
    <3>1. Window = g.kh * (Kwg * g.par)
      BY <2>1 DEF Window
    <3> QED
      BY <1>1, <3>1 DEF Reads
  <2>3. (Reads * g.par + 0) \div g.par = Reads
    <3>1. 0 \in 0 .. g.par - 1 /\ Reads \in Nat /\ g.par \in Nat \ {0}
      BY <1>1
    <3> QED
      BY <3>1, Digits
  <2> QED
    BY <2>2, <2>3
<1>6. beats = Reads * g.cg /\ beats \in Nat \ {0}
  BY <1>1, <1>5
<1> DEFINE rest == s * g.cg + q[1]
<1>7. rest \in 0 .. Reads * g.cg - 1
  BY <1>1, <1>2, DigitsBelow
<1>8. n = a * beats + rest
  <2> HIDE DEF n, a, s, beats
  <2> QED
    BY <1>1, <1>2, <1>3, <1>4, <1>6
<1>9. n \div beats = a /\ n % beats = rest
  <2>1. rest \in 0 .. beats - 1
    BY <1>6, <1>7
  <2> HIDE DEF n, a, rest, beats
  <2> QED
    BY <1>4, <1>6, <1>8, <2>1, Digits
<1>10. rest \div g.cg = s /\ n % g.cg = q[1]
  <2>1. s \in Nat
    BY <1>1, <1>2
  <2> DEFINE x == a * Reads + s
  <2>2. x \in Nat /\ n = x * g.cg + q[1]
    BY <1>1, <1>3, <1>4, <2>1
  <2> HIDE DEF n, a, s, x
  <2> QED
    BY <1>1, <1>2, <2>1, <2>2, Digits
<1>11. ImageOf(a) = image /\ YOf(a) = q[5] /\ XOf(a) = q[4]
  <2>1. a = image * Windows + p /\ image \in Nat
    BY <1>3
  <2>2. p = q[5] * unit.ofm_w + q[4] /\ q[5] \in Nat
    BY <1>1, <1>2
  <2> HIDE DEF a, p
  <2>3. a \div Windows = image /\ a % Windows = p
    <3>1. image \in Nat /\ Windows \in Nat \ {0} /\ p \in 0 .. Windows - 1
      BY <1>1, <1>2
    <3>2. (image * Windows + p) \div Windows = image /\ (image * Windows + p) % Windows = p
      BY <3>1, Digits
    <3> QED
      BY <2>1, <3>2
  <2>4. p \div unit.ofm_w = q[5] /\ p % unit.ofm_w = q[4]
    <3>1. unit.ofm_w \in Nat \ {0} /\ q[4] \in 0 .. unit.ofm_w - 1
      BY <1>1, <1>2
    <3> DEFINE x == q[5] * unit.ofm_w + q[4]
    <3>2. x \div unit.ofm_w = q[5] /\ x % unit.ofm_w = q[4]
      BY <2>2, <3>1, Digits
    <3> QED
      BY <2>2, <3>2
  <2> QED
    BY <2>3, <2>4 DEF ImageOf, YOf, XOf
<1>12. (s * g.par) \div g.kw = q[3] /\ (s * g.par) % g.kw = q[2] * g.par
  <2>1. g.kw = Kwg * g.par /\ g.kw \in Nat \ {0}
    BY <1>1, KwgIs
  <2>2. q[2] * g.par + 0 \in 0 .. Kwg * g.par - 1
    BY <1>1, <1>2, DigitsBelow
  <2>3. s * g.par = q[3] * g.kw + q[2] * g.par
    <3>1. s = q[3] * Kwg + q[2]
      BY DEF Step
    <3> HIDE DEF s
    <3> QED
      BY <1>1, <1>2, <2>1, <3>1
  <2> DEFINE y == q[2] * g.par
             z == s * g.par
  <2>4. y \in 0 .. g.kw - 1 /\ z = q[3] * g.kw + y /\ q[3] \in Nat
    BY <1>1, <1>2, <2>1, <2>2, <2>3
  <2> HIDE DEF y, z
  <2>5. z \div g.kw = q[3] /\ z % g.kw = y
    BY <2>1, <2>4, Digits
  <2> QED
    BY <2>5 DEF y, z
<1>13. WindowBeat(n) = [j \in 1 .. g.par |->
           Element(ImageOf(n \div beats), YOf(n \div beats), XOf(n \div beats),
                   (((n % beats) \div g.cg) * g.par) \div g.kw,
                   ((((n % beats) \div g.cg) * g.par) % g.kw) + j - 1, n % g.cg)]
  BY DEF WindowBeat
<1> HIDE DEF n, a, s, p, beats, rest
<1>14. WindowBeat(n) = [j \in 1 .. g.par |->
           Element(image, q[5], q[4], q[3], q[2] * g.par + j - 1, q[1])]
  BY <1>9, <1>10, <1>11, <1>12, <1>13
<1> QED
  BY <1>14, ElementIs DEF BeatAt, n

-----------------------------------------------------------------------------
(* The registers, against counters that never wrap: P pixels are written,  *)
(* F images are read, and the consumer is at beat x of two images.         *)

\* P whole pixels and `group` groups of the next are written.
Written(P, pixel, group, off) ==
  /\ pixel = P % Words /\ group \in 0 .. g.cg - 1
  /\ off = (P % (2 * HW)) * g.cg + group

\* Group c of pixel n is written and not yet overwritten.
InForce(P, group, n, c) ==
  /\ n < P \/ (n = P /\ c < group)
  /\ n + unit.depth > P \/ (n + unit.depth = P /\ c >= group)

\* The buffer holds what is in force.
InBuffer(P, group, memory) ==
  /\ DOMAIN memory = 0 .. unit.depth * g.cg - 1 /\ memory = [a \in DOMAIN memory |-> memory[a]]
  /\ \A n \in Nat, c \in 0 .. g.cg - 1 :
       InForce(P, group, n, c) =>
         memory[(n % unit.depth) * g.cg + c] = [pixel |-> n % (2 * HW), cg |-> c]

\* The writer's limit: the pixel that would overwrite the oldest one wanted.
Limit(F, q) == F * HW + OldestAt(q) + unit.depth

\* The writer has not passed it.
Room(P, group, F, q) == P <= Limit(F, q) /\ (P = Limit(F, q) => group = 0)

\* The previous image, and what was read of this one, is written: a read of a
\* pixel is never more than an image ahead of the writer.
Covered(P, F, q) ==
  \A p \in [1 .. 5 -> Nat], j \in Copies :
    IsPlace(p) /\ Seen(p, j) =>
      /\ F > 0 => (F - 1) * HW + PixelAt(p, j) < P
      /\ Index(0, p) < Index(0, q) => F * HW + PixelAt(p, j) < P

\* The beat on the output and the reader's place follow one another.
Shown(F, x, q, valid, data) ==
  /\ valid \in BOOLEAN /\ x \in 0 .. 2 * Full - 1
  /\ Index(F % 2, q) = IF valid THEN (x + 1) % (2 * Full) ELSE x
  /\ valid => data = WindowBeat(x)

\* The unit.
UnitInv(P, F, x) ==
  /\ UnitOK
  /\ Written(P, wr_pixel, wr_cg, offered)
  /\ InBuffer(P, wr_cg, buffer)
  /\ frame_base = (F * HW) % Words /\ IsPlace(rd)
  /\ Room(P, wr_cg, F, rd)
  /\ Covered(P, F, rd)
  /\ Shown(F, x, rd, ovalid, odata)

\* Wrapping to a word first changes nothing when the depth divides the word.
LEMMA ModMod ==
  ASSUME NEW d \in Nat \ {0}, NEW m \in Nat \ {0}, m % d = 0, NEW n \in Nat
  PROVE  (n % m) % d = n % d
<1>1. PICK k \in Int : n = k * m + (n % m) /\ (n % m) \in 0 .. m - 1
  <2>1. n \in Int /\ m \in Nat \ {0}
    OBVIOUS
  <2>2. n = (n \div m) * m + (n % m) /\ (n % m) \in 0 .. m - 1 /\ n \div m \in Int
    BY <2>1, Parts
  <2> QED
    BY <2>2
<1>2. PICK l \in Int : m = l * d + (m % d) /\ (m % d) \in 0 .. d - 1
  <2>1. m \in Int /\ d \in Nat \ {0}
    OBVIOUS
  <2>2. m = (m \div d) * d + (m % d) /\ (m % d) \in 0 .. d - 1 /\ m \div d \in Int
    BY <2>1, Parts
  <2> QED
    BY <2>2
<1> DEFINE r == n % m
<1>3. r \in Int
  BY <1>1
<1>a. n = k * m + r
  BY <1>1
<1> HIDE DEF r
<1>4. PICK i \in Int : r = i * d + (r % d) /\ (r % d) \in 0 .. d - 1
  <2>1. r \in Int /\ d \in Nat \ {0}
    BY <1>3
  <2>2. r = (r \div d) * d + (r % d) /\ (r % d) \in 0 .. d - 1 /\ r \div d \in Int
    BY <2>1, Parts
  <2> QED
    BY <2>2
<1>5. m = l * d
  BY <1>2
<1>6. n = (k * l + i) * d + (r % d) /\ k * l + i \in Int
  BY <1>4, <1>5, <1>a
<1>7. n % d = r % d
  BY <1>4, <1>6, ModIs
<1> QED
  BY <1>7 DEF r

\* A pixel's name: its place in the image, and which of two images it is in.
LEMMA TwoFrames ==
  ASSUME NEW H \in Nat \ {0}, NEW F \in Nat, NEW p \in 0 .. H - 1
  PROVE  (F * H + p) % (2 * H) = (F % 2) * H + p /\ F % 2 \in 0 .. 1
<1>1. PICK k \in Int : F = k * 2 + (F % 2) /\ (F % 2) \in 0 .. 1
  BY Parts
<1> DEFINE b == F % 2
<1>2. b = 0 \/ b = 1
  BY <1>1
<1>a. F = k * 2 + b
  BY <1>1
<1> HIDE DEF b
<1>3. b * H + p \in 0 .. 2 * H - 1
  BY <1>2
<1>4. F * H + p = k * (2 * H) + (b * H + p)
  BY <1>2, <1>a
<1>5. 2 * H \in Nat \ {0}
  OBVIOUS
<1>6. (k * (2 * H) + (b * H + p)) % (2 * H) = b * H + p
  BY <1>3, <1>5, ModIs
<1> QED
  BY <1>2, <1>4, <1>6 DEF b

\* Two pixels less than a depth apart are not in the same slot.
LEMMA SameSlot ==
  ASSUME NEW d \in Nat \ {0}, NEW a \in Nat, NEW b \in Nat, a % d = b % d, b - d < a, a <= b
  PROVE  a = b
<1>1. PICK i \in Int : a = i * d + (a % d) /\ (a % d) \in 0 .. d - 1
  <2>1. a \in Int /\ d \in Nat \ {0}
    OBVIOUS
  <2>2. a = (a \div d) * d + (a % d) /\ (a % d) \in 0 .. d - 1 /\ a \div d \in Int
    BY <2>1, Parts
  <2> QED
    BY <2>2
<1>2. PICK j \in Int : b = j * d + (b % d) /\ (b % d) \in 0 .. d - 1
  <2>1. b \in Int /\ d \in Nat \ {0}
    OBVIOUS
  <2>2. b = (b \div d) * d + (b % d) /\ (b % d) \in 0 .. d - 1 /\ b \div d \in Int
    BY <2>1, Parts
  <2> QED
    BY <2>2
<1>3. b - a = (j - i) * d
  BY <1>1, <1>2
<1>4. CASE j - i >= 1
  <2>1. 1 * d <= (j - i) * d
    BY <1>4, TimesGrows
  <2> QED
    BY <1>3, <2>1
<1>5. CASE j - i <= -1
  <2>1. (j - i) * d <= (-1) * d
    BY <1>5, TimesGrows
  <2> QED
    BY <1>3, <2>1
<1>6. CASE j - i = 0
  BY <1>3, <1>6
<1> QED
  BY <1>4, <1>5, <1>6

\* The unit only takes a beat when the buffer has room for its pixel.
LEMMA WritesIntoRoom ==
  ASSUME LayersAssumption, NEW P \in Nat, NEW F \in Nat, NEW x, UnitInv(P, F, x), CanWrite
  PROVE  P < Limit(F, rd)
<1>1. Words \in Nat \ {0} /\ Words % 2 = 0
  BY DEF LayersAssumption
<1>2. UnitOK /\ IsPlace(rd) /\ frame_base = (F * HW) % Words /\ wr_pixel = P % Words
      /\ P <= Limit(F, rd)
  BY DEF UnitInv, Written, Room
<1>3. unit.depth \in Nat \ {0} /\ 2 * unit.depth < Words /\ HW \in Nat
  BY <1>2, UnitIs, Sizes
<1>4. OldestAt(rd) \in Nat
  BY <1>2, <1>3, OldestBelow
<1> DEFINE B == F * HW
           O == OldestAt(rd)
           D == unit.depth
<1>5. B \in Nat
  BY <1>3
<1>6. PICK k \in Int : B = k * Words + (B % Words) /\ (B % Words) \in 0 .. Words - 1
  <2>1. B \in Int /\ Words \in Nat \ {0}
    BY <1>1, <1>5
  <2>2. B = (B \div Words) * Words + (B % Words) /\ (B % Words) \in 0 .. Words - 1 /\ B \div Words \in Int
    BY <2>1, Parts
  <2> QED
    BY <2>2
<1>7. PICK l \in Int : P = l * Words + (P % Words) /\ (P % Words) \in 0 .. Words - 1
  <2>1. P \in Int /\ Words \in Nat \ {0}
    BY <1>1
  <2>2. P = (P \div Words) * Words + (P % Words) /\ (P % Words) \in 0 .. Words - 1 /\ P \div Words \in Int
    BY <2>1, Parts
  <2> QED
    BY <2>2
<1>8. frame_base \in Int
  BY <1>2, <1>6
<1>9. Oldest = frame_base + O
  BY <1>2, <1>8, OldestIs
<1> SUFFICES ASSUME P = B + O + D PROVE FALSE
  <2>1. Limit(F, rd) = B + O + D
    BY DEF Limit
  <2> HIDE DEF B, O, D
  <2> QED
    BY <1>2, <2>1, <1>3, <1>4, <1>5 DEF O, D
<1>10. B = k * Words + frame_base /\ P = l * Words + wr_pixel /\ wr_pixel \in Int
  BY <1>2, <1>6, <1>7
<1>11. D \in Nat /\ O \in Nat /\ 2 * D < Words
  BY <1>3, <1>4
<1>12. ~(Signed(wr_pixel - Oldest) < D)
  <2> HIDE DEF B, O, D
  <2> DEFINE y == wr_pixel - Oldest
  <2>1. y = D + (k - l) * Words /\ k - l \in Int
    BY <1>1, <1>5, <1>8, <1>9, <1>10, <1>11
  <2> HIDE DEF y
  <2>2. D \in Int /\ -Words <= 2 * D
    BY <1>1, <1>11
  <2>3. Signed(D + (k - l) * Words) = D
    BY <1>1, <1>11, <2>1, <2>2, SignedIs
  <2>4. Signed(y) = D
    BY <2>1, <2>3
  <2> QED
    BY <1>11, <2>4 DEF y
<1> QED
  BY <1>12 DEF CanWrite

\* The unit's view of its counters' place.
LEMMA ViewIs ==
  ASSUME NEW j
  PROVE  /\ InView(j) <=> Seen(rd, j)
         /\ Row = RowAt(rd) /\ Col(j) = ColAt(rd, j)
BY DEF InView, Seen, Row, Col, RowAt, ColAt

\* The wrapped position a read asks for is that of its pixel.
LEMMA NeededIs ==
  ASSUME LayersAssumption, NEW P \in Nat, NEW F \in Nat, NEW x, UnitInv(P, F, x),
         NEW j \in Copies, Seen(rd, j)
  PROVE  Needed(j) = (F * HW + PixelAt(rd, j)) % Words
<1>1. Words \in Nat \ {0}
  BY DEF LayersAssumption
<1>2. UnitOK /\ IsPlace(rd) /\ frame_base = (F * HW) % Words
  BY DEF UnitInv
<1>3. HW \in Nat /\ g.w \in Nat
  BY <1>2, UnitIs, Sizes
<1>4. RowAt(rd) \in Int /\ ColAt(rd, j) \in Int
  BY DEF Seen
<1> DEFINE B == F * HW
           y == RowAt(rd) * g.w
           z == ColAt(rd, j)
<1>5. B \in Int /\ y \in Int /\ z \in Int
  BY <1>3, <1>4
<1>6. Needed(j) = ((B % Words) + y + z) % Words
  BY <1>2, ViewIs DEF Needed
<1>7. PixelAt(rd, j) = y + z
  BY DEF PixelAt
<1> HIDE DEF B, y, z
<1>8. (B % Words) + y + z = (B % Words) + (y + z)
  BY <1>1, <1>5
<1>9. ((B % Words) + (y + z)) % Words = (B + (y + z)) % Words
  <2>1. y + z \in Int
    BY <1>5
  <2> QED
    BY <1>1, <1>5, <2>1, ModSum
<1> QED
  BY <1>6, <1>7, <1>8, <1>9 DEF B

\* The unit only reads pixels that are written.
LEMMA ReadsWritten ==
  ASSUME LayersAssumption, NEW P \in Nat, NEW F \in Nat, NEW x, UnitInv(P, F, x),
         ReadOk, NEW j \in Copies, Seen(rd, j)
  PROVE  F * HW + PixelAt(rd, j) < P
<1>1. Words \in Nat \ {0} /\ Words % 2 = 0
  BY DEF LayersAssumption
<1>2. UnitOK /\ IsPlace(rd) /\ wr_pixel = P % Words /\ Covered(P, F, rd)
  BY DEF UnitInv, Written
<1>3. 2 * HW < Words /\ HW \in Nat \ {0}
  BY <1>2, UnitIs, Sizes
<1> DEFINE p == PixelAt(rd, j)
           n == F * HW + p
<1>4. p \in 0 .. HW - 1
  BY <1>2, SeenIsYoung
<1>5. F > 0 => (F - 1) * HW + p < P
  <2>1. rd \in [1 .. 5 -> Nat]
    BY <1>2 DEF IsPlace
  <2> QED
    BY <1>2, <2>1 DEF Covered
<1>6. Needed(j) = n % Words
  BY NeededIs
<1>7. Signed(Needed(j) - wr_pixel) < 0
  BY ViewIs DEF ReadOk
<1>8. p \in Nat /\ p < HW
  BY <1>3, <1>4
<1>9. n \in Nat /\ n - P < HW
  <2> HIDE DEF p
  <2>1. F * HW \in Nat
    BY <1>3
  <2>2. CASE F = 0
    BY <1>3, <1>8, <2>2
  <2>3. CASE F > 0
    <3>1. (F - 1) * HW = F * HW - HW
      BY <1>3
    <3> QED
      BY <1>3, <1>5, <1>8, <2>1, <2>3, <3>1
  <2> QED
    BY <2>2, <2>3
<1>a. n = F * HW + PixelAt(rd, j)
  OBVIOUS
<1> HIDE DEF n
<1> SUFFICES ASSUME n >= P PROVE FALSE
  BY <1>9, <1>a
<1>10. n = (n \div Words) * Words + (n % Words) /\ n \div Words \in Int /\ n % Words \in Int
  BY <1>1, <1>9, Parts
<1>11. P = (P \div Words) * Words + (P % Words) /\ P \div Words \in Int /\ P % Words \in Int
  BY <1>1, Parts
<1> DEFINE d == n - P
           k == (P \div Words) - (n \div Words)
<1>12. d \in Int /\ d >= 0 /\ 2 * d < Words /\ -Words <= 2 * d
  BY <1>1, <1>3, <1>9
<1>13. Needed(j) - wr_pixel = d + k * Words /\ k \in Int
  BY <1>1, <1>2, <1>6, <1>9, <1>10, <1>11
<1> HIDE DEF d, k
<1>14. Signed(d + k * Words) = d
  BY <1>1, <1>12, <1>13, SignedIs
<1> QED
  BY <1>7, <1>12, <1>13, <1>14

\* What a read finds in the buffer is the pixel it is after.
LEMMA ReadsThePixel ==
  ASSUME LayersAssumption, NEW P \in Nat, NEW F \in Nat, NEW x, UnitInv(P, F, x),
         NEW j \in Copies, Seen(rd, j), F * HW + PixelAt(rd, j) < P
  PROVE  buffer[Address(Needed(j), rd[1])]
           = [pixel |-> (F % 2) * HW + PixelAt(rd, j), cg |-> rd[1]]
<1>1. Words \in Nat \ {0}
  BY DEF LayersAssumption
<1>2. UnitOK /\ IsPlace(rd) /\ InBuffer(P, wr_cg, buffer) /\ Room(P, wr_cg, F, rd)
      /\ wr_cg \in 0 .. g.cg - 1
  BY DEF UnitInv, Written
<1>3. HW \in Nat \ {0} /\ unit.depth \in Nat \ {0} /\ Words % unit.depth = 0
      /\ g.cg \in Nat \ {0}
  BY <1>2, UnitIs, Sizes
<1> DEFINE p == PixelAt(rd, j)
           n == F * HW + p
           B == F * HW
           O == OldestAt(rd)
           D == unit.depth
<1>4. p \in 0 .. HW - 1 /\ O <= p
  BY <1>2, SeenIsYoung
<1>5. O \in Nat
  BY <1>2, <1>3, OldestBelow
<1>6. p \in Nat /\ B \in Nat /\ n = B + p /\ n \in Nat
  BY <1>3, <1>4
<1>7. Needed(j) = n % Words
  BY NeededIs
<1>8. Address(Needed(j), rd[1]) = (n % D) * g.cg + rd[1]
  <2> HIDE DEF n
  <2>1. (n % Words) % D = n % D
    BY <1>1, <1>3, <1>6, ModMod
  <2> QED
    BY <1>7, <2>1 DEF Address
<1>9. P <= B + O + D /\ (P = B + O + D => wr_cg = 0)
  BY <1>2 DEF Room, Limit
<1>10. rd[1] \in 0 .. g.cg - 1
  BY <1>2, PlaceParts
<1>11. n < P
  OBVIOUS
<1>12. InForce(P, wr_cg, n, rd[1])
  <2>1. n + D >= B + O + D
    <3> HIDE DEF p, B, O, D
    <3> QED
      BY <1>3, <1>4, <1>5, <1>6 DEF D
  <2>2. D \in Nat /\ wr_cg \in Int /\ rd[1] \in Nat /\ O \in Nat /\ B \in Nat /\ n \in Nat
    BY <1>2, <1>3, <1>5, <1>6, <1>10
  <2> HIDE DEF p, B, O, n
  <2> QED
    BY <1>9, <1>11, <2>1, <2>2 DEF InForce
<1>13. buffer[(n % D) * g.cg + rd[1]] = [pixel |-> n % (2 * HW), cg |-> rd[1]]
  <2> HIDE DEF n
  <2> QED
    BY <1>2, <1>6, <1>10, <1>12 DEF InBuffer
<1>14. n % (2 * HW) = (F % 2) * HW + p
  BY <1>3, <1>4, TwoFrames
<1> QED
  BY <1>8, <1>13, <1>14

-----------------------------------------------------------------------------
(* A clock edge: the writer, then the reader.                              *)

\* One beat more of two images of them.
Onward(x) == (x + 1) % (2 * Full)

Gone(x, ready) == IF ovalid /\ ready THEN Onward(x) ELSE x

\* A beat is put into the buffer behind the ones it holds.
LEMMA WriteKeeps ==
  ASSUME LayersAssumption, NEW P \in Nat, NEW F \in Nat, NEW x, UnitInv(P, F, x),
         NEW valid \in BOOLEAN, NEW ready, SwuClock(valid, Beat(offered), ready),
         offered' = IF valid /\ CanWrite THEN (offered + 1) % (2 * Image) ELSE offered
  PROVE  \E Q \in Nat : /\ P <= Q /\ Written(Q, wr_pixel', wr_cg', offered')
                        /\ InBuffer(Q, wr_cg', buffer') /\ Room(Q, wr_cg', F, rd)
<1>1. /\ UnitOK /\ IsPlace(rd) /\ Written(P, wr_pixel, wr_cg, offered)
      /\ InBuffer(P, wr_cg, buffer) /\ Room(P, wr_cg, F, rd)
  BY DEF UnitInv
<1>2. HW \in Nat \ {0} /\ unit.depth \in Nat \ {0} /\ g.cg \in Nat \ {0}
      /\ Words % unit.depth = 0
  BY <1>1, UnitIs, Sizes
<1>3. Words \in Nat \ {0}
  BY DEF LayersAssumption
<1>4. wr_pixel = P % Words /\ wr_cg \in 0 .. g.cg - 1
      /\ offered = (P % (2 * HW)) * g.cg + wr_cg
  BY <1>1 DEF Written
<1>5. CASE ~(valid /\ CanWrite)
  <2>1. wr_pixel' = wr_pixel /\ wr_cg' = wr_cg /\ buffer' = buffer /\ offered' = offered
    BY <1>5 DEF SwuClock
  <2>2. P <= P
    OBVIOUS
  <2> QED
    BY <1>1, <2>1, <2>2
<1>6. CASE valid /\ CanWrite
  <2> DEFINE last == wr_cg = g.cg - 1
             Q == IF last THEN P + 1 ELSE P
             D == unit.depth
             G == g.cg
             T == 2 * HW
             R == P % T
  <2>1. /\ wr_cg' = IF last THEN 0 ELSE wr_cg + 1
        /\ wr_pixel' = IF last THEN (wr_pixel + 1) % Words ELSE wr_pixel
        /\ buffer' = [buffer EXCEPT ![Address(wr_pixel, wr_cg)] = Beat(offered)]
        /\ offered' = (offered + 1) % (2 * Image)
    BY <1>6 DEF SwuClock, Wrap
  <2>2. P < Limit(F, rd)
    BY <1>6, WritesIntoRoom
  <2>3. Q \in Nat /\ P <= Q
    <3>1. last => Q = P + 1
      OBVIOUS
    <3>2. ~last => Q = P
      OBVIOUS
    <3> HIDE DEF Q, last
    <3> QED
      BY <3>1, <3>2
  <2>4. wr_cg' \in 0 .. G - 1
    <3>1. wr_cg \in 0 .. G - 1 /\ G \in Nat \ {0}
      BY <1>2, <1>4
    <3>2. CASE last
      BY <2>1, <3>1, <3>2
    <3>3. CASE ~last
      <4>1. wr_cg' = wr_cg + 1 /\ wr_cg # G - 1
        BY <2>1, <3>3
      <4> QED
        BY <3>1, <4>1
    <3> QED
      BY <3>2, <3>3
  <2>a. T \in Nat \ {0} /\ R \in 0 .. T - 1 /\ D \in Nat \ {0} /\ G \in Nat \ {0}
    BY <1>2
  <2>5. wr_pixel' = Q % Words
    <3>1. CASE last
      <4>1. ((P % Words) + 1) % Words = (P + 1) % Words
        <5>1. P \in Int /\ 1 \in Int
          OBVIOUS
        <5> QED
          BY <1>3, <5>1, ModSum
      <4> QED
        BY <1>4, <2>1, <3>1, <4>1
    <3>2. CASE ~last
      BY <1>4, <2>1, <3>2
    <3> QED
      BY <3>1, <3>2
  <2>6. Beat(offered) = [pixel |-> R, cg |-> wr_cg]
    <3>1. R \in Nat
      BY <2>a
    <3> HIDE DEF R
    <3>2. (R * G + wr_cg) \div G = R /\ (R * G + wr_cg) % G = wr_cg
      BY <1>4, <2>a, <3>1, Digits
    <3>3. offered = R * G + wr_cg
      BY <1>4 DEF R
    <3> QED
      BY <3>2, <3>3 DEF Beat
  <2>7. offered' = (Q % T) * G + wr_cg'
    <3>1. 2 * Image = T * G /\ T * G \in Nat \ {0}
      BY <1>2 DEF Image, HW
    <3>2. CASE ~last
      <4>1. R * G + (wr_cg + 1) \in 0 .. T * G - 1
        <5>0. wr_cg \in 0 .. G - 1 /\ G \in Nat /\ wr_cg # G - 1
          BY <1>4, <2>a, <3>2
        <5>1. wr_cg + 1 \in 0 .. G - 1
          BY <5>0
        <5>2. R \in 0 .. T - 1 /\ T \in Nat /\ G \in Nat \ {0}
          BY <2>a
        <5> DEFINE e == wr_cg + 1
        <5>3. e \in 0 .. G - 1
          BY <5>1
        <5> HIDE DEF R, T, G, e
        <5>4. R * G + e \in 0 .. T * G - 1
          BY <5>2, <5>3, DigitsBelow
        <5> QED
          BY <5>4 DEF e
      <4>2. offered + 1 = R * G + (wr_cg + 1)
        <5>1. R \in Int /\ G \in Int /\ wr_cg \in Int
          BY <1>4, <2>a
        <5> QED
          BY <1>4, <5>1
      <4> DEFINE y == offered + 1
      <4>3. y \in 0 .. T * G - 1
        BY <4>1, <4>2
      <4> HIDE DEF y, T, G
      <4>4. y % (T * G) = y
        BY <3>1, <4>3
      <4> QED
        BY <2>1, <3>1, <3>2, <4>2, <4>4 DEF y, G
    <3>3. CASE last
      <4>1. offered + 1 = (R + 1) * G
        <5>1. R \in Int /\ G \in Int
          BY <2>a
        <5>2. offered = R * G + wr_cg /\ wr_cg = G - 1
          BY <1>4, <3>3
        <5> HIDE DEF R, G
        <5>3. offered = R * G + (G - 1)
          BY <5>2
        <5> QED
          BY <5>1, <5>3
      <4>2. Q % T = (R + 1) % T
        <5> HIDE DEF T
        <5>0. P \in Int /\ 1 \in Int /\ T \in Nat \ {0}
          BY <2>a
        <5>1. ((P % T) + 1) % T = (P + 1) % T
          BY <5>0, ModSum
        <5> QED
          BY <3>3, <5>1
      <4>3. CASE R = T - 1
        <5> HIDE DEF R, T, G
        <5>1. (R + 1) % T = 0 /\ R + 1 = T
          BY <2>a, <4>3
        <5>2. (T * G) % (T * G) = 0
          BY <3>1
        <5> QED
          BY <2>1, <2>a, <3>1, <3>3, <4>1, <4>2, <5>1, <5>2
      <4>4. CASE R # T - 1
        <5> HIDE DEF R, T, G
        <5>1. (R + 1) % T = R + 1 /\ R + 1 \in 0 .. T - 1
          BY <2>a, <4>4
        <5> DEFINE y == R + 1
        <5>2. y * G + 0 \in 0 .. T * G - 1
          <6>1. y \in 0 .. T - 1 /\ 0 \in 0 .. G - 1 /\ T \in Nat
            BY <2>a, <5>1
          <6> HIDE DEF y
          <6> QED
            BY <2>a, <6>1, DigitsBelow
        <5>3. y * G + 0 = y * G /\ y * G \in Int
          BY <2>a
        <5> DEFINE z == y * G
        <5>4. z \in 0 .. T * G - 1
          BY <5>2, <5>3
        <5> HIDE DEF z
        <5>5. z % (T * G) = z
          BY <3>1, <5>4
        <5>6. z + 0 = z
          BY <5>3 DEF z
        <5> QED
          BY <2>1, <3>1, <3>3, <4>1, <4>2, <5>1, <5>5, <5>6 DEF z
      <4> QED
        BY <4>3, <4>4
    <3> QED
      BY <3>2, <3>3
  <2>8. Written(Q, wr_pixel', wr_cg', offered')
    BY <2>4, <2>5, <2>7 DEF Written
  <2>9. Room(Q, wr_cg', F, rd)
    <3>1. Limit(F, rd) \in Int
      <4>1. OldestAt(rd) \in Int /\ F * HW \in Int /\ D \in Int
        BY <1>1, <1>2, OldestBelow
      <4> QED
        BY <4>1 DEF Limit
    <3> DEFINE L == Limit(F, rd)
    <3>2. P < L /\ L \in Int
      BY <2>2, <3>1
    <3> HIDE DEF L
    <3>3. Q <= L /\ (Q = L => last)
      BY <3>2
    <3> QED
      BY <2>1, <3>3 DEF Room, L
  <2>10. Address(wr_pixel, wr_cg) = (P % D) * G + wr_cg
    <3>1. (P % Words) % D = P % D
      BY <1>2, <1>3, ModMod
    <3> QED
      BY <1>4, <3>1 DEF Address
  <2>11. InBuffer(Q, wr_cg', buffer')
    <3> DEFINE at == (P % D) * G + wr_cg
    <3>1. /\ DOMAIN buffer = 0 .. D * G - 1 /\ buffer = [a \in DOMAIN buffer |-> buffer[a]]
          /\ \A n \in Nat, c \in 0 .. G - 1 :
               InForce(P, wr_cg, n, c) => buffer[(n % D) * G + c] = [pixel |-> n % T, cg |-> c]
      BY <1>1 DEF InBuffer
    <3>2. P % D \in 0 .. D - 1
      BY <2>a
    <3>3. at \in 0 .. D * G - 1
      <4> DEFINE r == P % D
      <4> HIDE DEF r, D, G
      <4> QED
        BY <1>4, <2>a, <3>2, DigitsBelow DEF r, G
    <3>4. /\ DOMAIN buffer' = 0 .. D * G - 1 /\ buffer' = [a \in DOMAIN buffer' |-> buffer'[a]]
          /\ buffer'[at] = [pixel |-> R, cg |-> wr_cg]
          /\ \A a \in 0 .. D * G - 1 : a # at => buffer'[a] = buffer[a]
      <4> DEFINE b == Beat(offered)
      <4>1. buffer' = [buffer EXCEPT ![at] = b]
        BY <2>1, <2>10
      <4>2. b = [pixel |-> R, cg |-> wr_cg]
        BY <2>6
      <4> HIDE DEF at, b, D, G
      <4> QED
        BY <3>1, <3>3, <4>1, <4>2
    <3> SUFFICES ASSUME NEW n \in Nat, NEW c \in 0 .. G - 1, InForce(Q, wr_cg', n, c)
                 PROVE  buffer'[(n % D) * G + c] = [pixel |-> n % T, cg |-> c]
      BY <3>4 DEF InBuffer
    <3>5. c \in Nat /\ wr_cg \in Nat /\ c <= G - 1 /\ wr_cg <= G - 1
      BY <1>4, <2>a
    <3>6. /\ n < Q \/ (n = Q /\ c < wr_cg')
          /\ n + D > Q \/ (n + D = Q /\ c >= wr_cg')
      BY DEF InForce
    <3>7. CASE n = P /\ c = wr_cg
      BY <3>4, <3>7
    <3>8. CASE ~(n = P /\ c = wr_cg)
      <4>1. /\ n < P \/ (n = P /\ c < wr_cg)
            /\ n + D > P \/ (n + D = P /\ c > wr_cg)
        <5>1. CASE last
          BY <2>1, <2>a, <3>5, <3>6, <3>8, <5>1
        <5>2. CASE ~last
          BY <2>1, <2>a, <3>5, <3>6, <3>8, <5>2
        <5> QED
          BY <5>1, <5>2
      <4>2. InForce(P, wr_cg, n, c)
        BY <3>5, <4>1 DEF InForce
      <4>3. n % D \in 0 .. D - 1
        BY <2>a
      <4>4. (n % D) * G + c \in 0 .. D * G - 1
        <5> DEFINE r == n % D
        <5> HIDE DEF r, D, G
        <5> QED
          BY <2>a, <4>3, DigitsBelow DEF r
      <4>5. (n % D) * G + c # at
        <5> SUFFICES ASSUME (n % D) * G + c = at PROVE FALSE
          OBVIOUS
        <5>1. n % D = P % D /\ c = wr_cg
          <6> DEFINE r == n % D
                     s == P % D
          <6>1. r \in Nat /\ s \in Nat /\ r * G + c = s * G + wr_cg
            BY <2>a, <3>2, <4>3
          <6> HIDE DEF r, s, G, D
          <6>2. r = s /\ c = wr_cg
            BY <1>4, <2>a, <6>1, SameDigits DEF G
          <6> QED
            BY <6>2 DEF r, s
        <5>2. n < P /\ n + D > P
          BY <2>a, <3>5, <4>1, <5>1
        <5>3. P - D < n /\ n <= P
          BY <2>a, <5>2
        <5>4. n = P
          BY <2>a, <5>1, <5>3, SameSlot
        <5> QED
          BY <3>8, <5>1, <5>4
      <4>6. buffer[(n % D) * G + c] = [pixel |-> n % T, cg |-> c]
        BY <3>1, <4>2
      <4> QED
        BY <3>4, <4>4, <4>5, <4>6
    <3> QED
      BY <3>7, <3>8
  <2> QED
    BY <2>3, <2>8, <2>9, <2>11
<1> QED
  BY <1>5, <1>6

\* A beat that leaves the buffer is the one numpy has at the reader's place.
LEMMA EmitsInOrder ==
  ASSUME LayersAssumption, NEW P \in Nat, NEW F \in Nat, NEW x, UnitInv(P, F, x),
         NEW valid, NEW data, NEW ready, SwuClock(valid, data, ready), Emit(ready)
  PROVE  odata' = WindowBeat(Index(F % 2, rd)) /\ F % 2 \in 0 .. 1
<1>1. UnitOK /\ IsPlace(rd)
  BY DEF UnitInv
<1>2. HW \in Nat \ {0} /\ g.par \in Nat \ {0}
  BY <1>1, UnitIs, Sizes
<1>3. F % 2 \in 0 .. 1
  <2>1. F \in Int /\ 2 \in Nat \ {0}
    OBVIOUS
  <2>2. (F % 2) \in 0 .. 2 - 1
    BY <2>1, Parts
  <2> QED
    BY <2>2
<1>4. odata' = [j \in 1 .. g.par |->
                  IF InView(j - 1) THEN buffer[Address(Needed(j - 1), rd[1])] ELSE Pad]
  BY DEF SwuClock
<1>5. \A j \in 1 .. g.par :
        (IF InView(j - 1) THEN buffer[Address(Needed(j - 1), rd[1])] ELSE Pad)
          = IF Seen(rd, j - 1)
            THEN [pixel |-> (F % 2) * HW + PixelAt(rd, j - 1), cg |-> rd[1]] ELSE Pad
  <2> SUFFICES ASSUME NEW j \in 1 .. g.par, Seen(rd, j - 1)
               PROVE  buffer[Address(Needed(j - 1), rd[1])]
                        = [pixel |-> (F % 2) * HW + PixelAt(rd, j - 1), cg |-> rd[1]]
    BY ViewIs
  <2> DEFINE i == j - 1
  <2>1. i \in Copies
    BY <1>2 DEF Copies
  <2>2. Seen(rd, i) /\ ReadOk
    BY DEF Emit
  <2> HIDE DEF i
  <2>3. F * HW + PixelAt(rd, i) < P
    BY <2>1, <2>2, ReadsWritten
  <2>4. buffer[Address(Needed(i), rd[1])]
          = [pixel |-> (F % 2) * HW + PixelAt(rd, i), cg |-> rd[1]]
    BY <2>1, <2>2, <2>3, ReadsThePixel
  <2> QED
    BY <2>4 DEF i
<1>6. odata' = BeatAt(F % 2, rd)
  BY <1>4, <1>5 DEF BeatAt
<1> QED
  BY <1>1, <1>3, <1>6, WindowBeatIs

\* The reader's next place: the next one of the image, or the first of the next image.
LEMMA NextPlace ==
  ASSUME LayersAssumption, NEW P \in Nat, NEW F \in Nat, NEW x, UnitInv(P, F, x),
         NEW valid, NEW data, NEW ready, SwuClock(valid, data, ready), Emit(ready)
  PROVE  /\ IsPlace(rd')
         /\ \/ /\ IsLast(rd) /\ IsFirst(rd')
               /\ frame_base' = ((F + 1) * HW) % Words
            \/ Follows(rd, rd') /\ frame_base' = frame_base /\ ~IsLast(rd)
<1>1. UnitOK /\ IsPlace(rd) /\ frame_base = (F * HW) % Words
  BY DEF UnitInv
<1>2. Words \in Nat \ {0}
  BY DEF LayersAssumption
<1>3. HW \in Nat
  BY <1>1, Sizes
<1>4. rd' = [k \in 1 .. 5 |-> IF Steps(k) THEN Wrap(rd[k], unit.counts[k]) ELSE rd[k]]
  BY DEF SwuClock
<1> DEFINE r == rd'
<1>5. IsPlace(r) /\ IF IsLast(rd) THEN IsFirst(r) ELSE Follows(rd, r)
  <2>1. r = [k \in 1 .. 5 |-> IF Steps(k) THEN Wrap(rd[k], unit.counts[k]) ELSE rd[k]]
    BY <1>4
  <2> HIDE DEF r
  <2> QED
    BY <1>1, <2>1, ReaderAdvances
<1>6. frame_base' = IF Steps(6) THEN (frame_base + g.h * g.w) % Words ELSE frame_base
  BY DEF SwuClock
<1>7. Steps(6) <=> IsLast(rd)
  BY <1>1, StepsAre
<1>8. (frame_base + g.h * g.w) % Words = ((F + 1) * HW) % Words
  <2> DEFINE B == F * HW
  <2>1. B \in Int /\ HW \in Int
    BY <1>3
  <2> HIDE DEF B
  <2>2. ((B % Words) + HW) % Words = (B + HW) % Words
    BY <1>2, <2>1, ModSum
  <2>3. B + HW = (F + 1) * HW
    BY <1>3 DEF B
  <2>4. frame_base + g.h * g.w = (B % Words) + HW
    BY <1>1 DEF B, HW
  <2> QED
    BY <2>2, <2>3, <2>4
<1> QED
  BY <1>5, <1>6, <1>7, <1>8

\* What the reader needs never gets older.
LEMMA LimitGrows ==
  ASSUME LayersAssumption, UnitOK, IsPlace(rd), NEW F \in Nat, NEW r, IsPlace(r)
  PROVE  /\ Limit(F, rd) \in Int /\ Limit(F, r) \in Int
         /\ Follows(rd, r) => Limit(F, rd) <= Limit(F, r)
         /\ Limit(F, rd) <= Limit(F + 1, r) /\ Limit(F + 1, r) \in Int
<1>1. HW \in Nat /\ unit.depth \in Nat
  BY UnitIs, Sizes
<1>2. OldestAt(rd) \in 0 .. HW /\ OldestAt(r) \in 0 .. HW
  BY OldestBelow
<1>3. Follows(rd, r) => OldestAt(rd) <= OldestAt(r)
  BY OldestGrows
<1> DEFINE B == F * HW
           O == OldestAt(rd)
           N == OldestAt(r)
           D == unit.depth
<1>4. B \in Nat /\ (F + 1) * HW = B + HW
  BY <1>1
<1>5. /\ Limit(F, rd) = B + O + D /\ Limit(F, r) = B + N + D
      /\ Limit(F + 1, r) = (F + 1) * HW + N + D
  BY DEF Limit
<1>6. O \in Nat /\ N \in Nat /\ O <= HW /\ D \in Nat /\ (Follows(rd, r) => O <= N)
  BY <1>1, <1>2, <1>3
<1> HIDE DEF B, O, N, D
<1> QED
  BY <1>1, <1>4, <1>5, <1>6

\* Once a place is read, its pixels are written, in this image and so in all before.
LEMMA CoverGrows ==
  ASSUME LayersAssumption, NEW P \in Nat, NEW F \in Nat, NEW x, UnitInv(P, F, x), ReadOk,
         NEW r, IsPlace(r), NEW Q \in Nat, P <= Q
  PROVE  /\ Follows(rd, r) => Covered(Q, F, r)
         /\ IsLast(rd) /\ IsFirst(r) => Covered(Q, F + 1, r)
<1>1. UnitOK /\ IsPlace(rd) /\ Covered(P, F, rd)
  BY DEF UnitInv
<1>2. HW \in Nat
  BY <1>1, Sizes
<1>3. ASSUME NEW p \in [1 .. 5 -> Nat], NEW j \in Copies, IsPlace(p), Seen(p, j),
             Index(0, p) < Index(0, rd) + 1
      PROVE  F * HW + PixelAt(p, j) < Q
  <2>1. PixelAt(p, j) \in Nat /\ F * HW \in Nat
    <3>1. PixelAt(p, j) \in 0 .. HW - 1
      BY <1>1, <1>3, SeenIsYoung
    <3> QED
      BY <1>2, <3>1
  <2>2. F * HW + PixelAt(p, j) < P
    <3>1. Index(0, p) \in Int /\ Index(0, rd) \in Int
      <4>1. 0 \in 0 .. 1
        OBVIOUS
      <4> QED
        BY <1>1, <1>3, <4>1, IndexIn, Sizes
    <3>2. CASE Index(0, p) = Index(0, rd)
      <4>1. rd[1] = p[1] /\ rd[2] = p[2] /\ rd[3] = p[3] /\ rd[4] = p[4] /\ rd[5] = p[5]
        BY <1>1, <1>3, <3>2, IndexOne
      <4>2. Seen(rd, j) /\ PixelAt(rd, j) = PixelAt(p, j)
        BY <1>3, <4>1 DEF Seen, PixelAt, RowAt, ColAt
      <4>3. F * HW + PixelAt(rd, j) < P
        BY <1>3, <4>2, ReadsWritten
      <4> QED
        BY <4>2, <4>3
    <3>3. CASE Index(0, p) # Index(0, rd)
      <4>1. Index(0, p) < Index(0, rd)
        BY <1>3, <3>1, <3>3
      <4> QED
        BY <1>1, <1>3, <4>1 DEF Covered
    <3> QED
      BY <3>2, <3>3
  <2> QED
    BY <2>1, <2>2
<1>4. ASSUME Follows(rd, r)
      PROVE  Covered(Q, F, r)
  <2>1. Index(0, r) = Index(0, rd) + 1
    BY <1>1, <1>4, IndexAfter
  <2> SUFFICES ASSUME NEW p \in [1 .. 5 -> Nat], NEW j \in Copies, IsPlace(p), Seen(p, j)
               PROVE  /\ F > 0 => (F - 1) * HW + PixelAt(p, j) < Q
                      /\ Index(0, p) < Index(0, r) => F * HW + PixelAt(p, j) < Q
    BY DEF Covered
  <2>2. Index(0, p) < Index(0, r) => F * HW + PixelAt(p, j) < Q
    BY <1>3, <2>1
  <2>3. F > 0 => (F - 1) * HW + PixelAt(p, j) < Q
    <3> SUFFICES ASSUME F > 0 PROVE (F - 1) * HW + PixelAt(p, j) < Q
      OBVIOUS
    <3>1. (F - 1) * HW + PixelAt(p, j) < P
      BY <1>1 DEF Covered
    <3>2. (F - 1) * HW \in Int /\ PixelAt(p, j) \in Int
      <4>1. PixelAt(p, j) \in 0 .. HW - 1
        BY <1>1, SeenIsYoung
      <4> QED
        BY <1>2, <4>1
    <3> QED
      BY <3>1, <3>2
  <2> QED
    BY <2>2, <2>3
<1>5. ASSUME IsLast(rd), IsFirst(r)
      PROVE  Covered(Q, F + 1, r)
  <2>1. Index(0, rd) = Full - 1 /\ Index(0, r) = 0
    BY <1>1, <1>5, IndexEnds
  <2> SUFFICES ASSUME NEW p \in [1 .. 5 -> Nat], NEW j \in Copies, IsPlace(p), Seen(p, j)
               PROVE  /\ (F + 1 - 1) * HW + PixelAt(p, j) < Q
                      /\ ~(Index(0, p) < Index(0, r))
    BY DEF Covered
  <2>2. Index(0, p) \in 0 .. Full - 1 /\ Full \in Nat
    <3>1. 0 \in 0 .. 1
      OBVIOUS
    <3> QED
      BY <1>1, <3>1, IndexIn, Sizes
  <2>3. F * HW + PixelAt(p, j) < Q
    <3>1. Index(0, p) < Index(0, rd) + 1
      BY <2>1, <2>2
    <3> QED
      BY <1>3, <3>1
  <2>4. F + 1 - 1 = F
    OBVIOUS
  <2> QED
    BY <2>1, <2>2, <2>3, <2>4
<1> QED
  BY <1>4, <1>5

\* The reader's next beat is the stream's next one, into the next image too.
LEMMA IndexOnward ==
  ASSUME LayersAssumption, UnitOK, IsPlace(rd), NEW F \in Nat, NEW r, IsPlace(r)
  PROVE  /\ Follows(rd, r) => Index(F % 2, r) = Onward(Index(F % 2, rd))
         /\ IsLast(rd) /\ IsFirst(r) => Index((F + 1) % 2, r) = Onward(Index(F % 2, rd))
<1>1. Full \in Nat \ {0}
  BY Sizes
<1>2. \/ F % 2 = 0 /\ (F + 1) % 2 = 1
      \/ F % 2 = 1 /\ (F + 1) % 2 = 0
  <2> DEFINE b == F % 2
             k == F \div 2
  <2>1. F \in Int /\ 2 \in Nat \ {0}
    OBVIOUS
  <2>2. F = k * 2 + b /\ b \in 0 .. 1 /\ k \in Int
    BY <2>1, Parts
  <2> HIDE DEF b, k
  <2>3. CASE b = 0
    <3>1. F + 1 = k * 2 + 1 /\ 1 \in 0 .. 2 - 1 /\ k \in Int /\ 2 \in Nat \ {0}
      BY <2>2, <2>3
    <3>2. (k * 2 + 1) % 2 = 1
      BY <3>1, ModIs
    <3>3. F % 2 = 0
      BY <2>3 DEF b
    <3>4. (F + 1) % 2 = 1
      BY <3>1, <3>2
    <3> QED
      BY <3>3, <3>4
  <2>4. CASE b = 1
    <3>1. F + 1 = (k + 1) * 2 + 0 /\ 0 \in 0 .. 2 - 1 /\ k + 1 \in Int
      BY <2>2, <2>4
    <3>2. ((k + 1) * 2 + 0) % 2 = 0
      BY <2>1, <3>1, ModIs
    <3> QED
      BY <2>4, <3>1, <3>2 DEF b
  <2> QED
    BY <2>2, <2>3, <2>4
<1>3. 0 \in 0 .. 1 /\ 1 \in 0 .. 1
  OBVIOUS
<1>4. /\ Index(0, rd) \in 0 .. Full - 1 /\ Index(0, r) \in 0 .. Full - 1
      /\ Index(1, rd) = 1 * Full + Index(0, rd) /\ Index(1, r) = 1 * Full + Index(0, r)
  BY <1>3, IndexIn
<1> DEFINE a == Index(0, rd)
           b == Index(0, r)
<1>a. ~(IsLast(rd) /\ Follows(rd, r))
  BY DEF IsLast, Follows
<1>5. CASE Follows(rd, r)
  <2> SUFFICES Index(F % 2, r) = Onward(Index(F % 2, rd))
    BY <1>5, <1>a
  <2>1. b = a + 1
    BY <1>5, IndexAfter
  <2>2. CASE F % 2 = 0
    <3>1. Onward(a) = b
      <4>1. a + 1 \in 0 .. 2 * Full - 1
        BY <1>1, <1>4, <2>1
      <4> HIDE DEF a
      <4>2. (a + 1) % (2 * Full) = a + 1
        BY <1>1, <4>1
      <4> QED
        BY <2>1, <4>2 DEF Onward
    <3> QED
      BY <2>2, <3>1
  <2>3. CASE F % 2 = 1
    <3> DEFINE c == Index(1, rd)
    <3>1. c + 1 \in 0 .. 2 * Full - 1 /\ Index(1, r) = c + 1
      BY <1>1, <1>4, <2>1
    <3> HIDE DEF c
    <3>2. (c + 1) % (2 * Full) = c + 1
      BY <1>1, <3>1
    <3> QED
      BY <2>3, <3>1, <3>2 DEF Onward, c
  <2> QED
    BY <1>2, <2>2, <2>3
<1>6. CASE IsLast(rd) /\ IsFirst(r)
  <2> SUFFICES Index((F + 1) % 2, r) = Onward(Index(F % 2, rd))
    BY <1>6, <1>a
  <2>1. a = Full - 1 /\ b = 0
    BY <1>6, IndexEnds
  <2>2. CASE F % 2 = 0
    <3>1. a + 1 = Full /\ Index(1, r) = Full
      BY <1>1, <1>4, <2>1
    <3>2. Full % (2 * Full) = Full
      BY <1>1
    <3> QED
      BY <1>2, <2>2, <3>1, <3>2 DEF Onward
  <2>3. CASE F % 2 = 1
    <3>1. Index(1, rd) + 1 = 2 * Full
      BY <1>1, <1>4, <2>1
    <3>2. (2 * Full) % (2 * Full) = 0
      BY <1>1
    <3> QED
      BY <1>2, <2>1, <2>3, <3>1, <3>2 DEF Onward
  <2> QED
    BY <1>2, <2>2, <2>3
<1> QED
  BY <1>5, <1>6

\* The reader goes on, and what it shows is the next beat of the stream.
LEMMA ReadKeeps ==
  ASSUME LayersAssumption, NEW P \in Nat, NEW F \in Nat, NEW x, UnitInv(P, F, x),
         NEW valid, NEW data, NEW ready \in BOOLEAN, SwuClock(valid, data, ready),
         NEW Q \in Nat, P <= Q, NEW group, Room(Q, group, F, rd)
  PROVE  \E E \in Nat : /\ frame_base' = (E * HW) % Words /\ IsPlace(rd')
                        /\ Room(Q, group, E, rd') /\ Covered(Q, E, rd')
                        /\ Shown(E, Gone(x, ready), rd', ovalid', odata')
<1>1. /\ UnitOK /\ IsPlace(rd) /\ frame_base = (F * HW) % Words /\ Covered(P, F, rd)
      /\ Shown(F, x, rd, ovalid, odata)
  BY DEF UnitInv
<1>2. HW \in Nat /\ Full \in Nat \ {0}
  BY <1>1, Sizes
<1>3. /\ ovalid \in BOOLEAN /\ x \in 0 .. 2 * Full - 1
      /\ Index(F % 2, rd) = IF ovalid THEN Onward(x) ELSE x
      /\ ovalid => odata = WindowBeat(x)
  BY <1>1 DEF Shown, Onward
<1>4. \A y \in 0 .. 2 * Full - 1 : Onward(y) \in 0 .. 2 * Full - 1
  BY <1>2 DEF Onward
<1> DEFINE y == Gone(x, ready)
<1>5. y \in 0 .. 2 * Full - 1
  BY <1>3, <1>4 DEF Gone
<1>6. CASE Emit(ready)
  <2>1. y = Index(F % 2, rd)
    BY <1>3, <1>6 DEF Gone, Emit, OutFree
  <2>2. odata' = WindowBeat(y)
    BY <1>6, <2>1, EmitsInOrder
  <2>3. ovalid' = TRUE
    BY <1>6 DEF SwuClock
  <2>4. ReadOk
    BY <1>6 DEF Emit
  <2> DEFINE r == rd'
  <2>5. IsPlace(r)
    BY <1>6, NextPlace
  <2>6. CASE IsLast(rd)
    <3>1. IsFirst(r) /\ frame_base' = ((F + 1) * HW) % Words
      BY <1>6, <2>6, NextPlace
    <3> HIDE DEF r
    <3>2. Covered(Q, F + 1, r)
      BY <2>4, <2>5, <2>6, <3>1, CoverGrows
    <3>3. Room(Q, group, F + 1, r)
      <4>1. Limit(F, rd) <= Limit(F + 1, r) /\ Limit(F, rd) \in Int /\ Limit(F + 1, r) \in Int
        BY <1>1, <2>5, LimitGrows
      <4> QED
        BY <4>1 DEF Room
    <3>4. Index((F + 1) % 2, r) = Onward(y)
      BY <1>1, <2>1, <2>5, <2>6, <3>1, IndexOnward
    <3>5. Shown(F + 1, y, r, ovalid', odata')
      BY <1>5, <2>2, <2>3, <3>4 DEF Shown, Onward
    <3>6. F + 1 \in Nat
      OBVIOUS
    <3> QED
      BY <2>5, <3>1, <3>2, <3>3, <3>5, <3>6 DEF r
  <2>7. CASE ~IsLast(rd)
    <3>1. Follows(rd, r) /\ frame_base' = frame_base
      BY <1>6, <2>7, NextPlace
    <3> HIDE DEF r
    <3>2. Covered(Q, F, r)
      BY <2>4, <2>5, <3>1, CoverGrows
    <3>3. Room(Q, group, F, r)
      <4>1. Limit(F, rd) <= Limit(F, r) /\ Limit(F, rd) \in Int /\ Limit(F, r) \in Int
        BY <1>1, <2>5, <3>1, LimitGrows
      <4> QED
        BY <4>1 DEF Room
    <3>4. Index(F % 2, r) = Onward(y)
      BY <1>1, <2>1, <2>5, <3>1, IndexOnward
    <3>5. Shown(F, y, r, ovalid', odata')
      BY <1>5, <2>2, <2>3, <3>4 DEF Shown, Onward
    <3> QED
      BY <1>1, <2>5, <3>1, <3>2, <3>3, <3>5 DEF r
  <2> QED
    BY <2>6, <2>7
<1>7. CASE ~Emit(ready)
  <2>1. /\ frame_base' = frame_base /\ odata' = odata
        /\ ovalid' = (ovalid /\ ~ready)
        /\ rd' = [k \in 1 .. 5 |-> rd[k]]
    BY <1>7 DEF SwuClock
  <2>2. rd' = rd
    BY <1>1, <2>1 DEF IsPlace
  <2>3. Covered(Q, F, rd)
    <3> SUFFICES ASSUME NEW p \in [1 .. 5 -> Nat], NEW j \in Copies, IsPlace(p), Seen(p, j)
                 PROVE  /\ F > 0 => (F - 1) * HW + PixelAt(p, j) < Q
                        /\ Index(0, p) < Index(0, rd) => F * HW + PixelAt(p, j) < Q
      BY DEF Covered
    <3>1. /\ F > 0 => (F - 1) * HW + PixelAt(p, j) < P
          /\ Index(0, p) < Index(0, rd) => F * HW + PixelAt(p, j) < P
      BY <1>1 DEF Covered
    <3>2. (F - 1) * HW + PixelAt(p, j) \in Int /\ F * HW + PixelAt(p, j) \in Int
      <4>1. PixelAt(p, j) \in 0 .. HW - 1
        BY <1>1, SeenIsYoung
      <4> QED
        BY <1>2, <4>1
    <3> QED
      BY <3>1, <3>2
  <2>4. Shown(F, y, rd, ovalid', odata)
    <3>1. CASE ovalid /\ ready
      BY <1>3, <1>5, <2>1, <3>1 DEF Shown, Gone
    <3>2. CASE ~(ovalid /\ ready)
      <4>1. y = x /\ ovalid' = ovalid
        BY <1>3, <2>1, <3>2 DEF Gone
      <4> QED
        BY <1>1, <4>1
    <3> QED
      BY <3>1, <3>2
  <2> QED
    BY <1>1, <2>1, <2>2, <2>3, <2>4
<1> QED
  BY <1>6, <1>7

-----------------------------------------------------------------------------
(* The consumer: the layer behind, or the pool in front of it.             *)

\* A beat by its window, its read in it and its group; the reads that the maximum
\* of a group is of; the outputs the pool has given.
Product(a, k, f) == WindowBeat((a * Window + k) * g.cg + f)[1]
Passes(group, pass, f) == IF f < group /\ pass # Window - 1 THEN pass + 1 ELSE pass
Seconds(a, group, pass) == a * g.cg + (IF pass = Window - 1 THEN group ELSE 0)

\* The pool has merged what it was given: x beats, up to read `pass` of window a.
Pooling(x, group, pass, memory, beats, a) ==
  /\ group \in 0 .. g.cg - 1 /\ pass \in 0 .. Window - 1
  /\ x = (a * Window + pass) * g.cg + group
  /\ beats = Seconds(a, group, pass)
  /\ DOMAIN memory = 0 .. g.cg - 1
  /\ \A f \in 0 .. g.cg - 1 :
       Passes(group, pass, f) > 0 =>
         memory[f] = {Product(a, k, f) : k \in 0 .. Passes(group, pass, f) - 1}

\* The consumer, or the pool in front of it, has had x beats.
Consumed(x) ==
  IF g.pooled THEN \E a \in 0 .. 2 * Windows - 1 : Pooling(x, pool_nf, w, running_max, taken, a)
              ELSE taken = x

\* The inductive invariant.
LayerInv == \E P, F \in Nat, x \in Nat : UnitInv(P, F, x) /\ Consumed(x)

\* A pooling layer: one column a beat, and an output for every window and group.
LEMMA PoolSizes ==
  ASSUME LayersAssumption, UnitOK, g.pooled
  PROVE  /\ Window \in Nat \ {0} /\ Full = (Windows * Window) * g.cg /\ Reads = Window
         /\ Outputs = Windows * g.cg /\ g.par = 1
<1>1. g.par = 1
  BY UnitIs
<1>2. g.kw = Kwg * 1 /\ Kwg \in Nat \ {0} /\ g.kh \in Nat \ {0} /\ Windows \in Nat \ {0}
      /\ g.cg \in Nat \ {0}
  BY <1>1, KwgIs, Sizes
<1>3. g.kw = Kwg
  BY <1>2
<1>4. Reads = Window /\ Window \in Nat \ {0}
  BY <1>2, <1>3 DEF Reads, Window
<1>5. Outputs = Windows * g.cg * 1
  BY DEF Outputs
<1>6. Outputs = Windows * g.cg
  BY <1>2, <1>5
<1> QED
  BY <1>1, <1>4, <1>6 DEF Full

\* A layer without a pool: the outputs are the beats of the windows.
LEMMA PlainSizes ==
  ASSUME LayersAssumption, UnitOK, ~g.pooled
  PROVE  Outputs = Full
<1>1. g.kw = Kwg * g.par /\ Kwg \in Nat \ {0} /\ g.kh \in Nat \ {0} /\ Windows \in Nat \ {0}
      /\ g.cg \in Nat \ {0} /\ g.par \in Nat \ {0} /\ Reads \in Nat \ {0}
  BY KwgIs, Sizes
<1>2. Window = Reads * g.par + 0
  <2>1. Window = g.kh * (Kwg * g.par)
    BY <1>1 DEF Window
  <2> QED
    BY <1>1, <2>1 DEF Reads
<1>3. Window \div g.par = Reads
  <2>1. 0 \in 0 .. g.par - 1 /\ Reads \in Nat /\ g.par \in Nat \ {0}
    BY <1>1
  <2>2. (Reads * g.par + 0) \div g.par = Reads
    BY <2>1, Digits
  <2> QED
    BY <1>2, <2>2
<1>4. Outputs = Windows * g.cg * Reads
  BY <1>3 DEF Outputs
<1>5. Windows * g.cg * Reads = Windows * Reads * g.cg
  BY <1>1
<1> QED
  BY <1>4, <1>5 DEF Full

\* A beat of a pooling layer's windows, by the window, the place in it and the group.
LEMMA ProductIs ==
  ASSUME LayersAssumption, UnitOK, g.pooled, NEW a \in Nat, NEW k \in 0 .. Window - 1,
         NEW f \in 0 .. g.cg - 1
  PROVE  Product(a, k, f)
           = Element(ImageOf(a), YOf(a), XOf(a), k \div g.kw, k % g.kw, f)
<1>1. Window \in Nat \ {0} /\ g.par = 1 /\ g.cg \in Nat \ {0} /\ g.kw \in Nat \ {0}
  BY PoolSizes, Sizes, UnitIs
<1> DEFINE beats == g.cg * (Window \div g.par)
           n == (a * Window + k) * g.cg + f
           rest == k * g.cg + f
<1>2. beats = Window * g.cg /\ beats \in Nat \ {0}
  BY <1>1
<1>3. k \in Nat /\ f \in Nat
  BY <1>1
<1>4. rest \in 0 .. Window * g.cg - 1
  <2>1. Window \in Nat
    BY <1>1
  <2> QED
    BY <1>1, <2>1, DigitsBelow
<1>5. n = a * beats + rest
  <2> HIDE DEF beats
  <2> QED
    BY <1>1, <1>2, <1>3
<1>6. n \div beats = a /\ n % beats = rest
  <2>1. rest \in 0 .. beats - 1
    BY <1>2, <1>4
  <2> HIDE DEF n, beats, rest
  <2> QED
    BY <1>2, <1>5, <2>1, Digits
<1>7. rest \div g.cg = k
  BY <1>1, <1>3, Digits
<1>8. n % g.cg = f
  <2> DEFINE m == a * Window + k
  <2>1. m \in Nat
    BY <1>1, <1>3
  <2> HIDE DEF m
  <2>2. (m * g.cg + f) % g.cg = f
    BY <1>1, <2>1, Digits
  <2> QED
    BY <2>2 DEF m
<1>9. WindowBeat(n) = [j \in 1 .. g.par |->
           Element(ImageOf(n \div beats), YOf(n \div beats), XOf(n \div beats),
                   (((n % beats) \div g.cg) * g.par) \div g.kw,
                   ((((n % beats) \div g.cg) * g.par) % g.kw) + j - 1, n % g.cg)]
  BY DEF WindowBeat
<1>10. Product(a, k, f) = WindowBeat(n)[1]
  BY DEF Product
<1> HIDE DEF n, beats, rest
<1>11. WindowBeat(n)[1] = Element(ImageOf(a), YOf(a), XOf(a), (k * 1) \div g.kw,
                                  ((k * 1) % g.kw) + 1 - 1, f)
  BY <1>1, <1>6, <1>7, <1>8, <1>9
<1>12. k * 1 = k /\ ((k % g.kw) + 1) - 1 = k % g.kw
  BY <1>1, <1>3
<1>13. (k % g.kw) + 1 - 1 = k % g.kw
  BY <1>1, <1>3
<1> QED
  BY <1>10, <1>11, <1>12, <1>13

\* The beats of one window and group, taken together, are what numpy takes the
\* maximum of.
LEMMA PoolBeatIs ==
  ASSUME LayersAssumption, UnitOK, g.pooled, NEW a \in Nat, NEW f \in 0 .. g.cg - 1
  PROVE  {Product(a, k, f) : k \in 0 .. Window - 1} = PoolBeat(a * g.cg + f)
<1>1. Window = g.kh * g.kw /\ g.kh \in Nat \ {0} /\ g.kw \in Nat \ {0} /\ g.cg \in Nat \ {0}
  BY UnitIs, Sizes DEF Window
<1> DEFINE n == a * g.cg + f
           E(y, x) == Element(ImageOf(a), YOf(a), XOf(a), y, x, f)
<1>2. n \div g.cg = a /\ n % g.cg = f
  BY <1>1, Digits
<1>3. PoolBeat(n) = {E(ky, kx) : ky \in 0 .. g.kh - 1, kx \in 0 .. g.kw - 1}
  <2> HIDE DEF n
  <2> QED
    BY <1>2 DEF PoolBeat
<1>4. \A k \in 0 .. Window - 1 : Product(a, k, f) = E(k \div g.kw, k % g.kw)
  BY ProductIs
<1> HIDE DEF E
<1>5. ASSUME NEW k \in 0 .. Window - 1
      PROVE  k \div g.kw \in 0 .. g.kh - 1 /\ k % g.kw \in 0 .. g.kw - 1
  <2> DEFINE q == k \div g.kw
             r == k % g.kw
  <2>1. k \in Int /\ k >= 0 /\ k < g.kh * g.kw
    BY <1>1, <1>5
  <2>2. k = q * g.kw + r /\ r \in 0 .. g.kw - 1 /\ q \in Int
    BY <1>1, <2>1, Parts
  <2> HIDE DEF q, r
  <2>3. CASE q < 0
    <3>1. q <= -1
      BY <2>2, <2>3
    <3>2. q * g.kw <= (-1) * g.kw
      BY <1>1, <2>2, <3>1, TimesGrows
    <3> QED
      BY <1>1, <2>1, <2>2, <3>2
  <2>4. CASE q >= g.kh
    <3>1. g.kh * g.kw <= q * g.kw
      BY <1>1, <2>2, <2>4, TimesGrows
    <3> QED
      BY <1>1, <2>1, <2>2, <3>1
  <2>5. q \in 0 .. g.kh - 1
    BY <1>1, <2>2, <2>3, <2>4
  <2> QED
    BY <2>2, <2>5 DEF q, r
<1>6. ASSUME NEW ky \in 0 .. g.kh - 1, NEW kx \in 0 .. g.kw - 1
      PROVE  \E k \in 0 .. Window - 1 : k \div g.kw = ky /\ k % g.kw = kx
  <2> DEFINE k == ky * g.kw + kx
  <2>1. k \in 0 .. Window - 1
    <3>1. g.kh \in Nat
      BY <1>1
    <3>2. k \in 0 .. g.kh * g.kw - 1
      BY <1>1, <3>1, DigitsBelow
    <3> QED
      BY <1>1, <3>2
  <2>2. k \div g.kw = ky /\ k % g.kw = kx
    <3>1. ky \in Nat
      BY <1>1
    <3> QED
      BY <1>1, <3>1, Digits
  <2> HIDE DEF k
  <2> QED
    BY <2>1, <2>2
<1>7. {Product(a, k, f) : k \in 0 .. Window - 1}
        \subseteq {E(ky, kx) : ky \in 0 .. g.kh - 1, kx \in 0 .. g.kw - 1}
  BY <1>4, <1>5
<1>8. ASSUME NEW e \in {E(ky, kx) : ky \in 0 .. g.kh - 1, kx \in 0 .. g.kw - 1}
      PROVE  e \in {Product(a, k, f) : k \in 0 .. Window - 1}
  <2>1. PICK ky \in 0 .. g.kh - 1, kx \in 0 .. g.kw - 1 : e = E(ky, kx)
    OBVIOUS
  <2>2. PICK k \in 0 .. Window - 1 : k \div g.kw = ky /\ k % g.kw = kx
    BY <1>6
  <2>3. Product(a, k, f) = E(ky, kx)
    BY <1>4, <2>2
  <2> QED
    BY <2>1, <2>3
<1>9. {E(ky, kx) : ky \in 0 .. g.kh - 1, kx \in 0 .. g.kw - 1}
        \subseteq {Product(a, k, f) : k \in 0 .. Window - 1}
  BY <1>8
<1>10. {Product(a, k, f) : k \in 0 .. Window - 1}
         = {E(ky, kx) : ky \in 0 .. g.kh - 1, kx \in 0 .. g.kw - 1}
  BY <1>7, <1>9
<1> QED
  BY <1>3, <1>10

-----------------------------------------------------------------------------
(* The pool's own edge.                                                    *)

\* A beat into the pool: the maxima, their place and the outputs keep agreeing.
LEMMA PoolFires ==
  ASSUME LayersAssumption, UnitOK, g.pooled, NEW x \in Nat, NEW a \in 0 .. 2 * Windows - 1,
         Pooling(x, pool_nf, w, running_max, taken, a),
         NEW data, data = Product(a, w, pool_nf),
         pool_nf' = (pool_nf + 1) % g.cg,
         w' = IF pool_nf = g.cg - 1 THEN (w + 1) % Window ELSE w,
         running_max' = IF ~LastPass(Window)
                        THEN [running_max EXCEPT ![pool_nf] = Merged(data)] ELSE running_max,
         taken' = IF LastPass(Window) THEN (taken + 1) % (2 * Outputs) ELSE taken
  PROVE  \E b \in 0 .. 2 * Windows - 1 :
           Pooling(Onward(x), pool_nf', w', running_max', taken', b)
<1> DEFINE G == g.cg
           M == Window
           V == Windows
<1>1. /\ G \in Nat \ {0} /\ M \in Nat \ {0} /\ V \in Nat \ {0}
      /\ Full = (V * M) * G /\ Outputs = V * G
  BY PoolSizes, Sizes
<1>2. /\ pool_nf \in 0 .. G - 1 /\ w \in 0 .. M - 1
      /\ x = (a * M + w) * G + pool_nf
      /\ taken = a * G + (IF w = M - 1 THEN pool_nf ELSE 0)
      /\ DOMAIN running_max = 0 .. G - 1
      /\ \A f \in 0 .. G - 1 :
           Passes(pool_nf, w, f) > 0 =>
             running_max[f] = {Product(a, k, f) : k \in 0 .. Passes(pool_nf, w, f) - 1}
  BY DEF Pooling, Seconds
<1>3. LastPass(Window) <=> w = M - 1
  BY DEF LastPass
<1>4. pool_nf \in Nat /\ w \in Nat /\ a \in Nat /\ pool_nf <= G - 1 /\ w <= M - 1 /\ a <= 2 * V - 1
  BY <1>1, <1>2
<1>5. w # M - 1 => Merged(data) = {Product(a, k, pool_nf) : k \in 0 .. w}
  <2> SUFFICES ASSUME w # M - 1 PROVE Merged(data) = {Product(a, k, pool_nf) : k \in 0 .. w}
    OBVIOUS
  <2>1. CASE w = 0
    <3>1. 0 .. w = {0}
      BY <2>1
    <3>2. {Product(a, k, pool_nf) : k \in 0 .. w} = {Product(a, 0, pool_nf)}
      BY <3>1
    <3> QED
      BY <2>1, <3>2 DEF Merged
  <2>2. CASE w # 0
    <3>1. Passes(pool_nf, w, pool_nf) = w
      BY <1>4 DEF Passes
    <3>2. running_max[pool_nf] = {Product(a, k, pool_nf) : k \in 0 .. w - 1}
      BY <1>2, <1>4, <2>2, <3>1
    <3>3. 0 .. w = (0 .. w - 1) \cup {w}
      BY <1>4, <2>2
    <3>4. {Product(a, k, pool_nf) : k \in 0 .. w}
            = {Product(a, k, pool_nf) : k \in 0 .. w - 1} \cup {Product(a, w, pool_nf)}
      BY <3>3
    <3> QED
      BY <2>2, <3>2, <3>4 DEF Merged
  <2> QED
    BY <2>1, <2>2
<1>6. DOMAIN running_max' = 0 .. G - 1
  BY <1>2

\* The maxima after the beat, by the beats each is of.
<1>7. \A f \in 0 .. G - 1 :
        LET m == IF f <= pool_nf /\ w # M - 1 THEN w + 1 ELSE w
        IN  m > 0 => running_max'[f] = {Product(a, k, f) : k \in 0 .. m - 1}
  <2> SUFFICES ASSUME NEW f \in 0 .. G - 1
               PROVE  LET m == IF f <= pool_nf /\ w # M - 1 THEN w + 1 ELSE w
                      IN  m > 0 => running_max'[f] = {Product(a, k, f) : k \in 0 .. m - 1}
    OBVIOUS
  <2>0. f \in Nat
    BY <1>1
  <2>1. CASE w = M - 1
    <3>1. running_max' = running_max /\ Passes(pool_nf, w, f) = w
      BY <1>3, <2>1 DEF Passes
    <3> QED
      BY <1>2, <2>1, <3>1
  <2>2. CASE w # M - 1 /\ f = pool_nf
    <3>1. running_max'[f] = Merged(data)
      BY <1>2, <1>3, <2>2
    <3>2. w + 1 - 1 = w
      BY <1>4
    <3> QED
      BY <1>4, <1>5, <2>2, <3>1, <3>2
  <2>3. CASE w # M - 1 /\ f # pool_nf
    <3>1. running_max'[f] = running_max[f]
      BY <1>2, <1>3, <2>3
    <3>2. Passes(pool_nf, w, f) = IF f <= pool_nf /\ w # M - 1 THEN w + 1 ELSE w
      BY <1>4, <2>0, <2>3 DEF Passes
    <3> QED
      BY <1>2, <3>1, <3>2
  <2> QED
    BY <2>1, <2>2, <2>3
<1>8. CASE pool_nf # G - 1
  <2>1. pool_nf + 1 \in 0 .. G - 1 /\ (pool_nf + 1) % G = pool_nf + 1
    BY <1>1, <1>4, <1>8
  <2>2. pool_nf' = pool_nf + 1 /\ w' = w
    BY <1>8, <2>1
  <2>3. Onward(x) = (a * M + w) * G + (pool_nf + 1)
    <3>1. x + 1 = (a * M + w) * G + (pool_nf + 1)
      <4> DEFINE y == (a * M + w) * G
      <4>1. y \in Int /\ x = y + pool_nf
        BY <1>1, <1>2, <1>4
      <4> HIDE DEF y
      <4>2. x + 1 = y + (pool_nf + 1)
        BY <1>4, <4>1
      <4> QED
        BY <4>2 DEF y
    <3>2. a * M + w \in 0 .. (2 * V) * M - 1
      <4>1. 2 * V \in Nat
        BY <1>1
      <4> HIDE DEF M, V
      <4> QED
        BY <1>1, <1>2, <4>1, DigitsBelow DEF M, V
    <3> DEFINE b == a * M + w
               N == (2 * V) * M
               c == pool_nf + 1
    <3>3. N \in Nat /\ b \in 0 .. N - 1 /\ c \in 0 .. G - 1
      BY <1>1, <2>1, <3>2
    <3>4. b * G + c \in 0 .. N * G - 1
      <4> HIDE DEF b, N, c, G
      <4> QED
        BY <1>1, <3>3, DigitsBelow DEF G
    <3>5. N * G = 2 * Full
      BY <1>1
    <3> DEFINE z == x + 1
    <3>6. z \in 0 .. 2 * Full - 1 /\ 2 * Full \in Nat \ {0}
      BY <1>1, <3>1, <3>4, <3>5, Sizes
    <3> HIDE DEF z
    <3>7. z % (2 * Full) = z
      BY <3>6
    <3> QED
      BY <3>1, <3>7 DEF z, Onward
  <2>4. taken' = Seconds(a, pool_nf', w')
    <3>1. CASE w = M - 1
      <4>1. taken' = (taken + 1) % (2 * Outputs) /\ taken = a * G + pool_nf
        BY <1>2, <1>3, <3>1
      <4>2. a * G + (pool_nf + 1) \in 0 .. (2 * V) * G - 1
        <5>1. 2 * V \in Nat
          BY <1>1
        <5> DEFINE c == pool_nf + 1
        <5>2. c \in 0 .. G - 1
          BY <2>1
        <5> HIDE DEF c, G, V
        <5>3. a * G + c \in 0 .. (2 * V) * G - 1
          BY <1>1, <5>1, <5>2, DigitsBelow DEF G, V
        <5> QED
          BY <5>3 DEF c
      <4>3. taken + 1 = a * G + (pool_nf + 1)
        BY <1>1, <1>4, <4>1
      <4> DEFINE z == taken + 1
      <4>4. z \in 0 .. 2 * Outputs - 1 /\ 2 * Outputs \in Nat \ {0}
        <5>1. (2 * V) * G = 2 * Outputs /\ 2 * Outputs \in Nat \ {0}
          BY <1>1
        <5> QED
          BY <4>2, <4>3, <5>1
      <4> HIDE DEF z
      <4>5. z % (2 * Outputs) = z
        BY <4>4
      <4> QED
        BY <2>2, <3>1, <4>1, <4>3, <4>5 DEF z, Seconds
    <3>2. CASE w # M - 1
      BY <1>2, <1>3, <2>2, <3>2 DEF Seconds
    <3> QED
      BY <3>1, <3>2
  <2>5. \A f \in 0 .. G - 1 :
          Passes(pool_nf', w', f) > 0 =>
            running_max'[f] = {Product(a, k, f) : k \in 0 .. Passes(pool_nf', w', f) - 1}
    <3> SUFFICES ASSUME NEW f \in 0 .. G - 1
                 PROVE  Passes(pool_nf', w', f) > 0 =>
                          running_max'[f] = {Product(a, k, f) : k \in 0 .. Passes(pool_nf', w', f) - 1}
      OBVIOUS
    <3>1. f \in Nat
      BY <1>1
    <3>2. Passes(pool_nf', w', f) = IF f <= pool_nf /\ w # M - 1 THEN w + 1 ELSE w
      BY <1>4, <2>2, <3>1 DEF Passes
    <3> QED
      BY <1>7, <3>2
  <2>6. Pooling(Onward(x), pool_nf', w', running_max', taken', a)
    BY <1>2, <1>6, <2>1, <2>2, <2>3, <2>4, <2>5 DEF Pooling
  <2> QED
    BY <2>6
<1>9. CASE pool_nf = G - 1 /\ w # M - 1
  <2>1. (pool_nf + 1) % G = 0 /\ w + 1 \in 0 .. M - 1 /\ (w + 1) % M = w + 1
    <3>1. pool_nf + 1 = G /\ G % G = 0
      BY <1>1, <1>9
    <3> DEFINE v == w + 1
    <3>2. v \in 0 .. M - 1 /\ M \in Nat \ {0}
      BY <1>1, <1>4, <1>9
    <3> HIDE DEF v
    <3>3. v % M = v
      BY <3>2
    <3> QED
      BY <3>1, <3>2, <3>3 DEF v
  <2>2. pool_nf' = 0 /\ w' = w + 1
    BY <1>9, <2>1
  <2>3. Onward(x) = (a * M + (w + 1)) * G + 0
    <3> DEFINE b == a * M + (w + 1)
               N == (2 * V) * M
    <3>1. x + 1 = b * G + 0
      <4>1. x + 1 = (a * M + w) * G + (G - 1) + 1
        BY <1>2, <1>9
      <4> DEFINE e == a * M + w
      <4>2. e \in Int /\ b = e + 1
        BY <1>1, <1>4
      <4> HIDE DEF e, b, G
      <4>3. e * G + (G - 1) + 1 = b * G + 0
        <5>1. G \in Int
          BY <1>1
        <5>2. b * G = e * G + G /\ e * G \in Int
          BY <4>2, <5>1
        <5> QED
          BY <5>1, <5>2
      <4> QED
        BY <4>1, <4>3 DEF e
    <3>2. b \in 0 .. N - 1
      <4>1. 2 * V \in Nat
        BY <1>1
      <4> DEFINE c == w + 1
      <4>2. c \in 0 .. M - 1
        BY <2>1
      <4> HIDE DEF M, V, c
      <4>3. a * M + c \in 0 .. (2 * V) * M - 1
        BY <1>1, <4>1, <4>2, DigitsBelow DEF M, V
      <4> QED
        BY <4>3 DEF c
    <3>3. N \in Nat /\ 0 \in 0 .. G - 1
      BY <1>1
    <3>4. b * G + 0 \in 0 .. N * G - 1
      <4> HIDE DEF b, N, G
      <4> QED
        BY <1>1, <3>2, <3>3, DigitsBelow DEF G
    <3>5. N * G = 2 * Full
      BY <1>1
    <3> DEFINE z == x + 1
    <3>6. z \in 0 .. 2 * Full - 1 /\ 2 * Full \in Nat \ {0}
      BY <1>1, <3>1, <3>4, <3>5, Sizes
    <3> HIDE DEF z
    <3>7. z % (2 * Full) = z
      BY <3>6
    <3> QED
      BY <3>1, <3>7 DEF z, Onward
  <2>4. taken' = Seconds(a, pool_nf', w')
    <3>1. taken' = taken /\ taken = a * G + 0
      BY <1>2, <1>3, <1>9
    <3>2. Seconds(a, pool_nf', w') = a * G + 0
      BY <2>2 DEF Seconds
    <3> QED
      BY <3>1, <3>2
  <2>5. \A f \in 0 .. G - 1 :
          Passes(pool_nf', w', f) > 0 =>
            running_max'[f] = {Product(a, k, f) : k \in 0 .. Passes(pool_nf', w', f) - 1}
    <3> SUFFICES ASSUME NEW f \in 0 .. G - 1
                 PROVE  Passes(pool_nf', w', f) > 0 =>
                          running_max'[f] = {Product(a, k, f) : k \in 0 .. Passes(pool_nf', w', f) - 1}
      OBVIOUS
    <3>1. f \in Nat /\ f <= pool_nf
      BY <1>1, <1>9
    <3>2. Passes(pool_nf', w', f) = w + 1
      BY <2>2, <3>1 DEF Passes
    <3> QED
      BY <1>7, <1>9, <3>1, <3>2
  <2>6. pool_nf' \in 0 .. G - 1 /\ w' \in 0 .. M - 1
    BY <1>1, <2>1, <2>2
  <2>7. Pooling(Onward(x), pool_nf', w', running_max', taken', a)
    BY <1>6, <2>2, <2>3, <2>4, <2>5, <2>6 DEF Pooling
  <2> QED
    BY <2>7
<1>10. CASE pool_nf = G - 1 /\ w = M - 1
  <2>1. (pool_nf + 1) % G = 0 /\ (w + 1) % M = 0
    <3>1. pool_nf + 1 = G /\ G % G = 0 /\ w + 1 = M /\ M % M = 0
      BY <1>1, <1>10
    <3> QED
      BY <3>1
  <2>2. pool_nf' = 0 /\ w' = 0 /\ running_max' = running_max
    BY <1>3, <1>10, <2>1
  <2> DEFINE b == IF a = 2 * V - 1 THEN 0 ELSE a + 1
  <2>3. b \in 0 .. 2 * V - 1
    BY <1>1, <1>4
  <2>4. x + 1 = ((a + 1) * M) * G /\ taken + 1 = (a + 1) * G
    <3>1. x = (a * M + (M - 1)) * G + (G - 1) /\ taken = a * G + (G - 1)
      BY <1>2, <1>10
    <3> HIDE DEF M, G
    <3>2. a * M + (M - 1) = (a + 1) * M - 1
      BY <1>1, <1>4
    <3> DEFINE c == (a + 1) * M
    <3>3. c \in Int /\ x = (c - 1) * G + (G - 1)
      BY <1>1, <1>4, <3>1, <3>2
    <3> HIDE DEF c
    <3>4. x + 1 = c * G
      BY <1>1, <3>3
    <3>5. taken + 1 = (a + 1) * G
      BY <1>1, <1>4, <3>1
    <3> QED
      BY <3>4, <3>5 DEF c
  <2>5. Onward(x) = (b * M + 0) * G + 0 /\ taken' = b * G + 0
    <3>0. taken' = (taken + 1) % (2 * Outputs)
      BY <1>3, <1>10
    <3>1. CASE a = 2 * V - 1
      <4>1. x + 1 = 2 * Full /\ taken + 1 = 2 * Outputs
        <5>1. a + 1 = 2 * V
          BY <1>1, <3>1
        <5> HIDE DEF M, G, V
        <5>2. x + 1 = ((2 * V) * M) * G /\ taken + 1 = (2 * V) * G
          BY <2>4, <5>1
        <5> QED
          BY <1>1, <5>2
      <4>2. (2 * Full) % (2 * Full) = 0 /\ (2 * Outputs) % (2 * Outputs) = 0
        <5>1. 2 * Full \in Nat \ {0} /\ 2 * Outputs \in Nat \ {0}
          BY <1>1, Sizes
        <5> QED
          BY <5>1
      <4>3. (b * M + 0) * G + 0 = 0 /\ b * G + 0 = 0
        BY <1>1, <3>1
      <4> QED
        BY <3>0, <4>1, <4>2, <4>3 DEF Onward
    <3>2. CASE a # 2 * V - 1
      <4>1. b = a + 1 /\ b \in 0 .. 2 * V - 1 /\ b \in Nat
        BY <2>3, <3>2, <1>4
      <4> HIDE DEF b
      <4>2. 2 * V \in Nat /\ 0 \in 0 .. M - 1 /\ 0 \in 0 .. G - 1
        BY <1>1
      <4>3. b * M + 0 \in 0 .. (2 * V) * M - 1
        <5> HIDE DEF M, V
        <5> QED
          BY <1>1, <4>1, <4>2, DigitsBelow DEF M, V
      <4> DEFINE c == b * M + 0
                 N == (2 * V) * M
      <4>4. c * G + 0 \in 0 .. N * G - 1
        <5>1. N \in Nat /\ c \in 0 .. N - 1
          BY <1>1, <4>3
        <5> HIDE DEF c, N, G
        <5> QED
          BY <1>1, <4>2, <5>1, DigitsBelow DEF G
      <4>5. b * G + 0 \in 0 .. (2 * V) * G - 1
        <5> HIDE DEF G, V
        <5> QED
          BY <1>1, <4>1, <4>2, DigitsBelow DEF G, V
      <4>6. N * G = 2 * Full /\ (2 * V) * G = 2 * Outputs
        BY <1>1
      <4> DEFINE y == x + 1
                 z == taken + 1
      <4>7. y = c * G + 0 /\ z = b * G + 0
        <5> HIDE DEF M, G
        <5>1. b * M \in Int /\ b * G \in Int
          BY <1>1, <4>1
        <5>2. c = b * M
          BY <5>1
        <5>3. x + 1 = c * G /\ taken + 1 = b * G
          BY <2>4, <4>1, <5>2
        <5>4. c * G \in Int
          BY <1>1, <5>1, <5>2
        <5> QED
          BY <5>1, <5>3, <5>4
      <4>8. /\ y \in 0 .. 2 * Full - 1 /\ z \in 0 .. 2 * Outputs - 1
            /\ 2 * Full \in Nat \ {0} /\ 2 * Outputs \in Nat \ {0}
        <5>1. 2 * Full \in Nat \ {0} /\ 2 * Outputs \in Nat \ {0}
          BY <1>1, Sizes
        <5> HIDE DEF y, z, c, N
        <5> QED
          BY <4>4, <4>5, <4>6, <4>7, <5>1
      <4>9. y % (2 * Full) = y /\ z % (2 * Outputs) = z
        <5> HIDE DEF y, z
        <5> QED
          BY <4>8
      <4> QED
        BY <3>0, <4>7, <4>9 DEF Onward
    <3> QED
      BY <3>1, <3>2
  <2>6. taken' = Seconds(b, pool_nf', w')
    <3> HIDE DEF b
    <3>1. Seconds(b, pool_nf', w') = b * G + 0
      BY <2>2 DEF Seconds
    <3> QED
      BY <2>5, <3>1
  <2>7. \A f \in 0 .. G - 1 : ~(Passes(pool_nf', w', f) > 0)
    <3> SUFFICES ASSUME NEW f \in 0 .. G - 1 PROVE ~(Passes(pool_nf', w', f) > 0)
      OBVIOUS
    <3>1. f \in Nat
      BY <1>1
    <3> QED
      BY <2>2, <3>1 DEF Passes
  <2>8. pool_nf' \in 0 .. G - 1 /\ w' \in 0 .. M - 1
    BY <1>1, <2>2
  <2>9. Pooling(Onward(x), pool_nf', w', running_max', taken', b)
    <3> HIDE DEF b
    <3> QED
      BY <1>6, <2>2, <2>5, <2>6, <2>7, <2>8 DEF Pooling
  <2> QED
    BY <2>3, <2>9
<1> QED
  BY <1>8, <1>9, <1>10

-----------------------------------------------------------------------------
(* A step of the whole, and the theorem.                                   *)

\* The unit and its sizes are the same after a step.
LEMMA UnitStays ==
  ASSUME unit' = unit
  PROVE  /\ g' = g /\ HW' = HW /\ Kwg' = Kwg /\ Window' = Window /\ Windows' = Windows
         /\ Reads' = Reads /\ Full' = Full /\ Outputs' = Outputs /\ Copies' = Copies
         /\ UnitOK' <=> UnitOK
<1>1. g' = g
  BY DEF g
<1>2. HW' = HW /\ Kwg' = Kwg /\ Window' = Window /\ Windows' = Windows /\ Copies' = Copies
  BY <1>1 DEF HW, Kwg, Window, Windows, Copies
<1>3. Reads' = Reads
  BY <1>1, <1>2 DEF Reads
<1>4. Full' = Full
  BY <1>1, <1>2, <1>3 DEF Full
<1>5. Outputs' = Outputs
  BY <1>1, <1>2 DEF Outputs
<1>6. UnitOK' <=> UnitOK
  BY DEF UnitOK
<1> QED
  BY <1>1, <1>2, <1>3, <1>4, <1>5, <1>6

\* numpy's beats too.
LEMMA BeatsStay ==
  ASSUME unit' = unit, NEW n
  PROVE  WindowBeat(n)' = WindowBeat(n)
<1>1. g' = g /\ Window' = Window /\ Windows' = Windows
  BY UnitStays
<1>2. ASSUME NEW i, NEW y, NEW x, NEW ky, NEW kx, NEW c
      PROVE  Element(i, y, x, ky, kx, c)' = Element(i, y, x, ky, kx, c)
  BY <1>1 DEF Element
<1>3. ASSUME NEW a PROVE ImageOf(a)' = ImageOf(a) /\ YOf(a)' = YOf(a) /\ XOf(a)' = XOf(a)
  BY <1>1 DEF ImageOf, YOf, XOf
<1> QED
  BY <1>1, <1>2, <1>3 DEF WindowBeat

\* And what is said of a place.
LEMMA PlacesStay ==
  ASSUME unit' = unit, NEW p
  PROVE  /\ IsPlace(p)' <=> IsPlace(p)
         /\ \A j : (Seen(p, j)' <=> Seen(p, j)) /\ PixelAt(p, j)' = PixelAt(p, j)
         /\ \A i : Index(i, p)' = Index(i, p)
         /\ OldestAt(p)' = OldestAt(p)
<1>1. g' = g /\ Kwg' = Kwg /\ Windows' = Windows /\ Reads' = Reads
  BY UnitStays
<1>2. IsPlace(p)' <=> IsPlace(p)
  BY <1>1 DEF IsPlace
<1>3. \A j : RowAt(p)' = RowAt(p) /\ ColAt(p, j)' = ColAt(p, j)
  BY <1>1 DEF RowAt, ColAt
<1>4. \A j : (Seen(p, j)' <=> Seen(p, j)) /\ PixelAt(p, j)' = PixelAt(p, j)
  BY <1>1, <1>3 DEF Seen, PixelAt
<1>5. \A i : Index(i, p)' = Index(i, p)
  BY <1>1 DEF Index, At, Step
<1>6. OldestAt(p)' = OldestAt(p)
  BY <1>1 DEF OldestAt, HereAt, NextAt, AtLeastZero, Larger
<1> QED
  BY <1>2, <1>4, <1>5, <1>6

\* The unit's own invariant after a step, from its parts at the new values.
LEMMA UnitAgain ==
  ASSUME unit' = unit, UnitOK, NEW Q, NEW E, NEW y,
         Written(Q, wr_pixel', wr_cg', offered'), InBuffer(Q, wr_cg', buffer'),
         frame_base' = (E * HW) % Words, IsPlace(rd'), Room(Q, wr_cg', E, rd'),
         Covered(Q, E, rd'), Shown(E, y, rd', ovalid', odata')
  PROVE  UnitInv(Q, E, y)'
<1>1. /\ g' = g /\ HW' = HW /\ Kwg' = Kwg /\ Windows' = Windows /\ Reads' = Reads
      /\ Full' = Full /\ Copies' = Copies /\ (UnitOK' <=> UnitOK)
  BY UnitStays
<1>2. Written(Q, wr_pixel, wr_cg, offered)'
  BY <1>1 DEF Written
<1>3. InBuffer(Q, wr_cg, buffer)'
  BY <1>1 DEF InBuffer, InForce
<1>4. (frame_base = (E * HW) % Words)' /\ IsPlace(rd)'
  BY <1>1 DEF IsPlace
<1>5. Room(Q, wr_cg, E, rd)'
  <2>1. OldestAt(rd)' = OldestAt(rd')
    BY <1>1 DEF OldestAt, HereAt, NextAt, AtLeastZero, Larger
  <2> QED
    BY <1>1, <2>1 DEF Room, Limit
<1>6. Index(0, rd)' = Index(0, rd') /\ Index(E % 2, rd)' = Index(E % 2, rd')
  BY <1>1 DEF Index, At, Step
<1>7. Covered(Q, E, rd)'
  <2>1. ASSUME NEW p \in [1 .. 5 -> Nat], NEW j \in Copies, IsPlace(p)', Seen(p, j)'
        PROVE  /\ E > 0 => (E - 1) * HW + PixelAt(p, j)' < Q
               /\ Index(0, p)' < Index(0, rd)' => E * HW + PixelAt(p, j)' < Q
    <3>1. /\ IsPlace(p) /\ Seen(p, j) /\ PixelAt(p, j)' = PixelAt(p, j)
          /\ Index(0, p)' = Index(0, p)
      BY <2>1, PlacesStay
    <3> QED
      BY <1>6, <3>1 DEF Covered
  <2> QED
    BY <1>1, <2>1 DEF Covered
<1>8. Shown(E, y, rd, ovalid, odata)'
  <2>1. WindowBeat(y)' = WindowBeat(y)
    BY BeatsStay
  <2> QED
    BY <1>1, <1>6, <2>1 DEF Shown
<1> QED
  BY <1>1, <1>2, <1>3, <1>4, <1>5, <1>7, <1>8 DEF UnitInv

\* The consumer's part after a step, the same way.
LEMMA PoolAgain ==
  ASSUME unit' = unit, g.pooled, NEW y, NEW b \in 0 .. 2 * Windows - 1,
         Pooling(y, pool_nf', w', running_max', taken', b)
  PROVE  Consumed(y)'
<1>1. g' = g /\ Window' = Window /\ Windows' = Windows
  BY UnitStays
<1>2. ASSUME NEW k, NEW f PROVE Product(b, k, f)' = Product(b, k, f)
  <2>1. PICK n : n = (b * Window + k) * g.cg + f
    OBVIOUS
  <2>2. n = (b * Window' + k) * g'.cg + f
    BY <1>1, <2>1
  <2>3. WindowBeat(n)' = WindowBeat(n)
    BY BeatsStay
  <2>4. Product(b, k, f)' = WindowBeat(n)[1]'
    BY <2>2 DEF Product, WindowBeat
  <2>5. Product(b, k, f) = WindowBeat(n)[1]
    BY <2>1 DEF Product
  <2> QED
    BY <2>3, <2>4, <2>5
<1>3. Pooling(y, pool_nf, w, running_max, taken, b)'
  <2>1. \A p : Passes(pool_nf, w, p)' = Passes(pool_nf', w', p)
    BY <1>1 DEF Passes
  <2>2. Seconds(b, pool_nf, w)' = Seconds(b, pool_nf', w')
    BY <1>1 DEF Seconds
  <2>3. ASSUME NEW f \in 0 .. g.cg - 1, Passes(pool_nf', w', f) > 0
        PROVE  running_max'[f] = {Product(b, k, f)' : k \in 0 .. Passes(pool_nf', w', f) - 1}
    <3>1. running_max'[f] = {Product(b, k, f) : k \in 0 .. Passes(pool_nf', w', f) - 1}
      BY <2>3 DEF Pooling
    <3> QED
      BY <1>2, <3>1
  <2> QED
    BY <1>1, <2>1, <2>2, <2>3 DEF Pooling
<1> QED
  BY <1>1, <1>3 DEF Consumed

\* A clock edge keeps the invariant: first the producer's side, then the
\* reader's, then what the consumer has made of it.
LEMMA LayerTickKeeps ==
  ASSUME LayersAssumption, LayerInv, NEW valid \in BOOLEAN, NEW ready \in BOOLEAN,
         LayerTick(valid, ready)
  PROVE  LayerInv'
<1> DEFINE go == SwuReady(ready)
<1>1. PICK P \in Nat, F \in Nat, x \in Nat : UnitInv(P, F, x) /\ Consumed(x)
  BY DEF LayerInv
<1>2. UnitOK /\ Shown(F, x, rd, ovalid, odata)
  BY <1>1 DEF UnitInv
<1>3. /\ ovalid \in BOOLEAN /\ x \in 0 .. 2 * Full - 1 /\ (ovalid => odata = WindowBeat(x))
      /\ g.pooled \in BOOLEAN
  BY <1>2, UnitIs DEF Shown
<1>4. /\ SwuClock(valid, Beat(offered), go)
      /\ IF g.pooled THEN PoolClock(g.cg, Window, ovalid, odata[1], ready) ELSE UNCHANGED pool
      /\ offered' = IF valid /\ CanWrite THEN (offered + 1) % (2 * Image) ELSE offered
      /\ taken' = IF OutValid /\ ready THEN (taken + 1) % (2 * Outputs) ELSE taken
      /\ unit' = unit
  BY DEF LayerTick, SwuClock
<1>5. go \in BOOLEAN
  BY <1>3 DEF SwuReady, PoolSReady, LastPass
<1> HIDE DEF go
<1>6. PICK Q \in Nat : /\ P <= Q /\ Written(Q, wr_pixel', wr_cg', offered')
                       /\ InBuffer(Q, wr_cg', buffer') /\ Room(Q, wr_cg', F, rd)
  BY <1>1, <1>4, WriteKeeps
<1>7. PICK E \in Nat : /\ frame_base' = (E * HW) % Words /\ IsPlace(rd')
                       /\ Room(Q, wr_cg', E, rd') /\ Covered(Q, E, rd')
                       /\ Shown(E, Gone(x, go), rd', ovalid', odata')
  <2>1. \E E \in Nat : /\ frame_base' = (E * HW) % Words /\ IsPlace(rd')
                       /\ Room(Q, wr_cg', E, rd') /\ Covered(Q, E, rd')
                       /\ Shown(E, Gone(x, go), rd', ovalid', odata')
    BY <1>1, <1>4, <1>5, <1>6, ReadKeeps
  <2> QED
    BY <2>1
<1>8. PICK z \in Nat : z = Gone(x, go)
  BY <1>7 DEF Shown
<1>9. UnitInv(Q, E, z)'
  <2>1. Shown(E, z, rd', ovalid', odata')
    BY <1>7, <1>8
  <2> QED
    BY <1>2, <1>4, <1>6, <1>7, <2>1, UnitAgain
<1>10. Consumed(z)'
  <2>1. CASE g.pooled = FALSE
    <3>1. go = ready /\ OutValid = ovalid /\ taken = x
      BY <1>1, <2>1 DEF go, SwuReady, OutValid, Consumed
    <3>2. Outputs = Full
      BY <1>2, <2>1, PlainSizes
    <3>3. taken' = z
      BY <1>4, <1>8, <3>1, <3>2 DEF Gone, Onward
    <3>4. g'.pooled = FALSE
      BY <1>4, <2>1 DEF g
    <3> QED
      BY <3>3, <3>4 DEF Consumed
  <2>2. CASE g.pooled = TRUE
    <3>1. go = PoolSReady(Window, ready) /\ OutValid = PoolMValid(Window, ovalid)
      BY <2>2 DEF go, SwuReady, OutValid
    <3>2. PICK a \in 0 .. 2 * Windows - 1 : Pooling(x, pool_nf, w, running_max, taken, a)
      BY <1>1, <2>2 DEF Consumed
    <3>3. PoolClock(g.cg, Window, ovalid, odata[1], ready)
      BY <1>4, <2>2
    <3>4. OutValid /\ ready <=> (ovalid /\ go) /\ LastPass(Window)
      BY <3>1 DEF PoolSReady, PoolMValid
    <3>5. \E b \in 0 .. 2 * Windows - 1 : Pooling(z, pool_nf', w', running_max', taken', b)
      <4>1. CASE ovalid /\ go
        <5>1. odata[1] = Product(a, w, pool_nf)
          BY <1>3, <3>2, <4>1 DEF Pooling, Product
        <5>2. /\ pool_nf' = (pool_nf + 1) % g.cg
              /\ w' = IF pool_nf = g.cg - 1 THEN (w + 1) % Window ELSE w
              /\ running_max' = IF ~LastPass(Window)
                                THEN [running_max EXCEPT ![pool_nf] = Merged(odata[1])]
                                ELSE running_max
          BY <3>1, <3>3, <4>1 DEF PoolClock
        <5>3. taken' = IF LastPass(Window) THEN (taken + 1) % (2 * Outputs) ELSE taken
          BY <1>4, <3>4, <4>1
        <5>4. z = Onward(x)
          BY <1>8, <4>1 DEF Gone
        <5>5. \E b \in 0 .. 2 * Windows - 1 :
                Pooling(Onward(x), pool_nf', w', running_max', taken', b)
          BY <1>2, <2>2, <3>2, <5>1, <5>2, <5>3, PoolFires
        <5> QED
          BY <5>4, <5>5
      <4>2. CASE ~(ovalid /\ go)
        <5>1. pool_nf' = pool_nf /\ w' = w /\ running_max' = running_max
          BY <3>1, <3>3, <4>2 DEF PoolClock
        <5>2. taken' = taken /\ z = x
          BY <1>4, <1>8, <3>4, <4>2 DEF Gone
        <5> QED
          BY <3>2, <5>1, <5>2
      <4> QED
        BY <4>1, <4>2
    <3>6. PICK b \in 0 .. 2 * Windows - 1 : Pooling(z, pool_nf', w', running_max', taken', b)
      BY <3>5
    <3> QED
      BY <1>4, <2>2, <3>6, PoolAgain
  <2> QED
    BY <1>3, <2>1, <2>2
<1> QED
  BY <1>9, <1>10 DEF LayerInv

\* The stream's beginning, after reset and after a clear.
LEMMA FirstPlace ==
  ASSUME LayersAssumption, UnitOK, NEW q, q = [k \in 1 .. 5 |-> 0]
  PROVE  /\ IsPlace(q) /\ Index(0, q) = 0
         /\ Room(0, 0, 0, q) /\ Covered(0, 0, q) /\ Shown(0, 0, q, FALSE, odata)
<1>1. q \in [1 .. 5 -> Nat] /\ q[1] = 0 /\ q[2] = 0 /\ q[3] = 0 /\ q[4] = 0 /\ q[5] = 0
  OBVIOUS
<1>2. /\ g.cg \in Nat \ {0} /\ Kwg \in Nat \ {0} /\ g.kh \in Nat \ {0} /\ HW \in Nat \ {0}
      /\ unit.ofm_w \in Nat \ {0} /\ unit.ofm_h \in Nat \ {0} /\ unit.depth \in Nat \ {0}
      /\ Windows \in Nat \ {0} /\ Reads \in Nat \ {0} /\ Full \in Nat \ {0}
  BY UnitIs, Sizes
<1>3. IsPlace(q)
  BY <1>1, <1>2 DEF IsPlace
<1>4. Index(0, q) = 0
  BY <1>1, <1>2 DEF Index, At, Step
<1>5. Room(0, 0, 0, q)
  <2>1. OldestAt(q) \in Nat
    BY <1>2, <1>3, OldestBelow
  <2> QED
    BY <1>2, <2>1 DEF Room, Limit
<1>6. Covered(0, 0, q)
  <2> SUFFICES ASSUME NEW p \in [1 .. 5 -> Nat], IsPlace(p), Index(0, p) < Index(0, q)
               PROVE  FALSE
    BY DEF Covered
  <2>1. 0 \in 0 .. 1
    OBVIOUS
  <2>2. Index(0, p) \in 0 .. Full - 1
    BY <2>1, IndexIn
  <2> QED
    BY <1>2, <1>4, <2>2
<1>7. Shown(0, 0, q, FALSE, odata)
  BY <1>2, <1>4 DEF Shown
<1> QED
  BY <1>3, <1>4, <1>5, <1>6, <1>7

\* The pool before its first beat.
LEMMA FirstPool ==
  ASSUME LayersAssumption, UnitOK, g.pooled, NEW memory, DOMAIN memory = 0 .. g.cg - 1
  PROVE  Pooling(0, 0, 0, memory, 0, 0)
<1>1. g.cg \in Nat \ {0} /\ Window \in Nat \ {0}
  BY PoolSizes, Sizes
<1>2. \A f \in 0 .. g.cg - 1 : Passes(0, 0, f) = 0
  BY <1>1 DEF Passes
<1>3. Seconds(0, 0, 0) = 0
  BY <1>1 DEF Seconds
<1> QED
  BY <1>1, <1>2, <1>3 DEF Pooling

\* The invariant holds after reset.
LEMMA InitHolds ==
  ASSUME LayersAssumption, StreamInit
  PROVE  LayerInv
<1>1. UnitOK
  BY DEF StreamInit, UnitOK
<1>2. g.cg \in Nat \ {0} /\ unit.depth \in Nat \ {0} /\ HW \in Nat \ {0} /\ Words \in Nat \ {0}
      /\ Windows \in Nat \ {0} /\ g.pooled \in BOOLEAN
  BY <1>1, UnitIs, Sizes DEF LayersAssumption
<1>3. /\ wr_cg = 0 /\ wr_pixel = 0 /\ rd = [k \in 1 .. 5 |-> 0] /\ frame_base = 0
      /\ buffer = [a \in 0 .. unit.depth * g.cg - 1 |-> NoPixel] /\ ovalid = FALSE
      /\ offered = 0 /\ taken = 0 /\ pool_nf = 0 /\ w = 0
      /\ running_max = [f \in 0 .. g.cg - 1 |-> {NoPixel}]
  BY DEF StreamInit, SwuInit, PoolInit
<1>4. /\ IsPlace(rd) /\ Room(0, 0, 0, rd) /\ Covered(0, 0, rd) /\ Shown(0, 0, rd, FALSE, odata)
  BY <1>1, <1>3, FirstPlace
<1>5. Written(0, 0, 0, 0) /\ InBuffer(0, 0, buffer)
  <2>1. 0 % Words = 0 /\ 0 % (2 * HW) = 0
    BY <1>2
  <2>2. Written(0, 0, 0, 0)
    BY <1>2, <2>1 DEF Written
  <2>3. \A n \in Nat, c \in 0 .. g.cg - 1 : ~InForce(0, 0, n, c)
    BY <1>2 DEF InForce
  <2> QED
    BY <1>3, <2>2, <2>3 DEF InBuffer
<1>6. frame_base = (0 * HW) % Words
  BY <1>2, <1>3
<1>7. UnitInv(0, 0, 0)
  BY <1>1, <1>3, <1>4, <1>5, <1>6 DEF UnitInv
<1>8. Consumed(0)
  <2>1. CASE g.pooled = TRUE
    <3>1. Pooling(0, pool_nf, w, running_max, taken, 0)
      BY <1>1, <1>3, <2>1, FirstPool
    <3>2. 0 \in 0 .. 2 * Windows - 1
      BY <1>2
    <3> QED
      BY <2>1, <3>1, <3>2 DEF Consumed
  <2>2. CASE g.pooled = FALSE
    BY <1>3, <2>2 DEF Consumed
  <2> QED
    BY <1>2, <2>1, <2>2
<1> QED
  BY <1>7, <1>8 DEF LayerInv

\* A clear of the stream puts the unit and the pool where a reset does.
LEMMA RestartKeeps ==
  ASSUME LayersAssumption, LayerInv, Restart
  PROVE  LayerInv'
<1>1. UnitOK /\ DOMAIN buffer = 0 .. unit.depth * g.cg - 1
  BY DEF LayerInv, UnitInv, InBuffer
<1>2. g.cg \in Nat \ {0} /\ unit.depth \in Nat \ {0} /\ HW \in Nat \ {0} /\ Words \in Nat \ {0}
      /\ Windows \in Nat \ {0} /\ g.pooled \in BOOLEAN
  BY <1>1, UnitIs, Sizes DEF LayersAssumption
<1>3. /\ wr_cg' = 0 /\ wr_pixel' = 0 /\ rd' = [k \in 1 .. 5 |-> 0] /\ frame_base' = 0
      /\ buffer' = [a \in DOMAIN buffer |-> NoPixel] /\ ovalid' = FALSE /\ unit' = unit
      /\ offered' = 0 /\ taken' = 0 /\ pool_nf' = 0 /\ w' = 0
      /\ running_max' = [f \in DOMAIN running_max |-> {NoPixel}]
  BY DEF Restart, SwuClear, PoolClear
<1>4. /\ IsPlace(rd') /\ Room(0, 0, 0, rd') /\ Covered(0, 0, rd') /\ Shown(0, 0, rd', FALSE, odata)
  BY <1>1, <1>3, FirstPlace
<1>5. Shown(0, 0, rd', ovalid', odata')
  BY <1>3, <1>4 DEF Shown
<1>6. Written(0, 0, 0, 0) /\ InBuffer(0, 0, buffer')
  <2>1. 0 % Words = 0 /\ 0 % (2 * HW) = 0
    BY <1>2
  <2>2. Written(0, 0, 0, 0)
    BY <1>2, <2>1 DEF Written
  <2>3. \A n \in Nat, c \in 0 .. g.cg - 1 : ~InForce(0, 0, n, c)
    BY <1>2 DEF InForce
  <2> QED
    BY <1>1, <1>3, <2>2, <2>3 DEF InBuffer
<1>7. frame_base' = (0 * HW) % Words
  BY <1>2, <1>3
<1>8. UnitInv(0, 0, 0)'
  <2>1. /\ Written(0, wr_pixel', wr_cg', offered') /\ InBuffer(0, wr_cg', buffer')
        /\ Room(0, wr_cg', 0, rd')
    BY <1>3, <1>4, <1>6
  <2> QED
    BY <1>1, <1>3, <1>4, <1>5, <1>7, <2>1, UnitAgain
<1>9. Consumed(0)'
  <2>1. CASE g.pooled = TRUE
    <3>1. DOMAIN running_max = 0 .. g.cg - 1
      BY <2>1 DEF LayerInv, Consumed, Pooling
    <3>2. Pooling(0, pool_nf', w', running_max', taken', 0)
      BY <1>1, <1>3, <2>1, <3>1, FirstPool
    <3>3. 0 \in 0 .. 2 * Windows - 1
      BY <1>2
    <3> QED
      BY <1>3, <2>1, <3>2, <3>3, PoolAgain
  <2>2. CASE g.pooled = FALSE
    <3>1. g'.pooled = FALSE
      BY <1>3, <2>2 DEF g
    <3> QED
      BY <1>3, <3>1 DEF Consumed
  <2> QED
    BY <1>2, <2>1, <2>2
<1> QED
  BY <1>8, <1>9 DEF LayerInv

\* What the consumer sees is numpy's beat at the place the consumer is at.
LEMMA LayerDelivers ==
  ASSUME LayersAssumption, LayerInv
  PROVE  WindowsInOrder
<1>1. PICK P \in Nat, F \in Nat, x \in Nat : UnitInv(P, F, x) /\ Consumed(x)
  BY DEF LayerInv
<1>2. UnitOK /\ Shown(F, x, rd, ovalid, odata)
  BY <1>1 DEF UnitInv
<1>3. (ovalid => odata = WindowBeat(x)) /\ g.pooled \in BOOLEAN
  BY <1>2, UnitIs DEF Shown
<1>4. CASE g.pooled = FALSE
  BY <1>1, <1>3, <1>4 DEF Consumed, OutValid, WindowsInOrder
<1>5. CASE g.pooled = TRUE
  <2> SUFFICES ASSUME ovalid, LastPass(Window) PROVE Merged(odata[1]) = PoolBeat(taken)
    BY <1>5 DEF WindowsInOrder, OutValid, PoolMValid
  <2>1. PICK a \in 0 .. 2 * Windows - 1 : Pooling(x, pool_nf, w, running_max, taken, a)
    BY <1>1, <1>5 DEF Consumed
  <2>2. Window \in Nat \ {0} /\ g.cg \in Nat \ {0} /\ Windows \in Nat \ {0}
    BY <1>2, <1>5, PoolSizes, Sizes
  <2>3. /\ pool_nf \in 0 .. g.cg - 1 /\ w = Window - 1 /\ taken = a * g.cg + pool_nf
        /\ odata[1] = Product(a, w, pool_nf)
    BY <1>3, <2>1 DEF Pooling, Seconds, Product, LastPass
  <2>4. Merged(odata[1]) = {Product(a, k, pool_nf) : k \in 0 .. Window - 1}
    <3>1. CASE w = 0
      <4>1. 0 .. Window - 1 = {0}
        BY <2>2, <2>3, <3>1
      <4> QED
        BY <2>3, <3>1, <4>1 DEF Merged
    <3>2. CASE w # 0
      <4>1. Passes(pool_nf, w, pool_nf) = w /\ w > 0
        BY <2>2, <2>3, <3>2 DEF Passes
      <4>2. running_max[pool_nf] = {Product(a, k, pool_nf) : k \in 0 .. w - 1}
        BY <2>1, <2>3, <4>1 DEF Pooling
      <4>3. 0 .. Window - 1 = (0 .. w - 1) \cup {w}
        BY <2>2, <2>3, <4>1
      <4>4. {Product(a, k, pool_nf) : k \in 0 .. Window - 1}
              = {Product(a, k, pool_nf) : k \in 0 .. w - 1} \cup {Product(a, w, pool_nf)}
        BY <4>3
      <4> QED
        BY <2>3, <3>2, <4>2, <4>4 DEF Merged
    <3> QED
      BY <3>1, <3>2
  <2>5. a \in Nat
    BY <2>2
  <2>6. {Product(a, k, pool_nf) : k \in 0 .. Window - 1} = PoolBeat(a * g.cg + pool_nf)
    BY <1>2, <1>5, <2>3, <2>5, PoolBeatIs
  <2> QED
    BY <2>3, <2>4, <2>6
<1> QED
  BY <1>3, <1>4, <1>5

\* The invariant does not depend on anything else.
LEMMA StutterKeeps ==
  ASSUME LayersAssumption, LayerInv, UNCHANGED layerVars
  PROVE  LayerInv'
<1>1. PICK P \in Nat, F \in Nat, x \in Nat : UnitInv(P, F, x) /\ Consumed(x)
  BY DEF LayerInv
<1>2. /\ unit' = unit /\ wr_cg' = wr_cg /\ wr_pixel' = wr_pixel /\ rd' = rd
      /\ frame_base' = frame_base /\ buffer' = buffer /\ ovalid' = ovalid /\ odata' = odata
      /\ pool_nf' = pool_nf /\ w' = w /\ running_max' = running_max
      /\ offered' = offered /\ taken' = taken
  BY DEF layerVars, swu, pool
<1>3. UnitInv(P, F, x)'
  <2>1. /\ UnitOK /\ Written(P, wr_pixel', wr_cg', offered') /\ InBuffer(P, wr_cg', buffer')
        /\ frame_base' = (F * HW) % Words /\ IsPlace(rd') /\ Room(P, wr_cg', F, rd')
        /\ Covered(P, F, rd') /\ Shown(F, x, rd', ovalid', odata')
    BY <1>1, <1>2 DEF UnitInv
  <2> QED
    BY <1>2, <2>1, UnitAgain
<1>4. Consumed(x)'
  <2>1. CASE g.pooled
    <3>1. PICK a \in 0 .. 2 * Windows - 1 : Pooling(x, pool_nf', w', running_max', taken', a)
      BY <1>1, <1>2, <2>1 DEF Consumed
    <3> QED
      BY <1>2, <2>1, <3>1, PoolAgain
  <2>2. CASE ~g.pooled
    <3>1. taken' = x /\ ~g'.pooled
      BY <1>1, <1>2, <2>2 DEF Consumed, g
    <3> QED
      BY <3>1 DEF Consumed
  <2> QED
    BY <2>1, <2>2
<1> QED
  BY <1>3, <1>4 DEF LayerInv

\* For every layer whose windows stay in its image, any sizes, strides, dilations,
\* padding, channel groups and columns a beat, with a pool behind it or not, for
\* any word and buffer size that can tell the pixels apart, any number of images,
\* any pace of the producer and the consumer and any clears: every beat the
\* consumer is offered is the one numpy's Im2Col has at its place, and every
\* maximum that of its window (otf_swu_line.ml, otf_pool.ml).
THEOREM EveryWindowInOrder ==
  ASSUME LayersAssumption
  PROVE  LayerSpec => []WindowsInOrder
<1>1. StreamInit => LayerInv
  BY InitHolds
<1>2. LayerInv /\ [LayerNext]_layerVars => LayerInv'
  <2>1. ASSUME LayerInv, NEW valid \in BOOLEAN, NEW ready \in BOOLEAN, LayerTick(valid, ready)
        PROVE  LayerInv'
    BY <2>1, LayerTickKeeps
  <2>2. ASSUME LayerInv, Restart PROVE LayerInv'
    BY <2>2, RestartKeeps
  <2>3. ASSUME LayerInv, UNCHANGED layerVars PROVE LayerInv'
    BY <2>3, StutterKeeps
  <2> QED
    BY <2>1, <2>2, <2>3 DEF LayerNext
<1>3. LayerInv => WindowsInOrder
  BY LayerDelivers
<1> QED
  BY <1>1, <1>2, <1>3, PTL DEF LayerSpec

=============================================================================
