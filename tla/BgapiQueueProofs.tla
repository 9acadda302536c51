-------------------------- MODULE BgapiQueueProofs --------------------------
(***************************************************************************)
(* Proofs about BgapiQueue, for every length of the ring buffer and every  *)
(* number of events, commands and failed reads.                            *)
(***************************************************************************)
EXTENDS BgapiQueue, SequenceTheorems, FiniteSetTheorems, TLAPS

(* What % does to an offset that has passed the end of the buffer at most  *)
(* once.                                                                   *)
LEMMA ModSmall ==
  ASSUME NEW n \in Nat \ {0}, NEW x \in 0..n - 1
  PROVE  x % n = x
  BY SMT

LEMMA ModWrap ==
  ASSUME NEW n \in Nat \ {0}, NEW x \in n..2 * n - 1
  PROVE  x % n = x - n
  BY SMT

LEMMA SuccessorOf ==
  ASSUME NEW x \in Slot
  PROVE  /\ Successor(x) = IF x + 1 = QueueLen THEN 0 ELSE x + 1
         /\ Successor(x) \in Slot
  BY QueueLenAssumption DEF Slot, Successor

(* The slot of the i-th waiting event.                                     *)
Position(r, i) == (r + i - 1) % QueueLen

LEMMA PositionOf ==
  ASSUME NEW r \in Slot, NEW i \in 1..QueueLen
  PROVE  /\ Position(r, i) = IF r + i - 1 < QueueLen THEN r + i - 1
                                                    ELSE r + i - 1 - QueueLen
         /\ Position(r, i) \in Slot
<1> USE QueueLenAssumption DEF Slot
<1>1. CASE r + i - 1 < QueueLen
  <2>1. r + i - 1 \in 0..QueueLen - 1
    BY <1>1
  <2> QED
    BY <1>1, <2>1, ModSmall DEF Position
<1>2. CASE ~(r + i - 1 < QueueLen)
  <2>1. r + i - 1 \in QueueLen..2 * QueueLen - 1
    BY <1>2
  <2>2. Position(r, i) = r + i - 1 - QueueLen
    BY <2>1, ModWrap DEF Position
  <2> QED
    BY <1>2, <2>1, <2>2
<1> QED
  BY <1>1, <1>2

LEMMA TailType ==
  ASSUME NEW S, NEW s \in Seq(S), s # <<>>
  PROVE  Tail(s) \in Seq(S) /\ Head(s) \in S
  BY HeadTailProperties

-----------------------------------------------------------------------------
(* Type correctness.                                                       *)

LEMMA PartsType ==
  ASSUME NEW n \in Number
  PROVE  EventParts(n) \in Seq(Part) /\ ResponseParts \in Seq(Part)
<1>1. /\ [part |-> "header", type |-> "event", number |-> n] \in Part
      /\ [part |-> "payload", type |-> "event", number |-> n] \in Part
  BY DEF Part
<1>2. /\ [part |-> "header", type |-> "response"] \in Part
      /\ [part |-> "payload", type |-> "response"] \in Part
  BY DEF Part
<1>3. ASSUME NEW a \in Part, NEW b \in Part PROVE <<a, b>> \in Seq(Part)
  OBVIOUS
<1> QED
  BY <1>1, <1>2, <1>3 DEF EventParts, ResponseParts

(* Reading keeps the line, the ring and the call well-typed.               *)
LEMMA ConsumeType ==
  ASSUME line \in Seq(Part), NEW parts \in {1, 2}, Consume(parts)
  PROVE  line' \in Seq(Part)
  BY SubSeqProperties, LenProperties DEF Consume

LEMMA ReadPayloadType ==
  ASSUME line \in Seq(Part), interrupts \in 0..MaxInterrupts,
         NEW read \in BOOLEAN, ReadPayload(read)
  PROVE  line' \in Seq(Part) /\ interrupts' \in 0..MaxInterrupts
  BY ConsumeType, MaxAssumption DEF ReadPayload, Interrupted

LEMMA NumberAtHeader ==
  ASSUME line \in Seq(Part), AtHeader("event")
  PROVE  Head(line).number \in Number
<1>1. Head(line) \in Part
  BY TailType DEF AtHeader
<1> QED
  BY <1>1 DEF AtHeader, Part

LEMMA ReadMessageType ==
  ASSUME TypeOK, ReadMessage
  PROVE  TypeOK'
<1> DEFINE Rest == /\ UNCHANGED <<unanswered, delivered, events, commands>>
<1> USE DEF ringVars
<1>0. Rest
  BY DEF ReadMessage
<1>1. CASE SkipBytes
  BY <1>0, <1>1, ConsumeType DEF SkipBytes, TypeOK
<1>2. CASE LoseHeader
  BY <1>0, <1>2, ConsumeType, MaxAssumption DEF LoseHeader, Interrupted, TypeOK
<1>3. CASE DiscardEvent
  <2>1. line' \in Seq(Part) /\ interrupts' \in 0..MaxInterrupts
    BY <1>3, ReadPayloadType DEF DiscardEvent, TypeOK
  <2> QED
    BY <1>0, <1>3, <2>1 DEF DiscardEvent, TypeOK
<1>4. CASE StoreEvent
  <2>1. PICK read \in BOOLEAN :
          /\ ReadPayload(read)
          /\ buffer' = [buffer EXCEPT
               ![write_offset].header = Head(line).number,
               ![write_offset].payload = IF read THEN Head(line).number ELSE @]
    BY <1>4 DEF StoreEvent
  <2>2. line' \in Seq(Part) /\ interrupts' \in 0..MaxInterrupts
    BY <2>1, ReadPayloadType DEF TypeOK
  <2>3. Head(line).number \in Number
    BY <1>4, NumberAtHeader DEF StoreEvent, TypeOK
  <2>4. buffer' \in [Slot -> Message]
    BY <2>1, <2>3 DEF TypeOK, Message
  <2> QED
    BY <1>0, <1>4, <2>2, <2>4, SuccessorOf DEF StoreEvent, TypeOK
<1>5. CASE TakeResponse
  <2>1. line' \in Seq(Part) /\ interrupts' \in 0..MaxInterrupts
    BY <1>5, ReadPayloadType DEF TakeResponse, TypeOK
  <2>2. call' \in {"none", "pop", "wait"} /\ confused' \in BOOLEAN
    BY <1>5 DEF TakeResponse, TypeOK
  <2> QED
    BY <1>0, <1>5, <2>1, <2>2 DEF TakeResponse, TypeOK
<1>6. CASE Misread
  <2>1. line' \in Seq(Part)
    BY <1>6, ConsumeType DEF Misread, TypeOK
  <2>2. [header |-> 0, payload |-> 0] \in Message
    BY MaxAssumption DEF Message, Number
  <2>3. buffer' \in [Slot -> Message] /\ write_offset' \in Slot /\ read_offset' \in Slot
    BY <1>6, <2>2, SuccessorOf DEF Misread, TypeOK
  <2>4. call' \in {"none", "pop", "wait"} /\ confused' \in BOOLEAN
    BY <1>6 DEF Misread, TypeOK
  <2> QED
    BY <1>0, <1>6, <2>1, <2>3, <2>4 DEF Misread, TypeOK
<1> QED
  BY <1>1, <1>2, <1>3, <1>4, <1>5, <1>6 DEF ReadMessage

(* The offsets never leave the buffer and every other variable keeps its   *)
(* type (TypeOK), whichever reads fail.                                    *)
THEOREM TypeCorrect == Spec => []TypeOK
<1>1. Init => TypeOK
  <2> SUFFICES ASSUME Init PROVE TypeOK
    OBVIOUS
  <2>1. line \in Seq(Part) /\ delivered \in Seq(Message)
    BY DEF Init
  <2>2. /\ buffer \in [Slot -> Message] /\ read_offset \in Slot /\ write_offset \in Slot
        /\ events \in Number /\ commands \in 0..MaxCommands
        /\ interrupts \in 0..MaxInterrupts
    BY QueueLenAssumption, MaxAssumption DEF Init, Slot, Number, Message
  <2> QED
    BY <2>1, <2>2 DEF Init, TypeOK
<1>2. ASSUME TypeOK, [Next]_vars
      PROVE  TypeOK'
  <2> USE <1>2 DEF ringVars
  <2>1. CASE SendEvent
    <3>1. events + 1 \in Number
      BY <2>1, MaxAssumption DEF SendEvent, TypeOK, Number
    <3>2. line' \in Seq(Part)
      BY <2>1, <3>1, PartsType, ConcatProperties DEF SendEvent, TypeOK
    <3> QED
      BY <2>1, <3>1, <3>2 DEF SendEvent, TypeOK
  <2>2. CASE SendResponse
    <3>1. 0 \in Number
      BY MaxAssumption DEF Number
    <3>2. line' \in Seq(Part)
      BY <2>2, <3>1, PartsType, ConcatProperties DEF SendResponse, TypeOK
    <3> QED
      BY <2>2, <3>2 DEF SendResponse, TypeOK
  <2>3. CASE PopEvent \/ PopWouldBlock
    BY <2>3 DEF PopEvent, PopWouldBlock, TypeOK
  <2>4. CASE PopQueued
    <3>1. buffer[read_offset] \in Message
      BY DEF TypeOK
    <3>2. delivered' \in Seq(Message)
      BY <2>4, <3>1, AppendProperties DEF PopQueued, TypeOK
    <3> QED
      BY <2>4, <3>2, SuccessorOf DEF PopQueued, TypeOK
  <2>5. CASE Command
    BY <2>5, MaxAssumption DEF Command, TypeOK
  <2>6. CASE PopReads \/ WaitReads
    BY <2>6, ReadMessageType DEF PopReads, WaitReads
  <2>7. CASE UNCHANGED vars
    BY <2>7 DEF vars, TypeOK
  <2> QED
    BY <2>1, <2>2, <2>3, <2>4, <2>5, <2>6, <2>7 DEF Next, HostNext
<1> QED
  BY <1>1, <1>2, PTL DEF Spec

-----------------------------------------------------------------------------
(* The ring buffer implements the queue of EventFifo.                      *)

(* How the offsets encode the number of events that wait.                  *)
LEMMA WaitingOf ==
  ASSUME TypeOK
  PROVE  /\ Waiting \in 0..QueueLen - 1
         /\ HasEvents <=> Waiting # 0
         /\ QueueFull <=> Waiting = QueueLen - 1
         /\ Position(read_offset, Waiting + 1) = write_offset
<1> USE QueueLenAssumption DEF Slot
<1>1. read_offset \in Slot /\ write_offset \in Slot
  BY DEF TypeOK
<1>2. Waiting \in 0..QueueLen - 1
  BY <1>1 DEF Waiting
<1>3. HasEvents <=> Waiting # 0
  BY <1>1 DEF Waiting, HasEvents
<1>4. QueueFull <=> Waiting = QueueLen - 1
  BY <1>1, SuccessorOf DEF Waiting, QueueFull
<1>5. Position(read_offset, Waiting + 1) = write_offset
  <2>1. Waiting + 1 \in 1..QueueLen
    BY <1>2
  <2> QED
    BY <1>1, <2>1, PositionOf DEF Waiting
<1> QED
  BY <1>2, <1>3, <1>4, <1>5

(* The headers of n events from offset r on in buffer b.                   *)
Ring(b, r, n) == [i \in 1..n |-> b[Position(r, i)].header]

LEMMA RingOf ==
  ASSUME NEW b \in [Slot -> Message], NEW r \in Slot, NEW n \in 0..QueueLen - 1
  PROVE  /\ Ring(b, r, n) \in Seq(Number)
         /\ Len(Ring(b, r, n)) = n
         /\ \A i \in 1..n : Ring(b, r, n)[i] = b[Position(r, i)].header
<1>1. n \in Nat /\ n <= QueueLen - 1
  BY QueueLenAssumption
<1>2. ASSUME NEW i \in 1..n
      PROVE  b[Position(r, i)].header \in Number
  <2>1. i \in 1..QueueLen
    BY <1>1, QueueLenAssumption
  <2>2. b[Position(r, i)] \in Message
    BY <2>1, PositionOf
  <2> QED
    BY <2>2 DEF Message
<1> QED
  BY <1>1, <1>2 DEF Ring

LEMMA HeadersRing ==
  /\ Headers = Ring(buffer, read_offset, Waiting)
  /\ Headers' = Ring(buffer', read_offset', Waiting')
  BY DEF Headers, Ring, Position

(* The headers of a sequence of messages.                                  *)
HeadersIn(d) == [i \in DOMAIN d |-> d[i].header]

LEMMA HeadersInOf ==
  ASSUME NEW d \in Seq(Message)
  PROVE  /\ HeadersIn(d) \in Seq(Number)
         /\ Len(HeadersIn(d)) = Len(d)
         /\ \A i \in 1..Len(d) : HeadersIn(d)[i] = d[i].header
<1>1. Len(d) \in Nat /\ DOMAIN d = 1..Len(d)
  BY LenProperties
<1>2. ASSUME NEW i \in 1..Len(d)
      PROVE  d[i].header \in Number
  <2>1. d[i] \in Message
    BY ElementOfSeq
  <2> QED
    BY <2>1 DEF Message
<1> QED
  BY <1>1, <1>2 DEF HeadersIn

(* Filling the slot at the write offset appends to the queue.              *)
LEMMA StorePuts ==
  ASSUME TypeOK, TypeOK', ~QueueFull, NEW n \in Number,
         \A s \in Slot \ {write_offset} : buffer'[s] = buffer[s],
         buffer'[write_offset].header = n,
         write_offset' = Successor(write_offset),
         UNCHANGED <<read_offset, delivered>>
  PROVE  Fifo!Put(n)
<1> USE QueueLenAssumption
<1>1. Waiting \in 0..QueueLen - 1 /\ Waiting # QueueLen - 1
  BY WaitingOf
<1>2. Waiting' = Waiting + 1
  <2>1. write_offset' = IF write_offset + 1 = QueueLen THEN 0 ELSE write_offset + 1
    BY SuccessorOf DEF TypeOK
  <2> QED
    BY <1>1, <2>1 DEF Waiting, TypeOK, Slot
<1>3. /\ Len(Headers) = Waiting /\ Headers \in Seq(Number)
      /\ \A i \in 1..Waiting : Headers[i] = buffer[Position(read_offset, i)].header
  <2>1. /\ buffer \in [Slot -> Message] /\ read_offset \in Slot
        /\ Waiting \in 0..QueueLen - 1
    BY <1>1, WaitingOf DEF TypeOK
  <2>2. Headers = Ring(buffer, read_offset, Waiting)
    BY HeadersRing
  <2> QED
    BY <2>1, <2>2, RingOf
<1>4. /\ Len(Headers') = Waiting + 1 /\ Headers' \in Seq(Number)
      /\ \A i \in 1..Waiting + 1 :
           Headers'[i] = buffer'[Position(read_offset, i)].header
  <2>1. /\ buffer' \in [Slot -> Message] /\ read_offset \in Slot
        /\ Waiting + 1 \in 0..QueueLen - 1
    BY <1>1 DEF TypeOK
  <2>2. Headers' = Ring(buffer', read_offset, Waiting + 1)
    BY <1>2, HeadersRing
  <2> QED
    BY <2>1, <2>2, RingOf
<1>6. ASSUME NEW i \in 1..Waiting
      PROVE  Headers'[i] = Headers[i]
  <2>1. i \in 1..QueueLen /\ Waiting + 1 \in 1..QueueLen /\ i # Waiting + 1
    BY <1>1
  <2>2. Position(read_offset, i) # write_offset
    <3>1. Position(read_offset, Waiting + 1) = write_offset
      BY WaitingOf
    <3>2. read_offset \in 0..QueueLen - 1
      BY DEF TypeOK, Slot
    <3>3. /\ Position(read_offset, i) =
              IF read_offset + i - 1 < QueueLen THEN read_offset + i - 1
                                                ELSE read_offset + i - 1 - QueueLen
          /\ Position(read_offset, Waiting + 1) =
              IF read_offset + (Waiting + 1) - 1 < QueueLen
              THEN read_offset + (Waiting + 1) - 1
              ELSE read_offset + (Waiting + 1) - 1 - QueueLen
      BY <2>1, PositionOf DEF TypeOK
    <3> QED
      BY <1>1, <2>1, <3>1, <3>2, <3>3
  <2>3. Position(read_offset, i) \in Slot
    BY <2>1, PositionOf DEF TypeOK
  <2> QED
    BY <1>1, <1>3, <1>4, <2>2, <2>3
<1>7. Headers'[Waiting + 1] = n
  BY <1>1, <1>4, WaitingOf
<1>8. Headers' = Append(Headers, n)
  <2>1. /\ Append(Headers, n) \in Seq(Number)
        /\ Len(Append(Headers, n)) = Waiting + 1
        /\ \A i \in 1..Waiting : Append(Headers, n)[i] = Headers[i]
        /\ Append(Headers, n)[Waiting + 1] = n
    BY <1>3, AppendProperties
  <2>2. \A i \in 1..Waiting + 1 : Headers'[i] = Append(Headers, n)[i]
    BY <1>1, <1>6, <1>7, <2>1
  <2> QED
    BY <1>4, <2>1, <2>2, SeqEqual
<1>9. UNCHANGED DeliveredHeaders
  BY DEF DeliveredHeaders
<1> QED
  BY <1>1, <1>3, <1>8, <1>9 DEF Fifo!Put

(* Moving the read offset on takes the head of the queue.                  *)
LEMMA PopGets ==
  ASSUME TypeOK, TypeOK', PopQueued
  PROVE  Fifo!Get
<1> USE QueueLenAssumption
<1>1. Waiting \in 1..QueueLen - 1
  BY WaitingOf DEF PopQueued
<1>2. Waiting' = Waiting - 1
  <2>1. read_offset' = IF read_offset + 1 = QueueLen THEN 0 ELSE read_offset + 1
    BY SuccessorOf DEF TypeOK, PopQueued
  <2>2. read_offset # write_offset /\ UNCHANGED write_offset
    BY DEF PopQueued, HasEvents
  <2> QED
    BY <2>1, <2>2 DEF Waiting, TypeOK, Slot
<1>3. /\ Len(Headers) = Waiting /\ Headers \in Seq(Number)
      /\ \A i \in 1..Waiting : Headers[i] = buffer[Position(read_offset, i)].header
  <2>1. /\ buffer \in [Slot -> Message] /\ read_offset \in Slot
        /\ Waiting \in 0..QueueLen - 1
    BY <1>1, WaitingOf DEF TypeOK
  <2>2. Headers = Ring(buffer, read_offset, Waiting)
    BY HeadersRing
  <2> QED
    BY <2>1, <2>2, RingOf
<1>4. /\ Len(Headers') = Waiting - 1 /\ Headers' \in Seq(Number)
      /\ \A i \in 1..Waiting - 1 :
           Headers'[i] = buffer[Position(read_offset', i)].header
  <2>1. /\ buffer \in [Slot -> Message] /\ read_offset' \in Slot
        /\ Waiting - 1 \in 0..QueueLen - 1
    BY <1>1 DEF TypeOK
  <2>2. Headers' = Ring(buffer, read_offset', Waiting - 1)
    BY <1>2, HeadersRing DEF PopQueued
  <2> QED
    BY <2>1, <2>2, RingOf
<1>5. ASSUME NEW i \in 1..Waiting - 1
      PROVE  Headers'[i] = Headers[i + 1]
  <2>1. i \in 1..QueueLen /\ i + 1 \in 1..QueueLen /\ i + 1 \in 1..Waiting
    BY <1>1
  <2>2. Position(read_offset', i) = Position(read_offset, i + 1)
    <3>1. read_offset \in 0..QueueLen - 1 /\ read_offset' \in Slot
      BY DEF TypeOK, Slot
    <3>2. read_offset' = IF read_offset + 1 = QueueLen THEN 0 ELSE read_offset + 1
      BY SuccessorOf DEF TypeOK, PopQueued
    <3>3. /\ Position(read_offset', i) =
              IF read_offset' + i - 1 < QueueLen THEN read_offset' + i - 1
                                                 ELSE read_offset' + i - 1 - QueueLen
          /\ Position(read_offset, i + 1) =
              IF read_offset + (i + 1) - 1 < QueueLen
              THEN read_offset + (i + 1) - 1
              ELSE read_offset + (i + 1) - 1 - QueueLen
      BY <2>1, <3>1, PositionOf DEF Slot
    <3> QED
      BY <1>1, <2>1, <3>1, <3>2, <3>3
  <2> QED
    BY <1>3, <1>4, <2>1, <2>2
<1>6. Headers # <<>>
  BY <1>1, <1>3
<1>7. Headers' = Tail(Headers)
  <2>1. /\ Tail(Headers) \in Seq(Number)
        /\ Len(Tail(Headers)) = Waiting - 1
        /\ \A i \in 1..Waiting - 1 : Tail(Headers)[i] = Headers[i + 1]
    BY <1>3, <1>6, HeadTailProperties
  <2> QED
    BY <1>4, <1>5, <2>1, SeqEqual
<1>8. Head(Headers) = buffer[read_offset].header
  <2>1. Head(Headers) = Headers[1]
    BY <1>3, <1>6, HeadTailProperties
  <2>2. 1 \in 1..QueueLen /\ Position(read_offset, 1) = read_offset
    BY PositionOf DEF TypeOK, Slot
  <2> QED
    BY <1>1, <1>3, <2>1, <2>2
<1>9. DeliveredHeaders' = Append(DeliveredHeaders, Head(Headers))
  <2> DEFINE m == buffer[read_offset]
  <2>1. delivered' = Append(delivered, m) /\ m \in Message
    BY DEF PopQueued, TypeOK
  <2>2. delivered \in Seq(Message) /\ Len(delivered) \in Nat
    BY DEF TypeOK
  <2>3. /\ Len(delivered') = Len(delivered) + 1
        /\ \A i \in 1..Len(delivered) : delivered'[i] = delivered[i]
        /\ delivered'[Len(delivered) + 1] = m
    BY <2>1, <2>2, AppendProperties
  <2>4. /\ DeliveredHeaders \in Seq(Number) /\ Len(DeliveredHeaders) = Len(delivered)
        /\ \A i \in 1..Len(delivered) : DeliveredHeaders[i] = delivered[i].header
    BY <2>2, HeadersInOf DEF DeliveredHeaders, HeadersIn
  <2>5. /\ DeliveredHeaders' \in Seq(Number) /\ Len(DeliveredHeaders') = Len(delivered) + 1
        /\ \A i \in 1..Len(delivered) + 1 : DeliveredHeaders'[i] = delivered'[i].header
    <3>1. delivered' \in Seq(Message)
      BY DEF TypeOK
    <3>2. DeliveredHeaders' = HeadersIn(delivered')
      BY DEF DeliveredHeaders, HeadersIn
    <3> QED
      BY <2>3, <3>1, <3>2, HeadersInOf
  <2>6. m.header \in Number
    BY <2>1 DEF Message
  <2>7. /\ Append(DeliveredHeaders, m.header) \in Seq(Number)
        /\ Len(Append(DeliveredHeaders, m.header)) = Len(delivered) + 1
        /\ \A i \in 1..Len(delivered) :
             Append(DeliveredHeaders, m.header)[i] = DeliveredHeaders[i]
        /\ Append(DeliveredHeaders, m.header)[Len(delivered) + 1] = m.header
    BY <2>4, <2>6, AppendProperties
  <2>8. \A i \in 1..Len(delivered) + 1 :
          DeliveredHeaders'[i] = Append(DeliveredHeaders, m.header)[i]
    BY <2>2, <2>3, <2>4, <2>5, <2>7
  <2>9. DeliveredHeaders' = Append(DeliveredHeaders, m.header)
    BY <2>5, <2>7, <2>8, SeqEqual
  <2> QED
    BY <1>8, <2>9
<1> QED
  BY <1>6, <1>7, <1>9 DEF Fifo!Get

LEMMA RingUnchanged ==
  ASSUME UNCHANGED <<ringVars, delivered>>
  PROVE  UNCHANGED Fifo!vars
  BY DEF ringVars, Fifo!vars, Headers, DeliveredHeaders, Waiting

LEMMA ReadRefines ==
  ASSUME TypeOK, TypeOK', ReadMessage
  PROVE  [Fifo!Next]_(Fifo!vars)
<1>1. UNCHANGED delivered
  BY DEF ReadMessage
<1>2. CASE SkipBytes \/ LoseHeader \/ DiscardEvent \/ TakeResponse
  BY <1>1, <1>2, RingUnchanged DEF SkipBytes, LoseHeader, DiscardEvent, TakeResponse
<1>3. CASE StoreEvent
  <2>1. Head(line).number \in Number
    BY <1>3, NumberAtHeader DEF StoreEvent, TypeOK
  <2>2. buffer[write_offset] \in Message
    BY DEF TypeOK
  <2>3. /\ \A s \in Slot \ {write_offset} : buffer'[s] = buffer[s]
        /\ buffer'[write_offset].header = Head(line).number
    BY <1>3, <2>1, <2>2 DEF StoreEvent, TypeOK, Message
  <2>4. Fifo!Put(Head(line).number)
    BY <1>1, <1>3, <2>1, <2>3, StorePuts DEF StoreEvent
  <2> QED
    BY <2>1, <2>4 DEF Fifo!Next
<1>4. CASE Misread
  <2>1. CASE UNCHANGED ringVars
    BY <1>1, <2>1, RingUnchanged
  <2>2. CASE /\ ~QueueFull
             /\ buffer' = [buffer EXCEPT ![write_offset] = [header |-> 0, payload |-> 0]]
             /\ write_offset' = Successor(write_offset)
             /\ UNCHANGED read_offset
    <3>1. 0 \in Number
      BY MaxAssumption DEF Number
    <3>2. /\ \A s \in Slot \ {write_offset} : buffer'[s] = buffer[s]
          /\ buffer'[write_offset].header = 0
      BY <2>2 DEF TypeOK
    <3>3. Fifo!Put(0)
      BY <1>1, <2>2, <3>1, <3>2, StorePuts
    <3> QED
      BY <3>1, <3>3 DEF Fifo!Next
  <2> QED
    BY <1>4, <2>1, <2>2 DEF Misread
<1> QED
  BY <1>2, <1>3, <1>4 DEF ReadMessage

(* The ring buffer is a bounded first-in first-out queue that may discard  *)
(* what arrives when it holds QueueLen - 1 events (ImplementsFifo): the    *)
(* wrap of the offsets, the reads that fail and the bytes that are         *)
(* misread make no event jump the queue, come twice or overwrite another.  *)
THEOREM RingImplementsFifo == Spec => ImplementsFifo
<1>1. Init => Fifo!Init
  BY DEF Init, Fifo!Init, Headers, DeliveredHeaders, Waiting
<1>2. ASSUME TypeOK, TypeOK', [Next]_vars
      PROVE  [Fifo!Next]_(Fifo!vars)
  <2> USE <1>2
  <2>1. CASE SendEvent \/ SendResponse \/ PopEvent \/ PopWouldBlock \/ Command
    BY <2>1, RingUnchanged DEF SendEvent, SendResponse, PopEvent, PopWouldBlock, Command
  <2>2. CASE PopQueued
    BY <2>2, PopGets DEF Fifo!Next
  <2>3. CASE PopReads \/ WaitReads
    BY <2>3, ReadRefines DEF PopReads, WaitReads
  <2>4. CASE UNCHANGED vars
    BY <2>4, RingUnchanged DEF vars, ringVars
  <2> QED
    BY <2>1, <2>2, <2>3, <2>4 DEF Next, HostNext
<1> QED
  BY <1>1, <1>2, TypeCorrect, PTL DEF Spec, ImplementsFifo, Fifo!Spec

-----------------------------------------------------------------------------
(* The line as a sequence of whole messages.                               *)

EventsIn(u) == {i \in DOMAIN u : u[i].part = "header" /\ u[i].type = "event"}

ResponsesIn(u) == {i \in DOMAIN u : u[i].part = "header" /\ u[i].type = "response"}

(* Headers and payloads alternate, the first is a header and the last a    *)
(* payload.                                                                *)
Paired(u) ==
  /\ u # <<>> => u[1].part = "header"
  /\ \A i \in DOMAIN u : u[i].part = "header" => i + 1 \in DOMAIN u /\ u[i + 1].part = "payload"
  /\ \A i \in DOMAIN u : u[i].part = "payload" /\ i + 1 \in DOMAIN u => u[i + 1].part = "header"

(* The events of u are in the order of their numbers, and none is above e. *)
Sorted(u, e) ==
  /\ \A i, j \in EventsIn(u) : i < j => u[i].number < u[j].number
  /\ \A i \in EventsIn(u) : u[i].number <= e

LEMMA PartFields ==
  ASSUME NEW p \in Part
  PROVE  /\ p.part \in {"header", "payload"} /\ p.type \in {"event", "response"}
         /\ p.type = "event" => p.number \in Number
  BY DEF Part

LEMMA Numbers ==
  ASSUME NEW u \in Seq(Part), NEW i \in EventsIn(u)
  PROVE  i \in DOMAIN u /\ u[i].number \in Number /\ u[i].number \in Nat
<1>1. i \in DOMAIN u /\ u[i].type = "event" /\ u[i] \in Part
  BY ElementOfSeq, LenProperties DEF EventsIn
<1>2. u[i].number \in Number
  BY <1>1, PartFields
<1>3. QED
  BY <1>1, <1>2, MaxAssumption DEF Number

LEMMA Joined ==
  ASSUME NEW u \in Seq(Part), NEW p \in Part, NEW q \in Part
  PROVE  /\ Len(u) \in Nat /\ DOMAIN u = 1 .. Len(u)
         /\ u \o <<p, q>> \in Seq(Part)
         /\ DOMAIN (u \o <<p, q>>) = 1 .. (Len(u) + 2)
         /\ \A i \in 1 .. Len(u) : (u \o <<p, q>>)[i] = u[i]
         /\ (u \o <<p, q>>)[Len(u) + 1] = p
         /\ (u \o <<p, q>>)[Len(u) + 2] = q
<1> DEFINE t == <<p, q>>
           c == u \o t
<1>1. t \in Seq(Part) /\ Len(t) = 2 /\ t[1] = p /\ t[2] = q
  OBVIOUS
<1>2. Len(u) \in Nat /\ DOMAIN u = 1 .. Len(u)
  BY LenProperties
<1> HIDE DEF t
<1>3. /\ c \in Seq(Part) /\ Len(c) = Len(u) + 2
      /\ \A i \in 1 .. Len(c) : c[i] = IF i <= Len(u) THEN u[i] ELSE t[i - Len(u)]
  <2>1. Len(c) = Len(u) + Len(t) /\ c \in Seq(Part)
    BY <1>1, ConcatProperties
  <2>2. \A i \in 1 .. (Len(u) + Len(t)) : c[i] = IF i <= Len(u) THEN u[i] ELSE t[i - Len(u)]
    BY <1>1, ConcatProperties
  <2> HIDE DEF c
  <2>3. Len(c) = Len(u) + 2
    BY <1>1, <2>1
  <2>4. QED
    BY <1>1, <2>1, <2>2, <2>3
<1>4. DOMAIN c = 1 .. (Len(u) + 2)
  BY <1>3, LenProperties
<1> HIDE DEF c
<1>5. \A i \in 1 .. Len(u) : c[i] = u[i]
  BY <1>2, <1>3
<1>6. c[Len(u) + 1] = p
  <2>1. Len(u) + 1 \in 1 .. Len(c) /\ ~(Len(u) + 1 <= Len(u)) /\ Len(u) + 1 - Len(u) = 1
    BY <1>2, <1>3
  <2>2. QED
    BY <1>1, <1>3, <2>1
<1>7. c[Len(u) + 2] = q
  <2>1. Len(u) + 2 \in 1 .. Len(c) /\ ~(Len(u) + 2 <= Len(u)) /\ Len(u) + 2 - Len(u) = 2
    BY <1>2, <1>3
  <2>2. QED
    BY <1>1, <1>3, <2>1
<1>8. QED
  BY <1>2, <1>3, <1>4, <1>5, <1>6, <1>7 DEF c, t

(* A whole message is sent.                                                *)
LEMMA MessageJoined ==
  ASSUME NEW u \in Seq(Part), NEW p \in Part, NEW q \in Part,
         p.part = "header", q.part = "payload"
  PROVE  /\ Paired(u) => Paired(u \o <<p, q>>)
         /\ EventsIn(u \o <<p, q>>) =
              EventsIn(u) \cup (IF p.type = "event" THEN {Len(u) + 1} ELSE {})
         /\ ResponsesIn(u \o <<p, q>>) =
              ResponsesIn(u) \cup (IF p.type = "response" THEN {Len(u) + 1} ELSE {})
<1> DEFINE c == u \o <<p, q>>
           n == Len(u)
<1>1. /\ n \in Nat /\ DOMAIN u = 1 .. n
      /\ DOMAIN c = 1 .. (n + 2) /\ c \in Seq(Part)
      /\ \A i \in 1 .. n : c[i] = u[i]
      /\ c[n + 1] = p /\ c[n + 2] = q
  BY Joined
<1>2. u # <<>> <=> n # 0
  BY EmptySeq
<1> HIDE DEF c, n
<1>3. \A i \in DOMAIN c : i \in DOMAIN u \/ i = n + 1 \/ i = n + 2
  BY <1>1
<1>4. \A i \in DOMAIN u : i \in DOMAIN c /\ c[i] = u[i] /\ i \in Nat
  BY <1>1
<1>5. n + 1 \in DOMAIN c /\ n + 2 \in DOMAIN c /\ (n + 1) + 1 = n + 2 /\ (n + 2) + 1 \notin DOMAIN c
  BY <1>1
<1>6. ASSUME Paired(u) PROVE Paired(c)
  <2>1. c[1].part = "header"
    <3>1. CASE n = 0
      BY <1>1, <3>1
    <3>2. CASE n # 0
      <4>1. 1 \in DOMAIN u
        BY <1>1, <3>2
      <4>2. QED
        BY <1>2, <1>4, <1>6, <3>2, <4>1 DEF Paired
    <3>3. QED
      BY <3>1, <3>2
  <2>2. ASSUME NEW i \in DOMAIN c, c[i].part = "header"
        PROVE  i + 1 \in DOMAIN c /\ c[i + 1].part = "payload"
    <3>1. CASE i \in DOMAIN u
      BY <1>4, <1>6, <2>2, <3>1 DEF Paired
    <3>2. CASE i = n + 1
      BY <1>1, <1>5, <3>2
    <3>3. CASE i = n + 2
      BY <1>1, <2>2, <3>3
    <3>4. QED
      BY <1>3, <3>1, <3>2, <3>3
  <2>3. ASSUME NEW i \in DOMAIN c, c[i].part = "payload", i + 1 \in DOMAIN c
        PROVE  c[i + 1].part = "header"
    <3>1. CASE i \in DOMAIN u
      <4>1. CASE i + 1 \in DOMAIN u
        BY <1>4, <1>6, <2>3, <3>1, <4>1 DEF Paired
      <4>2. CASE i + 1 \notin DOMAIN u
        <5>1. i + 1 = n + 1
          BY <1>1, <3>1, <4>2
        <5>2. QED
          BY <1>1, <5>1
      <4>3. QED
        BY <4>1, <4>2
    <3>2. CASE i = n + 1
      BY <1>1, <2>3, <3>2
    <3>3. CASE i = n + 2
      BY <1>5, <2>3, <3>3
    <3>4. QED
      BY <1>3, <3>1, <3>2, <3>3
  <2>4. QED
    BY <2>1, <2>2, <2>3 DEF Paired
<1>7. EventsIn(c) = EventsIn(u) \cup (IF p.type = "event" THEN {n + 1} ELSE {})
  <2>1. \A i \in DOMAIN u : i \in EventsIn(c) <=> i \in EventsIn(u)
    BY <1>4 DEF EventsIn
  <2>2. n + 1 \in EventsIn(c) <=> p.type = "event"
    BY <1>1, <1>5 DEF EventsIn
  <2>3. n + 2 \notin EventsIn(c)
    BY <1>1, <1>5 DEF EventsIn
  <2>4. EventsIn(c) \subseteq DOMAIN c /\ EventsIn(u) \subseteq DOMAIN u
    BY DEF EventsIn
  <2>5. QED
    BY <1>3, <2>1, <2>2, <2>3, <2>4
<1>8. ResponsesIn(c) = ResponsesIn(u) \cup (IF p.type = "response" THEN {n + 1} ELSE {})
  <2>1. \A i \in DOMAIN u : i \in ResponsesIn(c) <=> i \in ResponsesIn(u)
    BY <1>4 DEF ResponsesIn
  <2>2. n + 1 \in ResponsesIn(c) <=> p.type = "response"
    BY <1>1, <1>5 DEF ResponsesIn
  <2>3. n + 2 \notin ResponsesIn(c)
    BY <1>1, <1>5 DEF ResponsesIn
  <2>4. ResponsesIn(c) \subseteq DOMAIN c /\ ResponsesIn(u) \subseteq DOMAIN u
    BY DEF ResponsesIn
  <2>5. QED
    BY <1>3, <2>1, <2>2, <2>3, <2>4
<1>9. QED
  BY <1>6, <1>7, <1>8 DEF c, n

LEMMA FiniteLine ==
  ASSUME NEW u \in Seq(Part)
  PROVE  IsFiniteSet(EventsIn(u)) /\ Cardinality(EventsIn(u)) \in Nat
<1>1. DOMAIN u = 1 .. Len(u) /\ Len(u) \in Nat
  BY LenProperties
<1>2. IsFiniteSet(1 .. Len(u))
  BY <1>1, FS_Interval
<1>3. EventsIn(u) \in SUBSET (1 .. Len(u))
  BY <1>1 DEF EventsIn
<1>4. IsFiniteSet(EventsIn(u))
  BY <1>2, <1>3, FS_Subset
<1>5. QED
  BY <1>4, FS_CardinalityType

(* A whole message is read.                                                *)
LEMMA MessageTaken ==
  ASSUME NEW u \in Seq(Part), u # <<>>, Paired(u)
  PROVE  LET v == SubSeq(u, 3, Len(u))
         IN  /\ Paired(v) /\ v \in Seq(Part)
             /\ \A i \in EventsIn(v) : i \in Nat \ {0} /\ i + 2 \in EventsIn(u) /\ v[i] = u[i + 2]
             /\ \A i \in ResponsesIn(v) : i \in Nat \ {0} /\ i + 2 \in ResponsesIn(u)
             /\ Cardinality(EventsIn(u)) =
                  Cardinality(EventsIn(v)) + (IF Head(u).type = "event" THEN 1 ELSE 0)
             /\ Head(u) = u[1] /\ Head(u).part = "header" /\ Head(u) \in Part
             /\ Head(u).type = "event" <=> 1 \in EventsIn(u)
             /\ Head(u).type = "response" <=> 1 \in ResponsesIn(u)
<1> DEFINE n == Len(u)
           v == SubSeq(u, 3, n)
<1>1. n \in Nat \ {0} /\ DOMAIN u = 1 .. n /\ Head(u) = u[1] /\ Head(u) \in Part
  BY LenProperties, EmptySeq, HeadTailProperties
<1>2. 1 \in DOMAIN u /\ u[1].part = "header" /\ 2 \in DOMAIN u /\ u[2].part = "payload"
  <2>1. 1 \in DOMAIN u /\ u[1].part = "header" /\ 1 + 1 = 2
    BY <1>1 DEF Paired
  <2>2. QED
    BY <2>1 DEF Paired
<1>3. n >= 2
  BY <1>1, <1>2
<1>4. /\ v \in Seq(Part) /\ Len(v) = n - 2
      /\ \A i \in 1 .. (n - 2) : v[i] = u[i + 2]
  <2>1. 3 \in 1 .. (n + 1) /\ n \in 0 .. n
    BY <1>1, <1>3
  <2>2. /\ v \in Seq(Part) /\ Len(v) = n - 3 + 1
        /\ \A i \in 1 .. (n - 3 + 1) : v[i] = u[3 + i - 1]
    <3>1. v \in Seq(Part)
      BY <2>1, SubSeqProperties DEF n
    <3>2. Len(v) = n - 3 + 1
      BY <1>1, <1>3, <2>1, SubSeqProperties DEF n
    <3>3. \A i \in 1 .. (n - 3 + 1) : v[i] = u[3 + i - 1]
      BY <1>1, <1>3, <2>1, SubSeqProperties DEF n
    <3>4. QED
      BY <3>1, <3>2, <3>3
  <2> HIDE DEF v, n
  <2>3. n - 3 + 1 = n - 2 /\ \A i \in 1 .. (n - 2) : 3 + i - 1 = i + 2
    BY <1>1
  <2>4. QED
    BY <2>2, <2>3
<1>5. DOMAIN v = 1 .. (n - 2)
  BY <1>4, LenProperties
<1>6. v # <<>> <=> n # 2
  <2>1. v # <<>> <=> Len(v) # 0
    BY <1>4, EmptySeq
  <2>2. QED
    BY <1>1, <1>4, <2>1
<1> HIDE DEF v, n
<1>7. \A i \in DOMAIN v : /\ i \in Nat \ {0} /\ i + 2 \in DOMAIN u /\ v[i] = u[i + 2]
                          /\ (i + 1) + 2 = (i + 2) + 1
                          /\ (i + 2) + 1 \in DOMAIN u <=> i + 1 \in DOMAIN v
  BY <1>1, <1>3, <1>4, <1>5
<1>8. \A i \in DOMAIN u : i = 1 \/ i = 2 \/ (i - 2 \in DOMAIN v /\ (i - 2) + 2 = i)
  BY <1>1, <1>5
<1>9. Paired(v)
  <2>1. ASSUME v # <<>> PROVE v[1].part = "header"
    <3>1. 1 \in DOMAIN v /\ 1 + 2 = 2 + 1 /\ 2 + 1 \in DOMAIN u /\ v[1] = u[2 + 1]
      BY <1>1, <1>3, <1>4, <1>5, <1>6, <2>1
    <3>2. QED
      BY <1>2, <3>1 DEF Paired
  <2>2. ASSUME NEW i \in DOMAIN v, v[i].part = "header"
        PROVE  i + 1 \in DOMAIN v /\ v[i + 1].part = "payload"
    <3>1. (i + 2) + 1 \in DOMAIN u /\ u[(i + 2) + 1].part = "payload"
      BY <1>7, <2>2 DEF Paired
    <3>2. QED
      BY <1>7, <3>1
  <2>3. ASSUME NEW i \in DOMAIN v, v[i].part = "payload", i + 1 \in DOMAIN v
        PROVE  v[i + 1].part = "header"
    <3>1. u[(i + 2) + 1].part = "header"
      BY <1>7, <2>3 DEF Paired
    <3>2. QED
      BY <1>7, <2>3, <3>1
  <2>4. QED
    BY <2>1, <2>2, <2>3 DEF Paired
<1>10. \A i \in EventsIn(v) : i \in Nat \ {0} /\ i + 2 \in EventsIn(u) /\ v[i] = u[i + 2]
  BY <1>7 DEF EventsIn
<1>11. \A i \in ResponsesIn(v) : i \in Nat \ {0} /\ i + 2 \in ResponsesIn(u)
  BY <1>7 DEF ResponsesIn
<1>12. /\ u[1].type = "event" <=> 1 \in EventsIn(u)
       /\ u[1].type = "response" <=> 1 \in ResponsesIn(u)
  BY <1>2 DEF EventsIn, ResponsesIn
<1>13. Cardinality(EventsIn(v)) = Cardinality(EventsIn(u) \ {1})
  <2> DEFINE S == EventsIn(v)
             T == EventsIn(u) \ {1}
             f == [i \in S |-> i + 2]
  <2>1. \A i \in S : i \in Nat /\ i + 2 \in T
    BY <1>10
  <2>2. \A j \in T : j - 2 \in S /\ j \in Nat /\ (j - 2) + 2 = j
    <3> SUFFICES ASSUME NEW j \in T PROVE j - 2 \in S /\ j \in Nat /\ (j - 2) + 2 = j
      OBVIOUS
    <3>1. j \in DOMAIN u /\ u[j].part = "header" /\ u[j].type = "event" /\ j # 1
      BY DEF EventsIn
    <3>2. j # 2
      BY <1>2, <3>1
    <3>3. j - 2 \in DOMAIN v /\ (j - 2) + 2 = j /\ j \in Nat
      BY <1>1, <1>8, <3>1, <3>2
    <3>4. v[j - 2] = u[j]
      BY <1>7, <3>3
    <3>5. QED
      BY <3>1, <3>3, <3>4 DEF EventsIn
  <2> HIDE DEF S, T
  <2>3. f \in [S -> T]
    BY <2>1
  <2>4. \A i, j \in S : f[i] = f[j] => i = j
    BY <2>1
  <2>5. \A j \in T : \E i \in S : f[i] = j
    BY <2>2
  <2>6. f \in Bijection(S, T)
    BY <2>3, <2>4, <2>5 DEF Bijection, Injection, Surjection, IsInjective
  <2>7. ExistsBijection(S, T)
    BY <2>6 DEF ExistsBijection
  <2>8. IsFiniteSet(S)
    BY <1>4, FiniteLine DEF S
  <2>9. Cardinality(S) = Cardinality(T)
    BY <2>7, <2>8, FS_Bijection
  <2>10. QED
    BY <2>9 DEF S, T
<1>14. Cardinality(EventsIn(u)) =
         Cardinality(EventsIn(v)) + (IF Head(u).type = "event" THEN 1 ELSE 0)
  <2> DEFINE k == Cardinality(EventsIn(u))
             m == Cardinality(EventsIn(v))
  <2>1. IsFiniteSet(EventsIn(u)) /\ k \in Nat /\ m \in Nat
    BY <1>4, FiniteLine
  <2>2. m = IF 1 \in EventsIn(u) THEN k - 1 ELSE k
    BY <1>13, <2>1, FS_RemoveElement
  <2> HIDE DEF k, m
  <2>3. k = m + (IF Head(u).type = "event" THEN 1 ELSE 0)
    BY <1>1, <1>12, <2>1, <2>2
  <2>4. QED
    BY <2>3 DEF k, m
<1>15. QED
  BY <1>1, <1>2, <1>4, <1>9, <1>10, <1>11, <1>12, <1>14 DEF v, n

-----------------------------------------------------------------------------
(* Sequences of numbers, and the numbers on the line.                      *)

Increasing(s) == \A i, j \in DOMAIN s : i < j => s[i] < s[j]

UpTo(s, e) == \A i \in DOMAIN s : s[i] <= e

Before(s, t) == \A i \in DOMAIN s, j \in DOMAIN t : s[i] < t[j]

BeforeLine(s, u) == \A i \in DOMAIN s, j \in EventsIn(u) : s[i] < u[j].number

(* The numbers handed out, in the queue and on the line, in this order.    *)
InOrder(d, h, u, e) ==
  /\ Increasing(d) /\ Increasing(h) /\ UpTo(d, e) /\ UpTo(h, e)
  /\ Before(d, h) /\ BeforeLine(d, u) /\ BeforeLine(h, u) /\ Sorted(u, e)

LEMMA NumberAppended ==
  ASSUME NEW s \in Seq(Number), NEW m \in Number
  PROVE  /\ DOMAIN s \subseteq DOMAIN Append(s, m)
         /\ \A i \in DOMAIN s : i \in Nat /\ Append(s, m)[i] = s[i] /\ i < Len(s) + 1
                                 /\ s[i] \in Nat
         /\ \A i \in DOMAIN Append(s, m) : i \in DOMAIN s \/ i = Len(s) + 1
         /\ Append(s, m)[Len(s) + 1] = m /\ Len(s) \in Nat /\ m \in Nat
         /\ \A i \in DOMAIN Append(s, m) : i <= Len(s) + 1
         /\ Len(Append(s, m)) = Len(s) + 1
<1> DEFINE a == Append(s, m)
           n == Len(s)
<1>1. /\ n \in Nat /\ DOMAIN s = 1 .. n /\ DOMAIN a = 1 .. (n + 1)
      /\ \A i \in 1 .. n : a[i] = s[i]
      /\ a[n + 1] = m /\ Len(a) = n + 1
  BY AppendProperties, LenProperties
<1>2. \A i \in 1 .. n : s[i] \in Number
  BY <1>1, ElementOfSeq
<1>3. Number \subseteq Nat
  BY MaxAssumption DEF Number
<1> HIDE DEF a, n
<1>4. \A i \in DOMAIN s : i \in Nat /\ i \in DOMAIN a /\ a[i] = s[i] /\ i < n + 1 /\ s[i] \in Nat
  <2>1. \A i \in DOMAIN s : s[i] \in Nat
    BY <1>1, <1>2, <1>3
  <2>2. \A i \in DOMAIN s : i \in Nat /\ i \in DOMAIN a /\ a[i] = s[i] /\ i < n + 1
    BY <1>1
  <2>3. QED
    BY <2>1, <2>2
<1>5. \A i \in DOMAIN a : (i \in DOMAIN s \/ i = n + 1) /\ i <= n + 1
  BY <1>1
<1>6. m \in Nat
  BY <1>3
<1>7. QED
  BY <1>1, <1>4, <1>5, <1>6 DEF a, n

LEMMA IncreasingAppended ==
  ASSUME NEW s \in Seq(Number), NEW m \in Number, Increasing(s), \A i \in DOMAIN s : s[i] < m
  PROVE  Increasing(Append(s, m))
<1> DEFINE a == Append(s, m)
           n == Len(s)
<1>1. /\ \A i \in DOMAIN s : a[i] = s[i] /\ i \in Nat /\ i < n + 1
      /\ \A i \in DOMAIN a : i \in DOMAIN s \/ i = n + 1
      /\ a[n + 1] = m /\ n \in Nat
  BY NumberAppended
<1> HIDE DEF a, n
<1>2. ASSUME NEW i \in DOMAIN a, NEW j \in DOMAIN a, i < j PROVE a[i] < a[j]
  <2>1. i \in DOMAIN s
    BY <1>1, <1>2
  <2>2. QED
    BY <1>1, <1>2, <2>1 DEF Increasing
<1>3. QED
  BY <1>2 DEF Increasing, a

(* A new event at the end of the line.                                     *)
LEMMA SendsInOrder ==
  ASSUME NEW d \in Seq(Number), NEW h \in Seq(Number), NEW u \in Seq(Part), NEW p \in Part,
         NEW q \in Part, p.part = "header", q.part = "payload", NEW e \in Nat,
         NEW f \in Nat, f = e \/ (f = e + 1 /\ p.type = "event" /\ p.number = f),
         f = e => p.type # "event",
         InOrder(d, h, u, e)
  PROVE  InOrder(d, h, u \o <<p, q>>, f)
<1> DEFINE c == u \o <<p, q>>
           n == Len(u)
<1>1. /\ n \in Nat /\ DOMAIN u = 1 .. n /\ c[n + 1] = p
      /\ \A i \in 1 .. n : c[i] = u[i]
  BY Joined
<1>2. EventsIn(c) = EventsIn(u) \cup (IF p.type = "event" THEN {n + 1} ELSE {})
  BY MessageJoined
<1>3. EventsIn(u) \subseteq DOMAIN u
  BY DEF EventsIn
<1>4. \A i \in DOMAIN d : d[i] \in Nat
  BY NumberAppended, ElementOfSeq, LenProperties, MaxAssumption DEF Number
<1>5. \A i \in DOMAIN h : h[i] \in Nat
  BY NumberAppended, ElementOfSeq, LenProperties, MaxAssumption DEF Number
<1>6. \A i \in EventsIn(u) : i \in 1 .. n /\ c[i] = u[i] /\ u[i].number \in Nat
  BY <1>1, <1>3, Numbers
<1> HIDE DEF c, n
<1>7. \A i \in EventsIn(c) : i \in EventsIn(u) \/ (i = n + 1 /\ f = e + 1 /\ c[i].number = f)
  BY <1>1, <1>2
<1>8. UpTo(d, f) /\ UpTo(h, f)
  BY <1>4, <1>5 DEF InOrder, UpTo
<1>9. BeforeLine(d, c)
  BY <1>4, <1>6, <1>7 DEF InOrder, UpTo, BeforeLine
<1>10. BeforeLine(h, c)
  BY <1>5, <1>6, <1>7 DEF InOrder, UpTo, BeforeLine
<1>11. Sorted(c, f)
  <2>1. ASSUME NEW i \in EventsIn(c), NEW j \in EventsIn(c), i < j
        PROVE  c[i].number < c[j].number
    <3>1. i \in EventsIn(u)
      BY <1>1, <1>6, <1>7, <2>1
    <3>2. u[i].number <= e
      BY <3>1 DEF InOrder, Sorted
    <3>3. CASE j \in EventsIn(u)
      BY <1>6, <2>1, <3>1, <3>3 DEF InOrder, Sorted
    <3>4. CASE f = e + 1 /\ c[j].number = f
      BY <1>6, <3>1, <3>2, <3>4
    <3>5. QED
      BY <1>7, <3>3, <3>4
  <2>2. ASSUME NEW i \in EventsIn(c) PROVE c[i].number <= f
    BY <1>6, <1>7, <2>2 DEF InOrder, Sorted
  <2>3. QED
    BY <2>1, <2>2 DEF Sorted
<1>12. QED
  BY <1>8, <1>9, <1>10, <1>11 DEF InOrder, c

(* What is left of the line when its first message is gone.                *)
LEMMA ReadsInOrder ==
  ASSUME NEW d \in Seq(Number), NEW h \in Seq(Number), NEW u \in Seq(Part), u # <<>>, Paired(u),
         NEW e \in Nat, InOrder(d, h, u, e)
  PROVE  /\ InOrder(d, h, SubSeq(u, 3, Len(u)), e)
         /\ Head(u).type = "event" =>
              /\ Head(u).number \in Number
              /\ InOrder(d, Append(h, Head(u).number), SubSeq(u, 3, Len(u)), e)
<1> DEFINE v == SubSeq(u, 3, Len(u))
<1>1. /\ v \in Seq(Part) /\ Head(u) = u[1]
      /\ \A i \in EventsIn(v) : i \in Nat \ {0} /\ i + 2 \in EventsIn(u) /\ v[i] = u[i + 2]
      /\ Head(u).type = "event" <=> 1 \in EventsIn(u)
  BY MessageTaken
<1> HIDE DEF v
<1>2. \A i \in EventsIn(u) : u[i].number \in Number /\ u[i].number \in Nat
  BY Numbers
<1>3. BeforeLine(d, v) /\ BeforeLine(h, v)
  BY <1>1 DEF BeforeLine, InOrder
<1>4. Sorted(v, e)
  <2>1. ASSUME NEW i \in EventsIn(v), NEW j \in EventsIn(v), i < j
        PROVE  v[i].number < v[j].number
    <3>1. i + 2 < j + 2
      BY <1>1, <2>1
    <3>2. QED
      BY <1>1, <3>1 DEF InOrder, Sorted
  <2>2. \A i \in EventsIn(v) : v[i].number <= e
    BY <1>1 DEF InOrder, Sorted
  <2>3. QED
    BY <2>1, <2>2 DEF Sorted
<1>5. InOrder(d, h, v, e)
  BY <1>3, <1>4 DEF InOrder
<1>6. ASSUME Head(u).type = "event"
      PROVE  Head(u).number \in Number /\ InOrder(d, Append(h, Head(u).number), v, e)
  <2>1. PICK m \in Number : m = Head(u).number
    BY <1>1, <1>2, <1>6
  <2>2. m = u[1].number /\ 1 \in EventsIn(u)
    BY <1>1, <1>6, <2>1
  <2>3. m <= e /\ (\A i \in DOMAIN h : h[i] < m) /\ (\A i \in DOMAIN d : d[i] < m)
    BY <2>2 DEF InOrder, Sorted, BeforeLine
  <2>4. \A j \in EventsIn(v) : m < v[j].number
    <3> SUFFICES ASSUME NEW j \in EventsIn(v) PROVE m < v[j].number
      OBVIOUS
    <3>1. 1 < j + 2 /\ j + 2 \in EventsIn(u)
      BY <1>1
    <3>2. QED
      BY <1>1, <2>2, <3>1 DEF InOrder, Sorted
  <2> DEFINE a == Append(h, m)
             n == Len(h)
  <2>5. /\ \A i \in DOMAIN h : a[i] = h[i]
        /\ \A i \in DOMAIN a : i \in DOMAIN h \/ i = n + 1
        /\ a[n + 1] = m
    BY NumberAppended
  <2>6. Increasing(a)
    BY <2>3, IncreasingAppended DEF InOrder
  <2> HIDE DEF a, n
  <2>7. UpTo(a, e) /\ Before(d, a) /\ BeforeLine(a, v)
    BY <1>3, <2>3, <2>4, <2>5 DEF InOrder, UpTo, Before, BeforeLine
  <2>8. InOrder(d, a, v, e)
    BY <1>5, <2>6, <2>7 DEF InOrder
  <2>9. QED
    BY <2>1, <2>8 DEF a
<1>7. QED
  BY <1>5, <1>6 DEF v

(* The oldest event that waits is handed out.                              *)
LEMMA PopsInOrder ==
  ASSUME NEW d \in Seq(Number), NEW h \in Seq(Number), h # <<>>, NEW u, NEW e, InOrder(d, h, u, e)
  PROVE  InOrder(Append(d, Head(h)), Tail(h), u, e)
<1>1. PICK m \in Number : m = Head(h)
  BY TailType
<1> DEFINE t == Tail(h)
           k == Len(h)
           a == Append(d, m)
           n == Len(d)
<1>2. /\ k \in Nat \ {0} /\ DOMAIN h = 1 .. k /\ DOMAIN t = 1 .. (k - 1)
      /\ \A i \in 1 .. (k - 1) : t[i] = h[i + 1]
      /\ m = h[1]
  BY <1>1, HeadTailProperties, LenProperties, EmptySeq
<1>3. /\ \A i \in DOMAIN d : a[i] = d[i]
      /\ \A i \in DOMAIN a : i \in DOMAIN d \/ i = n + 1
      /\ a[n + 1] = m
  BY NumberAppended
<1>4. 1 \in DOMAIN h
  BY <1>2
<1>5. \A i \in DOMAIN d : d[i] < m
  BY <1>2, <1>4 DEF InOrder, Before
<1>6. Increasing(a)
  BY <1>5, IncreasingAppended DEF InOrder
<1> HIDE DEF t, k, a, n
<1>7. \A i \in DOMAIN t : i \in Nat /\ i + 1 \in DOMAIN h /\ t[i] = h[i + 1] /\ 1 < i + 1
  BY <1>2
<1>8. Increasing(t)
  <2> SUFFICES ASSUME NEW i \in DOMAIN t, NEW j \in DOMAIN t, i < j PROVE t[i] < t[j]
    BY DEF Increasing
  <2>1. i + 1 < j + 1
    BY <1>7
  <2>2. QED
    BY <1>7, <2>1 DEF InOrder, Increasing
<1>9. UpTo(t, e) /\ BeforeLine(t, u)
  BY <1>7 DEF InOrder, UpTo, BeforeLine
<1>10. UpTo(a, e) /\ BeforeLine(a, u)
  BY <1>2, <1>3, <1>4 DEF InOrder, UpTo, BeforeLine
<1>11. Before(a, t)
  <2>1. \A j \in DOMAIN t : m < t[j]
    BY <1>2, <1>4, <1>7 DEF InOrder, Increasing
  <2>2. \A i \in DOMAIN d, j \in DOMAIN t : d[i] < t[j]
    BY <1>7 DEF InOrder, Before
  <2>3. QED
    BY <1>3, <2>1, <2>2 DEF Before
<1>12. QED
  BY <1>1, <1>6, <1>8, <1>9, <1>10, <1>11 DEF InOrder, t, a

-----------------------------------------------------------------------------
(* The inductive invariant of an undisturbed line.                         *)

(* A response is on its way only to a call that waits for it, and only one *)
(* is.                                                                     *)
OneResponse ==
  /\ ~confused
  /\ call # "wait" => ~unanswered /\ ResponsesIn(line) = {}
  /\ unanswered => ResponsesIn(line) = {}
  /\ \A i, j \in ResponsesIn(line) : i = j

SlotsWhole == \A s \in Slot : buffer[s].header = buffer[s].payload

Counted ==
  Len(DeliveredHeaders) + Len(Headers) + Cardinality(EventsIn(line)) + discarded = events

Undisturbed ==
  /\ Paired(line)
  /\ InOrder(DeliveredHeaders, Headers, line, events)
  /\ Counted
  /\ SlotsWhole
  /\ DeliveredWhole
  /\ OneResponse

Sound == interrupts = 0 => Undisturbed

LEMMA QueueTypes ==
  ASSUME TypeOK
  PROVE  /\ DeliveredHeaders \in Seq(Number) /\ Len(DeliveredHeaders) \in Nat
         /\ Headers \in Seq(Number) /\ Len(Headers) \in Nat
         /\ events \in Nat /\ discarded \in Nat /\ line \in Seq(Part)
         /\ Cardinality(EventsIn(line)) \in Nat
<1>1. DeliveredHeaders \in Seq(Number)
  BY HeadersInOf DEF TypeOK, DeliveredHeaders, HeadersIn
<1>2. Headers \in Seq(Number)
  BY HeadersRing, RingOf, WaitingOf DEF TypeOK
<1>3. QED
  BY <1>1, <1>2, LenProperties, FiniteLine, MaxAssumption DEF TypeOK, Number

LEMMA SoundInitially == Init => Sound
<1> SUFFICES ASSUME Init PROVE Undisturbed
  BY DEF Sound
<1>1. line = <<>> /\ DeliveredHeaders = <<>> /\ Headers = <<>>
  BY DEF Init, DeliveredHeaders, Headers, Waiting
<1>2. EventsIn(line) = {} /\ ResponsesIn(line) = {}
  BY <1>1 DEF EventsIn, ResponsesIn
<1>3. Cardinality(EventsIn(line)) = 0
  BY <1>2, FS_EmptySet
<1>4. Paired(line)
  BY <1>1 DEF Paired
<1>5. InOrder(DeliveredHeaders, Headers, line, events)
  BY <1>1, <1>2 DEF InOrder, Increasing, UpTo, Before, BeforeLine, Sorted
<1>6. Counted
  BY <1>1, <1>3 DEF Counted, Init
<1>7. SlotsWhole /\ DeliveredWhole
  BY DEF Init, SlotsWhole, DeliveredWhole
<1>8. OneResponse
  BY <1>2 DEF Init, OneResponse
<1>9. QED
  BY <1>4, <1>5, <1>6, <1>7, <1>8 DEF Undisturbed

(* A read that is not disturbed takes a whole message from the line.       *)
LEMMA WholeRead ==
  ASSUME TypeOK, Undisturbed, interrupts = 0, ReadMessage, interrupts' = 0
  PROVE  /\ line # <<>> /\ line' = SubSeq(line, 3, Len(line))
         /\ UNCHANGED <<unanswered, delivered, events, commands>>
         /\ \/ /\ Head(line).type = "event"
               /\ discarded' = discarded + 1 /\ UNCHANGED <<ringVars, call, confused>>
            \/ /\ Head(line).type = "event" /\ ~QueueFull
               /\ \A s \in Slot \ {write_offset} : buffer'[s] = buffer[s]
               /\ buffer'[write_offset].header = Head(line).number
               /\ buffer'[write_offset].payload = Head(line).number
               /\ write_offset' = Successor(write_offset)
               /\ UNCHANGED <<read_offset, call, confused, discarded>>
            \/ /\ Head(line).type = "response"
               /\ call' = "none" /\ confused' = (confused \/ call = "pop")
               /\ UNCHANGED <<ringVars, discarded>>
<1>1. ~Interrupted
  BY DEF Interrupted
<1>2. UNCHANGED <<unanswered, delivered, events, commands>>
  BY DEF ReadMessage
<1>3. line # <<>> => Head(line).part = "header"
  <2>1. line # <<>> => Head(line) = line[1]
    BY HeadTailProperties DEF TypeOK
  <2>2. QED
    BY <2>1 DEF Undisturbed, Paired
<1>4. ~SkipBytes /\ ~LoseHeader /\ ~Misread
  BY <1>1, <1>3 DEF SkipBytes, LoseHeader, Misread
<1>5. ASSUME NEW read, ReadPayload(read) PROVE read /\ line' = SubSeq(line, 3, Len(line))
  <2>1. Consume(2) /\ read
    BY <1>1, <1>5 DEF ReadPayload
  <2>2. QED
    BY <2>1 DEF Consume
<1>6. CASE DiscardEvent
  BY <1>2, <1>5, <1>6 DEF DiscardEvent, AtHeader
<1>7. CASE StoreEvent
  <2>1. PICK read \in BOOLEAN :
          /\ ReadPayload(read)
          /\ buffer' = [buffer EXCEPT
               ![write_offset].header = Head(line).number,
               ![write_offset].payload = IF read THEN Head(line).number ELSE @]
    BY <1>7 DEF StoreEvent
  <2>2. read /\ line' = SubSeq(line, 3, Len(line))
    BY <1>5, <2>1
  <2>3. /\ \A s \in Slot \ {write_offset} : buffer'[s] = buffer[s]
        /\ buffer'[write_offset].header = Head(line).number
        /\ buffer'[write_offset].payload = Head(line).number
    <3>1. buffer[write_offset] \in Message /\ buffer \in [Slot -> Message] /\ write_offset \in Slot
      BY DEF TypeOK
    <3>2. QED
      BY <2>1, <2>2, <3>1 DEF Message
  <2>4. QED
    BY <1>2, <1>7, <2>2, <2>3 DEF StoreEvent, AtHeader
<1>8. CASE TakeResponse
  <2>1. PICK read \in BOOLEAN :
          /\ ReadPayload(read)
          /\ IF read
             THEN call' = "none" /\ confused' = (confused \/ call = "pop")
             ELSE UNCHANGED <<call, confused>>
    BY <1>8 DEF TakeResponse
  <2>2. read /\ line' = SubSeq(line, 3, Len(line))
    BY <1>5, <2>1
  <2>3. QED
    BY <1>2, <1>8, <2>1, <2>2 DEF TakeResponse, AtHeader
<1>9. QED
  BY <1>4, <1>6, <1>7, <1>8 DEF ReadMessage

LEMMA ReadKeepsSound ==
  ASSUME TypeOK, TypeOK', Undisturbed, interrupts = 0, ReadMessage, interrupts' = 0
  PROVE  Undisturbed'
<1>1. /\ line # <<>> /\ line' = SubSeq(line, 3, Len(line))
      /\ UNCHANGED <<unanswered, delivered, events, commands>>
  BY WholeRead
<1>2. /\ DeliveredHeaders \in Seq(Number) /\ Len(DeliveredHeaders) \in Nat
      /\ Headers \in Seq(Number) /\ Len(Headers) \in Nat
      /\ events \in Nat /\ discarded \in Nat /\ line \in Seq(Part)
      /\ Cardinality(EventsIn(line)) \in Nat
      /\ Paired(line) /\ InOrder(DeliveredHeaders, Headers, line, events)
  BY QueueTypes DEF Undisturbed
<1>3. /\ Paired(line') /\ line' \in Seq(Part)
      /\ \A i \in ResponsesIn(line') : i \in Nat \ {0} /\ i + 2 \in ResponsesIn(line)
      /\ Cardinality(EventsIn(line)) =
           Cardinality(EventsIn(line')) + (IF Head(line).type = "event" THEN 1 ELSE 0)
      /\ Head(line).type = "response" <=> 1 \in ResponsesIn(line)
  BY <1>1, <1>2, MessageTaken
<1>4. Cardinality(EventsIn(line')) \in Nat
  BY <1>3, FiniteLine
<1>5. UNCHANGED DeliveredHeaders /\ DeliveredWhole'
  BY <1>1 DEF DeliveredHeaders, DeliveredWhole, Undisturbed
<1>6. \A i, j \in ResponsesIn(line') : i = j
  <2>1. \A i, j \in ResponsesIn(line') : i + 2 = j + 2 /\ i \in Nat /\ j \in Nat
    BY <1>3 DEF Undisturbed, OneResponse
  <2>2. QED
    BY <2>1
<1>7. ResponsesIn(line) = {} => ResponsesIn(line') = {}
  BY <1>3
<1>8. ASSUME UNCHANGED <<call, confused>> PROVE OneResponse'
  BY <1>1, <1>6, <1>7, <1>8 DEF Undisturbed, OneResponse
<1>9. ASSUME UNCHANGED ringVars PROVE UNCHANGED Headers /\ SlotsWhole'
  BY <1>9 DEF ringVars, Headers, Waiting, SlotsWhole, Undisturbed
<1>10. CASE /\ Head(line).type = "event"
            /\ discarded' = discarded + 1 /\ UNCHANGED <<ringVars, call, confused>>
  <2>1. UNCHANGED Headers /\ SlotsWhole'
    BY <1>9, <1>10
  <2>2. InOrder(DeliveredHeaders', Headers', line', events')
    BY <1>1, <1>2, <1>5, <2>1, ReadsInOrder
  <2>3. Counted'
    BY <1>1, <1>2, <1>3, <1>4, <1>5, <1>10, <2>1 DEF Counted, Undisturbed
  <2>4. QED
    BY <1>3, <1>5, <1>8, <1>10, <2>1, <2>2, <2>3 DEF Undisturbed
<1>11. CASE /\ Head(line).type = "event" /\ ~QueueFull
            /\ \A s \in Slot \ {write_offset} : buffer'[s] = buffer[s]
            /\ buffer'[write_offset].header = Head(line).number
            /\ buffer'[write_offset].payload = Head(line).number
            /\ write_offset' = Successor(write_offset)
            /\ UNCHANGED <<read_offset, call, confused, discarded>>
  <2>1. PICK m \in Number : m = Head(line).number
    BY <1>1, <1>2, <1>11, ReadsInOrder
  <2>2. buffer \in [Slot -> Message] /\ write_offset \in Slot
    BY DEF TypeOK
  <2>3. /\ \A s \in Slot \ {write_offset} : buffer'[s] = buffer[s]
        /\ buffer'[write_offset].header = m /\ buffer'[write_offset].payload = m
    BY <1>11, <2>1
  <2>4. Fifo!Put(m)
    BY <1>1, <1>11, <2>3, StorePuts
  <2>5. Headers' = Append(Headers, m)
    BY <2>4 DEF Fifo!Put
  <2>6. SlotsWhole'
    BY <2>2, <2>3 DEF SlotsWhole, Undisturbed
  <2>7. InOrder(DeliveredHeaders', Headers', line', events')
    BY <1>1, <1>2, <1>5, <1>11, <2>1, <2>5, ReadsInOrder
  <2>8. Len(Headers') = Len(Headers) + 1
    BY <1>2, <2>5, NumberAppended
  <2>9. Counted'
    BY <1>1, <1>2, <1>3, <1>4, <1>5, <1>11, <2>8 DEF Counted, Undisturbed
  <2>10. QED
    BY <1>3, <1>5, <1>8, <1>11, <2>6, <2>7, <2>9 DEF Undisturbed
<1>12. CASE /\ Head(line).type = "response"
            /\ call' = "none" /\ confused' = (confused \/ call = "pop")
            /\ UNCHANGED <<ringVars, discarded>>
  <2>1. UNCHANGED Headers /\ SlotsWhole'
    BY <1>9, <1>12
  <2>2. InOrder(DeliveredHeaders', Headers', line', events')
    BY <1>1, <1>2, <1>5, <2>1, ReadsInOrder
  <2>3. Counted'
    <3>1. Cardinality(EventsIn(line')) = Cardinality(EventsIn(line)) /\ discarded' = discarded
      BY <1>3, <1>4, <1>12
    <3>2. QED
      BY <1>1, <1>5, <2>1, <3>1 DEF Counted, Undisturbed
  <2>4. 1 \in ResponsesIn(line)
    BY <1>3, <1>12
  <2>5. ~confused /\ call = "wait" /\ ~unanswered
    BY <2>4 DEF Undisturbed, OneResponse
  <2>6. ResponsesIn(line') = {}
    <3> SUFFICES ASSUME NEW i \in ResponsesIn(line') PROVE FALSE
      OBVIOUS
    <3>1. i \in Nat \ {0} /\ i + 2 = 1
      BY <1>3, <2>4 DEF Undisturbed, OneResponse
    <3>2. QED
      BY <3>1
  <2>7. OneResponse'
    BY <1>1, <1>12, <2>5, <2>6 DEF OneResponse
  <2>8. QED
    BY <1>3, <1>5, <2>1, <2>2, <2>3, <2>7 DEF Undisturbed
<1>13. QED
  BY <1>10, <1>11, <1>12, WholeRead

LEMMA StepKeepsSound ==
  ASSUME TypeOK, TypeOK', Sound, [Next]_vars
  PROVE  Sound'
<1> SUFFICES ASSUME interrupts' = 0 PROVE Undisturbed'
  BY DEF Sound
<1>1. interrupts = 0
  <2>1. interrupts \in Nat
    BY MaxAssumption DEF TypeOK
  <2>2. interrupts' = interrupts \/ interrupts' = interrupts + 1
    BY DEF vars, Next, HostNext, SendEvent, SendResponse, PopEvent, PopQueued, PopWouldBlock,
           PopReads, Command, WaitReads, ReadMessage, SkipBytes, LoseHeader, DiscardEvent,
           StoreEvent, TakeResponse, Misread, ReadPayload, Interrupted
  <2>3. QED
    BY <2>1, <2>2
<1>2. /\ Undisturbed
      /\ DeliveredHeaders \in Seq(Number) /\ Len(DeliveredHeaders) \in Nat
      /\ Headers \in Seq(Number) /\ Len(Headers) \in Nat
      /\ events \in Nat /\ discarded \in Nat /\ line \in Seq(Part)
      /\ Cardinality(EventsIn(line)) \in Nat
  BY <1>1, QueueTypes DEF Sound
<1>3. ASSUME UNCHANGED <<line, ringVars, delivered, discarded, events>>
      PROVE  /\ Paired(line') /\ InOrder(DeliveredHeaders', Headers', line', events') /\ Counted'
             /\ SlotsWhole' /\ DeliveredWhole'
  <2>1. UNCHANGED Headers /\ UNCHANGED DeliveredHeaders
    BY <1>3 DEF ringVars, Headers, Waiting, DeliveredHeaders
  <2>2. Counted' /\ SlotsWhole' /\ DeliveredWhole'
    BY <1>2, <1>3, <2>1 DEF Undisturbed, Counted, SlotsWhole, DeliveredWhole, ringVars
  <2>3. QED
    BY <1>2, <1>3, <2>1, <2>2 DEF Undisturbed
<1>4. ASSUME NEW p \in Part, NEW q \in Part, p.part = "header", q.part = "payload",
             line' = line \o <<p, q>>, UNCHANGED <<ringVars, delivered, discarded>>
      PROVE  Paired(line') /\ SlotsWhole' /\ DeliveredWhole'
             /\ UNCHANGED Headers /\ UNCHANGED DeliveredHeaders
  <2>1. UNCHANGED Headers /\ UNCHANGED DeliveredHeaders
    BY <1>4 DEF ringVars, Headers, Waiting, DeliveredHeaders
  <2>2. SlotsWhole' /\ DeliveredWhole'
    BY <1>2, <1>4 DEF Undisturbed, SlotsWhole, DeliveredWhole, ringVars
  <2>3. Paired(line')
    BY <1>2, <1>4, MessageJoined DEF Undisturbed
  <2>4. QED
    BY <2>1, <2>2, <2>3
<1>5. CASE SendEvent
  <2>1. PICK m \in Number : m = events + 1 /\ m \in Nat
    BY <1>5, MaxAssumption DEF SendEvent, TypeOK, Number
  <2>2. PICK p \in Part : p = [part |-> "header", type |-> "event", number |-> m]
    BY DEF Part
  <2>3. PICK q \in Part : q = [part |-> "payload", type |-> "event", number |-> m]
    BY DEF Part
  <2>4. p.part = "header" /\ q.part = "payload" /\ p.type = "event" /\ p.number = m
    BY <2>2, <2>3
  <2>5. /\ line' = line \o <<p, q>> /\ events' = m
        /\ UNCHANGED <<unanswered, ringVars, call, delivered, confused, discarded>>
    BY <1>5, <2>1, <2>2, <2>3 DEF SendEvent, EventParts
  <2>6. Paired(line') /\ SlotsWhole' /\ DeliveredWhole' /\ UNCHANGED Headers
        /\ UNCHANGED DeliveredHeaders
    BY <1>4, <2>4, <2>5
  <2>7. InOrder(DeliveredHeaders', Headers', line', events')
    BY <1>2, <2>1, <2>4, <2>5, <2>6, SendsInOrder DEF Undisturbed
  <2>8. Cardinality(EventsIn(line')) = Cardinality(EventsIn(line)) + 1
    <3>1. EventsIn(line') = EventsIn(line) \cup {Len(line) + 1}
      BY <1>2, <2>4, <2>5, MessageJoined
    <3>2. Len(line) + 1 \notin EventsIn(line)
      BY <1>2, LenProperties DEF EventsIn
    <3>3. QED
      BY <1>2, <3>1, <3>2, FiniteLine, FS_AddElement
  <2>9. Counted'
    <3>1. /\ Headers' = Headers /\ DeliveredHeaders' = DeliveredHeaders /\ discarded' = discarded
          /\ events' = events + 1
      BY <2>1, <2>5, <2>6
    <3>2. Counted
      BY <1>2 DEF Undisturbed
    <3>3. Len(DeliveredHeaders) + Len(Headers) + (Cardinality(EventsIn(line)) + 1) + discarded
            = events + 1
      BY <1>2, <3>2 DEF Counted
    <3>4. QED
      BY <2>8, <3>1, <3>3 DEF Counted
  <2>10. ResponsesIn(line') = ResponsesIn(line)
    BY <1>2, <2>4, <2>5, MessageJoined
  <2>11. OneResponse'
    BY <1>2, <2>5, <2>10 DEF OneResponse, Undisturbed
  <2>12. QED
    BY <2>6, <2>7, <2>9, <2>11 DEF Undisturbed
<1>6. CASE SendResponse
  <2>1. PICK p \in Part : p = [part |-> "header", type |-> "response"]
    BY DEF Part
  <2>2. PICK q \in Part : q = [part |-> "payload", type |-> "response"]
    BY DEF Part
  <2>3. p.part = "header" /\ q.part = "payload" /\ p.type = "response"
    BY <2>1, <2>2
  <2>4. /\ unanswered /\ ~unanswered' /\ line' = line \o <<p, q>>
        /\ UNCHANGED <<ringVars, call, delivered, confused, discarded, events>>
    BY <1>6, <2>1, <2>2 DEF SendResponse, ResponseParts
  <2>5. Paired(line') /\ SlotsWhole' /\ DeliveredWhole' /\ UNCHANGED Headers
        /\ UNCHANGED DeliveredHeaders
    BY <1>4, <2>3, <2>4
  <2>6. InOrder(DeliveredHeaders', Headers', line', events')
    BY <1>2, <2>3, <2>4, <2>5, SendsInOrder DEF Undisturbed
  <2>7. EventsIn(line') = EventsIn(line) /\ ResponsesIn(line') = ResponsesIn(line) \cup {Len(line) + 1}
    BY <1>2, <2>3, <2>4, MessageJoined
  <2>8. Counted'
    BY <1>2, <2>4, <2>5, <2>7 DEF Counted, Undisturbed
  <2>9. OneResponse'
    BY <1>2, <2>4, <2>7 DEF OneResponse, Undisturbed
  <2>10. QED
    BY <2>5, <2>6, <2>8, <2>9 DEF Undisturbed
<1>7. CASE PopEvent \/ PopWouldBlock \/ Command \/ UNCHANGED vars
  <2>1. /\ UNCHANGED <<line, ringVars, delivered, discarded, events, confused>>
        /\ \/ call \in {"none", "pop"} /\ UNCHANGED unanswered
           \/ call' = "wait" /\ call # "wait"
           \/ UNCHANGED <<call, unanswered>>
    BY <1>7 DEF PopEvent, PopWouldBlock, Command, vars, ringVars
  <2>2. OneResponse'
    BY <1>2, <2>1 DEF Undisturbed, OneResponse
  <2>3. QED
    BY <1>3, <2>1, <2>2 DEF Undisturbed
<1>8. CASE PopQueued
  <2>1. Fifo!Get
    BY <1>8, PopGets
  <2>2. /\ Headers # <<>> /\ Headers' = Tail(Headers)
        /\ DeliveredHeaders' = Append(DeliveredHeaders, Head(Headers))
    BY <2>1 DEF Fifo!Get
  <2>3. UNCHANGED <<line, unanswered, buffer, confused, discarded, events>> /\ call' = "none" /\ call = "pop"
    BY <1>8 DEF PopQueued
  <2>4. InOrder(DeliveredHeaders', Headers', line', events')
    BY <1>2, <2>2, <2>3, PopsInOrder DEF Undisturbed
  <2>5. Len(Headers') = Len(Headers) - 1 /\ Len(DeliveredHeaders') = Len(DeliveredHeaders) + 1
    BY <1>2, <2>2, TailType, HeadTailProperties, NumberAppended
  <2>6. Counted'
    BY <1>2, <2>3, <2>5 DEF Counted, Undisturbed
  <2>7. SlotsWhole'
    BY <1>2, <2>3 DEF Undisturbed, SlotsWhole
  <2>8. DeliveredWhole'
    <3>1. delivered' = Append(delivered, buffer[read_offset]) /\ delivered \in Seq(Message)
          /\ buffer[read_offset] \in Message
      BY <1>8 DEF PopQueued, TypeOK
    <3>2. buffer[read_offset].header = buffer[read_offset].payload
      BY <1>2 DEF Undisturbed, SlotsWhole, TypeOK
    <3>3. /\ Len(delivered) \in Nat /\ DOMAIN delivered = 1 .. Len(delivered)
          /\ DOMAIN delivered' = 1 .. (Len(delivered) + 1)
          /\ \A i \in 1 .. Len(delivered) : delivered'[i] = delivered[i]
          /\ delivered'[Len(delivered) + 1] = buffer[read_offset]
      BY <3>1, AppendProperties, LenProperties
    <3>4. \A i \in DOMAIN delivered' : i \in DOMAIN delivered \/ i = Len(delivered) + 1
      BY <3>3
    <3>5. QED
      BY <1>2, <3>2, <3>3, <3>4 DEF DeliveredWhole, Undisturbed
  <2>9. OneResponse'
    BY <1>2, <2>3 DEF OneResponse, Undisturbed
  <2>10. QED
    BY <1>2, <2>3, <2>4, <2>6, <2>7, <2>8, <2>9 DEF Undisturbed
<1>9. CASE PopReads \/ WaitReads
  BY <1>1, <1>2, <1>9, ReadKeepsSound DEF PopReads, WaitReads
<1>10. QED
  BY <1>5, <1>6, <1>7, <1>8, <1>9 DEF Next, HostNext

(* Unless a read has failed, nothing is lost, reordered, duplicated or     *)
(* torn between the co-processor and the caller (NothingLost): the line    *)
(* always holds whole messages, so that every read takes one, and a        *)
(* response is on it only while a call waits for it.                       *)
THEOREM NothingIsLost == Spec => []NothingLost
<1>1. ASSUME TypeOK, Sound PROVE NothingLost
  <2> SUFFICES ASSUME interrupts = 0
               PROVE  /\ Len(Received) + Cardinality(EventsOnLine) + discarded = events
                      /\ \A i, j \in DOMAIN Received : i < j => Received[i] < Received[j]
                      /\ \A i, j \in EventsOnLine : i < j => line[i].number < line[j].number
                      /\ \A i \in DOMAIN Received, j \in EventsOnLine : Received[i] < line[j].number
                      /\ ~confused /\ DeliveredWhole
    BY DEF NothingLost
  <2>1. Undisturbed /\ EventsOnLine = EventsIn(line)
    BY <1>1 DEF Sound, EventsOnLine, EventsIn
  <2> DEFINE d == DeliveredHeaders
             h == Headers
             r == Received
  <2>2. /\ d \in Seq(Number) /\ Len(d) \in Nat /\ h \in Seq(Number) /\ Len(h) \in Nat
        /\ DOMAIN d = 1 .. Len(d) /\ DOMAIN h = 1 .. Len(h)
    BY <1>1, QueueTypes, LenProperties
  <2>3. /\ r \in Seq(Number) /\ Len(r) = Len(d) + Len(h)
        /\ \A i \in 1 .. (Len(d) + Len(h)) : r[i] = IF i <= Len(d) THEN d[i] ELSE h[i - Len(d)]
    BY <2>2, ConcatProperties DEF Received
  <2>4. DOMAIN r = 1 .. (Len(d) + Len(h))
    BY <2>3, LenProperties
  <2>5. InOrder(d, h, line, events)
    BY <2>1 DEF Undisturbed
  <2> HIDE DEF d, h, r
  <2>6. \A i \in DOMAIN r : \/ i \in DOMAIN d /\ r[i] = d[i] /\ i \in Nat /\ i <= Len(d)
                            \/ /\ i - Len(d) \in DOMAIN h /\ r[i] = h[i - Len(d)] /\ i \in Nat
                               /\ ~(i <= Len(d))
    BY <2>2, <2>3, <2>4
  <2>7. \A i \in DOMAIN r, j \in EventsIn(line) : r[i] < line[j].number
    BY <2>5, <2>6 DEF InOrder, BeforeLine
  <2>8. ASSUME NEW i \in DOMAIN r, NEW j \in DOMAIN r, i < j PROVE r[i] < r[j]
    <3>1. CASE i \in DOMAIN d /\ r[i] = d[i] /\ j \in DOMAIN d /\ r[j] = d[j]
      BY <2>5, <2>8, <3>1 DEF InOrder, Increasing
    <3>2. CASE i \in DOMAIN d /\ r[i] = d[i] /\ j - Len(d) \in DOMAIN h /\ r[j] = h[j - Len(d)]
      BY <2>5, <3>2 DEF InOrder, Before
    <3>3. CASE ~(i <= Len(d))
      <4>1. /\ i - Len(d) \in DOMAIN h /\ r[i] = h[i - Len(d)] /\ i \in Nat
            /\ j - Len(d) \in DOMAIN h /\ r[j] = h[j - Len(d)] /\ j \in Nat
        BY <2>2, <2>6, <2>8, <3>3
      <4>2. i - Len(d) < j - Len(d)
        BY <2>2, <2>8, <4>1
      <4>3. QED
        BY <2>5, <4>1, <4>2 DEF InOrder, Increasing
    <3>4. QED
      BY <2>6, <3>1, <3>2, <3>3
  <2>9. Len(r) + Cardinality(EventsIn(line)) + discarded = events
    BY <2>1, <2>3 DEF Undisturbed, Counted, d, h
  <2>10. \A i, j \in EventsIn(line) : i < j => line[i].number < line[j].number
    BY <2>5 DEF InOrder, Sorted
  <2>11. ~confused /\ DeliveredWhole
    BY <2>1 DEF Undisturbed, OneResponse
  <2>12. QED
    BY <2>1, <2>7, <2>8, <2>9, <2>10, <2>11 DEF r
<1>2. QED
  BY <1>1, SoundInitially, StepKeepsSound, TypeCorrect, PTL DEF Spec

=============================================================================
