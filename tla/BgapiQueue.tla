----------------------------- MODULE BgapiQueue -----------------------------
(***************************************************************************)
(* The host side of the BGAPI serial protocol, sl_bt_ncp_host.c: the ring  *)
(* buffer of events, and the two loops that read the line, one for the     *)
(* next event (sl_bt_pop_event) and one for the response to a command      *)
(* (sl_bt_wait_response).                                                  *)
(*                                                                         *)
(* A message is a header and a payload, read one after the other.  A read  *)
(* may fail half-way: the handler of SIGRTMIN is installed without         *)
(* SA_RESTART, so the boot timer of ncp_reset.c interrupts the read() that *)
(* uartRx is blocked in, and uartRx returns -1.  What it has not read      *)
(* stays on the line, where it may be taken for a message of its own.      *)
(***************************************************************************)
EXTENDS Naturals, Sequences, FiniteSets

CONSTANTS
  QueueLen,          (* SL_BT_API_QUEUE_LEN                                 *)
  MaxEvents,         (* bound: events sent by the co-processor              *)
  MaxCommands,       (* bound: commands sent by the host                    *)
  MaxInterrupts      (* bound: reads that a signal interrupts               *)

ASSUME QueueLenAssumption == QueueLen \in Nat \ {0}
ASSUME MaxAssumption == MaxEvents \in Nat /\ MaxCommands \in Nat /\ MaxInterrupts \in Nat

VARIABLES
  line,              (* sent by the co-processor and not yet read           *)
  unanswered,        (* the co-processor has a command to answer            *)
  buffer,            (* _sl_bt_queue_buffer                                 *)
  read_offset,
  write_offset,
  call,              (* the call under way: "none", "pop" or "wait"         *)
  delivered,         (* events returned to the caller so far                *)
  confused,          (* a response was returned as an event                 *)
  discarded,         (* how many events the full queue has refused          *)
  events, commands, interrupts

ringVars == <<buffer, read_offset, write_offset>>
vars == <<line, unanswered, ringVars, call, delivered, confused, discarded,
          events, commands, interrupts>>

(* Events are numbered in the order in which they are sent; number 0       *)
(* stands for bytes that never were an event.                              *)
Number == 0..MaxEvents
Slot == 0..QueueLen - 1
Message == [header : Number, payload : Number]

(* The two halves of an event, and those of a response.                    *)
Part ==
  [part : {"header", "payload"}, type : {"event"}, number : Number]
    \cup [part : {"header", "payload"}, type : {"response"}]

EventParts(n) ==
  <<[part |-> "header", type |-> "event", number |-> n],
    [part |-> "payload", type |-> "event", number |-> n]>>

ResponseParts ==
  <<[part |-> "header", type |-> "response"], [part |-> "payload", type |-> "response"]>>

Init ==
  /\ line = <<>>
  /\ unanswered = FALSE
  /\ buffer = [s \in Slot |-> [header |-> 0, payload |-> 0]]
  /\ read_offset = 0
  /\ write_offset = 0
  /\ call = "none"
  /\ delivered = <<>>
  /\ confused = FALSE
  /\ discarded = 0
  /\ events = 0
  /\ commands = 0
  /\ interrupts = 0

-----------------------------------------------------------------------------
(* The co-processor.                                                       *)

SendEvent ==
  /\ events < MaxEvents
  /\ events' = events + 1
  /\ line' = line \o EventParts(events + 1)
  /\ UNCHANGED <<unanswered, ringVars, call, delivered, confused, discarded, commands, interrupts>>

SendResponse ==
  /\ unanswered
  /\ unanswered' = FALSE
  /\ line' = line \o ResponseParts
  /\ UNCHANGED <<ringVars, call, delivered, confused, discarded, events, commands, interrupts>>

-----------------------------------------------------------------------------
(* The ring buffer.                                                        *)

(* Mutant: the offsets do not wrap around.                                 *)
SuccessorNoWrap(offset) == offset + 1

Successor(offset) == (offset + 1) % QueueLen

(* sli_bgapi_device_queue_has_events.                                      *)
HasEvents == write_offset # read_offset

(* Mutant: a full ring cannot be told from an empty one.                   *)
QueueFullNever == FALSE

QueueFull == Successor(write_offset) = read_offset

-----------------------------------------------------------------------------
(* sli_wait_for_bgapi_message.                                             *)

(* The boot timer is armed only while no response is awaited.              *)
Interrupted ==
  /\ call = "pop"
  /\ interrupts < MaxInterrupts
  /\ interrupts' = interrupts + 1

(* The first parts on the line have been read.                             *)
Consume(parts) == line' = SubSeq(line, parts + 1, Len(line))

AtHeader(type) ==
  /\ line # <<>>
  /\ Head(line).part = "header"
  /\ Head(line).type = type

(* Bytes in which no header is recognised are dropped one by one.          *)
SkipBytes ==
  /\ line # <<>>
  /\ Head(line).part = "payload"
  /\ Consume(1)
  /\ UNCHANGED <<ringVars, call, confused, discarded, interrupts>>

(* The read of the header fails after its first byte.                      *)
LoseHeader ==
  /\ line # <<>>
  /\ Head(line).part = "header"
  /\ Interrupted
  /\ Consume(1)
  /\ UNCHANGED <<ringVars, call, confused, discarded>>

(* The payload is read, or the read fails and leaves it on the line.       *)
ReadPayload(read) ==
  \/ /\ read
     /\ Consume(2)
     /\ UNCHANGED interrupts
  \/ /\ ~read
     /\ Interrupted
     /\ Consume(1)

DiscardEvent ==
  /\ AtHeader("event")
  /\ QueueFull
  /\ \E read \in BOOLEAN : ReadPayload(read)
  /\ discarded' = discarded + 1
  /\ UNCHANGED <<ringVars, call, confused>>

(* Mutant: the payload is stored in the slot that follows the header's.    *)
StoreEventPayloadNext ==
  /\ AtHeader("event")
  /\ ~QueueFull
  /\ \E read \in BOOLEAN :
       /\ ReadPayload(read)
       /\ buffer' = [buffer EXCEPT
            ![write_offset].header = Head(line).number,
            ![Successor(write_offset)].payload = IF read THEN Head(line).number ELSE @]
  /\ write_offset' = Successor(write_offset)
  /\ UNCHANGED <<read_offset, call, confused, discarded>>

(* The slot is taken before the payload is read, and kept if it is not.    *)
StoreEvent ==
  /\ AtHeader("event")
  /\ ~QueueFull
  /\ \E read \in BOOLEAN :
       /\ ReadPayload(read)
       /\ buffer' = [buffer EXCEPT
            ![write_offset].header = Head(line).number,
            ![write_offset].payload = IF read THEN Head(line).number ELSE @]
  /\ write_offset' = Successor(write_offset)
  /\ UNCHANGED <<read_offset, call, confused, discarded>>

(* Mutant: the response is read but not returned.                          *)
TakeResponseNotReturned ==
  /\ AtHeader("response")
  /\ \E read \in BOOLEAN : ReadPayload(read)
  /\ UNCHANGED <<ringVars, call, confused, discarded>>

(* A response ends the call, unless its payload could not be read.         *)
TakeResponse ==
  /\ AtHeader("response")
  /\ \E read \in BOOLEAN :
       /\ ReadPayload(read)
       /\ IF read
          THEN call' = "none" /\ confused' = (confused \/ call = "pop")
          ELSE UNCHANGED <<call, confused>>
  /\ UNCHANGED <<ringVars, discarded>>

(* A payload left on the line holds a byte that looks like a header: the   *)
(* rest of it, or also the next half of a message, is taken for the        *)
(* message that header announces.                                          *)
Misread ==
  /\ line # <<>>
  /\ Head(line).part = "payload"
  /\ \E parts \in {1, 2} : Consume(parts)
  /\ \/ /\ ~QueueFull
        /\ buffer' = [buffer EXCEPT ![write_offset] = [header |-> 0, payload |-> 0]]
        /\ write_offset' = Successor(write_offset)
        /\ UNCHANGED <<read_offset, call, confused>>
     \/ /\ QueueFull
        /\ UNCHANGED <<ringVars, call, confused>>
     \/ /\ call' = "none"
        /\ confused' = (confused \/ call = "pop")
        /\ UNCHANGED ringVars
  /\ UNCHANGED <<discarded, interrupts>>

ReadMessage ==
  /\ \/ SkipBytes \/ LoseHeader \/ DiscardEvent \/ StoreEvent \/ TakeResponse
     \/ Misread
  /\ UNCHANGED <<unanswered, delivered, events, commands>>

-----------------------------------------------------------------------------
(* sl_bt_pop_event, one action per turn of its loop.                       *)

PopEvent ==
  /\ call = "none"
  /\ call' = "pop"
  /\ UNCHANGED <<line, unanswered, ringVars, delivered, confused, discarded, events, commands,
                 interrupts>>

(* Mutant: the newest event is returned.                                   *)
PopQueuedNewest ==
  /\ call = "pop"
  /\ HasEvents
  /\ delivered' = Append(delivered, buffer[(write_offset + QueueLen - 1) % QueueLen])
  /\ read_offset' = Successor(read_offset)
  /\ call' = "none"
  /\ UNCHANGED <<line, unanswered, buffer, write_offset, confused, discarded, events,
                 commands, interrupts>>

PopQueued ==
  /\ call = "pop"
  /\ HasEvents
  /\ delivered' = Append(delivered, buffer[read_offset])
  /\ read_offset' = Successor(read_offset)
  /\ call' = "none"
  /\ UNCHANGED <<line, unanswered, buffer, write_offset, confused, discarded, events,
                 commands, interrupts>>

(* Mutant: the line is looked at before the queue.                         *)
PopWouldBlockEarly ==
  /\ call = "pop"
  /\ line = <<>>
  /\ call' = "none"
  /\ UNCHANGED <<line, unanswered, ringVars, delivered, confused, discarded, events, commands,
                 interrupts>>

PopWouldBlock ==
  /\ call = "pop"
  /\ ~HasEvents
  /\ line = <<>>
  /\ call' = "none"
  /\ UNCHANGED <<line, unanswered, ringVars, delivered, confused, discarded, events, commands,
                 interrupts>>

PopReads ==
  /\ call = "pop"
  /\ ~HasEvents
  /\ ReadMessage

(* sl_bt_host_handle_command sends the command and waits.                  *)
Command ==
  /\ call = "none"
  /\ commands < MaxCommands
  /\ commands' = commands + 1
  /\ unanswered' = TRUE
  /\ call' = "wait"
  /\ UNCHANGED <<line, ringVars, delivered, confused, discarded, events, interrupts>>

WaitReads ==
  /\ call = "wait"
  /\ ReadMessage

HostNext == PopEvent \/ PopQueued \/ PopWouldBlock \/ PopReads \/ Command \/ WaitReads

Next == SendEvent \/ SendResponse \/ HostNext

Spec == Init /\ [][Next]_vars

(* The loop of main keeps polling, a call that can go on does, and the     *)
(* co-processor answers every command.                                     *)
Fairness ==
  /\ WF_vars(PopEvent)
  /\ WF_vars(PopQueued \/ PopWouldBlock \/ PopReads)
  /\ WF_vars(WaitReads)
  /\ WF_vars(SendResponse)

FairSpec == Spec /\ Fairness

-----------------------------------------------------------------------------
(* Properties.                                                             *)

(* Every variable has its type: the offsets stay inside the buffer.        *)
TypeOK ==
  /\ line \in Seq(Part)
  /\ unanswered \in BOOLEAN
  /\ buffer \in [Slot -> Message]
  /\ read_offset \in Slot
  /\ write_offset \in Slot
  /\ call \in {"none", "pop", "wait"}
  /\ delivered \in Seq(Message)
  /\ confused \in BOOLEAN
  /\ discarded \in Nat
  /\ events \in Number
  /\ commands \in 0..MaxCommands
  /\ interrupts \in 0..MaxInterrupts

(* How many events wait in the ring, and the ring as a sequence.           *)
Waiting ==
  IF write_offset >= read_offset
  THEN write_offset - read_offset
  ELSE write_offset + QueueLen - read_offset

Headers == [i \in 1..Waiting |-> buffer[(read_offset + i - 1) % QueueLen].header]
DeliveredHeaders == [i \in DOMAIN delivered |-> delivered[i].header]

(* The ring buffer is a bounded first-in first-out queue that may discard  *)
(* what arrives: no event is overwritten, skipped or handed out twice,     *)
(* wherever the offsets wrap and whichever reads fail.                     *)
Fifo == INSTANCE EventFifo WITH
  Event <- Number, Capacity <- QueueLen - 1, fifo <- Headers, taken <- DeliveredHeaders

ImplementsFifo == Fifo!Spec

(* "Read the payload data if required and store it after the header" and   *)
(* "Copy event from queue to event parameter": the caller gets events as   *)
(* they were sent, never the header of one with the payload of another.    *)
DeliveredWhole == \A i \in DOMAIN delivered : delivered[i].header = delivered[i].payload

Received == DeliveredHeaders \o Headers

EventsOnLine == {i \in DOMAIN line : line[i].part = "header" /\ line[i].type = "event"}

(* Unless a read failed, what was delivered, what waits in the ring and    *)
(* what is on the line are together the events that were sent, in order    *)
(* and whole, but for those that the full queue refused; and no response   *)
(* was taken for an event.  Reading ahead for a response loses and         *)
(* reorders nothing.                                                       *)
NothingLost ==
  interrupts = 0 =>
    /\ Len(Received) + Cardinality(EventsOnLine) + discarded = events
    /\ \A i, j \in DOMAIN Received : i < j => Received[i] < Received[j]
    /\ \A i, j \in EventsOnLine : i < j => line[i].number < line[j].number
    /\ \A i \in DOMAIN Received, j \in EventsOnLine : Received[i] < line[j].number
    /\ ~confused
    /\ DeliveredWhole

(* A call that waits for a response returns, unless a read has failed: a   *)
(* response swallowed with the rest of a message is awaited for ever.      *)
WaitEnds == call = "wait" ~> call = "none" \/ interrupts > 0

(* Unless a read has failed, every event that was sent is delivered in the *)
(* end or was refused, also when no further message arrives to trigger a   *)
(* read.                                                                   *)
EventsArrive == <>[](Len(delivered) + discarded = events \/ interrupts > 0)

=============================================================================
