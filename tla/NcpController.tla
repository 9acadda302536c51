--------------------------- MODULE NcpController ---------------------------
(***************************************************************************)
(* The Bluetooth network co-processor that the host drives in connection   *)
(* oriented mode: its scanner, its connection table, the GATT procedure    *)
(* that may be running on each connection, and the stream of events it     *)
(* sends to the host.                                                      *)
(*                                                                         *)
(* The firmware of the co-processor is not in the repository.  This is     *)
(* what cte_conn.c relies on, and what protocol/bluetooth/inc/sl_bt_api.h  *)
(* documents, of the commands it sends and of the events it receives:      *)
(* events reach the host in the order in which they were emitted, and a    *)
(* command is answered before the host goes on.                            *)
(*                                                                         *)
(* An event carries the tag it is about.  Only connection_opened and       *)
(* scan_report hold the address in the real message; elsewhere the field   *)
(* is used by properties only, to say who emitted the event.               *)
(***************************************************************************)
EXTENDS Naturals, Sequences, FiniteSets

CONSTANTS
  Tag,               (* Bluetooth devices in radio range                    *)
  NoTag,             (* no device: the peer of a free connection            *)
  Handle,            (* connection handles                                  *)
  MaxConnections,    (* SL_BT_CONFIG_MAX_CONNECTIONS                        *)
  MaxScanReports,    (* bound: scan reports of one tag waiting in evq       *)
  MaxFaults          (* bound: links lost or not established, and GATT      *)
                     (* procedures that fail, in a run                      *)

ASSUME NoTagAssumption == NoTag \notin Tag
ASSUME BoundsAssumption == MaxScanReports \in Nat /\ MaxFaults \in Nat

VARIABLES
  scanning,          (* the scanner is running                              *)
  link,              (* the connection table                                *)
  evq,               (* events emitted and not yet handled by the host      *)
  drops, failures,   (* how often the two kinds of fault have happened      *)
  reused             (* a handle was given out again while events about its  *)
                     (* last connection were still on their way to the host *)

ncpVars == <<scanning, link, evq, drops, failures, reused>>

(* "blind" is a characteristic discovery over a service handle that was    *)
(* never assigned: it finds nothing.                                       *)
GattProcedure == {"none", "services", "characteristics", "blind", "write"}

Link ==
  [state   : {"free", "pending", "open"},
   peer    : Tag \cup {NoTag},
   gatt    : GattProcedure,
   enabled : BOOLEAN,    (* the tag has CTE enabled: the write reached it    *)
   cte     : BOOLEAN]    (* the receiver samples CTEs on this connection     *)

NewLink(state, peer) ==
  [state |-> state, peer |-> peer, gatt |-> "none",
   enabled |-> FALSE, cte |-> FALSE]

FreeLink == NewLink("free", NoTag)

Event(type, handle, tag) == [type |-> type, handle |-> handle, tag |-> tag]

HandleEventType ==
  {"opened", "service", "characteristic", "completed", "closed", "iq_report"}

Message ==
  [type : {"scan_report"}, tag : Tag]
    \cup [type : HandleEventType, handle : Handle, tag : Tag]
    \cup [type : {"boot"}]

ScanReports(tag) == {i \in DOMAIN evq : evq[i] = [type |-> "scan_report", tag |-> tag]}

IqReports(handle) ==
  {i \in DOMAIN evq : evq[i].type = "iq_report" /\ evq[i].handle = handle}

-----------------------------------------------------------------------------
(* What the commands find.                                                 *)

AtConnectionLimit ==
  Cardinality({h \in Handle : link[h].state # "free"}) >= MaxConnections

(* Events about the last connection of a handle are still under way.       *)
InUse(handle) ==
  \E i \in DOMAIN evq : evq[i].type \in HandleEventType /\ evq[i].handle = handle

Attempted(tag) == \E h \in Handle : link[h].state # "free" /\ link[h].peer = tag

(* A GATT command needs an open connection with no procedure running.      *)
GattReady(handle) == link[handle].state = "open" /\ link[handle].gatt = "none"

-----------------------------------------------------------------------------
(* What the co-processor and the radio do on their own.                    *)

NcpInit ==
  /\ scanning = FALSE
  /\ link = [h \in Handle |-> FreeLink]
  /\ evq = <<[type |-> "boot"]>>
  /\ drops = 0
  /\ failures = 0
  /\ reused = FALSE

Emit(events) == evq' = evq \o events

(* The scanner hears the advertisement of a tag that is not connected.     *)
Advertise(tag) ==
  /\ scanning
  /\ ~ \E h \in Handle : link[h].state = "open" /\ link[h].peer = tag
  /\ Cardinality(ScanReports(tag)) < MaxScanReports
  /\ Emit(<<[type |-> "scan_report", tag |-> tag]>>)
  /\ UNCHANGED <<scanning, link, drops, failures, reused>>

Establish(handle) ==
  /\ link[handle].state = "pending"
  /\ link' = [link EXCEPT ![handle].state = "open"]
  /\ Emit(<<Event("opened", handle, link[handle].peer)>>)
  /\ UNCHANGED <<scanning, drops, failures, reused>>

(* A pending connection fails, or an open one is lost.                     *)
LoseLink(handle) ==
  /\ link[handle].state # "free"
  /\ drops + failures < MaxFaults
  /\ drops' = drops + 1
  /\ link' = [link EXCEPT ![handle] = FreeLink]
  /\ Emit(<<Event("closed", handle, link[handle].peer)>>)
  /\ UNCHANGED <<scanning, failures, reused>>

(* The GATT procedure of a connection ends and reports what it found.      *)
CompleteGatt(handle) ==
  LET l == link[handle]
      finds == [services |-> <<Event("service", handle, l.peer)>>,
                characteristics |-> <<Event("characteristic", handle, l.peer)>>,
                blind |-> <<>>,
                write |-> <<>>]
  IN  /\ l.gatt # "none"
      /\ link' = [link EXCEPT ![handle].gatt = "none",
                              ![handle].enabled = @ \/ l.gatt = "write"]
      /\ Emit(Append(finds[l.gatt], Event("completed", handle, l.peer)))
      /\ UNCHANGED <<scanning, drops, failures, reused>>

(* The same procedure ends with an error: nothing found, nothing written.  *)
FailGatt(handle) ==
  /\ link[handle].gatt \notin {"none", "blind"}
  /\ drops + failures < MaxFaults
  /\ failures' = failures + 1
  /\ link' = [link EXCEPT ![handle].gatt = "none"]
  /\ Emit(<<Event("completed", handle, link[handle].peer)>>)
  /\ UNCHANGED <<scanning, drops, reused>>

(* A CTE was sampled on a connection.                                      *)
SampleCte(handle) ==
  /\ link[handle].state = "open"
  /\ link[handle].cte
  /\ link[handle].enabled
  /\ IqReports(handle) = {}
  /\ Emit(<<Event("iq_report", handle, link[handle].peer)>>)
  /\ UNCHANGED <<scanning, link, drops, failures, reused>>

NcpNext ==
  \/ \E t \in Tag : Advertise(t)
  \/ \E h \in Handle :
       \/ Establish(h)
       \/ LoseLink(h)
       \/ CompleteGatt(h)
       \/ FailGatt(h)
       \/ SampleCte(h)

BootPending == \E i \in DOMAIN evq : evq[i] = [type |-> "boot"]

(* ncp_reset, up to the boot event that it makes the host wait for: what   *)
(* comes before that event is dropped, as NcpReset.tla shows.  A boot      *)
(* event that was under way may be taken for the one awaited, which then   *)
(* comes second.                                                           *)
Reset ==
  /\ scanning' = FALSE
  /\ link' = [h \in Handle |-> FreeLink]
  /\ \/ evq' = <<[type |-> "boot"]>>
     \/ BootPending /\ evq' = <<[type |-> "boot"], [type |-> "boot"]>>
  /\ reused' = FALSE
  /\ UNCHANGED <<drops, failures>>

NcpTypeOK ==
  /\ scanning \in BOOLEAN
  /\ link \in [Handle -> Link]
  /\ evq \in Seq(Message)
  /\ drops \in 0..MaxFaults
  /\ failures \in 0..MaxFaults
  /\ reused \in BOOLEAN

=============================================================================
