--------------------------- MODULE SyncController ---------------------------
(***************************************************************************)
(* The Bluetooth network co-processor that the host drives in              *)
(* connectionless mode: its scanner, its table of periodic advertising     *)
(* synchronisations, and the stream of events it sends to the host.        *)
(*                                                                         *)
(* The firmware is not in the repository.  This is what cte_conn_less.c    *)
(* relies on, and what protocol/bluetooth/inc/sl_bt_api.h documents, of    *)
(* the commands it sends and of the events it receives: events arrive in   *)
(* the order in which they were emitted, a command is answered before the  *)
(* host goes on, synchronisations are established in parallel, and the     *)
(* stack scans by itself for those that are not established yet.           *)
(*                                                                         *)
(* An event carries the tag it is about.  Only sync_opened and scan_report *)
(* hold the address in the real message; elsewhere the field is used by    *)
(* properties only.                                                        *)
(***************************************************************************)
EXTENDS Naturals, Sequences, FiniteSets

CONSTANTS
  Tag,               (* advertisers in radio range                          *)
  NoTag,             (* no device: the peer of a free synchronisation       *)
  Sync,              (* SL_BT_CONFIG_MAX_PERIODIC_ADVERTISING_SYNC handles  *)
  MaxScanReports,    (* bound: scan reports of one tag waiting in evq       *)
  MaxFaults          (* bound: synchronisations lost and restarts, in a run *)

ASSUME NoTagAssumption == NoTag \notin Tag
ASSUME BoundsAssumption == MaxScanReports \in Nat /\ MaxFaults \in Nat

VARIABLES
  scanning,          (* the scanner is running                              *)
  sync,              (* the synchronisation table                           *)
  evq,               (* events emitted and not yet handled by the host      *)
  faults,            (* how many faults have happened                       *)
  restarted          (* the co-processor has restarted by itself since the  *)
                     (* host last reset it                                  *)

ncpVars == <<scanning, sync, evq, faults, restarted>>

SyncRecord ==
  [state : {"free", "pending", "open"},
   peer  : Tag \cup {NoTag},
   cte   : BOOLEAN]          (* IQ samples are taken on this synchronisation *)

NewSync(peer) == [state |-> "pending", peer |-> peer, cte |-> FALSE]

FreeSync == [state |-> "free", peer |-> NoTag, cte |-> FALSE]

Boot == [type |-> "boot"]
ScanReportOf(tag) == [type |-> "scan_report", tag |-> tag]
Event(type, handle, tag) == [type |-> type, handle |-> handle, tag |-> tag]

SyncEventType == {"opened", "closed", "iq_report"}

Message ==
  {Boot} \cup {ScanReportOf(tag) : tag \in Tag}
    \cup [type : SyncEventType, handle : Sync, tag : Tag]

Waiting(message) == Cardinality({i \in DOMAIN evq : evq[i] = message})

-----------------------------------------------------------------------------
(* What the commands find.                                                 *)

AtSyncLimit == \A s \in Sync : sync[s].state # "free"

Attempted(tag) == \E s \in Sync : sync[s].peer = tag

-----------------------------------------------------------------------------
(* What the co-processor and the radio do on their own.                    *)

NcpInit ==
  /\ scanning = FALSE
  /\ sync = [s \in Sync |-> FreeSync]
  /\ evq = <<Boot>>
  /\ faults = 0
  /\ restarted = FALSE

Emit(message) == evq' = Append(evq, message)

(* The scanner hears a tag.  The report of a synchronised one would arrive *)
(* after its opened event, when the host ignores it, and is left out.      *)
Advertise(tag) ==
  /\ scanning
  /\ ~ \E s \in Sync : sync[s].state = "open" /\ sync[s].peer = tag
  /\ Waiting(ScanReportOf(tag)) < MaxScanReports
  /\ Emit(ScanReportOf(tag))
  /\ UNCHANGED <<scanning, sync, faults, restarted>>

Establish(s) ==
  /\ sync[s].state = "pending"
  /\ sync' = [sync EXCEPT ![s].state = "open"]
  /\ Emit(Event("opened", s, sync[s].peer))
  /\ UNCHANGED <<scanning, faults, restarted>>

(* "synchronization was lost or a synchronization establishment procedure  *)
(* was canceled"                                                           *)
LoseSync(s) ==
  /\ sync[s].state # "free"
  /\ faults < MaxFaults
  /\ faults' = faults + 1
  /\ sync' = [sync EXCEPT ![s] = FreeSync]
  /\ Emit(Event("closed", s, sync[s].peer))
  /\ UNCHANGED <<scanning, restarted>>

(* A CTE was sampled.  (One report waits at a time.)                       *)
SampleCte(s) ==
  /\ sync[s].cte
  /\ \A i \in DOMAIN evq : evq[i].type # "iq_report"
  /\ Emit(Event("iq_report", s, sync[s].peer))
  /\ UNCHANGED <<scanning, sync, faults, restarted>>

(* The co-processor restarts by itself.  Nothing is synchronised any more, *)
(* and no closed event says so.                                            *)
Restart ==
  /\ faults < MaxFaults
  /\ faults' = faults + 1
  /\ restarted' = TRUE
  /\ scanning' = FALSE
  /\ sync' = [s \in Sync |-> FreeSync]
  /\ Emit(Boot)

NcpNext ==
  \/ \E t \in Tag : Advertise(t)
  \/ \E s \in Sync : Establish(s) \/ LoseSync(s) \/ SampleCte(s)
  \/ Restart

BootPending == Waiting(Boot) > 0

(* ncp_reset, up to the boot event that it makes the host wait for: what   *)
(* comes before that event is dropped, as NcpReset.tla shows.  A boot      *)
(* event that was under way may be taken for the one awaited, which then   *)
(* comes second.                                                           *)
Reset ==
  /\ scanning' = FALSE
  /\ sync' = [s \in Sync |-> FreeSync]
  /\ \/ evq' = <<Boot>>
     \/ BootPending /\ evq' = <<Boot, Boot>>
  /\ restarted' = FALSE
  /\ UNCHANGED faults

NcpTypeOK ==
  /\ scanning \in BOOLEAN
  /\ sync \in [Sync -> SyncRecord]
  /\ evq \in Seq(Message)
  /\ faults \in 0..MaxFaults
  /\ restarted \in BOOLEAN

=============================================================================
