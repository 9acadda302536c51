------------------------------ MODULE CteConn ------------------------------
(***************************************************************************)
(* The connection oriented CTE handler, cte_conn.c: it scans for tags,     *)
(* connects to each of them, walks through GATT discovery, enables CTE on  *)
(* the tag and then receives its IQ reports.                               *)
(*                                                                         *)
(* One action per event the handler reacts to.  The commands it sends are  *)
(* synchronous, so an action is the whole handler with all its commands;   *)
(* between two events the co-processor moves on by itself.  A handler that *)
(* returns a status other than SL_STATUS_OK ends the program: sl_bt_on_    *)
(* event passes it to app_assert_status, which aborts.                     *)
(***************************************************************************)
EXTENDS NcpController, AoaDb

CONSTANTS
  CteTag,            (* tags whose connectable advertisement has the service *)
  Allowlists,        (* the allowlists a configuration may hold              *)
  MaxConfigs         (* bound: configuration messages, in a run              *)

ASSUME CteTagAssumption == CteTag \subseteq Tag
ASSUME AllowlistsAssumption == Allowlists \subseteq Seq(Tag)
ASSUME MaxConfigsAssumption == MaxConfigs \in Nat

VARIABLES
  alive,                     (* no app_assert has failed                     *)
  allowlist,                 (* head_allow                                   *)
  db,                        (* head_conn                                    *)
  connections_unavailable,
  configs                    (* configuration messages received so far       *)

hostVars == <<alive, allowlist, db, connections_unavailable, configs>>
vars == <<ncpVars, hostVars>>

Init ==
  /\ NcpInit
  /\ alive = TRUE
  /\ allowlist \in Allowlists
  /\ db = <<>>
  /\ connections_unavailable = FALSE
  /\ configs = 0

-----------------------------------------------------------------------------
(* Event delivery: the handler is called for the oldest event.             *)

Receive(type) ==
  /\ alive
  /\ evq # <<>>
  /\ Head(evq).type = type
  /\ evq' = Tail(evq)
  /\ UNCHANGED <<allowlist, configs, drops, failures>>

(* app_assert_status(sc) in sl_bt_on_event.                                *)
Return(ok) == alive' = ok

(* sl_bt_scanner_start where SL_STATUS_INVALID_STATE, the answer of a      *)
(* scanner that already runs, counts as success.                           *)
RestartScanner == scanning' = TRUE

AllAllowedFound ==
  AllowlistSize(allowlist) > 0 /\ NumberOfTags(db) = AllowlistSize(allowlist)

-----------------------------------------------------------------------------

(* The radio is ready: start scanning.  Here INVALID_STATE is an error.    *)
SystemBoot ==
  /\ Receive("boot")
  /\ scanning' = TRUE
  /\ Return(~scanning)
  /\ UNCHANGED <<link, db, connections_unavailable>>

(* The tests a scan report has to pass before a connection is opened.      *)
Interesting(tag) ==
  /\ AllowlistFind(allowlist, tag) # "NOT_FOUND"
  /\ GetTagByAddress(db, tag) = 0
  /\ tag \in CteTag

(* sl_bt_connection_open.  A tag to which a connection is already open or  *)
(* being opened takes no second entry of the connection table.             *)
ConnectionOpen(tag) ==
  \/ /\ AtConnectionLimit
     /\ connections_unavailable' = TRUE
     /\ scanning' = FALSE
     /\ UNCHANGED <<link, reused>>
  \/ /\ Attempted(tag)
     /\ UNCHANGED <<link, reused, scanning, connections_unavailable>>
  \/ /\ ~AtConnectionLimit
     /\ ~Attempted(tag)
     /\ \E h \in Handle :
          /\ link[h].state = "free"
          /\ link' = [link EXCEPT ![h] = NewLink("pending", tag)]
          /\ reused' = (reused \/ InUse(h))
     /\ UNCHANGED <<scanning, connections_unavailable>>

ScanReport ==
  /\ Receive("scan_report")
  /\ IF Interesting(Head(evq).tag)
     THEN ConnectionOpen(Head(evq).tag)
     ELSE UNCHANGED <<link, reused, scanning, connections_unavailable>>
  /\ UNCHANGED <<alive, db>>

(* A GATT command on a connection: starts the procedure, or fails when the *)
(* connection is gone or busy.                                             *)
StartGatt(handle, procedure) ==
  /\ link' = IF GattReady(handle)
             THEN [link EXCEPT ![handle].gatt = procedure]
             ELSE link
  /\ Return(GattReady(handle))

(* Mutant: the tag is added but the service discovery is not started.      *)
ConnectionOpenedNoDiscovery ==
  /\ Receive("opened")
  /\ db' = AddTag(db, Head(evq).handle, Head(evq).tag)
  /\ UNCHANGED <<link, alive, scanning, connections_unavailable>>

ConnectionOpened ==
  /\ Receive("opened")
  /\ db' = AddTag(db, Head(evq).handle, Head(evq).tag)
  /\ StartGatt(Head(evq).handle, "services")
  /\ UNCHANGED <<scanning, connections_unavailable>>

GattService ==
  /\ Receive("service")
  /\ LET i == GetTagByHandle(db, Head(evq).handle)
     IN  db' = IF i = 0 THEN db ELSE [db EXCEPT ![i].cte_service_handle = TRUE]
  /\ UNCHANGED <<link, scanning, alive, connections_unavailable>>

GattCharacteristic ==
  /\ Receive("characteristic")
  /\ LET i == GetTagByHandle(db, Head(evq).handle)
     IN  db' = IF i = 0 THEN db
               ELSE [db EXCEPT ![i].cte_enable_char_handle = TRUE,
                               ![i].connection_state = "DISCOVER_CHARACTERISTICS"]
  /\ UNCHANGED <<link, scanning, alive, connections_unavailable>>

(* DISCOVER_SERVICES: look for the CTE enable characteristic.  Without a   *)
(* service event the service handle is whatever malloc returned, which the *)
(* stack may refuse or search in vain.                                     *)
ServicesDiscovered(i) ==
  LET handle == db[i].handle
  IN  /\ IF db[i].cte_service_handle
         THEN StartGatt(handle, "characteristics")
         ELSE \/ StartGatt(handle, "blind")
              \/ Return(FALSE) /\ UNCHANGED link
      /\ UNCHANGED <<db, scanning, connections_unavailable>>

(* DISCOVER_CHARACTERISTICS: write 0x01 into the enable characteristic.    *)
CharacteristicsDiscovered(i) ==
  /\ StartGatt(db[i].handle, "write")
  /\ db' = IF GattReady(db[i].handle)
           THEN [db EXCEPT ![i].connection_state = "ENABLE_CTE"]
           ELSE db
  /\ UNCHANGED <<scanning, connections_unavailable>>

(* Mutant: the receiver is not enabled on the connection.                  *)
CteEnabledNoReceiver(i) ==
  /\ db' = [db EXCEPT ![i].connection_state = "RUNNING"]
  /\ IF connections_unavailable \/ AllAllowedFound
     THEN UNCHANGED scanning
     ELSE RestartScanner
  /\ UNCHANGED <<link, alive, connections_unavailable>>

(* ENABLE_CTE: enable the receiver, then restart the scanner unless no     *)
(* connection is left or every allowed tag is connected.                   *)
CteEnabled(i) ==
  LET handle == db[i].handle
      ok == link[handle].state = "open"
  IN  /\ Return(ok)
      /\ IF ok
         THEN /\ link' = [link EXCEPT ![handle].cte = TRUE]
              /\ db' = [db EXCEPT ![i].connection_state = "RUNNING"]
              /\ IF connections_unavailable \/ AllAllowedFound
                 THEN UNCHANGED scanning
                 ELSE RestartScanner
         ELSE UNCHANGED <<link, db, scanning>>
      /\ UNCHANGED connections_unavailable

ProcedureCompleted ==
  /\ Receive("completed")
  /\ LET i == GetTagByHandle(db, Head(evq).handle)
     IN  \/ /\ i # 0
            /\ \/ /\ db[i].connection_state = "DISCOVER_SERVICES"
                  /\ ServicesDiscovered(i)
               \/ /\ db[i].connection_state = "DISCOVER_CHARACTERISTICS"
                  /\ CharacteristicsDiscovered(i)
               \/ /\ db[i].connection_state = "ENABLE_CTE"
                  /\ CteEnabled(i)
         \/ /\ i = 0 \/ db[i].connection_state = "RUNNING"
            /\ UNCHANGED <<link, db, scanning, alive, connections_unavailable>>

(* Mutant: the scanner is not restarted.                                   *)
ConnectionClosedNoRestart ==
  /\ Receive("closed")
  /\ connections_unavailable' = FALSE
  /\ db' = RemoveTag(db, Head(evq).handle)
  /\ UNCHANGED <<link, alive, scanning>>

ConnectionClosed ==
  /\ Receive("closed")
  /\ connections_unavailable' = FALSE
  /\ db' = RemoveTag(db, Head(evq).handle)
  /\ RestartScanner
  /\ UNCHANGED <<link, alive>>

(* The report is handed to aoa_cte_on_iq_report if the tag is known, which *)
(* leaves the state of this module alone.                                  *)
IqReport ==
  /\ Receive("iq_report")
  /\ UNCHANGED <<link, scanning, alive, db, connections_unavailable>>

HandleEvent ==
  \/ ScanReport
  \/ /\ \/ SystemBoot
        \/ ConnectionOpened
        \/ GattService
        \/ GattCharacteristic
        \/ ProcedureCompleted
        \/ ConnectionClosed
        \/ IqReport
     /\ UNCHANGED reused

(* Mutant: parse_config leaves the tags in the database.                   *)
ConfigMessageKeepsTags ==
  /\ alive
  /\ configs < MaxConfigs
  /\ BootPending => configs > 0
  /\ configs' = configs + 1
  /\ allowlist' \in Allowlists
  /\ Reset
  /\ UNCHANGED <<alive, db, connections_unavailable>>

(* on_message with a configuration: parse_config removes every tag and may *)
(* set another allowlist, and ncp_reset follows.  The flag is left as it   *)
(* is.  Messages come once the first boot event has connected the client.  *)
ConfigMessage ==
  /\ alive
  /\ configs < MaxConfigs
  /\ BootPending => configs > 0
  /\ configs' = configs + 1
  /\ allowlist' \in Allowlists
  /\ db' = <<>>
  /\ Reset
  /\ UNCHANGED <<alive, connections_unavailable>>

Next ==
  \/ HandleEvent
  \/ ConfigMessage
  \/ alive /\ NcpNext /\ UNCHANGED hostVars

Spec == Init /\ [][Next]_vars

-----------------------------------------------------------------------------
(* Fairness.  main.c polls for events for as long as the program runs, so  *)
(* the oldest event is eventually handled.  A tag that is in range keeps   *)
(* advertising, a pending connection to it is eventually opened unless it  *)
(* is lost, and the ATT layer ends every GATT procedure.                   *)

Fairness ==
  /\ WF_vars(HandleEvent)
  /\ \A t \in Tag : WF_vars(alive /\ Advertise(t) /\ UNCHANGED hostVars)
  /\ \A h \in Handle :
       /\ WF_vars(alive /\ Establish(h) /\ UNCHANGED hostVars)
       /\ WF_vars(alive /\ (CompleteGatt(h) \/ FailGatt(h)) /\ UNCHANGED hostVars)

FairSpec == Spec /\ Fairness

-----------------------------------------------------------------------------
(* Properties.                                                             *)

(* Every variable of the handler and of the co-processor has its type.     *)
TypeOK ==
  /\ NcpTypeOK
  /\ alive \in BOOLEAN
  /\ allowlist \in Seq(Tag)
  /\ db \in Seq(Entry(Handle, Tag))
  /\ connections_unavailable \in BOOLEAN
  /\ configs \in 0..MaxConfigs

Pending(type, handle) ==
  {i \in DOMAIN evq : evq[i].type = type /\ evq[i].handle = handle}

(* The lookups of aoa_db.c return the first match and aoa_db_add_tag does  *)
(* not look for duplicates: the database is usable only because the        *)
(* handler never lets two entries share a handle or an address, whatever   *)
(* the order in which scan reports, reconnections and losses arrive.       *)
DbHasNoDuplicates ==
  \A i, j \in DOMAIN db :
    i # j => db[i].handle # db[j].handle /\ db[i].address # db[j].address

(* The tag the database will hold under a handle once every event that has *)
(* been emitted is handled.                                                *)
Settled(handle) ==
  LET changes == Pending("opened", handle) \cup Pending("closed", handle)
      entry == GetTagByHandle(db, handle)
  IN  IF changes # {}
      THEN LET last == evq[Max(changes)]
           IN  IF last.type = "opened" THEN last.tag ELSE NoTag
      ELSE IF entry # 0 THEN db[entry].address ELSE NoTag

(* The database follows the connection table of the co-processor: when the *)
(* events under way are handled the two agree, so no tag stays in the      *)
(* database after its connection is gone (the handler would never connect  *)
(* to it again), and no connection is left out of it.                      *)
DbFollowsConnections ==
  \A h \in Handle :
    Settled(h) = IF link[h].state = "open" THEN link[h].peer ELSE NoTag

(* Handles are reused, but the entry an event is applied to always belongs *)
(* to the tag the event is about: GATT results and IQ samples of one tag   *)
(* are never booked on another.                                            *)
EventsReachTheirTag ==
  evq # <<>> /\ Head(evq).type \in HandleEventType \ {"opened"} =>
    LET i == GetTagByHandle(db, Head(evq).handle)
    IN  i # 0 => db[i].address = Head(evq).tag

(* The scanner is stopped only while every connection is taken, or while   *)
(* the event that will restart it is under way: it never stays off when a  *)
(* tag could be connected.  (Before the boot event it has not started.)    *)
ScannerNeverStranded ==
  alive /\ ~scanning =>
    \/ BootPending
    \/ AtConnectionLimit
    \/ \E h \in Handle : Pending("closed", h) # {}

(* The walk through GATT of a tag that is not RUNNING is driven by exactly *)
(* one procedure or completion at a time, and of a RUNNING tag by none: it *)
(* neither stops half-way nor runs two procedures on one connection.  That *)
(* holds until a handle is given out again while events about its last     *)
(* connection are on the way: one of those may then start a procedure on   *)
(* the new connection.                                                     *)
OneGattStepPending ==
  alive /\ ~reused => \A i \in DOMAIN db :
    LET h == db[i].handle
        steps == Cardinality(Pending("completed", h))
                   + (IF link[h].gatt = "none" THEN 0 ELSE 1)
    IN  Pending("closed", h) = {} =>
          steps = IF db[i].connection_state = "RUNNING" THEN 0 ELSE 1

(* A RUNNING tag that is still connected has been told to send CTEs, and   *)
(* the receiver listens to it, as "If CTE was enabled" (cte_conn.c:226)    *)
(* takes for granted without a look at the result of the procedure: it is  *)
(* true as long as no GATT procedure fails and no handle is given out      *)
(* again too early.                                                        *)
RunningTagSendsCte ==
  failures = 0 /\ ~reused => \A i \in DOMAIN db :
    LET h == db[i].handle
    IN  db[i].connection_state = "RUNNING" /\ Pending("closed", h) = {} =>
          link[h].enabled /\ link[h].cte

(* sl_bt_on_event asserts that the handler returned SL_STATUS_OK.          *)
HandlerReturnsOk == alive

Allowed(tag) == AllowlistFind(allowlist, tag) # "NOT_FOUND"

Running(tag) ==
  \E i \in DOMAIN db : db[i].address = tag /\ db[i].connection_state = "RUNNING"

(* Once links stop being lost, every tag that is allowed ends up RUNNING   *)
(* if there are connections for all of them, and else as many of them as   *)
(* there are connections: a connection that is lost is given away again.   *)
(* (Unless the program has aborted or a GATT procedure has failed, which   *)
(* may leave a tag waiting or RUNNING without CTEs.)                       *)
TagsEndUpRunning ==
  LET wanted == {t \in CteTag : Allowed(t)}
  IN  <>[](\/ ~alive \/ failures > 0
           \/ \A t \in wanted : Running(t)
           \/ Cardinality({t \in wanted : Running(t)}) = MaxConnections)

=============================================================================
