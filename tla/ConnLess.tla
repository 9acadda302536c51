------------------------------ MODULE ConnLess ------------------------------
(***************************************************************************)
(* The connectionless CTE handler, cte_conn_less.c: it scans for tags and  *)
(* synchronises with the periodic advertising of each of them, on which    *)
(* the receiver then samples CTEs.                                         *)
(*                                                                         *)
(* One action per event the handler reacts to, with all the commands it    *)
(* sends.  A handler that returns a status other than SL_STATUS_OK ends    *)
(* the program, in sl_bt_on_event.  The boot event and the IQ reports also *)
(* concern the application: here are the parts of this handler, which      *)
(* LocatorHost completes.                                                  *)
(***************************************************************************)
EXTENDS SyncController, AoaDb

CONSTANT CteTag      (* tags whose extended advertisement has the service   *)

ASSUME CteTagAssumption == CteTag \subseteq Tag

VARIABLES
  alive,             (* no app_assert has failed                            *)
  allowlist,         (* head_allow                                          *)
  db                 (* head_conn                                           *)

cteVars == <<alive, allowlist, db>>

CteInit ==
  /\ alive = TRUE
  /\ allowlist = <<>>
  /\ db = <<>>

(* The handler is called for the oldest event.                             *)
Receive(type) ==
  /\ alive
  /\ evq # <<>>
  /\ Head(evq).type = type
  /\ evq' = Tail(evq)
  /\ UNCHANGED <<faults, restarted>>

(* app_assert_status(sc) in sl_bt_on_event.                                *)
Return(ok) == alive' = ok

(* The boot case: set up the scanner and start it.  SL_STATUS_INVALID_STATE, *)
(* the answer of a scanner that already runs, is an error here.            *)
StartScanner ==
  /\ scanning' = TRUE
  /\ Return(~scanning)

Interesting(tag) ==
  /\ AllowlistFind(allowlist, tag) # "NOT_FOUND"
  /\ GetTagByAddress(db, tag) = 0
  /\ tag \in CteTag

(* Mutant: the scanner is stopped whatever sl_bt_sync_open answers.        *)
SyncOpenStops(tag) ==
  /\ scanning' = FALSE
  /\ IF AtSyncLimit \/ Attempted(tag)
     THEN UNCHANGED sync
     ELSE \E s \in Sync : /\ sync[s].state = "free"
                          /\ sync' = [sync EXCEPT ![s] = NewSync(tag)]

(* sl_bt_sync_open.  "sync open command is sent multiple times in a row.   *)
(* This is normal and shouldn't cause any issues": for a tag that has one, *)
(* no second synchronisation is made.  SL_STATUS_NO_MORE_RESOURCE stops    *)
(* the scanner.                                                            *)
SyncOpen(tag) ==
  \/ /\ AtSyncLimit
     /\ scanning' = FALSE
     /\ UNCHANGED sync
  \/ /\ Attempted(tag)
     /\ UNCHANGED <<scanning, sync>>
  \/ /\ ~Attempted(tag)
     /\ \E s \in Sync : /\ sync[s].state = "free"
                        /\ sync' = [sync EXCEPT ![s] = NewSync(tag)]
     /\ UNCHANGED scanning

ScanReport ==
  /\ Receive("scan_report")
  /\ IF Interesting(Head(evq).tag)
     THEN SyncOpen(Head(evq).tag)
     ELSE UNCHANGED <<scanning, sync>>
  /\ UNCHANGED cteVars

(* Every allowed tag is in the database; never so without an allowlist.    *)
AllAllowedFound(entries) ==
  AllowlistSize(allowlist) > 0 /\ NumberOfTags(entries) = AllowlistSize(allowlist)

(* The tag is added before the receiver is enabled, which fails if the     *)
(* synchronisation is gone by now.                                         *)
SyncOpened ==
  /\ Receive("opened")
  /\ LET s == Head(evq).handle
         ok == sync[s].state = "open"
     IN  /\ db' = AddTag(db, s, Head(evq).tag)
         /\ Return(ok)
         /\ sync' = IF ok THEN [sync EXCEPT ![s].cte = TRUE] ELSE sync
         /\ scanning' = (scanning /\ ~(ok /\ AllAllowedFound(db')))
  /\ UNCHANGED allowlist

(* Mutant: the scanner is not restarted.                                   *)
SyncClosedNoRestart ==
  /\ Receive("closed")
  /\ db' = RemoveTag(db, Head(evq).handle)
  /\ UNCHANGED <<scanning, sync, alive, allowlist>>

(* Here a scanner that already runs is no error.                           *)
SyncClosed ==
  /\ Receive("closed")
  /\ db' = RemoveTag(db, Head(evq).handle)
  /\ scanning' = TRUE
  /\ UNCHANGED <<sync, alive, allowlist>>

(* The report is handed to aoa_cte_on_iq_report, which asserts that it was *)
(* published, if it has samples and the tag is known.                      *)
IqReport(published) ==
  /\ Receive("iq_report")
  /\ \/ UNCHANGED alive
     \/ /\ GetTagByHandle(db, Head(evq).handle) # 0
        /\ Return(published)
  /\ UNCHANGED <<scanning, sync, allowlist, db>>

CteTypeOK ==
  /\ alive \in BOOLEAN
  /\ allowlist \in Seq(Tag)
  /\ db \in Seq(Entry(Sync, Tag))

=============================================================================
