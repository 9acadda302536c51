----------------------------- MODULE LocatorHost -----------------------------
(***************************************************************************)
(* The locator host in connectionless mode: the handler of ConnLess, the   *)
(* client of Mqtt and what app.c does to join them.                        *)
(*                                                                         *)
(* The first boot event connects to the broker and subscribes; a           *)
(* configuration from the broker empties the tag database, changes the     *)
(* allowlist and resets the co-processor; IQ reports are published, and    *)
(* the program ends when one cannot be.                                    *)
(***************************************************************************)
EXTENDS ConnLess, Mqtt

ASSUME ConfigAssumption == Config \subseteq Seq(Tag)

VARIABLE booted      (* ~first_bt_system_reset                              *)

vars == <<ncpVars, cteVars, mqttVars, booted>>

Init ==
  /\ NcpInit
  /\ CteInit
  /\ MqttInit
  /\ booted = FALSE

(* sl_bt_on_event, "Execute this part only after first reset": a failure   *)
(* of mqtt_init ends the program.  The configuration file is read before   *)
(* the topics are subscribed to; here it holds an allowlist, if any.       *)
FirstBoot ==
  /\ Receive("boot")
  /\ ~booted
  /\ booted' = TRUE
  /\ \/ /\ broker
        /\ InitAndSubscribe(<<"correction", "config">>)
        /\ allowlist' \in Config \cup {<<>>}
        /\ StartScanner
     \/ /\ ~broker
        /\ Return(FALSE)
        /\ UNCHANGED <<scanning, allowlist, mqttVars>>
  /\ UNCHANGED <<sync, db>>

LaterBoot ==
  /\ Receive("boot")
  /\ booted
  /\ StartScanner
  /\ UNCHANGED <<sync, allowlist, db, mqttVars, booted>>

HandleEvent ==
  \/ FirstBoot
  \/ LaterBoot
  \/ /\ \/ ScanReport
        \/ SyncOpened
        \/ SyncClosed
        \/ \E published \in PublishResults : IqReport(published)
     /\ UNCHANGED <<mqttVars, booted>>

(* Mutant: the co-processor is not reset.                                  *)
OnConfigMessageNoReset ==
  /\ TakeMessage
  /\ allowlist' = Head(toClient).config
  /\ db' = <<>>
  /\ UNCHANGED <<ncpVars, alive, booted>>

(* Mutant: parse_config leaves the tags in the database.                   *)
OnConfigMessageKeepsTags ==
  /\ TakeMessage
  /\ allowlist' = Head(toClient).config
  /\ Reset
  /\ UNCHANGED <<alive, db, booted>>

(* on_message with a configuration: parse_config, then ncp_reset.          *)
OnConfigMessage ==
  /\ TakeMessage
  /\ allowlist' = Head(toClient).config
  /\ db' = <<>>
  /\ Reset
  /\ UNCHANGED <<alive, booted>>

(* app_process_action calls mqtt_step, and ignores its result.             *)
MqttStep ==
  /\ alive
  /\ \/ OnConfigMessage
     \/ (OnConnect \/ OnDisconnect) /\ UNCHANGED <<ncpVars, cteVars, booted>>

Next ==
  \/ HandleEvent
  \/ MqttStep
  \/ alive /\ NcpNext /\ UNCHANGED <<cteVars, mqttVars, booted>>
  \/ alive /\ BrokerNext /\ UNCHANGED <<ncpVars, cteVars, booted>>

Spec == Init /\ [][Next]_vars

-----------------------------------------------------------------------------
(* Fairness.  The main loop of main.c polls for events and calls mqtt_step *)
(* for as long as the program runs.  A tag that is in range keeps          *)
(* advertising, and a synchronisation with it is established unless it is  *)
(* lost.  Nothing is assumed of the broker.                                *)

Fairness ==
  /\ WF_vars(HandleEvent)
  /\ WF_vars(MqttStep)
  /\ \A t \in Tag :
       WF_vars(alive /\ Advertise(t) /\ UNCHANGED <<cteVars, mqttVars, booted>>)
  /\ \A s \in Sync :
       WF_vars(alive /\ Establish(s) /\ UNCHANGED <<cteVars, mqttVars, booted>>)

FairSpec == Spec /\ Fairness

-----------------------------------------------------------------------------
(* Properties.                                                             *)

(* Every variable of the host, the co-processor and the broker has its     *)
(* type.                                                                   *)
TypeOK ==
  /\ NcpTypeOK
  /\ CteTypeOK
  /\ MqttTypeOK
  /\ booted \in BOOLEAN

Pending(type, s) == {i \in DOMAIN evq : evq[i].type = type /\ evq[i].handle = s}

Settled(s) ==
  LET changes == Pending("opened", s) \cup Pending("closed", s)
      entry == GetTagByHandle(db, s)
  IN  IF changes # {}
      THEN LET last == evq[Max(changes)]
           IN  IF last.type = "opened" THEN last.tag ELSE NoTag
      ELSE IF entry # 0 THEN db[entry].address ELSE NoTag

(* The database follows the synchronisations of the co-processor, across   *)
(* losses and across resets: when the events under way are handled the two *)
(* agree, so that no tag is left unsynchronised because the database still *)
(* knows it.  Only a co-processor that has restarted by itself disagrees.  *)
DbFollowsSyncs ==
  ~restarted => \A s \in Sync :
    Settled(s) = IF sync[s].state = "open" THEN sync[s].peer ELSE NoTag

ClosedPending == \E s \in Sync : Pending("closed", s) # {}

Synced(tag) == \E s \in Sync : sync[s].state = "open" /\ sync[s].peer = tag

(* "All allowed asset tags found, stop scanning." and "SL_BT_CONFIG_MAX_   *)
(* PERIODIC_ADVERTISING_SYNC reached, stop scanning." (cte_conn_less.c):   *)
(* a scanner that is off, and that no event under way will start again,    *)
(* has nothing left to find.                                               *)
StopsOnlyWhenDone ==
  alive /\ ~scanning =>
    \/ BootPending
    \/ ClosedPending
    \/ AtSyncLimit
    \/ allowlist # <<>> /\ \A i \in DOMAIN allowlist : Synced(allowlist[i])

(* The scanner is never left off while an allowed tag could still be       *)
(* found, unless the co-processor has restarted by itself.                 *)
ScannerNeverStranded == ~restarted => StopsOnlyWhenDone

(* Only tags of the allowlist in force are in the database, whatever       *)
(* events of the time before the configuration were still under way.       *)
OnlyAllowedTags ==
  \A i \in DOMAIN db : AllowlistFind(allowlist, db[i].address) # "NOT_FOUND"

ConnectUnderWay ==
  \/ \E i \in DOMAIN toBroker : toBroker[i] = Connect
  \/ \E i \in DOMAIN toClient : toClient[i] = Connack

(* When the connection is open and nothing is under way on it, the broker  *)
(* knows of every topic the application has subscribed to: a connection    *)
(* that is lost and made again loses none of them.                         *)
SubscriptionsSettle ==
  client = "open" /\ toBroker = <<>> /\ ~ConnectUnderWay => session = Range(topics)

Found(tag) == Synced(tag) /\ GetTagByAddress(db, tag) # 0

(* Once synchronisations stop being lost and configurations stop coming,   *)
(* every allowed tag ends up synchronised and known, or as many as there   *)
(* are synchronisations.  (Unless the program has aborted, or the          *)
(* co-processor restarted by itself.)                                      *)
TagsEndUpSynced ==
  LET wanted == {t \in CteTag : AllowlistFind(allowlist, t) # "NOT_FOUND"}
  IN  <>[](\/ ~alive \/ restarted
           \/ \A t \in wanted : Found(t)
           \/ Cardinality({t \in wanted : Found(t)}) = Cardinality(Sync))

=============================================================================
