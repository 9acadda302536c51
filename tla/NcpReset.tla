------------------------------ MODULE NcpReset ------------------------------
(***************************************************************************)
(* How the host resets the network co-processor and waits for it to boot:  *)
(* ncp_reset.c, the main loop of main.c and system.c that drives it, the   *)
(* one timer of sl_simple_timer_posix.c it uses, and the two ways in which *)
(* sl_bt_ncp_host.c reads the serial line, polling for an event or waiting *)
(* for the response to a command.                                          *)
(*                                                                         *)
(* The co-processor executes commands in the order they were sent, and     *)
(* what it sends arrives in order.  A command that reaches it while it     *)
(* boots may be lost.  Every message carries the number of the boot that   *)
(* produced it; the code does not see that number, the properties do.      *)
(***************************************************************************)
EXTENDS Naturals, Sequences

CONSTANTS
  MAX_NCP_BOOT_N,  (* resets sent again by the boot timer                   *)
  QueueCapacity,   (* events sl_bt_api_queue holds: SL_BT_API_QUEUE_LEN - 1 *)
  MaxConfigs,      (* bound: configuration messages from MQTT               *)
  MaxLosses,       (* bound: reset commands lost on the way                 *)
  MaxCrashes,      (* bound: co-processor restarts nobody asked for         *)
  MaxEvents        (* bound: other events on the line at a time             *)

ASSUME BoundsAssumption ==
  /\ MAX_NCP_BOOT_N \in Nat
  /\ QueueCapacity \in Nat
  /\ MaxConfigs \in Nat
  /\ MaxLosses \in Nat
  /\ MaxCrashes \in Nat
  /\ MaxEvents \in Nat

VARIABLES
  pc,               (* where main is: a step of the loop, or sl_bt_wait_response *)
  status,           (* "running", or how app_assert ended the program       *)
  ncp_booted,
  ncp_boot_retries,
  timer_listed,     (* boot_timer is armed and in the list of timers        *)
  triggered,        (* its flag, set by the signal handler                  *)
  queue,            (* sl_bt_api_queue                                      *)
  uart,             (* messages sent by the co-processor and not yet read   *)
  cmds,             (* commands sent and not yet executed                   *)
  ncp,              (* "up" or "booting"                                    *)
  scanning,         (* the scanner of the co-processor runs                 *)
  boots,            (* how often the co-processor has booted                *)
  handled_boot,     (* number of the last boot whose event was handled      *)
  sent,             (* resets sent since the last call of ncp_reset         *)
  discarded,        (* an event has been discarded because queue was full   *)
  untimely,         (* the boot timer has expired while the boot was on its *)
                    (* way, or a configuration came while it was awaited    *)
  configs, losses, crashes

hostVars == <<pc, status, ncp_booted, ncp_boot_retries, timer_listed, triggered, queue>>
ncpVars == <<ncp, scanning, boots>>
historyVars == <<handled_boot, sent, discarded, untimely>>
boundVars == <<configs, losses, crashes>>
vars == <<hostVars, uart, cmds, ncpVars, historyVars, boundVars>>

EventType == {"boot", "event"}
ResponseType == {"ok", "invalid_state"}
Msg == [type : EventType \cup ResponseType, boot : Nat]

Mk(type) == [type |-> type, boot |-> boots]

(* app_init has just called ncp_reset; the co-processor may be in any      *)
(* state, and what it sent to an earlier host may still be on the line.    *)
Init ==
  /\ pc = "bt"
  /\ status = "running"
  /\ ncp_booted = FALSE
  /\ ncp_boot_retries = 0
  /\ timer_listed = TRUE
  /\ triggered = FALSE
  /\ queue = <<>>
  /\ boots = 0
  /\ uart \in {<<>>, <<Mk("event")>>}
  /\ cmds = <<"reset">>
  /\ ncp = "up"
  /\ scanning \in BOOLEAN
  /\ handled_boot = 0
  /\ sent = 1
  /\ discarded = FALSE
  /\ untimely = FALSE
  /\ configs = 0
  /\ losses = 0
  /\ crashes = 0

-----------------------------------------------------------------------------
(* The co-processor and the line.                                          *)

TakeReset ==
  /\ cmds # <<>> /\ Head(cmds) = "reset" /\ ncp = "up"
  /\ cmds' = Tail(cmds)
  /\ ncp' = "booting"
  /\ scanning' = FALSE
  /\ UNCHANGED <<hostVars, uart, boots, historyVars, boundVars>>

(* sl_bt_scanner_start, the last command of every boot handler that can be *)
(* refused.                                                                *)
TakeStart ==
  /\ cmds # <<>> /\ Head(cmds) = "start" /\ ncp = "up"
  /\ cmds' = Tail(cmds)
  /\ uart' = Append(uart, Mk(IF scanning THEN "invalid_state" ELSE "ok"))
  /\ scanning' = TRUE
  /\ UNCHANGED <<hostVars, ncp, boots, historyVars, boundVars>>

(* Bytes that arrive while the co-processor boots.                         *)
MissCommand ==
  /\ cmds # <<>> /\ ncp = "booting"
  /\ cmds' = Tail(cmds)
  /\ UNCHANGED <<hostVars, uart, ncpVars, historyVars, boundVars>>

LoseReset ==
  /\ cmds # <<>> /\ Head(cmds) = "reset" /\ losses < MaxLosses
  /\ cmds' = Tail(cmds)
  /\ losses' = losses + 1
  /\ UNCHANGED <<hostVars, uart, ncpVars, historyVars, configs, crashes>>

Boot ==
  /\ ncp = "booting"
  /\ ncp' = "up"
  /\ boots' = boots + 1
  /\ uart' = Append(uart, [type |-> "boot", boot |-> boots + 1])
  /\ UNCHANGED <<hostVars, cmds, scanning, historyVars, boundVars>>

SendEvent ==
  /\ ncp = "up" /\ scanning
  /\ Len(SelectSeq(uart, LAMBDA m : m.type = "event")) < MaxEvents
  /\ uart' = Append(uart, Mk("event"))
  /\ UNCHANGED <<hostVars, cmds, ncpVars, historyVars, boundVars>>

Crash ==
  /\ ncp = "up" /\ crashes < MaxCrashes
  /\ ncp' = "booting"
  /\ scanning' = FALSE
  /\ crashes' = crashes + 1
  /\ UNCHANGED <<hostVars, uart, cmds, boots, historyVars, configs, losses>>

NcpNext ==
  TakeReset \/ TakeStart \/ MissCommand \/ LoseReset \/ Boot \/ SendEvent \/ Crash

-----------------------------------------------------------------------------
(* The timer.                                                              *)

(* A boot is on its way for the reset the host is waiting for.             *)
BootUnderWay ==
  \/ cmds # <<>> \/ ncp = "booting"
  \/ \E i \in DOMAIN uart : uart[i].type = "boot"
  \/ \E i \in DOMAIN queue : queue[i].type = "boot"

(* SIGRTMIN: the signal handler may run between any two steps of main.     *)
TimerExpires ==
  /\ status = "running"
  /\ timer_listed
  /\ ~triggered
  /\ triggered' = TRUE
  /\ untimely' = (untimely \/ BootUnderWay)
  /\ UNCHANGED <<pc, status, ncp_booted, ncp_boot_retries, timer_listed, queue,
                 uart, cmds, ncpVars, handled_boot, sent, discarded, boundVars>>

-----------------------------------------------------------------------------
(* The main loop.                                                          *)

At(step) == status = "running" /\ pc = step

(* ncp_host_flush_data drops what the kernel has received; messages still  *)
(* on the line are not affected.                                           *)
Flush == \E k \in 0..Len(uart) : uart' = SubSeq(uart, k + 1, Len(uart))

SendReset == cmds' = Append(cmds, "reset")

(* Mutant: ncp_reset_on_event returns SL_STATUS_BUSY for the boot event.   *)
DeliverSwallowsBoot(msg) ==
  /\ ncp_booted' = (ncp_booted \/ msg.type = "boot")
  /\ timer_listed' = (timer_listed /\ msg.type # "boot")
  /\ pc' = "timer"
  /\ UNCHANGED <<cmds, status, ncp_boot_retries, triggered, ncpVars, historyVars,
                 boundVars>>

(* Mutant: the boot timer is not stopped.                                  *)
DeliverKeepsTimer(msg) ==
  /\ ncp_booted' = (ncp_booted \/ msg.type = "boot")
  /\ IF msg.type = "boot"
     THEN cmds' = Append(cmds, "start") /\ handled_boot' = msg.boot /\ pc' = "wait"
     ELSE pc' = "timer" /\ UNCHANGED <<cmds, handled_boot>>
  /\ UNCHANGED <<status, ncp_boot_retries, timer_listed, triggered, ncpVars,
                 sent, discarded, untimely, boundVars>>

(* ncp_reset_on_event followed, unless it returned SL_STATUS_BUSY, by      *)
(* sl_bt_on_event, whose boot branch starts the scanner and waits for the  *)
(* response.                                                               *)
Deliver(msg) ==
  /\ IF ~ncp_booted /\ msg.type = "boot"
     THEN ncp_booted' = TRUE /\ timer_listed' = FALSE
     ELSE UNCHANGED <<ncp_booted, timer_listed>>
  /\ IF msg.type = "boot"
     THEN /\ cmds' = Append(cmds, "start")
          /\ handled_boot' = msg.boot
          /\ pc' = "wait"
     ELSE /\ pc' = "timer"
          /\ UNCHANGED <<cmds, handled_boot>>
  /\ UNCHANGED <<status, ncp_boot_retries, triggered, ncpVars, sent, discarded,
                 untimely, boundVars>>

(* Mutant: the line is read before the queue is empty.                     *)
BtStepLineFirst ==
  /\ At("bt")
  /\ \/ /\ uart # <<>>
        /\ uart' = Tail(uart)
        /\ Deliver(Head(uart))
        /\ UNCHANGED queue
     \/ /\ uart = <<>> /\ queue # <<>>
        /\ queue' = Tail(queue)
        /\ Deliver(Head(queue))
        /\ UNCHANGED uart
     \/ /\ queue = <<>> /\ uart = <<>>
        /\ pc' = "timer"
        /\ UNCHANGED <<status, ncp_booted, ncp_boot_retries, timer_listed, triggered,
                       queue, uart, cmds, ncpVars, historyVars, boundVars>>

(* sl_bt_step: sl_bt_pop_event looks into the queue, then at the line.     *)
BtStep ==
  /\ At("bt")
  /\ \/ /\ queue # <<>>
        /\ queue' = Tail(queue)
        /\ Deliver(Head(queue))
        /\ UNCHANGED uart
     \/ /\ queue = <<>> /\ uart # <<>>
        /\ uart' = Tail(uart)
        /\ Deliver(Head(uart))
        /\ UNCHANGED queue
     \/ /\ queue = <<>> /\ uart = <<>>
        /\ pc' = "timer"
        /\ UNCHANGED <<status, ncp_booted, ncp_boot_retries, timer_listed, triggered,
                       queue, uart, cmds, ncpVars, historyVars, boundVars>>

(* Mutant: the first message that comes in ends the wait.                  *)
WaitResponseTakesAny ==
  /\ At("wait")
  /\ uart # <<>>
  /\ uart' = Tail(uart)
  /\ pc' = "timer"
  /\ status' = IF Head(uart).type = "invalid_state" THEN "aborted" ELSE "running"
  /\ UNCHANGED <<ncp_booted, ncp_boot_retries, timer_listed, triggered, queue, cmds,
                 ncpVars, historyVars, boundVars>>

(* sl_bt_wait_response: events go to the queue, or are discarded when it   *)
(* is full; the response ends the wait and app_assert_status looks at it.  *)
WaitResponse ==
  /\ At("wait")
  /\ uart # <<>>
  /\ uart' = Tail(uart)
  /\ IF Head(uart).type \in EventType
     THEN /\ IF Len(queue) < QueueCapacity
             THEN queue' = Append(queue, Head(uart)) /\ UNCHANGED discarded
             ELSE discarded' = TRUE /\ UNCHANGED queue
          /\ UNCHANGED <<pc, status>>
     ELSE /\ pc' = "timer"
          /\ status' = IF Head(uart).type = "ok" THEN "running" ELSE "aborted"
          /\ UNCHANGED <<queue, discarded>>
  /\ UNCHANGED <<ncp_booted, ncp_boot_retries, timer_listed, triggered, cmds,
                 ncpVars, handled_boot, sent, untimely, boundVars>>

(* Mutant: one retry too many.                                             *)
BootTimerExpireOffByOne ==
  IF ncp_boot_retries <= MAX_NCP_BOOT_N
  THEN /\ Flush
       /\ SendReset
       /\ ncp_boot_retries' = ncp_boot_retries + 1
       /\ sent' = sent + 1
       /\ UNCHANGED <<timer_listed, status>>
  ELSE /\ timer_listed' = FALSE
       /\ status' = "gave_up"
       /\ UNCHANGED <<uart, cmds, ncp_boot_retries, sent>>

(* ncp_reset_on_boot_timer_expire.                                         *)
BootTimerExpire ==
  IF ncp_boot_retries < MAX_NCP_BOOT_N
  THEN /\ Flush
       /\ SendReset
       /\ ncp_boot_retries' = ncp_boot_retries + 1
       /\ sent' = sent + 1
       /\ UNCHANGED <<timer_listed, status>>
  ELSE /\ timer_listed' = FALSE
       /\ status' = "gave_up"
       /\ UNCHANGED <<uart, cmds, ncp_boot_retries, sent>>

(* sli_simple_timer_step; the flag is cleared after the callback.          *)
TimerStep ==
  /\ At("timer")
  /\ pc' = "mqtt"
  /\ IF timer_listed /\ triggered
     THEN BootTimerExpire /\ triggered' = FALSE
     ELSE UNCHANGED <<uart, cmds, ncp_boot_retries, sent, timer_listed, status, triggered>>
  /\ UNCHANGED <<ncp_booted, queue, ncpVars, handled_boot, discarded, untimely, boundVars>>

(* ncp_reset.  sl_simple_timer_start appends boot_timer to the list if it  *)
(* is not there and arms it; it leaves the flag as it is.                  *)
NcpResetCall ==
  /\ ncp_booted' = FALSE
  /\ ncp_boot_retries' = 0
  /\ Flush
  /\ SendReset
  /\ timer_listed' = TRUE
  /\ sent' = 1
  /\ UNCHANGED triggered

(* app_process_action: mqtt_step may deliver a configuration to on_message,*)
(* which ends by resetting the co-processor.                               *)
MqttStep ==
  /\ At("mqtt")
  /\ pc' = "bt"
  /\ \/ UNCHANGED <<ncp_booted, ncp_boot_retries, uart, cmds, timer_listed, triggered,
                    sent, configs, untimely>>
     \/ /\ configs < MaxConfigs
        /\ configs' = configs + 1
        /\ untimely' = (untimely \/ ~ncp_booted)
        /\ NcpResetCall
  /\ UNCHANGED <<status, queue, ncpVars, handled_boot, discarded, losses, crashes>>

HostNext == BtStep \/ WaitResponse \/ TimerStep \/ MqttStep

Next == NcpNext \/ TimerExpires \/ HostNext

Spec == Init /\ [][Next]_vars

(* The loop of main never pauses, a running co-processor executes what it  *)
(* receives and a booting one boots, and an armed timer expires.           *)
Fairness ==
  /\ WF_vars(HostNext)
  /\ WF_vars(TakeReset)
  /\ WF_vars(TakeStart)
  /\ WF_vars(Boot)
  /\ WF_vars(TimerExpires)

FairSpec == Spec /\ Fairness

-----------------------------------------------------------------------------
(* Properties.                                                             *)

(* Every variable has its type, and the retry counter, a uint8_t, stays    *)
(* within MAX_NCP_BOOT_N.                                                  *)
TypeOK ==
  /\ pc \in {"bt", "wait", "timer", "mqtt"}
  /\ status \in {"running", "aborted", "gave_up"}
  /\ ncp_booted \in BOOLEAN
  /\ ncp_boot_retries \in 0..MAX_NCP_BOOT_N
  /\ timer_listed \in BOOLEAN
  /\ triggered \in BOOLEAN
  /\ queue \in Seq(Msg)
  /\ uart \in Seq(Msg)
  /\ cmds \in Seq({"reset", "start"})
  /\ ncp \in {"up", "booting"}
  /\ scanning \in BOOLEAN
  /\ boots \in Nat
  /\ handled_boot \in Nat
  /\ sent \in Nat
  /\ discarded \in BOOLEAN
  /\ untimely \in BOOLEAN
  /\ configs \in 0..MaxConfigs
  /\ losses \in 0..MaxLosses
  /\ crashes \in 0..MaxCrashes

(* The host awaits a boot event and its boot timer is armed, or neither.   *)
TimerArmedWhileAwaited == status = "running" => (timer_listed <=> ~ncp_booted)

(* The boot timer never expired while the boot was on its way, no          *)
(* configuration came while the boot event was awaited, and the            *)
(* co-processor never restarted by itself.                                 *)
Timely == ~untimely /\ crashes = 0

(* The boot timer guards the wait for the boot event: while the program    *)
(* runs it is armed exactly as long as the host has not handled the event  *)
(* (its own flag: a co-processor whose event is unread may be reset once   *)
(* more).  And however many resets are lost, flushed and sent again, only  *)
(* such an untimely reset leads to a second boot: otherwise, once a boot   *)
(* event is handled, no reset and no further boot event is on its way.     *)
TimerGuardsReset ==
  /\ TimerArmedWhileAwaited
  /\ Timely /\ ncp_booted =>
       /\ ncp = "up" /\ \A i \in DOMAIN cmds : cmds[i] # "reset"
       /\ \A i \in DOMAIN uart : uart[i].type # "boot"
       /\ \A i \in DOMAIN queue : queue[i].type # "boot"

(* The host gives up only after it has sent the reset MAX_NCP_BOOT_N + 1   *)
(* times since it was asked for, and it never sends it more often.         *)
RetryBudget ==
  /\ sent <= MAX_NCP_BOOT_N + 1
  /\ status = "gave_up" => sent = MAX_NCP_BOOT_N + 1

NextMessage == IF queue # <<>> THEN Head(queue) ELSE Head(uart)

(* Whatever resets, retries and restarts overlap, the application is only  *)
(* given events of the boot it has handled last: nothing of an earlier     *)
(* life of the co-processor (handles, advertisements) reaches it.  It is   *)
(* not so once the full queue has discarded an event, which may be the     *)
(* boot event, or a reset was lost: a second boot event that waits in the  *)
(* queue is then taken for the answer to it.                               *)
EventsOfThisBoot ==
  (/\ ~discarded /\ losses = 0
   /\ At("bt") /\ ncp_booted /\ queue \o uart # <<>>
   /\ NextMessage.type = "event")
  => NextMessage.boot = handled_boot

(* The queue holds no response: none is mistaken for an event, and the     *)
(* wait of a command never ends with the response of another.              *)
ResponsesAreConsumed ==
  /\ \A i \in DOMAIN queue : queue[i].type \in EventType
  /\ pc # "wait" => \A i \in DOMAIN uart : uart[i].type \in EventType

(* sl_bt_on_event asserts that the boot handler succeeded.                 *)
HandlerReturnsOk == status # "aborted"

(* Every reset leads to a running scanner, or to the end of the program    *)
(* because more resets were lost than are sent again: the boot handler is  *)
(* not refused, does not wait for ever for a response, and does not lose   *)
(* its command to a later reset.  When resets overlap or the co-processor  *)
(* restarts by itself that may happen, but the host never waits for ever   *)
(* for a boot event.                                                       *)
EndsUpScanning ==
  <>[](\/ status = "running" /\ ncp_booted /\ scanning /\ pc # "wait"
       \/ status = "gave_up" /\ losses > MAX_NCP_BOOT_N
       \/ (untimely \/ crashes > 0) /\ (ncp_booted \/ status # "running"))

=============================================================================
