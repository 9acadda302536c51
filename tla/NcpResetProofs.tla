--------------------------- MODULE NcpResetProofs ---------------------------
(***************************************************************************)
(* Proofs about NcpReset, for every number of retries, every queue length  *)
(* and every number of configurations, losses and restarts.                *)
(***************************************************************************)
EXTENDS NcpReset, SequenceTheorems, TLAPS

(* Appending, dropping the first element and dropping a prefix keep the    *)
(* type of a sequence: what queues, the line and the flush do.             *)
LEMMA AppendType ==
  ASSUME NEW S, NEW s \in Seq(S), NEW e \in S
  PROVE  Append(s, e) \in Seq(S)
  BY AppendProperties

LEMMA TailType ==
  ASSUME NEW S, NEW s \in Seq(S), s # <<>>
  PROVE  Tail(s) \in Seq(S) /\ Head(s) \in S
  BY HeadTailProperties

LEMMA SuffixType ==
  ASSUME NEW S, NEW s \in Seq(S), NEW k \in 0..Len(s)
  PROVE  SubSeq(s, k + 1, Len(s)) \in Seq(S)
  BY SubSeqProperties, LenProperties

(* A message made by the co-processor is a message.                        *)
LEMMA MsgType ==
  ASSUME boots \in Nat, NEW t \in EventType \cup ResponseType
  PROVE  Mk(t) \in Msg
  BY DEF Mk, Msg

LEMMA FlushType ==
  ASSUME uart \in Seq(Msg), Flush
  PROVE  uart' \in Seq(Msg)
  BY SuffixType DEF Flush

LEMMA SendResetType ==
  ASSUME cmds \in Seq({"reset", "start"}), SendReset
  PROVE  cmds' \in Seq({"reset", "start"})
  BY AppendType DEF SendReset

(* The retry counter and the history of resets tell the same story.        *)
ResetsCounted ==
  /\ sent = ncp_boot_retries + 1
  /\ status = "gave_up" => ncp_boot_retries = MAX_NCP_BOOT_N

-----------------------------------------------------------------------------

LEMMA InitType == Init => TypeOK
<1> SUFFICES ASSUME Init PROVE TypeOK
  OBVIOUS
<1>1. Mk("event") \in Msg
  BY MsgType DEF Init, EventType
<1>2. <<Mk("event")>> \in Seq(Msg) /\ <<>> \in Seq(Msg) /\ <<"reset">> \in Seq({"reset", "start"})
  BY <1>1
<1>3. uart \in Seq(Msg) /\ queue \in Seq(Msg) /\ cmds \in Seq({"reset", "start"})
  BY <1>2 DEF Init
<1>4. /\ pc \in {"bt", "wait", "timer", "mqtt"}
      /\ status \in {"running", "aborted", "gave_up"}
      /\ ncp \in {"up", "booting"}
      /\ <<ncp_booted, timer_listed, triggered>> \in BOOLEAN \X BOOLEAN \X BOOLEAN
      /\ <<scanning, discarded, untimely>> \in BOOLEAN \X BOOLEAN \X BOOLEAN
  BY DEF Init
<1>5. /\ ncp_boot_retries \in 0..MAX_NCP_BOOT_N
      /\ boots \in Nat /\ handled_boot \in Nat /\ sent \in Nat
      /\ configs \in 0..MaxConfigs /\ losses \in 0..MaxLosses /\ crashes \in 0..MaxCrashes
  BY BoundsAssumption DEF Init
<1> QED
  BY <1>3, <1>4, <1>5 DEF TypeOK

(* What Deliver does to the variables it may change.                       *)
LEMMA DeliverType ==
  ASSUME TypeOK, NEW m \in Msg, Deliver(m)
  PROVE  /\ pc' \in {"timer", "wait"}
         /\ ncp_booted' \in BOOLEAN
         /\ timer_listed' \in BOOLEAN
         /\ cmds' \in Seq({"reset", "start"})
         /\ handled_boot' \in Nat
<1>1. cmds \in Seq({"reset", "start"}) /\ Append(cmds, "start") \in Seq({"reset", "start"})
  BY AppendType DEF TypeOK
<1>2. cmds' \in Seq({"reset", "start"})
  BY <1>1 DEF Deliver
<1>3. m.boot \in Nat
  BY DEF Msg
<1> QED
  BY <1>2, <1>3 DEF Deliver, TypeOK

(* The co-processor and the line keep every type.                          *)
LEMMA NcpType ==
  ASSUME TypeOK, NcpNext
  PROVE  TypeOK'
<1> USE BoundsAssumption DEF hostVars, ncpVars, historyVars, boundVars
<1>1. CASE TakeReset
  <2>1. cmds' \in Seq({"reset", "start"})
    BY <1>1, TailType DEF TakeReset, TypeOK
  <2> QED
    BY <1>1, <2>1 DEF TakeReset, TypeOK
<1>2. CASE TakeStart
  <2>1. cmds' \in Seq({"reset", "start"})
    BY <1>2, TailType DEF TakeStart, TypeOK
  <2>2. Mk(IF scanning THEN "invalid_state" ELSE "ok") \in Msg
    BY MsgType DEF TypeOK, ResponseType
  <2>3. uart' \in Seq(Msg)
    BY <1>2, <2>2, AppendType DEF TakeStart, TypeOK
  <2> QED
    BY <1>2, <2>1, <2>3 DEF TakeStart, TypeOK
<1>3. CASE MissCommand
  <2>1. cmds' \in Seq({"reset", "start"})
    BY <1>3, TailType DEF MissCommand, TypeOK
  <2> QED
    BY <1>3, <2>1 DEF MissCommand, TypeOK
<1>4. CASE LoseReset
  <2>1. cmds' \in Seq({"reset", "start"})
    BY <1>4, TailType DEF LoseReset, TypeOK
  <2> QED
    BY <1>4, <2>1 DEF LoseReset, TypeOK
<1>5. CASE Boot
  <2>1. [type |-> "boot", boot |-> boots + 1] \in Msg
    BY DEF TypeOK, Msg, EventType
  <2>2. uart' \in Seq(Msg)
    BY <1>5, <2>1, AppendType DEF Boot, TypeOK
  <2> QED
    BY <1>5, <2>2 DEF Boot, TypeOK
<1>6. CASE SendEvent
  <2>1. Mk("event") \in Msg
    BY MsgType DEF TypeOK, EventType
  <2>2. uart' \in Seq(Msg)
    BY <1>6, <2>1, AppendType DEF SendEvent, TypeOK
  <2>3. UNCHANGED <<hostVars, cmds, ncpVars, historyVars, boundVars>>
    BY <1>6 DEF SendEvent
  <2> QED
    BY <2>2, <2>3 DEF TypeOK
<1>7. CASE Crash
  <2>1. crashes' \in 0..MaxCrashes
    BY <1>7 DEF Crash, TypeOK
  <2>2. /\ ncp' \in {"up", "booting"} /\ scanning' \in BOOLEAN
        /\ UNCHANGED <<hostVars, uart, cmds, boots, historyVars, configs, losses>>
    BY <1>7 DEF Crash
  <2> QED
    BY <2>1, <2>2 DEF TypeOK
<1> QED
  BY <1>1, <1>2, <1>3, <1>4, <1>5, <1>6, <1>7 DEF NcpNext

(* The host and its timer keep every type.                                 *)
LEMMA HostType ==
  ASSUME TypeOK, TimerExpires \/ HostNext
  PROVE  TypeOK'
<1> USE BoundsAssumption DEF hostVars, ncpVars, historyVars, boundVars
<1>1. CASE TimerExpires
  BY <1>1 DEF TimerExpires, TypeOK
<1>2. CASE BtStep
  <2>1. CASE queue # <<>> /\ queue' = Tail(queue) /\ Deliver(Head(queue)) /\ UNCHANGED uart
    <3>1. Head(queue) \in Msg /\ queue' \in Seq(Msg)
      BY <2>1, TailType DEF TypeOK
    <3> QED
      BY <2>1, <3>1, DeliverType DEF Deliver, TypeOK
  <2>2. CASE queue = <<>> /\ uart # <<>> /\ uart' = Tail(uart) /\ Deliver(Head(uart))
               /\ UNCHANGED queue
    <3>1. Head(uart) \in Msg /\ uart' \in Seq(Msg)
      BY <2>2, TailType DEF TypeOK
    <3> QED
      BY <2>2, <3>1, DeliverType DEF Deliver, TypeOK
  <2>3. CASE pc' = "timer" /\ UNCHANGED <<status, ncp_booted, ncp_boot_retries,
               timer_listed, triggered, queue, uart, cmds, ncpVars, historyVars, boundVars>>
    BY <2>3 DEF TypeOK
  <2> QED
    BY <1>2, <2>1, <2>2, <2>3 DEF BtStep
<1>3. CASE WaitResponse
  <2>1. Head(uart) \in Msg /\ uart' \in Seq(Msg)
    BY <1>3, TailType DEF WaitResponse, TypeOK
  <2>2. queue' \in Seq(Msg)
    BY <1>3, <2>1, AppendType DEF WaitResponse, TypeOK
  <2>3. /\ pc' \in {"wait", "timer"}
        /\ status' \in {status, "running", "aborted"}
        /\ discarded' \in {discarded, TRUE}
    BY <1>3 DEF WaitResponse, At
  <2>4. UNCHANGED <<ncp_booted, ncp_boot_retries, timer_listed, triggered, cmds,
                    ncpVars, handled_boot, sent, untimely, boundVars>>
    BY <1>3 DEF WaitResponse
  <2>5. /\ pc' \in {"bt", "wait", "timer", "mqtt"}
        /\ status' \in {"running", "aborted", "gave_up"}
        /\ discarded' \in BOOLEAN
    BY <2>3 DEF TypeOK
  <2> QED
    BY <2>1, <2>2, <2>4, <2>5 DEF TypeOK, ncpVars, boundVars
<1>4. CASE TimerStep
  <2>1. CASE timer_listed /\ triggered /\ BootTimerExpire /\ triggered' = FALSE
    <3>1. uart' \in Seq(Msg) /\ cmds' \in Seq({"reset", "start"})
      BY <2>1, FlushType, SendResetType DEF BootTimerExpire, TypeOK
    <3>2. ncp_boot_retries' \in 0..MAX_NCP_BOOT_N /\ sent' \in Nat
      <4>1. ncp_boot_retries \in 0..MAX_NCP_BOOT_N /\ sent \in Nat
        BY DEF TypeOK
      <4>2. \/ /\ ncp_boot_retries < MAX_NCP_BOOT_N
               /\ ncp_boot_retries' = ncp_boot_retries + 1 /\ sent' = sent + 1
            \/ UNCHANGED <<ncp_boot_retries, sent>>
        BY <2>1 DEF BootTimerExpire
      <4> QED
        BY <4>1, <4>2
    <3>3. timer_listed' \in BOOLEAN /\ status' \in {"running", "aborted", "gave_up"}
      BY <2>1 DEF BootTimerExpire, TypeOK
    <3>4. /\ pc' \in {"bt", "wait", "timer", "mqtt"}
          /\ UNCHANGED <<ncp_booted, queue, ncpVars, handled_boot, discarded,
                         untimely, boundVars>>
      BY <1>4 DEF TimerStep
    <3> QED
      BY <2>1, <3>1, <3>2, <3>3, <3>4 DEF TypeOK
  <2>2. CASE UNCHANGED <<uart, cmds, ncp_boot_retries, sent, timer_listed, status, triggered>>
    BY <1>4, <2>2 DEF TimerStep, TypeOK
  <2> QED
    BY <1>4, <2>1, <2>2 DEF TimerStep
<1>5. CASE MqttStep
  <2>1. CASE /\ configs < MaxConfigs /\ configs' = configs + 1 /\ NcpResetCall
             /\ untimely' = (untimely \/ ~ncp_booted)
    <3>1. uart' \in Seq(Msg) /\ cmds' \in Seq({"reset", "start"})
      BY <2>1, FlushType, SendResetType DEF NcpResetCall, TypeOK
    <3>2. /\ configs' \in 0..MaxConfigs /\ sent' \in Nat
          /\ ncp_boot_retries' \in 0..MAX_NCP_BOOT_N
      BY <2>1 DEF NcpResetCall, TypeOK
    <3>3. /\ ncp_booted' \in BOOLEAN /\ timer_listed' \in BOOLEAN
          /\ untimely' \in BOOLEAN /\ UNCHANGED triggered
      BY <2>1 DEF NcpResetCall
    <3>4. /\ pc' \in {"bt", "wait", "timer", "mqtt"}
          /\ UNCHANGED <<status, queue, ncpVars, handled_boot, discarded, losses, crashes>>
      BY <1>5 DEF MqttStep
    <3> QED
      BY <3>1, <3>2, <3>3, <3>4 DEF TypeOK
  <2>2. CASE UNCHANGED <<ncp_booted, ncp_boot_retries, uart, cmds, timer_listed, triggered,
                         sent, configs, untimely>>
    BY <1>5, <2>2 DEF MqttStep, TypeOK
  <2> QED
    BY <1>5, <2>1, <2>2 DEF MqttStep
<1> QED
  BY <1>1, <1>2, <1>3, <1>4, <1>5 DEF HostNext

(* Every variable keeps its type (TypeOK), for every step of the host, of  *)
(* the timer and of the co-processor.                                      *)
THEOREM TypeCorrect == Spec => []TypeOK
<1>1. ASSUME TypeOK, [Next]_vars
      PROVE  TypeOK'
  <2>1. CASE UNCHANGED vars
    BY <2>1, <1>1 DEF vars, hostVars, ncpVars, historyVars, boundVars, TypeOK
  <2> QED
    BY <1>1, <2>1, NcpType, HostType DEF Next
<1> QED
  BY InitType, <1>1, PTL DEF Spec

-----------------------------------------------------------------------------

(* The boot timer is armed exactly while the host awaits a boot event:     *)
(* ncp_reset_on_event stops it in the step that sets ncp_booted, ncp_reset *)
(* starts it in the step that clears it, and a boot timer that expires     *)
(* stays armed or ends the program.                                        *)
LEMMA TimerArmed == Spec => []TimerArmedWhileAwaited
<1>1. Init => TimerArmedWhileAwaited
  BY DEF Init, TimerArmedWhileAwaited
<1>2. ASSUME TypeOK, TimerArmedWhileAwaited, [Next]_vars
      PROVE  TimerArmedWhileAwaited'
  <2> USE <1>2 DEF TimerArmedWhileAwaited, hostVars
  <2>1. CASE NcpNext \/ UNCHANGED vars
    BY <2>1 DEF NcpNext, TakeReset, TakeStart, MissCommand, LoseReset, Boot, SendEvent,
                Crash, vars
  <2>2. CASE TimerExpires
    BY <2>2 DEF TimerExpires
  <2>3. CASE BtStep
    <3>1. ASSUME NEW m, Deliver(m) PROVE TimerArmedWhileAwaited'
      BY <3>1, <2>3 DEF Deliver, TypeOK, BtStep, At
    <3> QED
      BY <2>3, <3>1 DEF BtStep
  <2>4. CASE WaitResponse
    BY <2>4 DEF WaitResponse, At
  <2>5. CASE TimerStep
    BY <2>5 DEF TimerStep, BootTimerExpire, At
  <2>6. CASE MqttStep
    BY <2>6 DEF MqttStep, NcpResetCall, At
  <2> QED
    BY <2>1, <2>2, <2>3, <2>4, <2>5, <2>6 DEF Next, HostNext
<1> QED
  BY <1>1, <1>2, TypeCorrect, PTL DEF Spec

(* The host sends a reset at most MAX_NCP_BOOT_N times again and gives up  *)
(* only when it has (RetryBudget).  The counter alone does not show it:    *)
(* ResetsCounted ties it to the resets that were really sent.              *)
THEOREM Budget == Spec => []RetryBudget
<1>1. Init => ResetsCounted
  BY DEF Init, ResetsCounted
<1>2. ASSUME TypeOK, ResetsCounted, [Next]_vars
      PROVE  ResetsCounted'
  <2> USE <1>2, BoundsAssumption DEF ResetsCounted, hostVars, historyVars
  <2>1. CASE NcpNext \/ UNCHANGED vars
    BY <2>1 DEF NcpNext, TakeReset, TakeStart, MissCommand, LoseReset, Boot, SendEvent,
                Crash, vars
  <2>2. CASE TimerExpires
    BY <2>2 DEF TimerExpires
  <2>3. CASE BtStep
    BY <2>3 DEF BtStep, Deliver
  <2>4. CASE WaitResponse
    BY <2>4 DEF WaitResponse
  <2>5. CASE TimerStep
    BY <2>5 DEF TimerStep, BootTimerExpire, TypeOK, At
  <2>6. CASE MqttStep
    BY <2>6 DEF MqttStep, NcpResetCall, At
  <2> QED
    BY <2>1, <2>2, <2>3, <2>4, <2>5, <2>6 DEF Next, HostNext
<1>3. TypeOK /\ ResetsCounted => RetryBudget
  BY BoundsAssumption DEF TypeOK, ResetsCounted, RetryBudget
<1> QED
  BY <1>1, <1>2, <1>3, TypeCorrect, PTL DEF Spec

-----------------------------------------------------------------------------
(* What appending, taking and flushing do to the elements of a sequence.   *)

LEMMA Appended ==
  ASSUME NEW S, NEW s \in Seq(S), NEW e \in S
  PROVE  /\ Len(s) \in Nat /\ DOMAIN s = 1 .. Len(s)
         /\ DOMAIN Append(s, e) = 1 .. (Len(s) + 1)
         /\ \A i \in 1 .. Len(s) : Append(s, e)[i] = s[i]
         /\ Append(s, e)[Len(s) + 1] = e
  BY AppendProperties, LenProperties

LEMMA Dropped ==
  ASSUME NEW S, NEW s \in Seq(S), NEW k \in 0 .. Len(s)
  PROVE  /\ Len(s) \in Nat /\ DOMAIN s = 1 .. Len(s)
         /\ SubSeq(s, k + 1, Len(s)) \in Seq(S)
         /\ Len(SubSeq(s, k + 1, Len(s))) = Len(s) - k
         /\ DOMAIN SubSeq(s, k + 1, Len(s)) = 1 .. (Len(s) - k)
         /\ \A i \in 1 .. (Len(s) - k) : SubSeq(s, k + 1, Len(s))[i] = s[i + k]
<1> DEFINE t == SubSeq(s, k + 1, Len(s))
<1>1. Len(s) \in Nat /\ DOMAIN s = 1 .. Len(s)
  BY LenProperties
<1>2. t \in Seq(S)
  BY SuffixType
<1>3. Len(t) = Len(s) - k
  <2>1. k + 1 \in 1 .. (Len(s) + 1) /\ Len(s) \in 0 .. Len(s)
    BY <1>1
  <2>2. QED
    BY <1>1, <2>1, SubSeqProperties
<1>4. \A i \in 1 .. (Len(s) - k) : t[i] = s[i + k]
  <2>1. k + 1 \in 1 .. (Len(s) + 1) /\ Len(s) \in 0 .. Len(s)
    BY <1>1
  <2>2. QED
    BY <1>1, <2>1, SubSeqProperties
<1>5. DOMAIN t = 1 .. Len(t)
  BY <1>2, LenProperties
<1>6. QED
  BY <1>1, <1>2, <1>3, <1>4, <1>5

LEMMA Taken ==
  ASSUME NEW S, NEW s \in Seq(S), s # <<>>
  PROVE  /\ Len(s) \in Nat \ {0} /\ DOMAIN s = 1 .. Len(s)
         /\ Head(s) = s[1] /\ Tail(s) \in Seq(S)
         /\ DOMAIN Tail(s) = 1 .. (Len(s) - 1)
         /\ \A i \in 1 .. (Len(s) - 1) : Tail(s)[i] = s[i + 1]
  BY HeadTailProperties, LenProperties, EmptySeq

-----------------------------------------------------------------------------
(* Whether a sequence has an element of M, and at most one.                *)

Has(s, M) == \E i \in DOMAIN s : s[i] \in M

AtMostOne(s, M) == \A i, j \in DOMAIN s : s[i] \in M /\ s[j] \in M => i = j

LEMMA HasAppended ==
  ASSUME NEW S, NEW s \in Seq(S), NEW e \in S, NEW M
  PROVE  /\ e \notin M => (Has(Append(s, e), M) => Has(s, M))
         /\ e \notin M => (AtMostOne(s, M) => AtMostOne(Append(s, e), M))
         /\ ~Has(s, M) => AtMostOne(Append(s, e), M)
<1> DEFINE a == Append(s, e)
           n == Len(s)
<1>1. /\ n \in Nat /\ DOMAIN s = 1 .. n /\ DOMAIN a = 1 .. (n + 1)
      /\ \A i \in 1 .. n : a[i] = s[i]
      /\ a[n + 1] = e
  BY Appended
<1> HIDE DEF a, n
<1>2. \A i \in DOMAIN a : i \in 1 .. n \/ i = n + 1
  BY <1>1
<1>3. \A i \in DOMAIN a : a[i] \in M => (i \in DOMAIN s /\ s[i] \in M) \/ (i = n + 1 /\ e \in M)
  BY <1>1, <1>2
<1>4. e \notin M => (Has(a, M) => Has(s, M))
  BY <1>3 DEF Has
<1>5. e \notin M => (AtMostOne(s, M) => AtMostOne(a, M))
  BY <1>3 DEF AtMostOne
<1>6. ~Has(s, M) => AtMostOne(a, M)
  BY <1>3 DEF AtMostOne, Has
<1>7. QED
  BY <1>4, <1>5, <1>6 DEF a

LEMMA HasTaken ==
  ASSUME NEW S, NEW s \in Seq(S), s # <<>>, NEW M
  PROVE  /\ Has(Tail(s), M) => Has(s, M)
         /\ AtMostOne(s, M) => AtMostOne(Tail(s), M)
         /\ AtMostOne(s, M) /\ Head(s) \in M => ~Has(Tail(s), M)
<1> DEFINE t == Tail(s)
           n == Len(s)
<1>1. /\ n \in Nat \ {0} /\ DOMAIN s = 1 .. n /\ DOMAIN t = 1 .. (n - 1)
      /\ \A i \in 1 .. (n - 1) : t[i] = s[i + 1]
      /\ Head(s) = s[1]
  BY Taken
<1> HIDE DEF t, n
<1>2. \A i \in DOMAIN t : t[i] \in M => i + 1 \in DOMAIN s /\ s[i + 1] \in M /\ i \in Nat \ {0}
  BY <1>1
<1>3. Has(t, M) => Has(s, M)
  BY <1>2 DEF Has
<1>4. ASSUME AtMostOne(s, M), NEW i \in DOMAIN t, NEW j \in DOMAIN t, t[i] \in M, t[j] \in M
      PROVE  i = j
  <2>1. i + 1 = j + 1 /\ i \in Nat /\ j \in Nat
    BY <1>2, <1>4 DEF AtMostOne
  <2>2. QED
    BY <2>1
<1>5. ASSUME AtMostOne(s, M), Head(s) \in M, NEW i \in DOMAIN t, t[i] \in M
      PROVE  FALSE
  <2>1. 1 \in DOMAIN s /\ s[1] \in M
    BY <1>1, <1>5
  <2>2. i + 1 = 1 /\ i \in Nat \ {0}
    BY <1>2, <1>5, <2>1 DEF AtMostOne
  <2>3. QED
    BY <2>2
<1>6. AtMostOne(s, M) => AtMostOne(t, M)
  BY <1>4 DEF AtMostOne
<1>7. AtMostOne(s, M) /\ Head(s) \in M => ~Has(t, M)
  BY <1>5 DEF Has
<1>8. QED
  BY <1>3, <1>6, <1>7 DEF t

LEMMA HasDropped ==
  ASSUME NEW S, NEW s \in Seq(S), NEW k \in 0 .. Len(s), NEW M, ~Has(s, M)
  PROVE  ~Has(SubSeq(s, k + 1, Len(s)), M)
<1> DEFINE t == SubSeq(s, k + 1, Len(s))
           n == Len(s)
<1>1. /\ n \in Nat /\ DOMAIN s = 1 .. n /\ DOMAIN t = 1 .. (n - k)
      /\ \A i \in 1 .. (n - k) : t[i] = s[i + k]
  BY Dropped
<1>2. k \in Nat
  BY <1>1
<1> HIDE DEF t, n
<1>3. \A i \in DOMAIN t : i + k \in DOMAIN s /\ t[i] = s[i + k]
  BY <1>1, <1>2
<1>4. ~Has(t, M)
  BY <1>3 DEF Has
<1>5. QED
  BY <1>4 DEF t

LEMMA NoneAtMostOne ==
  ASSUME NEW s, NEW M, ~Has(s, M)
  PROVE  AtMostOne(s, M)
  BY DEF Has, AtMostOne

-----------------------------------------------------------------------------
(* At most one command waits for a response.                               *)

Start == {"start"}

Answer == [type : ResponseType, boot : Nat]

(* A start command is on its way only while main waits for its response,   *)
(* and then no other response is.                                          *)
OneAnswer ==
  /\ pc # "wait" => ~Has(cmds, Start) /\ ~Has(uart, Answer)
  /\ Has(cmds, Start) => ~Has(uart, Answer)
  /\ AtMostOne(cmds, Start)
  /\ AtMostOne(uart, Answer)
  /\ ~Has(queue, Answer)

LEMMA IsAnswer ==
  ASSUME NEW m \in Msg
  PROVE  /\ m \in Answer <=> m.type \in ResponseType
         /\ m.type \in EventType <=> m \notin Answer
  BY DEF Msg, Answer, EventType, ResponseType

LEMMA OneAnswerInitially == Init => OneAnswer
<1> SUFFICES ASSUME Init PROVE OneAnswer
  OBVIOUS
<1>1. ~Has(cmds, Start)
  BY DEF Init, Has, Start
<1>2. Mk("event") \notin Answer
  BY DEF Mk, Answer, ResponseType
<1>3. ~Has(uart, Answer)
  BY <1>2 DEF Init, Has
<1>4. ~Has(queue, Answer)
  BY DEF Init, Has
<1>5. QED
  BY <1>1, <1>3, <1>4, NoneAtMostOne DEF OneAnswer

LEMMA NcpOneAnswer ==
  ASSUME TypeOK, OneAnswer, NcpNext
  PROVE  OneAnswer'
<1>1. cmds \in Seq({"reset", "start"}) /\ uart \in Seq(Msg) /\ boots \in Nat
  BY DEF TypeOK
<1>2. UNCHANGED <<pc, queue>>
  BY DEF NcpNext, TakeReset, TakeStart, MissCommand, LoseReset, Boot, SendEvent, Crash, hostVars
<1>3. ASSUME cmds # <<>>, cmds' = Tail(cmds), uart' = uart PROVE OneAnswer'
  BY <1>1, <1>2, <1>3, HasTaken DEF OneAnswer
<1>4. ASSUME NEW m \in Msg, m \notin Answer, cmds' = cmds, uart' = Append(uart, m) PROVE OneAnswer'
  BY <1>1, <1>2, <1>4, HasAppended DEF OneAnswer
<1>5. CASE TakeStart
  <2> DEFINE m == Mk(IF scanning THEN "invalid_state" ELSE "ok")
  <2>1. cmds # <<>> /\ Head(cmds) \in Start /\ cmds' = Tail(cmds) /\ uart' = Append(uart, m)
    BY <1>5 DEF TakeStart, Start
  <2>2. m \in Msg
    BY <1>1, MsgType DEF ResponseType
  <2> HIDE DEF m
  <2>3. cmds[1] \in Start /\ 1 \in DOMAIN cmds
    BY <1>1, <2>1, Taken
  <2>4. Has(cmds, Start) /\ ~Has(uart, Answer) /\ pc = "wait"
    BY <2>3 DEF Has, OneAnswer
  <2>5. ~Has(cmds', Start)
    BY <1>1, <2>1, HasTaken DEF OneAnswer
  <2>6. AtMostOne(uart', Answer)
    BY <1>1, <2>1, <2>2, <2>4, HasAppended
  <2>7. QED
    BY <1>2, <2>4, <2>5, <2>6, NoneAtMostOne DEF OneAnswer
<1>6. CASE Boot
  <2>1. [type |-> "boot", boot |-> boots + 1] \in Msg
    BY <1>1 DEF Msg, EventType
  <2>2. [type |-> "boot", boot |-> boots + 1] \notin Answer
    BY DEF Answer, ResponseType
  <2>3. QED
    BY <1>4, <1>6, <2>1, <2>2 DEF Boot
<1>7. CASE SendEvent
  <2>1. Mk("event") \in Msg /\ Mk("event") \notin Answer
    BY <1>1, MsgType DEF EventType, Mk, Answer, ResponseType
  <2>2. QED
    BY <1>4, <1>7, <2>1 DEF SendEvent
<1>8. CASE Crash
  BY <1>2, <1>8 DEF Crash, OneAnswer
<1>9. CASE TakeReset \/ MissCommand \/ LoseReset
  BY <1>3, <1>9 DEF TakeReset, MissCommand, LoseReset
<1>10. QED
  BY <1>5, <1>6, <1>7, <1>8, <1>9 DEF NcpNext

LEMMA HostOneAnswer ==
  ASSUME TypeOK, OneAnswer, TimerExpires \/ HostNext
  PROVE  OneAnswer'
<1>1. /\ cmds \in Seq({"reset", "start"}) /\ uart \in Seq(Msg) /\ queue \in Seq(Msg)
  BY DEF TypeOK
<1>2. ASSUME Flush, SendReset, pc # "wait", pc' # "wait", queue' = queue PROVE OneAnswer'
  <2>1. ~Has(uart', Answer)
    BY <1>1, <1>2, HasDropped DEF Flush, OneAnswer
  <2>2. ~Has(cmds', Start)
    BY <1>1, <1>2, HasAppended DEF SendReset, OneAnswer, Start
  <2>3. QED
    BY <1>2, <2>1, <2>2, NoneAtMostOne DEF OneAnswer
<1>3. ASSUME UNCHANGED <<cmds, uart, queue>>, pc = "wait" => pc' = "wait" PROVE OneAnswer'
  BY <1>3 DEF OneAnswer
<1>4. CASE BtStep
  <2>1. pc # "wait"
    BY <1>4 DEF BtStep, At
  <2>2. ~Has(uart', Answer) /\ ~Has(queue', Answer)
    BY <1>1, <1>4, <2>1, HasTaken DEF BtStep, OneAnswer
  <2>3. \/ cmds' = Append(cmds, "start") /\ pc' = "wait"
        \/ cmds' = cmds
    BY <1>4 DEF BtStep, Deliver
  <2>4. ~Has(cmds, Start)
    BY <2>1 DEF OneAnswer
  <2>5. AtMostOne(Append(cmds, "start"), Start)
    BY <1>1, <2>4, HasAppended
  <2>6. AtMostOne(cmds', Start) /\ (pc' # "wait" => ~Has(cmds', Start))
    BY <2>3, <2>4, <2>5, NoneAtMostOne
  <2>7. QED
    BY <2>2, <2>6, NoneAtMostOne DEF OneAnswer
<1>5. CASE WaitResponse
  <2>1. uart # <<>> /\ uart' = Tail(uart) /\ UNCHANGED cmds /\ pc = "wait"
    BY <1>5 DEF WaitResponse, At
  <2>2. Head(uart) \in Msg /\ Head(uart) = uart[1] /\ 1 \in DOMAIN uart
    BY <1>1, <2>1, TailType, Taken
  <2>3. CASE Head(uart).type \in EventType
    <3>1. pc' = pc /\ (queue' = queue \/ queue' = Append(queue, Head(uart)))
      BY <1>5, <2>3 DEF WaitResponse
    <3>2. ~Has(queue', Answer)
      BY <1>1, <2>2, <2>3, <3>1, IsAnswer, HasAppended DEF OneAnswer
    <3>3. AtMostOne(uart', Answer) /\ (Has(uart', Answer) => Has(uart, Answer))
      BY <1>1, <2>1, HasTaken DEF OneAnswer
    <3>4. QED
      BY <2>1, <3>1, <3>2, <3>3 DEF OneAnswer
  <2>4. CASE Head(uart).type \notin EventType
    <3>1. UNCHANGED queue
      BY <1>5, <2>4 DEF WaitResponse
    <3>2. Head(uart) \in Answer
      BY <2>2, <2>4, IsAnswer
    <3>3. Has(uart, Answer)
      BY <2>2, <3>2 DEF Has
    <3>4. ~Has(uart', Answer)
      BY <1>1, <2>1, <3>2, HasTaken DEF OneAnswer
    <3>5. QED
      BY <2>1, <3>1, <3>3, <3>4, NoneAtMostOne DEF OneAnswer
  <2>5. QED
    BY <2>3, <2>4
<1>6. CASE TimerStep
  <2>1. pc # "wait" /\ pc' # "wait" /\ queue' = queue
    BY <1>6 DEF TimerStep, At
  <2>2. (Flush /\ SendReset) \/ UNCHANGED <<uart, cmds>>
    BY <1>6 DEF TimerStep, BootTimerExpire
  <2>3. QED
    BY <1>2, <1>3, <2>1, <2>2
<1>7. CASE MqttStep
  <2>1. pc # "wait" /\ pc' # "wait" /\ queue' = queue
    BY <1>7 DEF MqttStep, At
  <2>2. (Flush /\ SendReset) \/ UNCHANGED <<uart, cmds>>
    BY <1>7 DEF MqttStep, NcpResetCall
  <2>3. QED
    BY <1>2, <1>3, <2>1, <2>2
<1>8. CASE TimerExpires
  BY <1>3, <1>8 DEF TimerExpires
<1>9. QED
  BY <1>4, <1>5, <1>6, <1>7, <1>8 DEF HostNext

LEMMA OneAnswerHolds == Spec => [](TypeOK /\ OneAnswer)
<1>1. TypeOK /\ OneAnswer /\ [Next]_vars => OneAnswer'
  <2>1. ASSUME UNCHANGED vars, OneAnswer PROVE OneAnswer'
    BY <2>1 DEF vars, hostVars, OneAnswer
  <2>2. QED
    BY <2>1, NcpOneAnswer, HostOneAnswer DEF Next
<1>2. QED
  BY <1>1, OneAnswerInitially, TypeCorrect, PTL DEF Spec

(* No response is left behind on the line and none gets into the queue     *)
(* (ResponsesAreConsumed): a command is sent only when the response to the *)
(* one before has been taken, and sl_bt_wait_response sorts out the events *)
(* that come first.                                                        *)
THEOREM ResponsesConsumed == Spec => []ResponsesAreConsumed
<1>1. TypeOK /\ OneAnswer => ResponsesAreConsumed
  <2> SUFFICES ASSUME TypeOK, OneAnswer PROVE ResponsesAreConsumed
    OBVIOUS
  <2>1. (\A i \in DOMAIN queue : queue[i] \in Msg) /\ (\A i \in DOMAIN uart : uart[i] \in Msg)
    BY ElementOfSeq, LenProperties DEF TypeOK
  <2>2. (\A i \in DOMAIN queue : queue[i] \notin Answer)
    BY DEF OneAnswer, Has
  <2>3. pc # "wait" => \A i \in DOMAIN uart : uart[i] \notin Answer
    BY DEF OneAnswer, Has
  <2>4. QED
    BY <2>1, <2>2, <2>3, IsAnswer DEF ResponsesAreConsumed
<1>2. QED
  BY <1>1, OneAnswerHolds, PTL

-----------------------------------------------------------------------------
(* The boots that the host knows of.                                       *)

(* The number of the last boot of s is x, or s has none and x is b.        *)
LastBoot(s, b, x) ==
  \/ x = b /\ \A i \in DOMAIN s : s[i].type # "boot"
  \/ \E i \in DOMAIN s : /\ s[i].type = "boot" /\ s[i].boot = x
                         /\ \A j \in DOMAIN s : j > i => s[j].type # "boot"

(* Every event of s is of the last boot before it in s, or of b.           *)
OfLastBoot(s, b, j) ==
  \/ s[j].boot = b /\ \A i \in DOMAIN s : i < j => s[i].type # "boot"
  \/ \E i \in DOMAIN s : /\ i < j /\ s[i].type = "boot" /\ s[i].boot = s[j].boot
                         /\ \A k \in DOMAIN s : i < k /\ k < j => s[k].type # "boot"

Faithful(s, b) == \A j \in DOMAIN s : s[j].type = "event" => OfLastBoot(s, b, j)

(* Between a boot on the line u and an event after it there is a response, *)
(* and so there will be for the next event when running says that the      *)
(* scanner runs.                                                           *)
AnswerBetween(u, i, j) == \E r \in DOMAIN u : u[r] \in Answer /\ i < r /\ r < j

Answered(u, running) ==
  \A i \in DOMAIN u : u[i].type = "boot" =>
    /\ running => AnswerBetween(u, i, Len(u) + 1)
    /\ \A j \in DOMAIN u : i < j /\ u[j].type = "event" => AnswerBetween(u, i, j)

(* A reset is on its way with no start command before it.                  *)
ResetAhead(c) == \E i \in DOMAIN c : c[i] = "reset" /\ \A j \in DOMAIN c : j < i => c[j] # "start"

LEMMA LastBootAppended ==
  ASSUME NEW s \in Seq(Msg), NEW e \in Msg, NEW b, NEW x
  PROVE  /\ e.type # "boot" /\ LastBoot(s, b, x) => LastBoot(Append(s, e), b, x)
         /\ e.type = "boot" => LastBoot(Append(s, e), b, e.boot)
<1> DEFINE a == Append(s, e)
           n == Len(s)
<1>1. /\ n \in Nat /\ DOMAIN s = 1 .. n /\ DOMAIN a = 1 .. (n + 1)
      /\ \A i \in 1 .. n : a[i] = s[i]
      /\ a[n + 1] = e
  BY Appended
<1> HIDE DEF a, n
<1>2. \A i \in DOMAIN a : i \in DOMAIN s \/ i = n + 1
  BY <1>1
<1>3. \A i \in DOMAIN s : i \in DOMAIN a /\ a[i] = s[i]
  BY <1>1
<1>4. ASSUME e.type # "boot", LastBoot(s, b, x) PROVE LastBoot(a, b, x)
  <2>1. CASE x = b /\ \A i \in DOMAIN s : s[i].type # "boot"
    BY <1>1, <1>2, <1>3, <1>4, <2>1 DEF LastBoot
  <2>2. ASSUME NEW i \in DOMAIN s, s[i].type = "boot", s[i].boot = x,
               \A j \in DOMAIN s : j > i => s[j].type # "boot"
        PROVE  LastBoot(a, b, x)
    <3>1. \A j \in DOMAIN a : j > i => a[j].type # "boot"
      BY <1>1, <1>2, <1>3, <1>4, <2>2
    <3>2. i \in DOMAIN a /\ a[i].type = "boot" /\ a[i].boot = x
      BY <1>3, <2>2
    <3>3. QED
      BY <3>1, <3>2 DEF LastBoot
  <2>3. QED
    BY <1>4, <2>1, <2>2 DEF LastBoot
<1>5. ASSUME e.type = "boot" PROVE LastBoot(a, b, e.boot)
  <2>1. n + 1 \in DOMAIN a /\ \A j \in DOMAIN a : ~(j > n + 1)
    BY <1>1
  <2>2. QED
    BY <1>1, <1>5, <2>1 DEF LastBoot
<1>6. QED
  BY <1>4, <1>5 DEF a

LEMMA LastBootTaken ==
  ASSUME NEW s \in Seq(Msg), s # <<>>, NEW b, NEW x, LastBoot(s, b, x)
  PROVE  LastBoot(Tail(s), IF Head(s).type = "boot" THEN Head(s).boot ELSE b, x)
<1> DEFINE t == Tail(s)
           n == Len(s)
           c == IF Head(s).type = "boot" THEN Head(s).boot ELSE b
<1>1. /\ n \in Nat \ {0} /\ DOMAIN s = 1 .. n /\ DOMAIN t = 1 .. (n - 1)
      /\ \A i \in 1 .. (n - 1) : t[i] = s[i + 1]
      /\ Head(s) = s[1]
  BY Taken
<1> HIDE DEF t, n
<1>2. \A i \in DOMAIN t : i \in Nat /\ i + 1 \in DOMAIN s /\ t[i] = s[i + 1]
  BY <1>1
<1>3. 1 \in DOMAIN s /\ \A i \in DOMAIN s : i = 1 \/ (i - 1 \in DOMAIN t /\ t[i - 1] = s[i])
  BY <1>1
<1>4. DOMAIN s \subseteq Nat
  BY <1>1
<1>5. CASE x = b /\ \A i \in DOMAIN s : s[i].type # "boot"
  <2>1. c = b /\ \A i \in DOMAIN t : t[i].type # "boot"
    BY <1>1, <1>2, <1>3, <1>5
  <2>2. QED
    BY <1>5, <2>1 DEF LastBoot, t
<1>6. ASSUME NEW i \in DOMAIN s, s[i].type = "boot", s[i].boot = x,
             \A j \in DOMAIN s : j > i => s[j].type # "boot"
      PROVE  LastBoot(t, c, x)
  <2>1. CASE i = 1
    <3>1. c = x
      BY <1>1, <1>6, <2>1
    <3>2. \A j \in DOMAIN t : t[j].type # "boot"
      <4> SUFFICES ASSUME NEW j \in DOMAIN t PROVE t[j].type # "boot"
        OBVIOUS
      <4>1. j + 1 > i /\ j + 1 \in DOMAIN s
        BY <1>1, <1>2, <2>1
      <4>2. QED
        BY <1>2, <1>6, <4>1
    <3>3. QED
      BY <3>1, <3>2 DEF LastBoot
  <2>2. CASE i # 1
    <3>1. i - 1 \in DOMAIN t /\ t[i - 1].type = "boot" /\ t[i - 1].boot = x
      BY <1>3, <1>6, <2>2
    <3>2. \A j \in DOMAIN t : j > i - 1 => t[j].type # "boot"
      <4> SUFFICES ASSUME NEW j \in DOMAIN t, j > i - 1 PROVE t[j].type # "boot"
        OBVIOUS
      <4>1. j + 1 > i /\ j + 1 \in DOMAIN s
        BY <1>2, <1>4
      <4>2. QED
        BY <1>2, <1>6, <4>1
    <3>3. QED
      BY <3>1, <3>2 DEF LastBoot
  <2>3. QED
    BY <2>1, <2>2
<1>7. LastBoot(t, c, x)
  BY <1>5, <1>6 DEF LastBoot, t
<1>8. QED
  BY <1>7 DEF t

LEMMA FaithfulAppended ==
  ASSUME NEW s \in Seq(Msg), NEW e \in Msg, NEW b, Faithful(s, b),
         e.type = "event" => LastBoot(s, b, e.boot)
  PROVE  Faithful(Append(s, e), b)
<1> DEFINE a == Append(s, e)
           n == Len(s)
<1>1. /\ n \in Nat /\ DOMAIN s = 1 .. n /\ DOMAIN a = 1 .. (n + 1)
      /\ \A i \in 1 .. n : a[i] = s[i]
      /\ a[n + 1] = e
  BY Appended
<1> HIDE DEF a, n
<1>2. \A i \in DOMAIN a : i \in DOMAIN s \/ i = n + 1
  BY <1>1
<1>3. \A i \in DOMAIN s : i \in DOMAIN a /\ a[i] = s[i] /\ i \in Nat /\ i < n + 1
  BY <1>1
<1>4. \A i \in DOMAIN a, j \in DOMAIN s : i < j => i \in DOMAIN s
  BY <1>1
<1>5. ASSUME NEW j \in DOMAIN s, OfLastBoot(s, b, j) PROVE OfLastBoot(a, b, j)
  <2>1. CASE s[j].boot = b /\ \A i \in DOMAIN s : i < j => s[i].type # "boot"
    BY <1>3, <1>4, <2>1 DEF OfLastBoot
  <2>2. ASSUME NEW i \in DOMAIN s, i < j, s[i].type = "boot", s[i].boot = s[j].boot,
               \A k \in DOMAIN s : i < k /\ k < j => s[k].type # "boot"
        PROVE  OfLastBoot(a, b, j)
    <3>1. \A k \in DOMAIN a : i < k /\ k < j => a[k].type # "boot"
      BY <1>3, <1>4, <2>2
    <3>2. i \in DOMAIN a /\ a[i].type = "boot" /\ a[i].boot = a[j].boot
      BY <1>3, <2>2
    <3>3. QED
      BY <2>2, <3>1, <3>2 DEF OfLastBoot
  <2>3. QED
    BY <1>5, <2>1, <2>2 DEF OfLastBoot
<1>6. ASSUME e.type = "event" PROVE OfLastBoot(a, b, n + 1)
  <2>1. LastBoot(s, b, e.boot)
    BY <1>6
  <2>2. CASE e.boot = b /\ \A i \in DOMAIN s : s[i].type # "boot"
    <3>1. \A i \in DOMAIN a : i < n + 1 => i \in DOMAIN s
      BY <1>1
    <3>2. QED
      BY <1>1, <1>3, <2>2, <3>1 DEF OfLastBoot
  <2>3. ASSUME NEW i \in DOMAIN s, s[i].type = "boot", s[i].boot = e.boot,
               \A j \in DOMAIN s : j > i => s[j].type # "boot"
        PROVE  OfLastBoot(a, b, n + 1)
    <3>1. \A k \in DOMAIN a : i < k /\ k < n + 1 => k \in DOMAIN s /\ k > i
      BY <1>1
    <3>2. \A k \in DOMAIN a : i < k /\ k < n + 1 => a[k].type # "boot"
      BY <1>3, <2>3, <3>1
    <3>3. i \in DOMAIN a /\ i < n + 1 /\ a[i].type = "boot" /\ a[i].boot = a[n + 1].boot
      BY <1>1, <1>3, <2>3
    <3>4. QED
      BY <3>2, <3>3 DEF OfLastBoot
  <2>4. QED
    BY <2>1, <2>2, <2>3 DEF LastBoot
<1>7. Faithful(a, b)
  <2> SUFFICES ASSUME NEW j \in DOMAIN a, a[j].type = "event" PROVE OfLastBoot(a, b, j)
    BY DEF Faithful
  <2>1. CASE j \in DOMAIN s
    BY <1>3, <1>5, <2>1 DEF Faithful
  <2>2. CASE j = n + 1
    BY <1>1, <1>6, <2>2
  <2>3. QED
    BY <1>2, <2>1, <2>2
<1>8. QED
  BY <1>7 DEF a

LEMMA FaithfulTaken ==
  ASSUME NEW s \in Seq(Msg), s # <<>>, NEW b, Faithful(s, b)
  PROVE  /\ Faithful(Tail(s), IF Head(s).type = "boot" THEN Head(s).boot ELSE b)
         /\ Head(s).type = "event" => Head(s).boot = b
<1> DEFINE t == Tail(s)
           n == Len(s)
           c == IF Head(s).type = "boot" THEN Head(s).boot ELSE b
<1>1. /\ n \in Nat \ {0} /\ DOMAIN s = 1 .. n /\ DOMAIN t = 1 .. (n - 1)
      /\ \A i \in 1 .. (n - 1) : t[i] = s[i + 1]
      /\ Head(s) = s[1]
  BY Taken
<1> HIDE DEF t, n
<1>2. \A i \in DOMAIN t : i \in Nat \ {0} /\ i + 1 \in DOMAIN s /\ t[i] = s[i + 1]
  BY <1>1
<1>3. 1 \in DOMAIN s /\ \A i \in DOMAIN s : i = 1 \/ (i - 1 \in DOMAIN t /\ t[i - 1] = s[i])
  BY <1>1
<1>4. DOMAIN s \subseteq Nat \ {0}
  BY <1>1
<1>5. s[1].type = "event" => s[1].boot = b
  <2>1. \A i \in DOMAIN s : ~(i < 1)
    BY <1>4
  <2>2. QED
    BY <1>3, <2>1 DEF Faithful, OfLastBoot
<1>6. ASSUME NEW j \in DOMAIN t, t[j].type = "event" PROVE OfLastBoot(t, c, j)
  <2>1. OfLastBoot(s, b, j + 1)
    BY <1>2, <1>6 DEF Faithful
  <2>2. ASSUME NEW m \in DOMAIN t, m < j PROVE m + 1 \in DOMAIN s /\ m + 1 < j + 1 /\ m + 1 > 1
    BY <1>2, <2>2
  <2>3. CASE s[j + 1].boot = b /\ \A i \in DOMAIN s : i < j + 1 => s[i].type # "boot"
    <3>1. s[1].type # "boot"
      <4>1. 1 < j + 1
        BY <1>2
      <4>2. QED
        BY <1>3, <2>3, <4>1
    <3>2. c = b
      BY <1>1, <3>1
    <3>3. \A m \in DOMAIN t : m < j => t[m].type # "boot"
      BY <1>2, <2>2, <2>3
    <3>4. QED
      BY <1>2, <2>3, <3>2, <3>3 DEF OfLastBoot
  <2>4. ASSUME NEW i \in DOMAIN s, i < j + 1, s[i].type = "boot", s[i].boot = s[j + 1].boot,
               \A k \in DOMAIN s : i < k /\ k < j + 1 => s[k].type # "boot"
        PROVE  OfLastBoot(t, c, j)
    <3>1. CASE i = 1
      <4>1. c = t[j].boot
        BY <1>1, <1>2, <2>4, <3>1
      <4>2. \A m \in DOMAIN t : m < j => t[m].type # "boot"
        BY <1>2, <2>2, <2>4, <3>1
      <4>3. QED
        BY <4>1, <4>2 DEF OfLastBoot
    <3>2. CASE i # 1
      <4>1. i - 1 \in DOMAIN t /\ t[i - 1] = s[i]
        BY <1>3, <3>2
      <4>2. i - 1 < j
        BY <1>2, <1>4, <2>4
      <4>3. ASSUME NEW m \in DOMAIN t, i - 1 < m, m < j PROVE t[m].type # "boot"
        <5>1. i < m + 1 /\ m + 1 < j + 1 /\ m + 1 \in DOMAIN s
          BY <1>2, <1>4, <4>3
        <5>2. QED
          BY <1>2, <2>4, <5>1
      <4>4. QED
        BY <1>2, <2>4, <4>1, <4>2, <4>3 DEF OfLastBoot
    <3>3. QED
      BY <3>1, <3>2
  <2>5. QED
    BY <2>1, <2>3, <2>4 DEF OfLastBoot
<1>7. Faithful(t, c)
  BY <1>6 DEF Faithful
<1>8. QED
  BY <1>1, <1>5, <1>7 DEF t

-----------------------------------------------------------------------------
(* Answered, under what happens on the line.                               *)

LEMMA AnsweredAppended ==
  ASSUME NEW u \in Seq(Msg), NEW e \in Msg, NEW running \in BOOLEAN, Answered(u, running)
  PROVE  /\ e \in Answer => Answered(Append(u, e), TRUE)
         /\ e.type = "event" /\ running => Answered(Append(u, e), running)
         /\ e.type = "boot" => Answered(Append(u, e), FALSE)
<1> DEFINE a == Append(u, e)
           n == Len(u)
<1>1. /\ n \in Nat /\ DOMAIN u = 1 .. n /\ DOMAIN a = 1 .. (n + 1)
      /\ \A i \in 1 .. n : a[i] = u[i]
      /\ a[n + 1] = e /\ a \in Seq(Msg)
  BY Appended, AppendType
<1>2. Len(a) = n + 1
  BY <1>1, AppendProperties
<1> HIDE DEF a, n
<1>3. \A i \in DOMAIN a : i \in DOMAIN u \/ i = n + 1
  BY <1>1
<1>4. \A i \in DOMAIN u : i \in DOMAIN a /\ a[i] = u[i] /\ i \in Nat /\ i < n + 1
  BY <1>1
<1>5. n + 1 \in DOMAIN a /\ a[n + 1] = e /\ n + 1 < Len(a) + 1 /\ n = Len(u)
  BY <1>1, <1>2 DEF n
<1>6. \A i, j : AnswerBetween(u, i, j) => AnswerBetween(a, i, j)
  BY <1>4 DEF AnswerBetween
<1>7. ASSUME NEW i \in DOMAIN u, AnswerBetween(u, i, n + 1)
      PROVE  AnswerBetween(a, i, Len(a) + 1)
  <2>1. PICK r \in DOMAIN u : u[r] \in Answer /\ i < r
    BY <1>7 DEF AnswerBetween
  <2>2. r \in DOMAIN a /\ a[r] \in Answer /\ r < Len(a) + 1
    BY <1>1, <1>2, <1>4, <2>1
  <2>3. QED
    BY <2>1, <2>2 DEF AnswerBetween
<1>8. ASSUME e \in Answer, NEW i \in DOMAIN u PROVE AnswerBetween(a, i, Len(a) + 1)
  BY <1>4, <1>5, <1>8 DEF AnswerBetween
<1>9. ASSUME NEW i \in DOMAIN a, a[i].type = "boot", NEW j \in DOMAIN a, i < j,
             a[j].type = "event", e.type = "event" => running
      PROVE  AnswerBetween(a, i, j)
  <2>1. i \in DOMAIN u /\ u[i].type = "boot"
    BY <1>1, <1>9
  <2>2. CASE j \in DOMAIN u
    BY <1>4, <1>6, <1>9, <2>1, <2>2 DEF Answered
  <2>3. CASE j = n + 1
    <3>1. AnswerBetween(u, i, n + 1)
      BY <1>5, <1>9, <2>1, <2>3 DEF Answered
    <3>2. QED
      BY <1>6, <2>3, <3>1
  <2>4. QED
    BY <1>3, <2>2, <2>3
<1>10. ASSUME e \in Answer PROVE Answered(a, TRUE)
  <2>1. e.type # "event" /\ e.type # "boot"
    BY <1>10 DEF Answer, ResponseType
  <2>2. QED
    BY <1>3, <1>5, <1>8, <1>9, <1>10, <2>1 DEF Answered
<1>11. ASSUME e.type = "event", running PROVE Answered(a, running)
  <2> SUFFICES ASSUME NEW i \in DOMAIN a, a[i].type = "boot" PROVE AnswerBetween(a, i, Len(a) + 1)
    BY <1>9, <1>11 DEF Answered
  <2>1. i \in DOMAIN u /\ u[i].type = "boot"
    BY <1>3, <1>4, <1>5, <1>11
  <2>2. QED
    BY <1>5, <1>7, <1>11, <2>1 DEF Answered
<1>12. ASSUME e.type = "boot" PROVE Answered(a, FALSE)
  <2>1. e.type # "event"
    BY <1>12
  <2>2. QED
    BY <1>9, <2>1 DEF Answered
<1>13. QED
  BY <1>10, <1>11, <1>12 DEF a

(* What is left when a prefix is gone: of a Tail, or of a flush.           *)
LEMMA AnsweredSuffix ==
  ASSUME NEW u, NEW v, NEW n \in Nat, NEW k \in 0 .. n, NEW running \in BOOLEAN,
         DOMAIN u = 1 .. n, DOMAIN v = 1 .. (n - k), Len(u) = n, Len(v) = n - k,
         \A i \in 1 .. (n - k) : v[i] = u[i + k],
         Answered(u, running)
  PROVE  Answered(v, running)
<1>1. k \in Nat
  OBVIOUS
<1>2. \A i \in DOMAIN v : i \in Nat /\ i + k \in DOMAIN u /\ v[i] = u[i + k]
  BY <1>1
<1>3. ASSUME NEW i \in DOMAIN v, NEW j \in Nat, j <= n - k + 1, AnswerBetween(u, i + k, j + k)
      PROVE  AnswerBetween(v, i, j)
  <2>1. PICK r \in DOMAIN u : u[r] \in Answer /\ i + k < r /\ r < j + k
    BY <1>3 DEF AnswerBetween
  <2>2. r - k \in DOMAIN v /\ i < r - k /\ r - k < j /\ v[r - k] = u[r]
    BY <1>1, <1>2, <1>3, <2>1
  <2>3. QED
    BY <2>1, <2>2 DEF AnswerBetween
<1>4. ASSUME NEW i \in DOMAIN v, v[i].type = "boot", running
      PROVE  AnswerBetween(v, i, Len(v) + 1)
  <2>1. AnswerBetween(u, i + k, n + 1)
    BY <1>2, <1>4 DEF Answered
  <2>2. /\ n - k + 1 \in Nat /\ n - k + 1 <= n - k + 1 /\ (n - k + 1) + k = n + 1
        /\ Len(v) + 1 = n - k + 1
    BY <1>1
  <2>3. QED
    BY <1>3, <2>1, <2>2
<1>5. ASSUME NEW i \in DOMAIN v, v[i].type = "boot", NEW j \in DOMAIN v, i < j, v[j].type = "event"
      PROVE  AnswerBetween(v, i, j)
  <2>1. i + k < j + k /\ j \in Nat /\ j <= n - k + 1
    BY <1>1, <1>2, <1>5
  <2>2. AnswerBetween(u, i + k, j + k)
    BY <1>2, <1>5, <2>1 DEF Answered
  <2>3. QED
    BY <1>3, <2>1, <2>2
<1>6. QED
  BY <1>4, <1>5 DEF Answered

LEMMA AnsweredTaken ==
  ASSUME NEW u \in Seq(Msg), u # <<>>, NEW running \in BOOLEAN, Answered(u, running)
  PROVE  Answered(Tail(u), running)
<1> DEFINE v == Tail(u)
           n == Len(u)
<1>1. /\ n \in Nat \ {0} /\ DOMAIN u = 1 .. n /\ DOMAIN v = 1 .. (n - 1)
      /\ \A i \in 1 .. (n - 1) : v[i] = u[i + 1]
      /\ v \in Seq(Msg)
  BY Taken
<1>2. Len(v) = n - 1 /\ 1 \in 0 .. n /\ n = Len(u)
  BY <1>1, LenProperties
<1> HIDE DEF v, n
<1>3. Answered(v, running)
  BY <1>1, <1>2, AnsweredSuffix
<1>4. QED
  BY <1>3 DEF v

LEMMA AnsweredDropped ==
  ASSUME NEW u \in Seq(Msg), NEW k \in 0 .. Len(u), NEW running \in BOOLEAN, Answered(u, running)
  PROVE  Answered(SubSeq(u, k + 1, Len(u)), running)
<1> DEFINE v == SubSeq(u, k + 1, Len(u))
           n == Len(u)
<1>1. /\ n \in Nat /\ DOMAIN u = 1 .. n /\ DOMAIN v = 1 .. (n - k)
      /\ \A i \in 1 .. (n - k) : v[i] = u[i + k]
      /\ Len(v) = n - k
  BY Dropped
<1>2. n = Len(u) /\ k \in 0 .. n
  OBVIOUS
<1> HIDE DEF v, n
<1>3. Answered(v, running)
  BY <1>1, <1>2, AnsweredSuffix
<1>4. QED
  BY <1>3 DEF v

(* A flush while no response is on the line: the boots it drops have no    *)
(* event after them, so what is left is still faithful.                    *)
LEMMA FaithfulDropped ==
  ASSUME NEW u \in Seq(Msg), NEW k \in 0 .. Len(u), NEW running \in BOOLEAN,
         Answered(u, running), ~Has(u, Answer), NEW b, NEW y,
         LastBoot(u, b, y), Faithful(u, b)
  PROVE  LET v == SubSeq(u, k + 1, Len(u))
         IN  /\ Faithful(v, b)
             /\ LastBoot(v, b, y) \/ (LastBoot(v, b, b) /\ ~running)
<1> DEFINE v == SubSeq(u, k + 1, Len(u))
           n == Len(u)
<1>1. /\ n \in Nat /\ DOMAIN u = 1 .. n /\ DOMAIN v = 1 .. (n - k)
      /\ \A i \in 1 .. (n - k) : v[i] = u[i + k]
      /\ k \in Nat
  BY Dropped
<1> HIDE DEF v, n
<1>2. \A i \in DOMAIN v : i \in Nat \ {0} /\ i + k \in DOMAIN u /\ v[i] = u[i + k]
  BY <1>1
<1>3. \A i \in DOMAIN u : i \in Nat /\ (i <= k \/ (i - k \in DOMAIN v /\ v[i - k] = u[i]))
  BY <1>1
<1>4. \A i, j : ~AnswerBetween(u, i, j)
  BY DEF AnswerBetween, Has
<1>5. \A i, j \in DOMAIN u : u[i].type = "boot" /\ i < j => u[j].type # "event"
  BY <1>4 DEF Answered
<1>6. running => \A i \in DOMAIN u : u[i].type # "boot"
  BY <1>4 DEF Answered
<1>7. Faithful(v, b)
  <2> SUFFICES ASSUME NEW j \in DOMAIN v, v[j].type = "event" PROVE OfLastBoot(v, b, j)
    BY DEF Faithful
  <2>1. j + k \in DOMAIN u /\ u[j + k].type = "event" /\ v[j] = u[j + k]
    BY <1>2
  <2>2. \A i \in DOMAIN u : i < j + k => u[i].type # "boot"
    BY <1>5, <2>1
  <2>3. u[j + k].boot = b
    BY <2>1, <2>2 DEF Faithful, OfLastBoot
  <2>4. ASSUME NEW i \in DOMAIN v, i < j PROVE v[i].type # "boot"
    <3>1. i + k < j + k
      BY <1>1, <1>2, <2>4
    <3>2. QED
      BY <1>2, <2>2, <3>1
  <2>5. QED
    BY <2>1, <2>3, <2>4 DEF OfLastBoot
<1>8. LastBoot(v, b, y) \/ (LastBoot(v, b, b) /\ ~running)
  <2>1. CASE y = b /\ \A i \in DOMAIN u : u[i].type # "boot"
    <3>1. \A i \in DOMAIN v : v[i].type # "boot"
      BY <1>2, <2>1
    <3>2. QED
      BY <2>1, <3>1 DEF LastBoot
  <2>2. ASSUME NEW i \in DOMAIN u, u[i].type = "boot", u[i].boot = y,
               \A j \in DOMAIN u : j > i => u[j].type # "boot"
        PROVE  LastBoot(v, b, y) \/ (LastBoot(v, b, b) /\ ~running)
    <3>1. ~running
      BY <1>6, <2>2
    <3>2. CASE i <= k
      <4>1. ASSUME NEW j \in DOMAIN v PROVE v[j].type # "boot"
        <5>1. j + k > i
          BY <1>1, <1>2, <1>3, <3>2
        <5>2. QED
          BY <1>2, <2>2, <5>1
      <4>2. QED
        BY <3>1, <4>1 DEF LastBoot
    <3>3. CASE ~(i <= k)
      <4>1. i - k \in DOMAIN v /\ v[i - k].type = "boot" /\ v[i - k].boot = y
        BY <1>3, <2>2, <3>3
      <4>2. ASSUME NEW j \in DOMAIN v, j > i - k PROVE v[j].type # "boot"
        <5>1. j + k > i
          BY <1>1, <1>2, <1>3, <4>2
        <5>2. QED
          BY <1>2, <2>2, <5>1
      <4>3. QED
        BY <4>1, <4>2 DEF LastBoot
    <3>4. QED
      BY <3>2, <3>3
  <2>3. QED
    BY <2>1, <2>2 DEF LastBoot
<1>9. QED
  BY <1>7, <1>8 DEF v

-----------------------------------------------------------------------------
(* The inductive invariant.                                                *)

Orderly ==
  /\ scanning => ncp = "up"
  /\ Answered(uart, scanning)

(* x is the last boot the host has read, y the last it can still read: y   *)
(* is the last there was, or nothing of the last is sent before a reset.   *)
(* q, u and c are the queue, the line and the commands, h is handled_boot. *)
Known(q, u, c, h, up, running, last) ==
  \E x, y \in Nat :
    /\ LastBoot(q, h, x) /\ Faithful(q, h)
    /\ LastBoot(u, x, y) /\ Faithful(u, x)
    /\ up => y = last \/ (~running /\ ResetAhead(c))

KnownBoot ==
  ~discarded /\ losses = 0 =>
    Known(queue, uart, cmds, handled_boot, ncp = "up", scanning, boots)

BootInv == TypeOK /\ OneAnswer /\ Orderly /\ KnownBoot

LEMMA NothingKnown == \A b : LastBoot(<<>>, b, b) /\ Faithful(<<>>, b) /\ Answered(<<>>, TRUE)
                              /\ Answered(<<>>, FALSE)
  BY DEF LastBoot, Faithful, Answered

LEMMA BootInitially == Init => Orderly /\ KnownBoot
<1> SUFFICES ASSUME Init PROVE Orderly /\ KnownBoot
  OBVIOUS
<1>1. CASE uart = <<>>
  <2>1. Answered(uart, scanning)
    BY <1>1, NothingKnown DEF Init
  <2>2. LastBoot(queue, 0, 0) /\ Faithful(queue, 0) /\ LastBoot(uart, 0, 0) /\ Faithful(uart, 0)
    BY <1>1, NothingKnown DEF Init
  <2>3. QED
    BY <2>1, <2>2 DEF Init, Orderly, KnownBoot, Known
<1>2. CASE uart = <<Mk("event")>>
  <2>1. DOMAIN uart = {1} /\ uart[1].type = "event" /\ uart[1].boot = 0
    BY <1>2 DEF Mk, Init
  <2>2. Answered(uart, scanning)
    BY <2>1 DEF Answered
  <2>3. LastBoot(uart, 0, 0)
    BY <2>1 DEF LastBoot
  <2>4. Faithful(uart, 0)
    BY <2>1 DEF Faithful, OfLastBoot
  <2>5. LastBoot(queue, 0, 0) /\ Faithful(queue, 0)
    BY NothingKnown DEF Init
  <2>6. QED
    BY <2>2, <2>3, <2>4, <2>5 DEF Init, Orderly, KnownBoot, Known
<1>3. QED
  BY <1>1, <1>2 DEF Init

(* Commands that are added or taken.                                       *)
LEMMA ResetAppended ==
  ASSUME NEW c \in Seq({"reset", "start"}), NEW e \in {"reset", "start"},
         ResetAhead(c) \/ (e = "reset" /\ ~Has(c, Start))
  PROVE  ResetAhead(Append(c, e))
<1> DEFINE a == Append(c, e)
           n == Len(c)
<1>1. /\ n \in Nat /\ DOMAIN c = 1 .. n /\ DOMAIN a = 1 .. (n + 1)
      /\ \A i \in 1 .. n : a[i] = c[i]
      /\ a[n + 1] = e
  BY Appended
<1> HIDE DEF a, n
<1>2. CASE ResetAhead(c)
  <2>1. PICK i \in DOMAIN c : c[i] = "reset" /\ \A j \in DOMAIN c : j < i => c[j] # "start"
    BY <1>2 DEF ResetAhead
  <2>2. i \in DOMAIN a /\ a[i] = "reset" /\ \A j \in DOMAIN a : j < i => j \in DOMAIN c /\ a[j] = c[j]
    BY <1>1, <2>1
  <2>3. ResetAhead(a)
    BY <2>1, <2>2 DEF ResetAhead
  <2>4. QED
    BY <2>3 DEF a
<1>3. CASE e = "reset" /\ ~Has(c, Start)
  <2>1. \A j \in DOMAIN a : j < n + 1 => j \in DOMAIN c /\ a[j] = c[j]
    BY <1>1
  <2>2. \A j \in DOMAIN c : c[j] # "start"
    BY <1>3 DEF Has, Start
  <2>3. n + 1 \in DOMAIN a /\ a[n + 1] = "reset"
    BY <1>1, <1>3
  <2>4. ResetAhead(a)
    BY <2>1, <2>2, <2>3 DEF ResetAhead
  <2>5. QED
    BY <2>4 DEF a
<1>4. QED
  BY <1>2, <1>3

LEMMA NoResetBeforeStart ==
  ASSUME NEW c \in Seq({"reset", "start"}), c # <<>>, Head(c) = "start"
  PROVE  ~ResetAhead(c)
<1>1. 1 \in DOMAIN c /\ c[1] = "start" /\ DOMAIN c \subseteq Nat \ {0}
  BY Taken
<1>2. QED
  BY <1>1 DEF ResetAhead

LEMMA NcpOrderly ==
  ASSUME TypeOK, Orderly, NcpNext
  PROVE  Orderly'
<1>1. uart \in Seq(Msg) /\ boots \in Nat /\ scanning \in BOOLEAN /\ ncp \in {"up", "booting"}
  BY DEF TypeOK
<1>2. Answered(uart, FALSE)
  BY DEF Orderly, Answered
<1>3. CASE TakeReset \/ Crash
  BY <1>2, <1>3 DEF TakeReset, Crash, Orderly
<1>4. CASE TakeStart
  <2> DEFINE m == Mk(IF scanning THEN "invalid_state" ELSE "ok")
  <2>1. uart' = Append(uart, m) /\ scanning' = TRUE /\ ncp' = "up"
    BY <1>4 DEF TakeStart
  <2>2. m \in Msg /\ m \in Answer
    BY <1>1, MsgType DEF ResponseType, Answer, Mk
  <2> HIDE DEF m
  <2>3. Answered(uart', TRUE)
    BY <1>1, <2>1, <2>2, AnsweredAppended DEF Orderly
  <2>4. QED
    BY <2>1, <2>3 DEF Orderly
<1>5. CASE MissCommand \/ LoseReset
  BY <1>5 DEF MissCommand, LoseReset, ncpVars, Orderly
<1>6. CASE Boot
  <2> DEFINE m == [type |-> "boot", boot |-> boots + 1]
  <2>1. uart' = Append(uart, m) /\ scanning' = FALSE
    BY <1>1, <1>6 DEF Boot, Orderly
  <2>2. m \in Msg /\ m.type = "boot"
    BY <1>1 DEF Msg, EventType
  <2> HIDE DEF m
  <2>3. Answered(uart', FALSE)
    BY <1>1, <1>2, <2>1, <2>2, AnsweredAppended
  <2>4. QED
    BY <2>1, <2>3 DEF Orderly
<1>7. CASE SendEvent
  <2> DEFINE m == Mk("event")
  <2>1. uart' = Append(uart, m) /\ scanning' = scanning /\ ncp' = ncp /\ scanning
    BY <1>7 DEF SendEvent, ncpVars
  <2>2. m \in Msg /\ m.type = "event"
    BY <1>1, MsgType DEF EventType, Mk
  <2> HIDE DEF m
  <2>3. Answered(uart', scanning)
    BY <1>1, <2>1, <2>2, AnsweredAppended DEF Orderly
  <2>4. QED
    BY <2>1, <2>3 DEF Orderly
<1>8. QED
  BY <1>3, <1>4, <1>5, <1>6, <1>7 DEF NcpNext

LEMMA HostOrderly ==
  ASSUME TypeOK, Orderly, TimerExpires \/ HostNext
  PROVE  Orderly'
<1>1. uart \in Seq(Msg) /\ scanning \in BOOLEAN
  BY DEF TypeOK
<1>2. UNCHANGED <<scanning, ncp>>
  BY DEF TimerExpires, HostNext, BtStep, Deliver, WaitResponse, TimerStep, MqttStep, ncpVars
<1>3. uart' = uart \/ (uart # <<>> /\ uart' = Tail(uart)) \/ Flush
  BY DEF TimerExpires, HostNext, BtStep, WaitResponse, TimerStep, BootTimerExpire, MqttStep,
         NcpResetCall
<1>4. Answered(uart', scanning)
  BY <1>1, <1>3, AnsweredTaken, AnsweredDropped DEF Orderly, Flush
<1>5. QED
  BY <1>2, <1>4 DEF Orderly

LEMMA NcpKnownBoot ==
  ASSUME BootInv, NcpNext
  PROVE  KnownBoot'
<1>1. /\ uart \in Seq(Msg) /\ boots \in Nat /\ scanning \in BOOLEAN /\ ncp \in {"up", "booting"}
      /\ cmds \in Seq({"reset", "start"}) /\ losses \in Nat
  BY BoundsAssumption DEF BootInv, TypeOK
<1>2. UNCHANGED <<queue, handled_boot, discarded>>
  BY DEF NcpNext, TakeReset, TakeStart, MissCommand, LoseReset, Boot, SendEvent, Crash, hostVars,
         historyVars
<1> SUFFICES ASSUME ~discarded, losses' = 0
             PROVE  Known(queue, uart', cmds', handled_boot, ncp' = "up", scanning', boots')
  BY <1>2 DEF KnownBoot
<1>3. ~LoseReset
  BY <1>1 DEF LoseReset
<1>4. losses = 0
  BY <1>3 DEF NcpNext, TakeReset, TakeStart, MissCommand, Boot, SendEvent, Crash, boundVars
<1>5. PICK x, y \in Nat :
        /\ LastBoot(queue, handled_boot, x) /\ Faithful(queue, handled_boot)
        /\ LastBoot(uart, x, y) /\ Faithful(uart, x)
        /\ ncp = "up" => y = boots \/ (~scanning /\ ResetAhead(cmds))
  BY <1>4 DEF BootInv, KnownBoot, Known
<1>6. CASE TakeReset \/ Crash \/ MissCommand
  <2>1. uart' = uart /\ ncp' # "up"
    BY <1>6 DEF TakeReset, Crash, MissCommand, ncpVars
  <2>2. QED
    BY <1>5, <2>1 DEF Known
<1>7. CASE TakeStart
  <2> DEFINE m == Mk(IF scanning THEN "invalid_state" ELSE "ok")
  <2>1. uart' = Append(uart, m) /\ boots' = boots
    BY <1>7 DEF TakeStart
  <2>2. m \in Msg /\ m.type # "event" /\ m.type # "boot"
    BY <1>1, MsgType DEF ResponseType, Mk
  <2>3. y = boots
    BY <1>1, <1>5, <1>7, NoResetBeforeStart DEF TakeStart
  <2> HIDE DEF m
  <2>4. LastBoot(uart', x, y) /\ Faithful(uart', x)
    BY <1>1, <1>5, <2>1, <2>2, LastBootAppended, FaithfulAppended
  <2>5. QED
    BY <1>5, <2>1, <2>3, <2>4 DEF Known
<1>8. CASE Boot
  <2> DEFINE m == [type |-> "boot", boot |-> boots + 1]
  <2>1. uart' = Append(uart, m) /\ boots' = boots + 1
    BY <1>8 DEF Boot
  <2>2. m \in Msg /\ m.type = "boot" /\ m.boot = boots'
    BY <1>1, <2>1 DEF Msg, EventType
  <2> HIDE DEF m
  <2>3. LastBoot(uart', x, boots') /\ Faithful(uart', x)
    BY <1>1, <1>5, <2>1, <2>2, LastBootAppended, FaithfulAppended
  <2>4. boots' \in Nat
    BY <1>1, <2>1
  <2>5. QED
    BY <1>5, <2>3, <2>4 DEF Known
<1>9. CASE SendEvent
  <2> DEFINE m == Mk("event")
  <2>1. uart' = Append(uart, m) /\ scanning /\ ncp = "up" /\ UNCHANGED <<cmds, ncp, scanning, boots>>
    BY <1>9 DEF SendEvent, ncpVars
  <2>2. m \in Msg /\ m.type = "event" /\ m.boot = boots
    BY <1>1, MsgType DEF EventType, Mk
  <2> HIDE DEF m
  <2>3. y = boots
    BY <1>5, <2>1
  <2>4. LastBoot(uart', x, y) /\ Faithful(uart', x)
    BY <1>1, <1>5, <2>1, <2>2, <2>3, LastBootAppended, FaithfulAppended
  <2>5. QED
    BY <1>5, <2>1, <2>3, <2>4 DEF Known
<1>10. QED
  BY <1>3, <1>6, <1>7, <1>8, <1>9 DEF NcpNext

LEMMA HostKnownBoot ==
  ASSUME BootInv, TimerExpires \/ HostNext
  PROVE  KnownBoot'
<1>1. /\ uart \in Seq(Msg) /\ queue \in Seq(Msg) /\ scanning \in BOOLEAN
      /\ cmds \in Seq({"reset", "start"}) /\ handled_boot \in Nat
  BY DEF BootInv, TypeOK
<1>2. UNCHANGED <<ncp, scanning, boots, losses>>
  BY DEF TimerExpires, HostNext, BtStep, Deliver, WaitResponse, TimerStep, MqttStep, ncpVars, boundVars
<1> SUFFICES ASSUME ~discarded', losses = 0
             PROVE  Known(queue', uart', cmds', handled_boot', ncp = "up", scanning, boots)
  BY <1>2 DEF KnownBoot
<1>3. ~discarded
  BY DEF TimerExpires, HostNext, BtStep, Deliver, WaitResponse, TimerStep, MqttStep, historyVars
<1>4. PICK x, y \in Nat :
        /\ LastBoot(queue, handled_boot, x) /\ Faithful(queue, handled_boot)
        /\ LastBoot(uart, x, y) /\ Faithful(uart, x)
        /\ ncp = "up" => y = boots \/ (~scanning /\ ResetAhead(cmds))
  BY <1>3 DEF BootInv, KnownBoot, Known
<1>5. ASSUME UNCHANGED <<queue, handled_boot>>, Flush, SendReset, pc # "wait"
      PROVE  Known(queue', uart', cmds', handled_boot', ncp = "up", scanning, boots)
  <2>1. ~Has(uart, Answer) /\ ~Has(cmds, Start) /\ Answered(uart, scanning)
    BY <1>5 DEF BootInv, OneAnswer, Orderly
  <2>2. /\ Faithful(uart', x)
        /\ LastBoot(uart', x, y) \/ (LastBoot(uart', x, x) /\ ~scanning)
    <3>1. PICK k \in 0 .. Len(uart) : uart' = SubSeq(uart, k + 1, Len(uart))
      BY <1>5 DEF Flush
    <3>2. QED
      BY <1>1, <1>4, <2>1, <3>1, FaithfulDropped
  <2>3. ResetAhead(cmds')
    BY <1>1, <1>5, <2>1, ResetAppended DEF SendReset
  <2>4. QED
    BY <1>4, <1>5, <2>2, <2>3 DEF Known
<1>6. ASSUME NEW h \in Nat, NEW z \in Nat, LastBoot(queue', h, z), Faithful(queue', h),
             LastBoot(uart', z, y), Faithful(uart', z), handled_boot' = h,
             cmds' = cmds \/ cmds' = Append(cmds, "start")
      PROVE  Known(queue', uart', cmds', handled_boot', ncp = "up", scanning, boots)
  <2>1. ResetAhead(cmds) => ResetAhead(cmds')
    BY <1>1, <1>6, ResetAppended
  <2>2. QED
    BY <1>4, <1>6, <2>1 DEF Known
<1>7. CASE BtStep
  <2>1. CASE queue # <<>> /\ queue' = Tail(queue) /\ Deliver(Head(queue)) /\ UNCHANGED uart
    <3> DEFINE h == IF Head(queue).type = "boot" THEN Head(queue).boot ELSE handled_boot
    <3>1. LastBoot(queue', h, x) /\ Faithful(queue', h)
      BY <1>1, <1>4, <2>1, LastBootTaken, FaithfulTaken
    <3>2. Head(queue) \in Msg
      BY <1>1, <2>1, TailType
    <3>3. h \in Nat
      BY <1>1, <3>2 DEF Msg
    <3>4. handled_boot' = h /\ (cmds' = cmds \/ cmds' = Append(cmds, "start"))
      BY <2>1 DEF Deliver
    <3> HIDE DEF h
    <3>5. QED
      BY <1>4, <1>6, <2>1, <3>1, <3>3, <3>4
  <2>2. CASE queue = <<>> /\ uart # <<>> /\ uart' = Tail(uart) /\ Deliver(Head(uart)) /\ UNCHANGED queue
    <3> DEFINE h == IF Head(uart).type = "boot" THEN Head(uart).boot ELSE handled_boot
    <3>1. x = handled_boot
      BY <1>4, <2>2 DEF LastBoot
    <3>2. LastBoot(uart', h, y) /\ Faithful(uart', h)
      BY <1>1, <1>4, <2>2, <3>1, LastBootTaken, FaithfulTaken
    <3>3. Head(uart) \in Msg
      BY <1>1, <2>2, TailType
    <3>4. h \in Nat
      BY <1>1, <3>3 DEF Msg
    <3>5. handled_boot' = h /\ (cmds' = cmds \/ cmds' = Append(cmds, "start"))
      BY <2>2 DEF Deliver
    <3> HIDE DEF h
    <3>6. LastBoot(queue', h, h) /\ Faithful(queue', h)
      BY <2>2, NothingKnown
    <3>7. QED
      BY <1>4, <1>6, <3>2, <3>4, <3>5, <3>6
  <2>3. CASE UNCHANGED <<queue, uart, cmds, historyVars>>
    BY <1>1, <1>4, <1>6, <2>3 DEF historyVars
  <2>4. QED
    BY <1>7, <2>1, <2>2, <2>3 DEF BtStep
<1>8. CASE WaitResponse
  <2>1. uart # <<>> /\ uart' = Tail(uart) /\ UNCHANGED <<cmds, handled_boot>>
    BY <1>8 DEF WaitResponse
  <2>2. PICK m \in Msg : m = Head(uart)
    BY <1>1, <2>1, TailType
  <2>3. /\ LastBoot(uart', IF m.type = "boot" THEN m.boot ELSE x, y)
        /\ Faithful(uart', IF m.type = "boot" THEN m.boot ELSE x)
        /\ m.type = "event" => m.boot = x
    BY <1>1, <1>4, <2>1, <2>2, LastBootTaken, FaithfulTaken
  <2>4. CASE m.type \in EventType
    <3>1. queue' = Append(queue, m)
      BY <1>8, <2>2, <2>4 DEF WaitResponse
    <3>2. CASE m.type = "boot"
      <4>1. LastBoot(queue', handled_boot, m.boot) /\ Faithful(queue', handled_boot)
        BY <1>1, <1>4, <3>1, <3>2, LastBootAppended, FaithfulAppended
      <4>2. m.boot \in Nat
        BY DEF Msg
      <4>3. QED
        BY <1>1, <1>6, <2>1, <2>3, <3>2, <4>1, <4>2
    <3>3. CASE m.type = "event"
      <4>1. LastBoot(queue, handled_boot, m.boot)
        BY <1>4, <2>3, <3>3
      <4>2. Faithful(queue', handled_boot)
        BY <1>1, <1>4, <3>1, <4>1, FaithfulAppended
      <4>3. LastBoot(queue', handled_boot, x)
        BY <1>1, <1>4, <3>1, <3>3, LastBootAppended
      <4>4. QED
        BY <1>1, <1>4, <1>6, <2>1, <2>3, <3>3, <4>2, <4>3
    <3>4. QED
      BY <2>4, <3>2, <3>3 DEF EventType
  <2>5. CASE m.type \notin EventType
    <3>1. UNCHANGED queue /\ m.type # "boot"
      BY <1>8, <2>2, <2>5 DEF WaitResponse, EventType
    <3>2. QED
      BY <1>1, <1>4, <1>6, <2>1, <2>3, <3>1
  <2>6. QED
    BY <2>4, <2>5
<1>9. CASE TimerStep
  <2>1. pc # "wait" /\ UNCHANGED <<queue, handled_boot>>
    BY <1>9 DEF TimerStep, At
  <2>2. (Flush /\ SendReset) \/ UNCHANGED <<uart, cmds>>
    BY <1>9 DEF TimerStep, BootTimerExpire
  <2>3. QED
    BY <1>1, <1>4, <1>5, <1>6, <2>1, <2>2
<1>10. CASE MqttStep
  <2>1. pc # "wait" /\ UNCHANGED <<queue, handled_boot>>
    BY <1>10 DEF MqttStep, At
  <2>2. (Flush /\ SendReset) \/ UNCHANGED <<uart, cmds>>
    BY <1>10 DEF MqttStep, NcpResetCall
  <2>3. QED
    BY <1>1, <1>4, <1>5, <1>6, <2>1, <2>2
<1>11. CASE TimerExpires
  BY <1>1, <1>4, <1>6, <1>11 DEF TimerExpires
<1>12. QED
  BY <1>7, <1>8, <1>9, <1>10, <1>11 DEF HostNext

LEMMA BootInvHolds == Spec => []BootInv
<1>1. BootInv /\ [Next]_vars => Orderly' /\ KnownBoot'
  <2>1. ASSUME UNCHANGED vars, BootInv PROVE Orderly' /\ KnownBoot'
    BY <2>1 DEF vars, hostVars, ncpVars, historyVars, boundVars, BootInv, Orderly, KnownBoot
  <2>2. ASSUME BootInv, NcpNext PROVE Orderly' /\ KnownBoot'
    BY <2>2, NcpOrderly, NcpKnownBoot DEF BootInv
  <2>3. ASSUME BootInv, TimerExpires \/ HostNext PROVE Orderly' /\ KnownBoot'
    BY <2>3, HostOrderly, HostKnownBoot DEF BootInv
  <2>4. QED
    BY <2>1, <2>2, <2>3 DEF Next
<1>2. Init => Orderly /\ KnownBoot
  BY BootInitially
<1>3. QED
  BY <1>1, <1>2, OneAnswerHolds, PTL DEF Spec, BootInv

(* While nothing has been discarded and no reset has been lost, an event   *)
(* that the application is given is of the boot it has handled last        *)
(* (EventsOfThisBoot).  A flush may drop a boot event, but never one that  *)
(* is followed by events: those come only after the response to a command, *)
(* and main has waited for that.                                           *)
THEOREM EventsAreOfThisBoot == Spec => []EventsOfThisBoot
<1>1. BootInv => EventsOfThisBoot
  <2> SUFFICES ASSUME BootInv, ~discarded, losses = 0, At("bt"), queue \o uart # <<>>,
                      NextMessage.type = "event"
               PROVE  NextMessage.boot = handled_boot
    BY DEF EventsOfThisBoot
  <2>1. queue \in Seq(Msg) /\ uart \in Seq(Msg)
    BY DEF BootInv, TypeOK
  <2>2. PICK x \in Nat : /\ LastBoot(queue, handled_boot, x) /\ Faithful(queue, handled_boot)
                         /\ Faithful(uart, x)
    BY DEF BootInv, KnownBoot, Known
  <2>3. CASE queue # <<>>
    BY <2>1, <2>2, <2>3, FaithfulTaken DEF NextMessage
  <2>4. CASE queue = <<>>
    <3>1. x = handled_boot
      BY <2>2, <2>4 DEF LastBoot
    <3>2. uart # <<>>
      BY <2>1, <2>4
    <3>3. QED
      BY <2>1, <2>2, <2>4, <3>1, <3>2, FaithfulTaken DEF NextMessage
  <2>5. QED
    BY <2>3, <2>4
<1>2. QED
  BY <1>1, BootInvHolds, PTL

-----------------------------------------------------------------------------
(* When one reset follows another in time, the boot handler succeeds.      *)

BootMsg == [type : {"boot"}, boot : Nat]

Refusal == [type : {"invalid_state"}, boot : Nat]

(* One boot is under way at a time, and the scanner does not run when the  *)
(* command that starts it arrives.                                         *)
OneBoot ==
  /\ status # "aborted"
  /\ ~Has(uart, Refusal)
  /\ ~Has(queue, BootMsg)
  /\ triggered => ~ncp_booted /\ ~BootUnderWay
  /\ ncp_booted => /\ ncp = "up" /\ ~Has(uart, BootMsg)
                   /\ \/ cmds = <<>>
                      \/ cmds = <<"start">> /\ ~scanning
  /\ ~ncp_booted => /\ pc # "wait"
                    /\ \/ cmds = <<"reset">> /\ ncp = "up" /\ ~Has(uart, BootMsg)
                       \/ cmds = <<>> /\ ncp = "booting" /\ ~Has(uart, BootMsg)
                       \/ /\ cmds = <<>> /\ ncp = "up" /\ AtMostOne(uart, BootMsg)
                          /\ Has(uart, BootMsg) => ~scanning

(* What a message is, by its type.                                         *)
LEMMA IsBoot ==
  ASSUME NEW m \in Msg
  PROVE  /\ m \in BootMsg <=> m.type = "boot"
         /\ m \in Refusal <=> m.type = "invalid_state"
  BY DEF Msg, BootMsg, Refusal

(* A boot event is on its way through a sequence.                          *)
LEMMA HasBoot ==
  ASSUME NEW s \in Seq(Msg)
  PROVE  (\E i \in DOMAIN s : s[i].type = "boot") <=> Has(s, BootMsg)
<1>1. \A i \in DOMAIN s : s[i] \in Msg
  BY ElementOfSeq, LenProperties
<1>2. \A i \in DOMAIN s : s[i].type = "boot" <=> s[i] \in BootMsg
  BY <1>1, IsBoot
<1>3. QED
  BY <1>2 DEF Has

(* The first element of a sequence is one of its elements.                 *)
LEMMA HasHead ==
  ASSUME NEW s \in Seq(Msg), s # <<>>
  PROVE  /\ Head(s) \in Msg /\ Tail(s) \in Seq(Msg)
         /\ \A M : Head(s) \in M => Has(s, M)
<1>1. Head(s) \in Msg /\ Tail(s) \in Seq(Msg)
  BY HeadTailProperties
<1>2. Head(s) = s[1] /\ 1 \in DOMAIN s
  BY Taken
<1>3. QED
  BY <1>1, <1>2 DEF Has

(* Only the reset of app_init is under way.                                *)
LEMMA OneBootInitially == Init => OneBoot
<1> SUFFICES ASSUME Init PROVE OneBoot
  OBVIOUS
<1>1. Mk("event") \notin BootMsg /\ Mk("event") \notin Refusal
  BY DEF Mk, BootMsg, Refusal
<1>2. ~Has(uart, BootMsg) /\ ~Has(uart, Refusal) /\ ~Has(queue, BootMsg)
  BY <1>1 DEF Init, Has
<1>3. QED
  BY <1>2 DEF Init, OneBoot

(* Steps that leave what is under way as it is.                            *)
LEMMA OneBootKept ==
  ASSUME TypeOK, OneBoot, uart' \in Seq(Msg), queue' \in Seq(Msg),
         UNCHANGED <<status, triggered, cmds, ncp, scanning, ncp_booted>>,
         pc' = "wait" => ncp_booted,
         \A M \in {BootMsg, Refusal} : Has(uart', M) => Has(uart, M),
         AtMostOne(uart, BootMsg) => AtMostOne(uart', BootMsg),
         Has(queue', BootMsg) => Has(queue, BootMsg)
  PROVE  OneBoot'
<1>1. uart \in Seq(Msg) /\ queue \in Seq(Msg)
  BY DEF TypeOK
<1>2. (BootUnderWay <=> \/ cmds # <<>> \/ ncp = "booting"
                        \/ Has(uart, BootMsg) \/ Has(queue, BootMsg))
  BY <1>1, HasBoot DEF BootUnderWay
<1>3. (BootUnderWay' <=> \/ cmds' # <<>> \/ ncp' = "booting"
                         \/ Has(uart', BootMsg) \/ Has(queue', BootMsg))
  BY HasBoot DEF BootUnderWay
<1>4. BootUnderWay' => BootUnderWay
  BY <1>2, <1>3
<1>5. /\ Has(uart', BootMsg) => Has(uart, BootMsg)
      /\ Has(uart', Refusal) => Has(uart, Refusal)
  OBVIOUS
<1>6. QED
  BY <1>4, <1>5 DEF OneBoot

(* The co-processor boots once for each reset it executes.                 *)
LEMMA NcpOneBoot ==
  ASSUME TypeOK, TypeOK', OneAnswer, Orderly, OneBoot, NcpNext, Timely'
  PROVE  OneBoot'
<1>1. /\ cmds \in Seq({"reset", "start"}) /\ uart \in Seq(Msg) /\ queue \in Seq(Msg)
      /\ uart' \in Seq(Msg) /\ queue' \in Seq(Msg) /\ boots \in Nat
      /\ crashes \in Nat
  BY BoundsAssumption DEF TypeOK
<1>2. UNCHANGED <<pc, status, ncp_booted, triggered, queue>>
  BY DEF NcpNext, TakeReset, TakeStart, MissCommand, LoseReset, Boot, SendEvent, Crash, hostVars
<1>3. BootUnderWay <=> \/ cmds # <<>> \/ ncp = "booting"
                       \/ Has(uart, BootMsg) \/ Has(queue, BootMsg)
  BY <1>1, HasBoot DEF BootUnderWay
<1>4. CASE TakeReset
  <2>1. /\ cmds # <<>> /\ Head(cmds) = "reset" /\ cmds' = Tail(cmds) /\ ncp' = "booting"
        /\ uart' = uart
    BY <1>4 DEF TakeReset
  <2>2. ~triggered
    BY <1>3, <2>1 DEF OneBoot
  <2>3. cmds = <<"reset">> /\ ~ncp_booted /\ pc # "wait" /\ ~Has(uart, BootMsg)
    BY <2>1 DEF OneBoot
  <2>4. cmds' = <<>>
    BY <2>1, <2>3
  <2>5. QED
    BY <1>2, <2>1, <2>2, <2>3, <2>4 DEF OneBoot
<1>5. CASE TakeStart
  <2> DEFINE m == Mk(IF scanning THEN "invalid_state" ELSE "ok")
  <2>1. /\ cmds # <<>> /\ Head(cmds) = "start" /\ cmds' = Tail(cmds)
        /\ uart' = Append(uart, m) /\ ncp' = ncp
    BY <1>5 DEF TakeStart
  <2>2. ~triggered
    BY <1>3, <2>1 DEF OneBoot
  <2>3. cmds = <<"start">> /\ ncp_booted /\ ncp = "up" /\ ~scanning /\ ~Has(uart, BootMsg)
    BY <2>1 DEF OneBoot
  <2>4. cmds' = <<>>
    BY <2>1, <2>3
  <2>5. m \in Msg /\ m \notin BootMsg /\ m \notin Refusal
    BY <1>1, <2>3, MsgType DEF ResponseType, Mk, BootMsg, Refusal
  <2> HIDE DEF m
  <2>6. ~Has(uart', BootMsg) /\ ~Has(uart', Refusal)
    BY <1>1, <2>1, <2>3, <2>5, HasAppended DEF OneBoot
  <2>7. QED
    BY <1>2, <2>1, <2>2, <2>3, <2>4, <2>6 DEF OneBoot
<1>6. CASE MissCommand
  <2>1. cmds # <<>> /\ ncp = "booting"
    BY <1>6 DEF MissCommand
  <2>2. QED
    BY <2>1 DEF OneBoot
<1>7. CASE LoseReset
  <2>1. /\ cmds # <<>> /\ Head(cmds) = "reset" /\ cmds' = Tail(cmds) /\ uart' = uart
        /\ ncp' = ncp
    BY <1>7 DEF LoseReset, ncpVars
  <2>2. ~triggered
    BY <1>3, <2>1 DEF OneBoot
  <2>3. cmds = <<"reset">> /\ ~ncp_booted /\ pc # "wait" /\ ~Has(uart, BootMsg) /\ ncp = "up"
    BY <2>1 DEF OneBoot
  <2>4. cmds' = <<>>
    BY <2>1, <2>3
  <2>5. QED
    BY <1>2, <2>1, <2>2, <2>3, <2>4, NoneAtMostOne DEF OneBoot
<1>8. CASE Boot
  <2> DEFINE m == [type |-> "boot", boot |-> boots + 1]
  <2>1. /\ ncp = "booting" /\ ncp' = "up" /\ uart' = Append(uart, m)
        /\ cmds' = cmds /\ scanning' = scanning
    BY <1>8 DEF Boot
  <2>2. ~triggered
    BY <1>3, <2>1 DEF OneBoot
  <2>3. cmds = <<>> /\ ~ncp_booted /\ pc # "wait" /\ ~Has(uart, BootMsg) /\ ~scanning
    BY <2>1 DEF OneBoot, Orderly
  <2>4. m \in Msg /\ m \notin Refusal
    BY <1>1 DEF Msg, EventType, Refusal
  <2> HIDE DEF m
  <2>5. AtMostOne(uart', BootMsg) /\ ~Has(uart', Refusal)
    BY <1>1, <2>1, <2>3, <2>4, HasAppended DEF OneBoot
  <2>6. QED
    BY <1>2, <2>1, <2>2, <2>3, <2>5 DEF OneBoot
<1>9. CASE SendEvent
  <2> DEFINE m == Mk("event")
  <2>1. uart' = Append(uart, m) /\ UNCHANGED <<cmds, ncp, scanning>>
    BY <1>9 DEF SendEvent, ncpVars
  <2>2. m \in Msg /\ m \notin BootMsg /\ m \notin Refusal
    BY <1>1, MsgType DEF EventType, Mk, BootMsg, Refusal
  <2> HIDE DEF m
  <2>3. /\ Has(uart', BootMsg) => Has(uart, BootMsg)
        /\ Has(uart', Refusal) => Has(uart, Refusal)
        /\ AtMostOne(uart, BootMsg) => AtMostOne(uart', BootMsg)
    BY <1>1, <2>1, <2>2, HasAppended
  <2>4. pc' = "wait" => ncp_booted
    BY <1>2 DEF OneBoot
  <2>5. QED
    BY <1>1, <1>2, <2>1, <2>3, <2>4, OneBootKept
<1>10. CASE Crash
  BY <1>1, <1>10 DEF Crash, Timely
<1>11. QED
  BY <1>4, <1>5, <1>6, <1>7, <1>8, <1>9, <1>10 DEF NcpNext

(* What the host reads is one event less on its way.                       *)
LEMMA HostOneBoot ==
  ASSUME TypeOK, TypeOK', OneAnswer, Orderly, TimerArmedWhileAwaited, OneBoot,
         TimerExpires \/ HostNext, Timely'
  PROVE  OneBoot'
<1>1. /\ cmds \in Seq({"reset", "start"}) /\ uart \in Seq(Msg) /\ queue \in Seq(Msg)
      /\ uart' \in Seq(Msg) /\ queue' \in Seq(Msg) /\ ncp_booted \in BOOLEAN
  BY DEF TypeOK
<1>2. BootUnderWay <=> \/ cmds # <<>> \/ ncp = "booting"
                       \/ Has(uart, BootMsg) \/ Has(queue, BootMsg)
  BY <1>1, HasBoot DEF BootUnderWay
<1>3. BootUnderWay' <=> \/ cmds' # <<>> \/ ncp' = "booting"
                        \/ Has(uart', BootMsg) \/ Has(queue', BootMsg)
  BY <1>1, HasBoot DEF BootUnderWay
<1>4. UNCHANGED <<scanning, ncp>>
  BY DEF TimerExpires, HostNext, BtStep, Deliver, WaitResponse, TimerStep, MqttStep, ncpVars
<1>5. pc # "wait" /\ ncp_booted => cmds = <<>>
  <2>1. SUFFICES ASSUME pc # "wait", cmds = <<"start">> PROVE FALSE
    BY DEF OneBoot
  <2>2. 1 \in DOMAIN cmds /\ cmds[1] \in Start
    BY <2>1 DEF Start
  <2>3. QED
    BY <2>1, <2>2 DEF OneAnswer, Has
<1>6. CASE TimerExpires
  <2>1. /\ UNCHANGED <<pc, status, ncp_booted, queue, uart, cmds>>
        /\ status = "running" /\ timer_listed
        /\ ~BootUnderWay
    BY <1>6 DEF TimerExpires, Timely
  <2>2. ~ncp_booted
    BY <2>1 DEF TimerArmedWhileAwaited
  <2>3. ~BootUnderWay'
    BY <1>2, <1>3, <1>4, <2>1
  <2>4. QED
    BY <1>4, <2>1, <2>2, <2>3 DEF OneBoot
<1>7. CASE BtStep
  <2>1. pc # "wait" /\ UNCHANGED <<status, triggered>>
    BY <1>7 DEF BtStep, At, Deliver
  <2>2. ASSUME NEW m \in Msg, m.type # "boot", Deliver(m),
               \/ uart # <<>> /\ uart' = Tail(uart) /\ queue' = queue
               \/ queue # <<>> /\ queue' = Tail(queue) /\ uart' = uart
        PROVE  OneBoot'
    <3>1. UNCHANGED <<ncp_booted, cmds>> /\ pc' = "timer"
      BY <2>2 DEF Deliver
    <3>2. /\ Has(uart', BootMsg) => Has(uart, BootMsg)
          /\ Has(uart', Refusal) => Has(uart, Refusal)
          /\ AtMostOne(uart, BootMsg) => AtMostOne(uart', BootMsg)
          /\ Has(queue', BootMsg) => Has(queue, BootMsg)
      BY <1>1, <2>2, HasTaken
    <3>3. QED
      BY <1>1, <1>4, <2>1, <3>1, <3>2, OneBootKept
  <2>3. CASE queue # <<>> /\ queue' = Tail(queue) /\ Deliver(Head(queue)) /\ uart' = uart
    <3>1. Head(queue) \in Msg /\ Head(queue) \notin BootMsg
      BY <1>1, <2>3, HasHead DEF OneBoot
    <3>2. QED
      BY <2>2, <2>3, <3>1, IsBoot
  <2>4. CASE uart # <<>> /\ uart' = Tail(uart) /\ Deliver(Head(uart)) /\ queue' = queue
    <3>1. Head(uart) \in Msg
      BY <1>1, <2>4, HasHead
    <3>2. CASE Head(uart).type # "boot"
      BY <2>2, <2>4, <3>1, <3>2
    <3>3. CASE Head(uart).type = "boot"
      <4>1. Head(uart) \in BootMsg /\ Has(uart, BootMsg)
        BY <1>1, <2>4, <3>1, <3>3, HasHead, IsBoot
      <4>2. /\ ~ncp_booted /\ ~triggered
            /\ cmds = <<>> /\ ncp = "up" /\ AtMostOne(uart, BootMsg) /\ ~scanning
        BY <1>1, <1>2, <4>1 DEF OneBoot
      <4>3. ncp_booted' /\ cmds' = Append(cmds, "start")
        BY <2>4, <3>3, <4>2 DEF Deliver
      <4>4. cmds' = <<"start">>
        BY <4>2, <4>3
      <4>5. ~Has(uart', BootMsg) /\ ~Has(uart', Refusal)
        BY <1>1, <2>4, <4>1, <4>2, HasTaken DEF OneBoot
      <4>6. QED
        BY <1>4, <2>1, <2>4, <4>2, <4>3, <4>4, <4>5 DEF OneBoot
    <3>4. QED
      BY <3>2, <3>3
  <2>5. CASE queue = <<>> /\ uart = <<>> /\ UNCHANGED <<ncp_booted, queue, uart, cmds>> /\ pc' = "timer"
    BY <1>1, <1>4, <2>1, <2>5, OneBootKept
  <2>6. QED
    BY <1>7, <2>3, <2>4, <2>5 DEF BtStep
<1>8. CASE WaitResponse
  <2>1. /\ pc = "wait" /\ uart # <<>> /\ uart' = Tail(uart)
        /\ UNCHANGED <<ncp_booted, triggered, cmds>>
    BY <1>8 DEF WaitResponse, At
  <2>2. ncp_booted /\ ~Has(uart, BootMsg)
    BY <1>1, <2>1 DEF OneBoot
  <2>3. /\ Head(uart) \in Msg /\ Head(uart).type # "boot" /\ Head(uart).type # "invalid_state"
        /\ Head(uart) \notin BootMsg
    <3>1. Head(uart) \in Msg /\ Head(uart) \notin BootMsg /\ Head(uart) \notin Refusal
      BY <1>1, <2>1, <2>2, HasHead DEF OneBoot
    <3>2. QED
      BY <3>1, IsBoot
  <2>4. UNCHANGED status
    <3>1. status = "running"
      BY <1>8 DEF WaitResponse, At
    <3>2. Head(uart).type \notin EventType => Head(uart).type = "ok"
      BY <2>3 DEF Msg, EventType, ResponseType
    <3>3. QED
      BY <1>8, <3>1, <3>2 DEF WaitResponse
  <2>5. queue' = queue \/ queue' = Append(queue, Head(uart))
    BY <1>8 DEF WaitResponse
  <2>6. /\ Has(uart', BootMsg) => Has(uart, BootMsg)
        /\ Has(uart', Refusal) => Has(uart, Refusal)
        /\ AtMostOne(uart, BootMsg) => AtMostOne(uart', BootMsg)
        /\ Has(queue', BootMsg) => Has(queue, BootMsg)
    BY <1>1, <2>1, <2>3, <2>5, HasTaken, HasAppended
  <2>7. QED
    BY <1>1, <1>4, <2>1, <2>2, <2>4, <2>6, OneBootKept
(* A reset is sent when none is under way.                                 *)
<1>9. ASSUME Flush, SendReset, queue' = queue, cmds = <<>>, ncp = "up", ~Has(uart, BootMsg),
             ~triggered', ~ncp_booted', pc' # "wait", status' = status
      PROVE  OneBoot'
  <2>1. cmds' = <<"reset">>
    BY <1>9 DEF SendReset
  <2>2. ~Has(uart', BootMsg) /\ ~Has(uart', Refusal)
    BY <1>1, <1>9, HasDropped DEF Flush, OneBoot
  <2>3. QED
    BY <1>4, <1>9, <2>1, <2>2 DEF OneBoot
<1>10. CASE TimerStep
  <2>1. pc # "wait" /\ pc' = "mqtt" /\ UNCHANGED <<ncp_booted, queue>>
    BY <1>10 DEF TimerStep, At
  <2>2. CASE timer_listed /\ triggered
    <3>1. ~ncp_booted /\ cmds = <<>> /\ ncp # "booting" /\ ~Has(uart, BootMsg) /\ ~triggered'
      BY <1>2, <1>10, <2>2 DEF OneBoot, TimerStep
    <3>2. ncp = "up"
      BY <3>1 DEF TypeOK
    <3>3. CASE Flush /\ SendReset /\ status' = status
      BY <1>9, <2>1, <3>1, <3>2, <3>3
    <3>4. CASE UNCHANGED <<uart, cmds>> /\ status' = "gave_up"
      BY <1>4, <2>1, <3>1, <3>2, <3>4 DEF OneBoot
    <3>5. QED
      BY <1>10, <2>2, <3>3, <3>4 DEF TimerStep, BootTimerExpire
  <2>3. CASE ~(timer_listed /\ triggered)
    <3>1. UNCHANGED <<uart, cmds, status, triggered>>
      BY <1>10, <2>3 DEF TimerStep
    <3>2. QED
      BY <1>1, <1>4, <2>1, <3>1, OneBootKept
  <2>4. QED
    BY <2>2, <2>3
<1>11. CASE MqttStep
  <2>1. pc # "wait" /\ pc' = "bt" /\ UNCHANGED <<status, queue, triggered>>
    BY <1>11 DEF MqttStep, At, NcpResetCall
  <2>2. CASE NcpResetCall /\ untimely' = (untimely \/ ~ncp_booted)
    <3>1. ncp_booted
      BY <2>2 DEF Timely
    <3>2. cmds = <<>> /\ ncp = "up" /\ ~Has(uart, BootMsg) /\ ~triggered
      BY <1>5, <2>1, <3>1 DEF OneBoot
    <3>3. Flush /\ SendReset /\ ~ncp_booted'
      BY <2>2 DEF NcpResetCall
    <3>4. QED
      BY <1>9, <2>1, <3>2, <3>3
  <2>3. CASE UNCHANGED <<ncp_booted, uart, cmds>>
    BY <1>1, <1>4, <2>1, <2>3, OneBootKept
  <2>4. QED
    BY <1>11, <2>2, <2>3 DEF MqttStep
<1>12. QED
  BY <1>6, <1>7, <1>8, <1>10, <1>11 DEF HostNext

(* In time, every reset is followed by one boot, whatever is lost.         *)
LEMMA OneBootHolds == Spec => [](TypeOK /\ (Timely => OneBoot))
<1>1. Init => (Timely => OneBoot)
  BY OneBootInitially
<1>2. /\ BootInv /\ BootInv' /\ TimerArmedWhileAwaited /\ (Timely => OneBoot)
      /\ [Next]_vars
      => (Timely => OneBoot)'
  <2> SUFFICES ASSUME BootInv, BootInv', TimerArmedWhileAwaited, Timely => OneBoot,
                      [Next]_vars, Timely'
               PROVE  OneBoot'
    OBVIOUS
  <2>1. TypeOK /\ TypeOK' /\ OneAnswer /\ Orderly
    BY DEF BootInv
  <2>2. Timely
    <3>1. untimely => untimely'
      BY DEF Next, NcpNext, TakeReset, TakeStart, MissCommand, LoseReset, Boot, SendEvent, Crash,
             TimerExpires, HostNext, BtStep, Deliver, WaitResponse, TimerStep, MqttStep,
             historyVars, vars
    <3>2. crashes \in Nat /\ (crashes' = crashes \/ crashes' = crashes + 1)
      BY <2>1, BoundsAssumption
         DEF TypeOK, Next, NcpNext, TakeReset, TakeStart, MissCommand, LoseReset, Boot,
             SendEvent, Crash, TimerExpires, HostNext, BtStep, Deliver, WaitResponse,
             TimerStep, MqttStep, boundVars, vars
    <3>3. QED
      BY <3>1, <3>2 DEF Timely
  <2>3. CASE NcpNext
    BY <2>1, <2>2, <2>3, NcpOneBoot
  <2>4. CASE TimerExpires \/ HostNext
    BY <2>1, <2>2, <2>4, HostOneBoot
  <2>5. CASE UNCHANGED vars
    <3>1. UNCHANGED <<pc, status, ncp_booted, triggered, queue, uart, cmds, ncp, scanning>>
      BY <2>5 DEF vars, hostVars, ncpVars
    <3>2. BootUnderWay' <=> BootUnderWay
      BY <3>1 DEF BootUnderWay
    <3>3. QED
      BY <2>2, <3>1, <3>2 DEF OneBoot
  <2>6. QED
    BY <2>3, <2>4, <2>5 DEF Next
<1>3. BootInv => TypeOK
  BY DEF BootInv
<1>4. QED
  BY <1>1, <1>2, <1>3, BootInvHolds, TimerArmed, PTL DEF Spec

(* The boot timer is armed exactly while the host awaits a boot event, and *)
(* unless it expires while the boot is on its way, a configuration comes   *)
(* while it is awaited or the co-processor restarts by itself, no reset    *)
(* and no further boot is under way once a boot event is handled           *)
(* (TimerGuardsReset): however often the reset is lost and sent again, it  *)
(* is only sent to a co-processor that has not got the one before.         *)
THEOREM TimerGuards == Spec => []TimerGuardsReset
<1>1. TypeOK /\ (Timely => OneBoot) /\ TimerArmedWhileAwaited => TimerGuardsReset
  <2> SUFFICES ASSUME TypeOK, OneBoot, ncp_booted
               PROVE  /\ ncp = "up" /\ \A i \in DOMAIN cmds : cmds[i] # "reset"
                      /\ \A i \in DOMAIN uart : uart[i].type # "boot"
                      /\ \A i \in DOMAIN queue : queue[i].type # "boot"
    BY DEF TimerGuardsReset
  <2>1. ncp = "up" /\ ~Has(uart, BootMsg) /\ ~Has(queue, BootMsg)
    BY DEF OneBoot
  <2>2. \A i \in DOMAIN cmds : cmds[i] # "reset"
    BY DEF OneBoot
  <2>3. /\ \A i \in DOMAIN uart : uart[i].type # "boot"
        /\ \A i \in DOMAIN queue : queue[i].type # "boot"
    BY <2>1, HasBoot DEF TypeOK
  <2>4. QED
    BY <2>1, <2>2, <2>3
<1>2. QED
  BY <1>1, OneBootHolds, TimerArmed, PTL

(* The boot handler is never refused (sl_bt_on_event asserts that it is    *)
(* not), however many resets are lost and whatever is flushed, unless the  *)
(* boot timer expires while the boot is on its way, a configuration comes  *)
(* while it is awaited, or the co-processor restarts by itself: then two   *)
(* boots follow one another, and the second handler finds the scanner      *)
(* running.                                                                *)
THEOREM TimelyHandlerReturnsOk == Spec => [](Timely => HandlerReturnsOk)
<1>1. (Timely => OneBoot) => (Timely => HandlerReturnsOk)
  BY DEF OneBoot, HandlerReturnsOk
<1>2. QED
  BY <1>1, OneBootHolds, PTL

=============================================================================
