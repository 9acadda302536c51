------------------------------- MODULE Locator -------------------------------
(***************************************************************************)
(* The locator application, app.c, in the Silicon Labs CTE mode it starts  *)
(* in (cte_silabs.c), with the angle estimation it wraps (aoa_angle.c).    *)
(*                                                                         *)
(* A configuration reaches three places at three times: parse_config       *)
(* writes it when the message arrives, the co-processor is told at its     *)
(* next boot in which order to switch the antennas, and every tag gets an  *)
(* estimator, built from the configuration of that moment, when its first  *)
(* report arrives.  The three must agree whenever an angle is computed.    *)
(*                                                                         *)
(* Masks, the AoX mode, filter weights, the sampling interval and MQTT     *)
(* topics are payload here; the key "cteMode" is left out, so that the     *)
(* mode stays Silabs.                                                      *)
(***************************************************************************)
EXTENDS AntennaArray, AoaDb

CONSTANTS
  Tag,                   (* addresses of the tags                            *)
  DefaultType,           (* AOA_ANGLE_ANTENNA_ARRAY_TYPE                     *)
  DefaultTimeout,        (* AOA_ANGLE_CORRECTION_TIMEOUT                     *)
  DefaultDelay,          (* AOA_ANGLE_MAX_CORRECTION_DELAY                   *)
  DefaultLength,         (* AOA_ANGLE_CTE_MIN_LENGTH, AOA_CTE_MIN_LENGTH     *)
  DefaultSlot,           (* AOA_ANGLE_CTE_SLOT_DURATION, AOA_CTE_...         *)
  SequenceLimit,         (* UINT16_MAX + 1                                   *)
  Configs,               (* the configurations that may arrive               *)
  Absent,                (* the value of a key that a configuration omits    *)
  None                   (* no estimator, no correction, no receiver         *)

ReportMode == {"ANGLE_REPORT", "IQ_REPORT", "ANGLE_IQ_REPORT"}
Sequence == 0 .. SequenceLimit - 1
UInt8 == 0 .. 255
UInt16 == 0 .. 256 * 256 - 1
INT32_MAX == 2147483647

(* The ranges that aoa_angle_config.h documents.                           *)
CteLength == 2 .. 20
SlotDuration == {1, 2}

Optional(S) == S \cup {Absent}

(* A configuration as the parser finds it: a key that is missing, or whose *)
(* value names no mode, is Absent.                                         *)
IsConfig(c) ==
  /\ c.reportMode \in Optional(ReportMode)
  /\ c.antennaMode \in Optional(ArrayType)
  /\ c.antennaArray # Absent =>
       \E n \in UInt8 : c.antennaArray \in [0 .. n - 1 -> Antenna]
  /\ c.angleFiltering \in Optional(BOOLEAN)
  /\ c.angleCorrectionTimeout \in Optional(UInt16)
  /\ c.angleCorrectionDelay \in Optional(UInt16)
  /\ c.cteLength \in Optional(CteLength)
  /\ c.slotDuration \in Optional(SlotDuration)
  /\ c.allowlist \in Optional(Seq(Tag))

ASSUME LocatorAssumption ==
  /\ DefaultType \in ArrayType
  /\ DefaultTimeout \in UInt16
  /\ DefaultDelay \in UInt16
  /\ DefaultLength \in CteLength
  /\ DefaultSlot \in SlotDuration
  /\ SequenceLimit \in Nat \ {0}
  /\ \A c \in Configs : IsConfig(c)

VARIABLES
  booted,                (* ~first_bt_system_reset                           *)
  resetting,             (* ncp_reset's gate: no event but boot gets through *)
  config,                (* report_mode, antenna_switch_pattern_set and the  *)
                         (* aoa_angle_config_t with its sample buffers       *)
  receiver,              (* what the co-processor was told at its last boot  *)
  allowlist,             (* head_allow                                       *)
  db,                    (* head_conn                                        *)
  state                  (* user_data and sequence of each tag's entry       *)

vars == <<booted, resetting, config, receiver, allowlist, db, state>>

-----------------------------------------------------------------------------
(* aoa_angle.c: the configuration.                                         *)

(* num_snapshots is a uint8_t; 4 and 8 are the microseconds of the guard   *)
(* and of the reference period.                                            *)
NumSnapshots(length, slot, pins) ==
  (((length * 8 - 4 - 8) \div (slot * 2)) \div pins) % 256

(* Mutant: the buffers are kept unless both dimensions change.             *)
FinalizeConfigKeepsBuffers(s) ==
  LET pins == PinPatternSize(s.array.array_type)
      snapshots == NumSnapshots(s.cte_min_length, s.cte_slot_duration, pins)
      resized == s.sample_rows # snapshots /\ s.sample_cols # pins
  IN  [s EXCEPT !.num_snapshots = snapshots,
                !.sample_rows = IF resized THEN snapshots ELSE @,
                !.sample_cols = IF resized THEN pins ELSE @]

(* aoa_angle_finalize_node and allocate_sample_buffers: the buffers are    *)
(* replaced when either dimension changes.                                 *)
FinalizeConfig(s) ==
  LET pins == PinPatternSize(s.array.array_type)
      snapshots == NumSnapshots(s.cte_min_length, s.cte_slot_duration, pins)
      resized == s.sample_rows # snapshots \/ s.sample_cols # pins
  IN  [s EXCEPT !.num_snapshots = snapshots,
                !.sample_rows = IF resized THEN snapshots ELSE @,
                !.sample_cols = IF resized THEN pins ELSE @]

(* aoa_angle_add_config: the defaults, finalised.                          *)
DefaultConfig ==
  FinalizeConfig(
    [report_mode                |-> "ANGLE_REPORT",
     antenna_switch_pattern_set |-> FALSE,
     array                      |-> InitArray(DefaultType),
     angle_filtering            |-> TRUE,
     angle_correction_timeout   |-> DefaultTimeout,
     angle_correction_delay     |-> DefaultDelay,
     cte_min_length             |-> DefaultLength,
     cte_slot_duration          |-> DefaultSlot,
     num_snapshots              |-> 0,
     sample_rows                |-> 0,
     sample_cols                |-> 0])

-----------------------------------------------------------------------------
(* app.c: parse_config.                                                    *)

Given(value, default) == IF value = Absent THEN default ELSE value

(* The array after "reportMode" and "antennaMode".  It is initialised when *)
(* the type changes, and when the report mode does unless a pattern was    *)
(* configured; angle reporting uses a random order of the antennas.        *)
ReinitialisedArrays(s, mode, type) ==
  IF \/ type # s.array.array_type
     \/ ~s.antenna_switch_pattern_set /\ mode # s.report_mode
  THEN IF mode = "ANGLE_REPORT" THEN ShuffledArrays(InitArray(type))
       ELSE {InitArray(type)}
  ELSE {s.array}

(* What a well-formed configuration c can make of the settings s; only the *)
(* shuffle leaves a choice.                                                *)
ParsedConfigs(s, c) ==
  LET mode == Given(c.reportMode, s.report_mode)
      type == Given(c.antennaMode, s.array.array_type)
      overridden == c.antennaArray # Absent /\ AcceptsPattern(type, c.antennaArray)
      arrays == IF overridden
                THEN {[array_type |-> type, pattern |-> c.antennaArray]}
                ELSE ReinitialisedArrays(s, mode, type)
      was_set == s.antenna_switch_pattern_set /\ type = s.array.array_type
  IN  {FinalizeConfig(
         [s EXCEPT
            !.report_mode = mode,
            !.antenna_switch_pattern_set = overridden \/ was_set,
            !.array = array,
            !.angle_filtering = Given(c.angleFiltering, @),
            !.angle_correction_timeout = Given(c.angleCorrectionTimeout, @),
            !.angle_correction_delay = Given(c.angleCorrectionDelay, @),
            !.cte_min_length = Given(c.cteLength, @),
            !.cte_slot_duration = Given(c.slotDuration, @)]) :
         array \in arrays}

(* The loop over the allowlist goes on while aoa_db_allowlist_add returns  *)
(* SL_STATUS_OK: addresses after the first repeated one are not read.      *)
ParsedAllowlist(list, c) ==
  IF c.allowlist = Absent THEN list
  ELSE FoldLeft(LAMBDA r, address :
                  IF r.sc = "OK" THEN AllowlistAdd(r.allowlist, address) ELSE r,
                [allowlist |-> <<>>, sc |-> "OK"], c.allowlist).allowlist

(* Mutant: the tags stay, with the estimators they have.                   *)
ParseConfigKeepsTags(c) ==
  /\ IF c = Absent THEN UNCHANGED <<config, allowlist>>
     ELSE /\ config' \in ParsedConfigs(config, c)
          /\ allowlist' = ParsedAllowlist(allowlist, c)
  /\ UNCHANGED <<db, state>>

(* The tags are removed, and their estimators released, before the first   *)
(* key is looked at; when the text is no JSON (Absent) that is all.        *)
ParseConfig(c) ==
  /\ IF c = Absent THEN UNCHANGED <<config, allowlist>>
     ELSE /\ config' \in ParsedConfigs(config, c)
          /\ allowlist' = ParsedAllowlist(allowlist, c)
  /\ db' = <<>>
  /\ state' = [t \in Tag |-> None]

-----------------------------------------------------------------------------
(* aoa_angle.c: the estimator of a tag.                                    *)

(* aoa_init_rtl, and the sequence aoa_db_add_tag gives a new entry.        *)
NewState(s) ==
  [array_type         |-> s.array.array_type,
   pattern            |-> ContinuousPattern(s.array),
   snapshots          |-> s.num_snapshots,
   filtered           |-> s.angle_filtering,
   expected           |-> None,
   correction_timeout |-> 0,
   sequence           |-> -1]

(* Mutant: the correction outlives its timeout.                            *)
CalculatedKeepsDirection(e, counter) ==
  [e EXCEPT !.sequence = counter,
            !.correction_timeout = IF @ > 0 THEN @ - 1 ELSE 0]

(* Mutant: the counter is decremented whether or not it runs.              *)
CalculatedUnderflows(e, counter) ==
  [e EXCEPT !.sequence = counter,
            !.correction_timeout = @ - 1,
            !.expected = IF e.correction_timeout = 1 THEN None ELSE @]

(* aoa_calculate when it estimates an angle: the last report a correction  *)
(* is used for clears it.  on_iq_report then stores the sequence number.   *)
Calculated(e, counter) ==
  [e EXCEPT !.sequence = counter,
            !.correction_timeout = IF @ > 0 THEN @ - 1 ELSE 0,
            !.expected = IF e.correction_timeout = 1 THEN None ELSE @]

(* aoa_set_correction.  The expected direction is named by the sequence    *)
(* number of the correction it came with; the counter is a uint8_t.        *)
Corrected(e, s, sequence) ==
  [e EXCEPT !.expected = sequence,
            !.correction_timeout = s.angle_correction_timeout % 256]

Magnitude(n) == IF n < 0 THEN -n ELSE n

(* Mutant: an entry that has had no angle yet counts as up to date.        *)
SequenceCompareTrustsNew(seq1, seq2) ==
  LET diff == Magnitude(seq2 - seq1)
  IN  IF seq1 < 0 \/ seq2 < 0 THEN 0
      ELSE IF diff < SequenceLimit \div 2 THEN diff ELSE SequenceLimit - diff

(* aoa_sequence_compare: the distance around the 16 bit counter; an entry  *)
(* that has no sequence number yet is far from every other.                *)
SequenceCompare(seq1, seq2) ==
  LET diff == Magnitude(seq2 - seq1)
  IN  IF seq1 < 0 \/ seq2 < 0 THEN INT32_MAX
      ELSE IF diff < SequenceLimit \div 2 THEN diff ELSE SequenceLimit - diff

-----------------------------------------------------------------------------
(* The handlers.                                                           *)

(* What aoa_cte_bt_on_event and the boot case of cte_silabs.c send.        *)
Receiver(s) == [pins |-> PinPattern(s.array), slot |-> s.cte_slot_duration]

(* app_init has called ncp_reset; there is no configuration before the     *)
(* first boot, and DefaultConfig stands for it.                            *)
Init ==
  /\ booted = FALSE
  /\ resetting = TRUE
  /\ config = DefaultConfig
  /\ receiver = None
  /\ allowlist = <<>>
  /\ db = <<>>
  /\ state = [t \in Tag |-> None]

(* sl_bt_on_event for the first boot: the defaults, with a random pattern  *)
(* since angle reporting is the default, and then the configuration file   *)
(* of the command line, if there is one and it can be parsed.              *)
FirstBoot(c) ==
  /\ ~booted
  /\ booted' = TRUE
  /\ resetting' = FALSE
  /\ \E array \in ShuffledArrays(DefaultConfig.array) :
       LET shuffled == [DefaultConfig EXCEPT !.array = array]
       IN  IF c = Absent
           THEN config' = shuffled /\ allowlist' = allowlist
           ELSE /\ config' \in ParsedConfigs(shuffled, c)
                /\ allowlist' = ParsedAllowlist(allowlist, c)
  /\ receiver' = Receiver(config')
  /\ UNCHANGED <<db, state>>

(* sl_bt_on_event for a later boot, asked for by a configuration or the    *)
(* co-processor's own.                                                     *)
LaterBoot ==
  /\ booted
  /\ resetting' = FALSE
  /\ receiver' = Receiver(config)
  /\ UNCHANGED <<booted, config, allowlist, db, state>>

(* Mutant: the co-processor is not reset.                                  *)
OnConfigMessageNoReset(c) ==
  /\ booted
  /\ ParseConfig(c)
  /\ UNCHANGED <<booted, resetting, receiver>>

(* on_message with a configuration, well-formed or not (Absent).           *)
OnConfigMessage(c) ==
  /\ booted
  /\ ParseConfig(c)
  /\ resetting' = TRUE
  /\ UNCHANGED <<booted, receiver>>

(* aoa_cte_on_iq_report: the angle is calculated unless only IQ samples    *)
(* are published; the estimator may need more reports before it has an     *)
(* angle (~estimated).                                                     *)
Reported(e, counter, estimated) ==
  IF config.report_mode # "IQ_REPORT" /\ estimated
  THEN Calculated(e, counter) ELSE e

(* The report case of cte_silabs.c.  A report without samples does         *)
(* nothing; a tag that is not known is added.                              *)
OnIqReport(t, counter, estimated) ==
  /\ ~resetting
  /\ AllowlistFind(allowlist, t) # "NOT_FOUND"
  /\ LET known == GetTagByAddress(db, t) # 0
         entry == IF known THEN state[t] ELSE NewState(config)
     IN  /\ db' = IF known THEN db ELSE AddTag(db, 0, t)
         /\ state' = [state EXCEPT ![t] = Reported(entry, counter, estimated)]
  /\ UNCHANGED <<booted, resetting, config, receiver, allowlist>>

(* on_message with a correction from the positioning node, which may come  *)
(* at any time and for any earlier angle.                                  *)
OnCorrection(t, sequence) ==
  /\ booted
  /\ config.report_mode = "ANGLE_REPORT"
  /\ GetTagByAddress(db, t) # 0
  /\ SequenceCompare(state[t].sequence, sequence) <= config.angle_correction_delay
  /\ state' = [state EXCEPT ![t] = Corrected(@, config, sequence)]
  /\ UNCHANGED <<booted, resetting, config, receiver, allowlist, db>>

Next ==
  \/ \E c \in Configs \cup {Absent} : FirstBoot(c) \/ OnConfigMessage(c)
  \/ LaterBoot
  \/ \E t \in Tag, n \in Sequence :
       \/ \E estimated \in BOOLEAN : OnIqReport(t, n, estimated)
       \/ OnCorrection(t, n)

Spec == Init /\ [][Next]_vars

-----------------------------------------------------------------------------
(* Properties.                                                             *)

ConfigRecords ==
  [report_mode : ReportMode, antenna_switch_pattern_set : BOOLEAN,
   array : AntennaArrays, angle_filtering : BOOLEAN,
   angle_correction_timeout : UInt16, angle_correction_delay : UInt16,
   cte_min_length : CteLength, cte_slot_duration : SlotDuration,
   num_snapshots : UInt8, sample_rows : UInt8, sample_cols : Nat]

States ==
  [array_type : ArrayType,
   pattern : UNION {[Slots(t) -> Slots(t)] : t \in ArrayType},
   snapshots : UInt8, filtered : BOOLEAN,
   expected : Sequence \cup {None}, correction_timeout : UInt8,
   sequence : Sequence \cup {-1}]

ASSUME NoneAssumption == None \notin States

(* Types: among them that the correction counter of aoa_state_t is a       *)
(* uint8_t which never goes below zero (aoa_calculate), and that every     *)
(* estimator got a complete continuous pattern (aoa_init_rtl).             *)
TypeOK ==
  /\ booted \in BOOLEAN
  /\ resetting \in BOOLEAN
  /\ config \in ConfigRecords
  /\ db \in Seq(Entry({0}, Tag))
  /\ state \in [Tag -> States \cup {None}]

(* The pattern in force always covers a variant of its array, whatever     *)
(* configurations arrive in whatever order: otherwise the continuous       *)
(* pattern does not exist, aoa_init_rtl fails and aoa_db_on_tag_added      *)
(* aborts at the next new tag.                                             *)
PatternIsVariant == IsVariant(config.array.array_type, config.array.pattern)

(* Whenever reports are let through, every estimator reads them in the     *)
(* order in which the co-processor switches the antennas: its continuous   *)
(* pattern, taken as antennas of some variant of its array, is the pin     *)
(* pattern of the last boot, and it expects as many rounds as the slots    *)
(* that the co-processor uses leave room for.                              *)
EstimatorMatchesReceiver ==
  ~resetting => \A t \in Tag : state[t] # None =>
    LET e == state[t]
        pins == receiver.pins
    IN  /\ \E v \in 0 .. array_variants[e.array_type] - 1 :
             pins = PinPattern(
               [array_type |-> e.array_type,
                pattern    |-> [i \in Slots(e.array_type) |->
                                  array_list[e.array_type][v][e.pattern[i]]]])
        /\ e.snapshots = NumSnapshots(config.cte_min_length, receiver.slot,
                                      Cardinality(DOMAIN pins))

(* The sample buffers, which all tags share, have the shape that every     *)
(* estimator was built for, and the filter of an estimator exists exactly  *)
(* if aoa_calculate and aoa_deinit_rtl, which look at the configuration of *)
(* their own moment, take it to exist.                                     *)
EstimatorMatchesConfig ==
  \A t \in Tag : state[t] # None =>
    /\ config.sample_rows = state[t].snapshots
    /\ config.sample_cols = PinPatternSize(state[t].array_type)
    /\ config.angle_filtering = state[t].filtered

(* Shuffling moves all slots around a single cycle, so that no antenna     *)
(* keeps its slot and any such order can come out: the loop of             *)
(* antenna_array_shuffle_pattern leaves exactly those patterns.            *)
ShuffleIsOneCycle ==
  ShuffleLoop(config.array.array_type, config.array.pattern)
    = {a.pattern : a \in ShuffledArrays(config.array)}

(* The database holds each tag once and only tags that the allowlist in    *)
(* force allows, although lists and tags come in any order.                *)
OnlyAllowedTags ==
  /\ \A i \in 1 .. Len(db) : AllowlistFind(allowlist, db[i].address) # "NOT_FOUND"
  /\ \A t \in Tag : state[t] # None <=> \E i \in 1 .. Len(db) : db[i].address = t
  /\ \A i, j \in 1 .. Len(db) : db[i].address = db[j].address => i = j

(* An expected direction is only in force while its timeout runs, so that  *)
(* it is cleared when the configured number of reports went by without a   *)
(* correction (aoa_angle_config.h, AOA_ANGLE_CORRECTION_TIMEOUT).          *)
CorrectionExpires ==
  \A t \in Tag : state[t] # None /\ state[t].expected # None =>
    state[t].correction_timeout > 0

(* A correction is applied only if it answers an angle at most             *)
(* angle_correction_delay reports away from the tag's latest one, counted  *)
(* across the wrap of the packet counter; never before the first angle of  *)
(* an entry, for instance after a configuration message emptied the        *)
(* database while corrections were on their way.                           *)
CorrectionIsRecent ==
  [][\A t \in Tag :
       state[t] # None /\ state'[t] # None
         /\ state'[t].expected \notin {None, state[t].expected}
       => \E k \in 0 .. config.angle_correction_delay :
            \/ (state[t].sequence + k) % SequenceLimit = state'[t].expected
            \/ (state'[t].expected + k) % SequenceLimit = state[t].sequence]_vars

=============================================================================
