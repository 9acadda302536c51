--------------------------- MODULE LocatorProofs ---------------------------
(***************************************************************************)
(* Proofs about Locator: the pattern in force is always a variant of its   *)
(* array, receiver, configuration and estimators agree, a correction in    *)
(* use is one its timeout allows, and the shuffle is a single cycle.       *)
(***************************************************************************)
EXTENDS Locator, FiniteSetTheorems, SequenceTheorems, TLAPS

-----------------------------------------------------------------------------
(* The antenna array.                                                      *)

LEMMA LeastNat ==
  ASSUME NEW T, T \subseteq Nat, T # {}
  PROVE  \E v \in T : \A w \in T : v <= w
<1> DEFINE R == OpToRel(<, Nat)
<1>1. IsWellFoundedOn(R, Nat)
  BY NatLessThanWellFounded
<1> HIDE DEF R
<1>2. PICK v \in T : \A w \in T : ~(<<w, v>> \in R)
  BY <1>1, WFMin
<1>3. \A w \in T : ~(w < v)
  <2>1. SUFFICES ASSUME NEW w \in T, w < v PROVE FALSE
    OBVIOUS
  <2>2. <<w, v>> \in Nat \X Nat
    OBVIOUS
  <2>3. <<w, v>> \in R
    BY <2>1, <2>2 DEF R, OpToRel
  <2>4. QED
    BY <1>2, <2>3
<1>4. QED
  BY <1>3

(* get_array_variant returns a variant that the pattern covers, if any.    *)
LEMMA VariantCovered ==
  ASSUME NEW t \in ArrayType, NEW p
  PROVE  /\ IsVariant(t, p) <=> CoveredVariants(t, p) # {}
         /\ IsVariant(t, p) => GetArrayVariant(t, p) \in CoveredVariants(t, p)
<1> DEFINE covered == CoveredVariants(t, p)
<1>1. array_variants[t] \in Nat
  BY ArrayTableAssumption
<1>2. covered \subseteq 0 .. array_variants[t] - 1
  BY DEF CoveredVariants
<1>3. covered \subseteq Nat /\ array_variants[t] \notin covered
  BY <1>1, <1>2
<1>4. covered # {} => GetArrayVariant(t, p) \in covered
  <2>1. SUFFICES ASSUME covered # {} PROVE GetArrayVariant(t, p) \in covered
    OBVIOUS
  <2>2. \E v \in covered : \A w \in covered : v <= w
    BY <1>3, <2>1, LeastNat
  <2>3. QED
    BY <2>1, <2>2, Zenon DEF GetArrayVariant
<1>5. covered = {} => GetArrayVariant(t, p) = array_variants[t]
  BY DEF GetArrayVariant
<1>6. QED
  BY <1>3, <1>4, <1>5 DEF IsVariant

LEMMA InitIsVariant ==
  ASSUME NEW t \in ArrayType
  PROVE  /\ InitArray(t) \in ArraysOf(t)
         /\ IsVariant(t, InitArray(t).pattern)
<1>1. array_variants[t] \in Nat \ {0} /\ 0 \in 0 .. array_variants[t] - 1
  BY ArrayTableAssumption
<1>2. array_list[t][0] \in Patterns(t)
  BY <1>1, ArrayTableAssumption
<1>3. 0 \in CoveredVariants(t, array_list[t][0])
  BY <1>1 DEF CoveredVariants, Covers
<1>4. QED
  BY <1>2, <1>3, VariantCovered DEF InitArray, ArraysOf

(* A single cycle reaches every slot.                                      *)
LEMMA CyclesAreOnto ==
  ASSUME NEW D, NEW f \in Cycles(D)
  PROVE  \A i \in D : \E k \in D : f[k] = i
<1> DEFINE S == {f[k] : k \in D}
<1>1. f \in [D -> D] /\ S \in SUBSET D
  BY DEF Cycles
<1>2. \A i \in S : f[i] \in S
  BY <1>1
<1>3. S = {} \/ S = D
  BY <1>1, <1>2 DEF Cycles
<1>4. QED
  BY <1>3

(* Shuffling keeps the antennas, hence the variant.                        *)
LEMMA ShuffleKeepsVariant ==
  ASSUME NEW t \in ArrayType, NEW a \in ArraysOf(t), IsVariant(t, a.pattern),
         NEW b \in ShuffledArrays(a)
  PROVE  b \in ArraysOf(t) /\ IsVariant(t, b.pattern)
<1>1. a.array_type = t /\ a.pattern \in [Slots(t) -> Antenna]
  BY DEF ArraysOf, Patterns
<1>2. PICK f \in Cycles(Slots(t)) :
        b = [a EXCEPT !.pattern = [i \in DOMAIN @ |-> @[f[i]]]]
  BY <1>1 DEF ShuffledArrays
<1>3. f \in [Slots(t) -> Slots(t)]
  BY DEF Cycles
<1>4. /\ b = [array_type |-> t, pattern |-> [i \in Slots(t) |-> a.pattern[f[i]]]]
      /\ b \in ArraysOf(t)
  BY <1>1, <1>2, <1>3 DEF ArraysOf, Patterns
<1>5. PICK v \in 0 .. array_variants[t] - 1 : Covers(t, a.pattern, v)
  BY VariantCovered DEF CoveredVariants
<1>6. Covers(t, b.pattern, v)
  <2>1. SUFFICES ASSUME NEW i \in Slots(t)
                 PROVE  \E j \in Slots(t) : b.pattern[j] = array_list[t][v][i]
    BY DEF Covers
  <2>2. PICK j \in Slots(t) : a.pattern[j] = array_list[t][v][i]
    BY <1>5 DEF Covers
  <2>3. PICK k \in Slots(t) : f[k] = j
    BY CyclesAreOnto
  <2>4. b.pattern[k] = array_list[t][v][i]
    BY <1>4, <2>2, <2>3
  <2>5. QED
    BY <2>4
<1>7. QED
  BY <1>4, <1>5, <1>6, VariantCovered DEF CoveredVariants

LEMMA SlotsFinite ==
  ASSUME NEW t \in ArrayType
  PROVE  IsFiniteSet(Slots(t))
<1>1. 0 \in Int /\ array_size[t] - 1 \in Int
  BY ArrayTableAssumption
<1>2. QED
  BY <1>1, FS_Interval DEF Slots

(* A pattern that covers a variant has no other antennas: it has as many   *)
(* slots as the variant has antennas.                                      *)
LEMMA CoveringIsPermutation ==
  ASSUME NEW t \in ArrayType, NEW p, NEW v \in CoveredVariants(t, p)
  PROVE  \A j \in Slots(t) : \E i \in Slots(t) : p[j] = array_list[t][v][i]
<1> DEFINE g == [i \in Slots(t) |->
                   CHOOSE j \in Slots(t) : p[j] = array_list[t][v][i]]
<1>1. \A i \in Slots(t) : g[i] \in Slots(t) /\ p[g[i]] = array_list[t][v][i]
  BY DEF CoveredVariants, Covers
<1>2. \A i, j \in Slots(t) :
        array_list[t][v][i] = array_list[t][v][j] => i = j
  BY ArrayTableAssumption DEF CoveredVariants
<1>3. g \in Injection(Slots(t), Slots(t))
  <2>1. g \in [Slots(t) -> Slots(t)]
    BY <1>1
  <2>2. \A i, j \in Slots(t) : g[i] = g[j] => i = j
    BY <1>1, <1>2
  <2>3. QED
    BY <2>1, <2>2 DEF Injection, IsInjective
<1> HIDE DEF g
<1>4. g \in Surjection(Slots(t), Slots(t))
  BY <1>3, SlotsFinite, FS_Injection
<1>5. QED
  BY <1>1, <1>4 DEF Surjection

(* What the estimator is told, taken as antennas of the variant, is what   *)
(* the antenna switch is told.                                             *)
LEMMA ContinuousPatternDecodes ==
  ASSUME NEW a, a.array_type \in ArrayType, a \in ArraysOf(a.array_type),
         IsVariant(a.array_type, a.pattern)
  PROVE  LET t == a.array_type
             v == GetArrayVariant(t, a.pattern)
         IN  /\ v \in 0 .. array_variants[t] - 1
             /\ ContinuousPattern(a) \in [Slots(t) -> Slots(t)]
             /\ a = [array_type |-> t,
                     pattern    |-> [i \in Slots(t) |->
                                       array_list[t][v][ContinuousPattern(a)[i]]]]
<1> DEFINE v == GetArrayVariant(a.array_type, a.pattern)
           c == [i \in Slots(a.array_type) |->
                   CHOOSE j \in Slots(a.array_type) :
                     a.pattern[i] = array_list[a.array_type][v][j]]
<1>1. /\ a.pattern \in [Slots(a.array_type) -> Antenna]
      /\ a = [array_type |-> a.array_type, pattern |-> a.pattern]
  BY DEF ArraysOf, Patterns
<1>2. v \in CoveredVariants(a.array_type, a.pattern)
  BY VariantCovered
<1>3. v \in 0 .. array_variants[a.array_type] - 1
  BY <1>2 DEF CoveredVariants
<1>4. ContinuousPattern(a) = c
  BY DEF ContinuousPattern
<1>5. \A i \in Slots(a.array_type) : \E j \in Slots(a.array_type) :
        a.pattern[i] = array_list[a.array_type][v][j]
  BY <1>2, CoveringIsPermutation
<1>6. \A i \in Slots(a.array_type) :
        /\ c[i] \in Slots(a.array_type)
        /\ a.pattern[i] = array_list[a.array_type][v][c[i]]
  BY <1>5
<1>7. c \in [Slots(a.array_type) -> Slots(a.array_type)]
  BY <1>6
<1> HIDE DEF v, c
<1>8. a.pattern = [i \in Slots(a.array_type) |-> array_list[a.array_type][v][c[i]]]
  BY <1>1, <1>6
<1>9. QED
  BY <1>1, <1>3, <1>4, <1>7, <1>8 DEF v

LEMMA PinPatternLength ==
  ASSUME NEW t \in ArrayType, NEW a \in ArraysOf(t)
  PROVE  /\ PinPatternSize(t) \in Nat
         /\ Cardinality(DOMAIN PinPattern(a)) = PinPatternSize(t)
<1>1. a.array_type = t /\ array_size[t] \in Nat \ {0}
  BY ArrayTableAssumption DEF ArraysOf
<1>2. CASE t \in DualPolarized
  <2>1. DOMAIN PinPattern(a) = 0 .. 2 * array_size[t]
    BY <1>1, <1>2, Zenon DEF PinPattern
  <2>2. Cardinality(0 .. 2 * array_size[t]) = 2 * array_size[t] + 1
    BY <1>1, FS_Interval
  <2>3. QED
    BY <1>1, <1>2, <2>1, <2>2 DEF PinPatternSize
<1>3. CASE t \notin DualPolarized
  <2>1. DOMAIN PinPattern(a) = 0 .. array_size[t] - 1
    BY <1>1, <1>3, Zenon DEF PinPattern, Slots
  <2>2. Cardinality(0 .. array_size[t] - 1) = array_size[t]
    <3>1. PICK n \in Nat \ {0} : n = array_size[t]
      BY <1>1
    <3>2. 0 \in Int /\ n - 1 \in Int /\ ~(0 > n - 1) /\ n - 1 - 0 + 1 = n
      BY <3>1
    <3>3. Cardinality(0 .. n - 1) = n
      BY <3>2, FS_Interval
    <3>4. QED
      BY <3>1, <3>3
  <2>3. QED
    BY <1>1, <1>3, <2>1, <2>2 DEF PinPatternSize
<1>4. QED
  BY <1>2, <1>3

-----------------------------------------------------------------------------
(* The configuration.                                                      *)

(* aoa_angle_finalize_config has run: snapshots and buffers fit the rest.  *)
Finalized(s) ==
  LET pins == PinPatternSize(s.array.array_type)
  IN  /\ s.num_snapshots = NumSnapshots(s.cte_min_length, s.cte_slot_duration, pins)
      /\ s.sample_rows = s.num_snapshots
      /\ s.sample_cols = pins

ArrayIsVariant(s) == IsVariant(s.array.array_type, s.array.pattern)

LEMMA ArrayTyped ==
  ASSUME NEW a \in AntennaArrays
  PROVE  a.array_type \in ArrayType /\ a \in ArraysOf(a.array_type)
BY DEF AntennaArrays, ArraysOf

LEMMA PinPatternSizeType ==
  ASSUME NEW t \in ArrayType
  PROVE  PinPatternSize(t) \in Nat \ {0}
<1>1. array_size[t] \in Nat \ {0}
  BY ArrayTableAssumption
<1>2. QED
  BY <1>1 DEF PinPatternSize

LEMMA NumSnapshotsType ==
  ASSUME NEW length \in CteLength, NEW slot \in SlotDuration, NEW pins \in Nat \ {0}
  PROVE  NumSnapshots(length, slot, pins) \in UInt8
<1>1. (length * 8 - 4 - 8) \div (slot * 2) \in Int
  BY DEF CteLength, SlotDuration
<1>2. ASSUME NEW n \in Int PROVE (n \div pins) % 256 \in UInt8
  <2>1. n \div pins \in Int
    OBVIOUS
  <2>2. QED
    BY <2>1 DEF UInt8
<1>3. QED
  BY <1>1, <1>2 DEF NumSnapshots

LEMMA FinalizeConfigCorrect ==
  ASSUME NEW s \in ConfigRecords
  PROVE  LET f == FinalizeConfig(s)
         IN  /\ f \in ConfigRecords
             /\ Finalized(f)
             /\ f.array = s.array
<1> DEFINE pins == PinPatternSize(s.array.array_type)
           n == NumSnapshots(s.cte_min_length, s.cte_slot_duration, pins)
           rows == IF s.sample_rows # n \/ s.sample_cols # pins
                   THEN n ELSE s.sample_rows
           cols == IF s.sample_rows # n \/ s.sample_cols # pins
                   THEN pins ELSE s.sample_cols
<1>0. /\ s.array.array_type \in ArrayType
      /\ s.cte_min_length \in CteLength
      /\ s.cte_slot_duration \in SlotDuration
  <2>1. /\ s.array \in AntennaArrays
        /\ s.cte_min_length \in CteLength
        /\ s.cte_slot_duration \in SlotDuration
    BY DEF ConfigRecords
  <2>2. QED
    BY <2>1, ArrayTyped
<1>1. pins \in Nat \ {0}
  BY <1>0, PinPatternSizeType
<1>2. n \in UInt8
  <2> HIDE DEF pins
  <2>1. QED
    BY <1>0, <1>1, NumSnapshotsType
<1>3. rows = n /\ cols = pins
  OBVIOUS
<1>4. FinalizeConfig(s) =
        [s EXCEPT !.num_snapshots = n, !.sample_rows = rows, !.sample_cols = cols]
  BY DEF FinalizeConfig
<1> HIDE DEF n, rows, cols, pins
<1>5. /\ FinalizeConfig(s) \in ConfigRecords
      /\ FinalizeConfig(s).array = s.array
      /\ FinalizeConfig(s).cte_min_length = s.cte_min_length
      /\ FinalizeConfig(s).cte_slot_duration = s.cte_slot_duration
      /\ FinalizeConfig(s).num_snapshots = n
      /\ FinalizeConfig(s).sample_rows = rows
      /\ FinalizeConfig(s).sample_cols = cols
  <2>1. n \in UInt8 /\ rows \in UInt8 /\ cols \in Nat
    BY <1>1, <1>2, <1>3
  <2>2. ASSUME NEW i \in UInt8, NEW j \in UInt8, NEW k \in Nat
        PROVE  [s EXCEPT !.num_snapshots = i, !.sample_rows = j, !.sample_cols = k]
                 \in ConfigRecords
    BY DEF ConfigRecords
  <2>3. [s EXCEPT !.num_snapshots = n, !.sample_rows = rows, !.sample_cols = cols]
          \in ConfigRecords
    BY <2>1, <2>2
  <2>4. QED
    BY <1>4, <2>3 DEF ConfigRecords
<1>6. QED
  BY <1>3, <1>5 DEF Finalized, n, pins

LEMMA FinalizeKeepsTimeout ==
  ASSUME NEW s \in ConfigRecords
  PROVE  FinalizeConfig(s).angle_correction_timeout = s.angle_correction_timeout
BY DEF FinalizeConfig, ConfigRecords

LEMMA DefaultConfigCorrect ==
  /\ DefaultConfig \in ConfigRecords
  /\ Finalized(DefaultConfig)
  /\ ArrayIsVariant(DefaultConfig)
  /\ DefaultConfig.angle_correction_timeout = DefaultTimeout
<1> DEFINE s ==
      [report_mode                |-> "ANGLE_REPORT",
       antenna_switch_pattern_set |-> FALSE,
       array                      |-> InitArray(DefaultType),
       angle_filtering            |-> TRUE,
       angle_correction_timeout   |-> DefaultTimeout,
       angle_correction_delay     |-> DefaultDelay,
       cte_min_length             |-> DefaultLength,
       cte_slot_duration          |-> DefaultSlot,
       num_snapshots              |-> 0,
       sample_rows                |-> 0,
       sample_cols                |-> 0]
<1>1. /\ InitArray(DefaultType) \in AntennaArrays
      /\ InitArray(DefaultType).array_type = DefaultType
      /\ IsVariant(DefaultType, InitArray(DefaultType).pattern)
  BY LocatorAssumption, InitIsVariant DEF AntennaArrays, ArraysOf
<1>2. 0 \in UInt8 /\ 0 \in Nat /\ "ANGLE_REPORT" \in ReportMode
  BY DEF UInt8, ReportMode
<1>3. s \in ConfigRecords
  BY <1>1, <1>2, LocatorAssumption, Zenon DEF ConfigRecords
<1>4. DefaultConfig = FinalizeConfig(s)
  BY DEF DefaultConfig
<1>5. s.array = InitArray(DefaultType) /\ s.angle_correction_timeout = DefaultTimeout
  OBVIOUS
<1> HIDE DEF s
<1>6. QED
  BY <1>1, <1>3, <1>4, <1>5, FinalizeConfigCorrect, FinalizeKeepsTimeout DEF ArrayIsVariant

LEMMA GivenType ==
  ASSUME NEW S, NEW x \in Optional(S), NEW d \in S
  PROVE  Given(x, d) \in S
BY DEF Given, Optional

(* Whatever a configuration makes of the array has the type it asks for    *)
(* and is a variant of it.                                                 *)
LEMMA ParsedArrayIsVariant ==
  ASSUME NEW s \in ConfigRecords, ArrayIsVariant(s),
         NEW mode, NEW t \in ArrayType,
         NEW a \in ReinitialisedArrays(s, mode, t)
  PROVE  a \in ArraysOf(t) /\ IsVariant(t, a.pattern)
<1>1. CASE /\ t = s.array.array_type
           /\ ~(~s.antenna_switch_pattern_set /\ mode # s.report_mode)
  <2>1. a = s.array
    BY <1>1 DEF ReinitialisedArrays
  <2>2. s.array \in AntennaArrays
    BY DEF ConfigRecords
  <2>3. QED
    BY <1>1, <2>1, <2>2, ArrayTyped DEF ArrayIsVariant
<1>2. CASE \/ t # s.array.array_type
           \/ ~s.antenna_switch_pattern_set /\ mode # s.report_mode
  <2>1. a \in ShuffledArrays(InitArray(t)) \/ a = InitArray(t)
    BY <1>2 DEF ReinitialisedArrays
  <2>2. QED
    BY <2>1, InitIsVariant, ShuffleKeepsVariant
<1>3. QED
  BY <1>1, <1>2

LEMMA AcceptedPatternIsVariant ==
  ASSUME NEW c, IsConfig(c), NEW t \in ArrayType,
         c.antennaArray # Absent, AcceptsPattern(t, c.antennaArray)
  PROVE  /\ [array_type |-> t, pattern |-> c.antennaArray] \in ArraysOf(t)
         /\ IsVariant(t, c.antennaArray)
<1>1. PICK n \in UInt8 : c.antennaArray \in [0 .. n - 1 -> Antenna]
  BY DEF IsConfig
<1>2. c.antennaArray \in [DOMAIN c.antennaArray -> Antenna]
  BY <1>1
<1>3. c.antennaArray \in Patterns(t)
  BY <1>2 DEF AcceptsPattern, Patterns
<1>4. QED
  BY <1>3 DEF AcceptsPattern, ArraysOf

LEMMA ParsedConfigsCorrect ==
  ASSUME NEW s \in ConfigRecords, ArrayIsVariant(s),
         NEW c \in Configs, NEW f \in ParsedConfigs(s, c)
  PROVE  /\ f \in ConfigRecords /\ Finalized(f) /\ ArrayIsVariant(f)
         /\ f.angle_correction_timeout =
              Given(c.angleCorrectionTimeout, s.angle_correction_timeout)
<1> DEFINE mode == Given(c.reportMode, s.report_mode)
           type == Given(c.antennaMode, s.array.array_type)
           overridden == c.antennaArray # Absent /\ AcceptsPattern(type, c.antennaArray)
           was_set == s.antenna_switch_pattern_set /\ type = s.array.array_type
           arrays == IF overridden
                     THEN {[array_type |-> type, pattern |-> c.antennaArray]}
                     ELSE ReinitialisedArrays(s, mode, type)
           Raw(array) ==
             [s EXCEPT
                !.report_mode = mode,
                !.antenna_switch_pattern_set = overridden \/ was_set,
                !.array = array,
                !.angle_filtering = Given(c.angleFiltering, @),
                !.angle_correction_timeout = Given(c.angleCorrectionTimeout, @),
                !.angle_correction_delay = Given(c.angleCorrectionDelay, @),
                !.cte_min_length = Given(c.cteLength, @),
                !.cte_slot_duration = Given(c.slotDuration, @)]
<1>1. IsConfig(c)
  BY LocatorAssumption
<1>2. /\ s.report_mode \in ReportMode
      /\ s.array \in AntennaArrays
      /\ s.angle_filtering \in BOOLEAN
      /\ s.angle_correction_timeout \in UInt16
      /\ s.angle_correction_delay \in UInt16
      /\ s.cte_min_length \in CteLength
      /\ s.cte_slot_duration \in SlotDuration
  BY DEF ConfigRecords
<1>3. mode \in ReportMode /\ type \in ArrayType
  BY <1>1, <1>2, ArrayTyped, GivenType DEF IsConfig
<1>4. /\ Given(c.angleFiltering, s.angle_filtering) \in BOOLEAN
      /\ Given(c.angleCorrectionTimeout, s.angle_correction_timeout) \in UInt16
      /\ Given(c.angleCorrectionDelay, s.angle_correction_delay) \in UInt16
      /\ Given(c.cteLength, s.cte_min_length) \in CteLength
      /\ Given(c.slotDuration, s.cte_slot_duration) \in SlotDuration
  BY <1>1, <1>2, GivenType DEF IsConfig
<1>5. PICK array \in arrays : f = FinalizeConfig(Raw(array))
  BY DEF ParsedConfigs
<1>6. array \in ArraysOf(type) /\ IsVariant(type, array.pattern)
  <2>1. CASE overridden
    BY <1>1, <1>3, <1>5, <2>1, AcceptedPatternIsVariant
  <2>2. CASE ~overridden
    BY <1>3, <1>5, <2>2, ParsedArrayIsVariant
  <2>3. QED
    BY <2>1, <2>2
<1>7. array \in AntennaArrays /\ array.array_type = type
  BY <1>3, <1>6 DEF AntennaArrays, ArraysOf
<1>8. (overridden \/ was_set) \in BOOLEAN
  OBVIOUS
<1> HIDE DEF mode, type, overridden, was_set, arrays
<1>9. Raw(array) \in ConfigRecords /\ Raw(array).array = array
  BY <1>3, <1>4, <1>7, <1>8, Zenon DEF ConfigRecords
<1>10. Raw(array).angle_correction_timeout =
          Given(c.angleCorrectionTimeout, s.angle_correction_timeout)
  BY DEF ConfigRecords
<1> HIDE DEF Raw
<1>11. QED
  BY <1>5, <1>6, <1>7, <1>9, <1>10, FinalizeConfigCorrect, FinalizeKeepsTimeout
     DEF ArrayIsVariant

-----------------------------------------------------------------------------
(* The tag database.                                                       *)

Entries == Entry({0}, Tag)

(* The address is that of an entry.                                        *)
Holds(d, t) == \E i \in 1 .. Len(d) : d[i].address = t

LEMMA LookupFindsHolder ==
  ASSUME NEW d \in Seq(Entries), NEW t
  PROVE  GetTagByAddress(d, t) # 0 <=> Holds(d, t)
<1> DEFINE I == {i \in 1 .. Len(d) : d[i].address = t}
<1>1. GetTagByAddress(d, t) = IF I # {} THEN Min(I) ELSE 0
  BY DEF GetTagByAddress, SelectInSeq
<1>2. I \subseteq 1 .. Len(d) /\ I \subseteq Nat
  OBVIOUS
<1>3. I # {} => Min(I) \in I
  <2>1. I # {} => \E x \in I : \A y \in I : x <= y
    BY <1>2, LeastNat
  <2> HIDE DEF I
  <2>2. QED
    BY <2>1, Zenon DEF Min
<1>4. Holds(d, t) <=> I # {}
  BY DEF Holds
<1> HIDE DEF I
<1>5. 0 \notin I
  BY <1>2
<1>6. QED
  BY <1>1, <1>3, <1>4, <1>5

(* Adding a tag puts its entry before the others.                          *)
LEMMA AddTagPrepends ==
  ASSUME NEW d \in Seq(Entries), NEW t \in Tag
  PROVE  LET n == AddTag(d, 0, t)
         IN  /\ n \in Seq(Entries)
             /\ Len(n) = Len(d) + 1
             /\ n[1].address = t
             /\ \A i \in 2 .. Len(d) + 1 : n[i] = d[i - 1]
<1>1. NewEntry(0, t) \in Entries /\ NewEntry(0, t).address = t
  BY DEF NewEntry, Entries, Entry, ConnectionState
<1>2. <<NewEntry(0, t)>> \in Seq(Entries) /\ Len(<<NewEntry(0, t)>>) = 1
  BY <1>1
<1>3. /\ AddTag(d, 0, t) \in Seq(Entries)
      /\ Len(AddTag(d, 0, t)) = 1 + Len(d)
      /\ \A i \in 1 .. 1 + Len(d) : AddTag(d, 0, t)[i] =
            IF i <= 1 THEN <<NewEntry(0, t)>>[i] ELSE d[i - 1]
  BY <1>2, ConcatProperties DEF AddTag
<1>4. Len(d) \in Nat
  OBVIOUS
<1>5. QED
  BY <1>1, <1>3, <1>4

LEMMA AddTagHolds ==
  ASSUME NEW d \in Seq(Entries), NEW t \in Tag, NEW u
  PROVE  Holds(AddTag(d, 0, t), u) <=> Holds(d, u) \/ u = t
<1> DEFINE n == AddTag(d, 0, t)
<1>1. /\ Len(d) \in Nat
      /\ Len(n) = Len(d) + 1
      /\ n[1].address = t
      /\ \A i \in 2 .. Len(d) + 1 : n[i] = d[i - 1]
  BY AddTagPrepends
<1> HIDE DEF n
<1>2. \A j \in 1 .. Len(d) : n[j + 1] = d[j]
  BY <1>1
<1>3. Holds(n, u) => Holds(d, u) \/ u = t
  BY <1>1 DEF Holds
<1>4. u = t => Holds(n, u)
  BY <1>1 DEF Holds
<1>5. Holds(d, u) => Holds(n, u)
  <2>1. SUFFICES ASSUME NEW j \in 1 .. Len(d), d[j].address = u PROVE Holds(n, u)
    BY DEF Holds
  <2>2. j + 1 \in 1 .. Len(n) /\ n[j + 1].address = u
    BY <1>1, <1>2, <2>1
  <2>3. QED
    BY <2>2 DEF Holds
<1>6. QED
  BY <1>3, <1>4, <1>5 DEF n

(* No two entries have the same address.                                   *)
Distinct(d) ==
  \A i, j \in 1 .. Len(d) : d[i].address = d[j].address => i = j

LEMMA AddTagDistinct ==
  ASSUME NEW d \in Seq(Entries), NEW t \in Tag, Distinct(d), ~Holds(d, t)
  PROVE  Distinct(AddTag(d, 0, t))
<1> DEFINE n == AddTag(d, 0, t)
<1>1. /\ Len(d) \in Nat
      /\ Len(n) = Len(d) + 1
      /\ n[1].address = t
      /\ \A i \in 2 .. Len(d) + 1 : n[i] = d[i - 1]
  BY AddTagPrepends
<1> HIDE DEF n
<1>2. SUFFICES ASSUME NEW i \in 1 .. Len(n), NEW j \in 1 .. Len(n),
                      n[i].address = n[j].address
               PROVE  i = j
  BY DEF Distinct, n
<1>3. \A k \in 2 .. Len(n) : k - 1 \in 1 .. Len(d) /\ n[k].address # t
                            /\ n[k].address = d[k - 1].address
  BY <1>1 DEF Holds
<1>4. CASE i = 1 \/ j = 1
  BY <1>1, <1>2, <1>3, <1>4
<1>5. CASE i # 1 /\ j # 1
  <2>1. i - 1 = j - 1
    BY <1>1, <1>2, <1>3, <1>5 DEF Distinct
  <2>2. QED
    BY <1>1, <2>1
<1>6. QED
  BY <1>4, <1>5

-----------------------------------------------------------------------------
(* The inductive invariant.                                                *)

(* An estimator was built from the configuration s.                        *)
Built(e, s) ==
  /\ e.array_type = s.array.array_type
  /\ e.pattern = ContinuousPattern(s.array)
  /\ e.snapshots = s.num_snapshots
  /\ e.filtered = s.angle_filtering

EstimatorsBuilt == \A t \in Tag : state[t] # None => Built(state[t], config)

ReceiverFollows == ~resetting => booted /\ receiver = Receiver(config)

EmptyBeforeBoot == ~booted => db = <<>> /\ \A t \in Tag : state[t] = None

AllAllowed ==
  \A i \in 1 .. Len(db) : AllowlistFind(allowlist, db[i].address) # "NOT_FOUND"

StateFollowsDb == \A t \in Tag : state[t] # None <=> Holds(db, t)

IInv ==
  /\ TypeOK
  /\ ArrayIsVariant(config)
  /\ Finalized(config)
  /\ EstimatorsBuilt
  /\ ReceiverFollows
  /\ EmptyBeforeBoot
  /\ AllAllowed
  /\ StateFollowsDb
  /\ Distinct(db)

LEMMA EmptyDb ==
  /\ <<>> \in Seq(Entries)
  /\ Len(<<>>) = 0
  /\ \A t : ~Holds(<<>>, t)
  /\ Distinct(<<>>)
BY DEF Holds, Distinct

LEMMA InitInvariant == Init => IInv
<1> SUFFICES ASSUME Init PROVE IInv
  OBVIOUS
<1> USE DEF Init
<1>1. TypeOK
  BY DefaultConfigCorrect, EmptyDb DEF TypeOK, Entries
<1>2. ArrayIsVariant(config) /\ Finalized(config)
  BY DefaultConfigCorrect
<1>3. EstimatorsBuilt /\ ReceiverFollows /\ EmptyBeforeBoot
  BY DEF EstimatorsBuilt, ReceiverFollows, EmptyBeforeBoot
<1>4. AllAllowed /\ StateFollowsDb /\ Distinct(db)
  BY EmptyDb DEF AllAllowed, StateFollowsDb
<1>5. QED
  BY <1>1, <1>2, <1>3, <1>4 DEF IInv

(* With an empty database nothing is said of tags and estimators.          *)
LEMMA EmptyInvariant ==
  ASSUME booted' \in BOOLEAN, resetting' \in BOOLEAN,
         config' \in ConfigRecords, ArrayIsVariant(config'), Finalized(config'),
         db' = <<>>, state' = [t \in Tag |-> None],
         ReceiverFollows'
  PROVE  IInv'
<1>1. TypeOK'
  BY EmptyDb DEF TypeOK, Entries
<1>2. EstimatorsBuilt' /\ EmptyBeforeBoot'
  BY DEF EstimatorsBuilt, EmptyBeforeBoot
<1>3. AllAllowed' /\ StateFollowsDb' /\ Distinct(db)'
  BY EmptyDb DEF AllAllowed, StateFollowsDb
<1>4. QED
  BY <1>1, <1>2, <1>3 DEF IInv

LEMMA ParseConfigStep ==
  ASSUME IInv, NEW c \in Configs \cup {Absent}, ParseConfig(c)
  PROVE  /\ config' \in ConfigRecords
         /\ ArrayIsVariant(config')
         /\ Finalized(config')
<1>1. config \in ConfigRecords /\ ArrayIsVariant(config) /\ Finalized(config)
  BY DEF IInv, TypeOK
<1>2. CASE c = Absent
  BY <1>1, <1>2 DEF ParseConfig
<1>3. CASE c # Absent
  BY <1>1, <1>3, ParsedConfigsCorrect DEF ParseConfig
<1>4. QED
  BY <1>2, <1>3

(* The configuration of the first boot, before a configuration file.       *)
LEMMA ShuffledDefaultCorrect ==
  ASSUME NEW array \in ShuffledArrays(DefaultConfig.array)
  PROVE  LET shuffled == [DefaultConfig EXCEPT !.array = array]
         IN  /\ shuffled \in ConfigRecords
             /\ ArrayIsVariant(shuffled)
             /\ Finalized(shuffled)
             /\ shuffled.angle_correction_timeout = DefaultTimeout
<1> DEFINE default == DefaultConfig
           type == default.array.array_type
<1>1. /\ default \in ConfigRecords /\ Finalized(default) /\ ArrayIsVariant(default)
      /\ default.angle_correction_timeout = DefaultTimeout
  BY DefaultConfigCorrect
<1> HIDE DEF default
<1>2. default.array \in AntennaArrays
  BY <1>1 DEF ConfigRecords
<1>3. type \in ArrayType /\ default.array \in ArraysOf(type)
  BY <1>2, ArrayTyped
<1>4. array \in ArraysOf(type) /\ IsVariant(type, array.pattern)
  BY <1>1, <1>3, ShuffleKeepsVariant DEF ArrayIsVariant, default
<1>5. array \in AntennaArrays /\ array.array_type = type
  BY <1>3, <1>4 DEF AntennaArrays, ArraysOf
<1>6. [default EXCEPT !.array = array] \in ConfigRecords
  BY <1>1, <1>5, Zenon DEF ConfigRecords
<1>7. Finalized([default EXCEPT !.array = array])
  BY <1>1, <1>5 DEF Finalized, ConfigRecords
<1>8. ArrayIsVariant([default EXCEPT !.array = array])
  BY <1>1, <1>4, <1>5 DEF ArrayIsVariant, ConfigRecords
<1>9. [default EXCEPT !.array = array].angle_correction_timeout = DefaultTimeout
  BY <1>1 DEF ConfigRecords
<1>10. QED
  BY <1>6, <1>7, <1>8, <1>9 DEF default

LEMMA FirstBootStep ==
  ASSUME IInv, NEW c \in Configs \cup {Absent}, FirstBoot(c)
  PROVE  IInv'
<1>1. /\ booted' = TRUE /\ resetting' = FALSE
      /\ receiver' = Receiver(config')
      /\ db' = <<>> /\ state' = [t \in Tag |-> None]
  BY DEF FirstBoot, IInv, EmptyBeforeBoot, TypeOK
<1>2. PICK array \in ShuffledArrays(DefaultConfig.array) :
        LET shuffled == [DefaultConfig EXCEPT !.array = array]
        IN  IF c = Absent
            THEN config' = shuffled /\ allowlist' = allowlist
            ELSE /\ config' \in ParsedConfigs(shuffled, c)
                 /\ allowlist' = ParsedAllowlist(allowlist, c)
  BY DEF FirstBoot
<1> DEFINE shuffled == [DefaultConfig EXCEPT !.array = array]
<1>3. /\ shuffled \in ConfigRecords
      /\ ArrayIsVariant(shuffled)
      /\ Finalized(shuffled)
  BY <1>2, ShuffledDefaultCorrect
<1> HIDE DEF shuffled
<1>4. config' \in ConfigRecords /\ ArrayIsVariant(config') /\ Finalized(config')
  <2>1. CASE c = Absent
    BY <1>2, <1>3, <2>1 DEF shuffled
  <2>2. CASE c # Absent
    <3>1. config' \in ParsedConfigs(shuffled, c) /\ c \in Configs
      BY <1>2, <2>2 DEF shuffled
    <3>2. QED
      BY <1>3, <3>1, ParsedConfigsCorrect
  <2>3. QED
    BY <2>1, <2>2
<1>5. ReceiverFollows'
  BY <1>1 DEF ReceiverFollows
<1>6. QED
  BY <1>1, <1>4, <1>5, EmptyInvariant

LEMMA OnConfigMessageStep ==
  ASSUME IInv, NEW c \in Configs \cup {Absent}, OnConfigMessage(c)
  PROVE  IInv'
<1>1. /\ booted' = booted /\ resetting' = TRUE
      /\ ParseConfig(c)
      /\ db' = <<>> /\ state' = [t \in Tag |-> None]
  BY DEF OnConfigMessage, ParseConfig
<1>2. config' \in ConfigRecords /\ ArrayIsVariant(config') /\ Finalized(config')
  BY <1>1, ParseConfigStep
<1>3. booted' \in BOOLEAN /\ ReceiverFollows'
  BY <1>1 DEF IInv, TypeOK, ReceiverFollows
<1>4. QED
  BY <1>1, <1>2, <1>3, EmptyInvariant

LEMMA LaterBootStep ==
  ASSUME IInv, LaterBoot
  PROVE  IInv'
<1> USE DEF LaterBoot, IInv
<1>1. TypeOK' /\ ArrayIsVariant(config)' /\ Finalized(config)'
  BY DEF TypeOK, ArrayIsVariant, Finalized
<1>2. EstimatorsBuilt' /\ EmptyBeforeBoot' /\ AllAllowed' /\ StateFollowsDb'
  BY DEF EstimatorsBuilt, EmptyBeforeBoot, AllAllowed, StateFollowsDb, Holds
<1>3. Distinct(db)'
  BY DEF Distinct
<1>4. ReceiverFollows'
  BY DEF ReceiverFollows
<1>5. QED
  BY <1>1, <1>2, <1>3, <1>4

SameEstimator(e, f) ==
  /\ e.array_type = f.array_type
  /\ e.pattern = f.pattern
  /\ e.snapshots = f.snapshots
  /\ e.filtered = f.filtered

LEMMA NewStateBuilt ==
  ASSUME NEW s \in ConfigRecords, ArrayIsVariant(s)
  PROVE  NewState(s) \in States /\ Built(NewState(s), s)
<1>1. /\ s.array \in AntennaArrays
      /\ s.num_snapshots \in UInt8
      /\ s.angle_filtering \in BOOLEAN
  BY DEF ConfigRecords
<1>2. s.array.array_type \in ArrayType
  BY <1>1, ArrayTyped
<1>3. ContinuousPattern(s.array) \in [Slots(s.array.array_type) -> Slots(s.array.array_type)]
  BY <1>1, <1>2, ArrayTyped, ContinuousPatternDecodes DEF ArrayIsVariant
<1>4. ContinuousPattern(s.array) \in UNION {[Slots(t) -> Slots(t)] : t \in ArrayType}
  BY <1>2, <1>3
<1>5. 0 \in UInt8 /\ -1 \in Sequence \cup {-1} /\ None \in Sequence \cup {None}
  BY DEF UInt8
<1>6. QED
  BY <1>1, <1>2, <1>4, <1>5, Zenon DEF NewState, States, Built

LEMMA CalculatedKeepsEstimator ==
  ASSUME NEW e \in States, NEW n \in Sequence
  PROVE  Calculated(e, n) \in States /\ SameEstimator(Calculated(e, n), e)
<1> DEFINE k == IF e.correction_timeout > 0 THEN e.correction_timeout - 1 ELSE 0
           x == IF e.correction_timeout = 1 THEN None ELSE e.expected
<1>1. Calculated(e, n) =
        [e EXCEPT !.sequence = n, !.correction_timeout = k, !.expected = x]
  BY DEF Calculated
<1>2. e.correction_timeout \in UInt8 /\ e.expected \in Sequence \cup {None}
  BY DEF States
<1>3. k \in UInt8 /\ x \in Sequence \cup {None} /\ n \in Sequence \cup {-1}
  BY <1>2 DEF UInt8
<1> HIDE DEF k, x
<1>4. [e EXCEPT !.sequence = n, !.correction_timeout = k, !.expected = x] \in States
  BY <1>3, Zenon DEF States
<1>5. SameEstimator([e EXCEPT !.sequence = n, !.correction_timeout = k, !.expected = x], e)
  BY DEF States, SameEstimator
<1>6. QED
  BY <1>1, <1>4, <1>5, Zenon

LEMMA UInt16Integers ==
  ASSUME NEW i \in UInt16
  PROVE  i \in Int /\ ~(INT32_MAX <= i)
<1> DEFINE m == 256 * 256 - 1
<1>1. i \in 0 .. m
  BY DEF UInt16
<1>2. m \in Int /\ m < 66000
  OBVIOUS
<1> HIDE DEF m
<1>3. i \in Int /\ i <= m
  BY <1>1, <1>2
<1>4. INT32_MAX \in Int /\ 66000 < INT32_MAX
  BY SMT DEF INT32_MAX
<1>5. QED
  BY <1>2, <1>3, <1>4

LEMMA CorrectedKeepsEstimator ==
  ASSUME NEW e \in States, NEW s \in ConfigRecords, NEW n \in Sequence
  PROVE  Corrected(e, s, n) \in States /\ SameEstimator(Corrected(e, s, n), e)
<1> DEFINE k == s.angle_correction_timeout % 256
<1>1. s.angle_correction_timeout \in UInt16
  BY DEF ConfigRecords
<1>2. k \in UInt8
  <2>1. s.angle_correction_timeout \in Int
    BY <1>1, UInt16Integers
  <2>2. ASSUME NEW i \in Int PROVE i % 256 \in UInt8
    BY DEF UInt8
  <2>3. QED
    BY <2>1, <2>2
<1>3. Corrected(e, s, n) = [e EXCEPT !.expected = n, !.correction_timeout = k]
  BY DEF Corrected
<1>4. n \in Sequence \cup {None}
  OBVIOUS
<1> HIDE DEF k
<1>5. QED
  BY <1>2, <1>3, <1>4 DEF States, SameEstimator

(* Replacing the estimator of a tag that has one by the same, with other   *)
(* counters, disturbs nothing.                                             *)
LEMMA UpdateStep ==
  ASSUME IInv, NEW t \in Tag, state[t] # None, NEW e \in States,
         SameEstimator(e, state[t]), state' = [state EXCEPT ![t] = e],
         UNCHANGED <<booted, resetting, config, receiver, allowlist, db>>
  PROVE  IInv'
<1> USE DEF IInv
<1>1. e # None
  BY NoneAssumption
<1>2. state \in [Tag -> States \cup {None}]
  BY DEF TypeOK
<1>3. \A u \in Tag : state'[u] = IF u = t THEN e ELSE state[u]
  BY <1>2
<1>4. TypeOK'
  BY <1>2 DEF TypeOK
<1>5. EstimatorsBuilt'
  BY <1>3 DEF EstimatorsBuilt, Built, SameEstimator
<1>6. EmptyBeforeBoot'
  BY <1>3 DEF EmptyBeforeBoot
<1>7. StateFollowsDb'
  BY <1>1, <1>3 DEF StateFollowsDb, Holds
<1>8. AllAllowed' /\ ReceiverFollows'
  BY DEF AllAllowed, ReceiverFollows
<1>9. ArrayIsVariant(config)' /\ Finalized(config)' /\ Distinct(db)'
  BY DEF ArrayIsVariant, Finalized, Distinct
<1>10. QED
  BY <1>4, <1>5, <1>6, <1>7, <1>8, <1>9

LEMMA OnIqReportStep ==
  ASSUME IInv, NEW t \in Tag, NEW n \in Sequence, NEW estimated \in BOOLEAN,
         OnIqReport(t, n, estimated)
  PROVE  IInv'
<1> DEFINE known == GetTagByAddress(db, t) # 0
           entry == IF known THEN state[t] ELSE NewState(config)
           e == Reported(entry, n, estimated)
<1>1. /\ booted /\ ~resetting
      /\ config \in ConfigRecords
      /\ db \in Seq(Entries)
      /\ state \in [Tag -> States \cup {None}]
  BY DEF OnIqReport, IInv, TypeOK, ReceiverFollows, Entries
<1>2. /\ db' = IF known THEN db ELSE AddTag(db, 0, t)
      /\ state' = [state EXCEPT ![t] = e]
      /\ AllowlistFind(allowlist, t) # "NOT_FOUND"
      /\ UNCHANGED <<booted, resetting, config, receiver, allowlist>>
  BY DEF OnIqReport
<1>3. known <=> Holds(db, t)
  BY <1>1, LookupFindsHolder
<1>4. entry \in States /\ Built(entry, config)
  <2>1. CASE known
    BY <1>1, <1>3, <2>1 DEF IInv, StateFollowsDb, EstimatorsBuilt
  <2>2. CASE ~known
    BY <1>1, <2>2, NewStateBuilt DEF IInv
  <2>3. QED
    BY <2>1, <2>2
<1> HIDE DEF entry
<1>5. e \in States /\ SameEstimator(e, entry)
  BY <1>4, CalculatedKeepsEstimator DEF Reported, SameEstimator
<1> HIDE DEF e, known
<1>6. CASE known
  <2>1. entry = state[t] /\ db' = db
    BY <1>2, <1>6 DEF entry, known
  <2>2. state[t] # None
    BY <1>3, <1>6 DEF IInv, StateFollowsDb
  <2>3. QED
    BY <1>2, <1>5, <2>1, <2>2, UpdateStep
<1>7. CASE ~known
  <2>1. /\ ~Holds(db, t)
        /\ db' = AddTag(db, 0, t)
        /\ db' \in Seq(Entries)
        /\ Len(db) \in Nat
        /\ Len(db') = Len(db) + 1
        /\ db'[1].address = t
        /\ \A i \in 2 .. Len(db) + 1 : db'[i] = db[i - 1]
    BY <1>1, <1>2, <1>3, <1>7, AddTagPrepends
  <2>2. \A u : Holds(db', u) <=> Holds(db, u) \/ u = t
    BY <1>1, <2>1, AddTagHolds
  <2>3. Distinct(db')
    BY <1>1, <2>1, AddTagDistinct DEF IInv
  <2>4. e # None /\ Built(e, config)
    BY <1>4, <1>5, NoneAssumption DEF Built, SameEstimator
  <2>5. \A u \in Tag : state'[u] = IF u = t THEN e ELSE state[u]
    BY <1>1, <1>2
  <2>6. TypeOK'
    BY <1>1, <1>2, <1>5, <2>1 DEF IInv, TypeOK, Entries
  <2>7. EstimatorsBuilt'
    BY <1>2, <2>4, <2>5 DEF IInv, EstimatorsBuilt, Built
  <2>8. StateFollowsDb'
    BY <2>2, <2>4, <2>5 DEF IInv, StateFollowsDb
  <2>9. AllAllowed'
    <3>1. ASSUME NEW i \in 1 .. Len(db')
          PROVE  \/ db'[i].address = t
                 \/ i - 1 \in 1 .. Len(db) /\ db'[i] = db[i - 1]
      BY <2>1
    <3>2. QED
      BY <1>2, <3>1 DEF IInv, AllAllowed
  <2>10. EmptyBeforeBoot' /\ ReceiverFollows'
    BY <1>1, <1>2 DEF IInv, EmptyBeforeBoot, ReceiverFollows
  <2>11. ArrayIsVariant(config)' /\ Finalized(config)'
    BY <1>2 DEF IInv, ArrayIsVariant, Finalized
  <2>12. QED
    BY <2>3, <2>6, <2>7, <2>8, <2>9, <2>10, <2>11 DEF IInv
<1>8. QED
  BY <1>6, <1>7

LEMMA OnCorrectionStep ==
  ASSUME IInv, NEW t \in Tag, NEW n \in Sequence, OnCorrection(t, n)
  PROVE  IInv'
<1> DEFINE e == Corrected(state[t], config, n)
<1>1. /\ config \in ConfigRecords
      /\ db \in Seq(Entries)
      /\ state \in [Tag -> States \cup {None}]
  BY DEF IInv, TypeOK, Entries
<1>2. /\ GetTagByAddress(db, t) # 0
      /\ state' = [state EXCEPT ![t] = e]
      /\ UNCHANGED <<booted, resetting, config, receiver, allowlist, db>>
  BY <1>1 DEF OnCorrection
<1>3. state[t] # None
  BY <1>1, <1>2, LookupFindsHolder DEF IInv, StateFollowsDb
<1>4. e \in States /\ SameEstimator(e, state[t])
  BY <1>1, <1>3, CorrectedKeepsEstimator
<1> HIDE DEF e
<1>5. QED
  BY <1>2, <1>3, <1>4, UpdateStep

LEMMA StepInvariant == IInv /\ [Next]_vars => IInv'
<1> SUFFICES ASSUME IInv, [Next]_vars PROVE IInv'
  OBVIOUS
<1>1. ASSUME NEW c \in Configs \cup {Absent}, FirstBoot(c) PROVE IInv'
  BY <1>1, FirstBootStep
<1>2. ASSUME NEW c \in Configs \cup {Absent}, OnConfigMessage(c) PROVE IInv'
  BY <1>2, OnConfigMessageStep
<1>3. CASE LaterBoot
  BY <1>3, LaterBootStep
<1>4. ASSUME NEW t \in Tag, NEW n \in Sequence, NEW estimated \in BOOLEAN,
             OnIqReport(t, n, estimated)
      PROVE  IInv'
  BY <1>4, OnIqReportStep
<1>5. ASSUME NEW t \in Tag, NEW n \in Sequence, OnCorrection(t, n) PROVE IInv'
  BY <1>5, OnCorrectionStep
<1>6. CASE UNCHANGED vars
  BY <1>6 DEF vars, IInv, TypeOK, ArrayIsVariant, Finalized, EstimatorsBuilt, Built,
     ReceiverFollows, EmptyBeforeBoot, AllAllowed, StateFollowsDb, Holds, Distinct
<1>7. QED
  BY <1>1, <1>2, <1>3, <1>4, <1>5, <1>6 DEF Next

LEMMA IInvAlways == Spec => []IInv
<1>1. QED
  BY InitInvariant, StepInvariant, PTL DEF Spec

-----------------------------------------------------------------------------
(* The theorems.                                                           *)

(* Type correctness of the locator application (app.c, aoa_angle.c).       *)
THEOREM TypeCorrect == Spec => []TypeOK
<1>1. IInv => TypeOK
  BY DEF IInv
<1>2. QED
  BY <1>1, IInvAlways, PTL

(* Whatever configurations parse_config reads, the pattern in force covers *)
(* a variant of its array, so that aoa_init_rtl finds its continuous       *)
(* pattern and aoa_db_on_tag_added does not abort.                         *)
THEOREM VariantAlways == Spec => []PatternIsVariant
<1>1. IInv => PatternIsVariant
  BY DEF IInv, ArrayIsVariant, PatternIsVariant
<1>2. QED
  BY <1>1, IInvAlways, PTL

(* The estimators read the samples in the order in which the co-processor  *)
(* switches the antennas (aoa_init_rtl and aoa_cte_bt_on_event).           *)
THEOREM ReceiverAgrees == Spec => []EstimatorMatchesReceiver
<1>1. IInv => EstimatorMatchesReceiver
  <2> DEFINE a == config.array
             type == a.array_type
             v == GetArrayVariant(type, a.pattern)
  <2>1. SUFFICES ASSUME IInv, ~resetting, NEW t \in Tag, state[t] # None
        PROVE  /\ \E w \in 0 .. array_variants[state[t].array_type] - 1 :
                    receiver.pins = PinPattern(
                      [array_type |-> state[t].array_type,
                       pattern    |-> [i \in Slots(state[t].array_type) |->
                          array_list[state[t].array_type][w][state[t].pattern[i]]]])
               /\ state[t].snapshots =
                    NumSnapshots(config.cte_min_length, receiver.slot,
                                 Cardinality(DOMAIN receiver.pins))
    BY DEF EstimatorMatchesReceiver
  <2>2. receiver.pins = PinPattern(a) /\ receiver.slot = config.cte_slot_duration
    BY <2>1 DEF IInv, ReceiverFollows, Receiver
  <2>3. /\ state[t].array_type = type
        /\ state[t].pattern = ContinuousPattern(a)
        /\ state[t].snapshots = config.num_snapshots
    BY <2>1 DEF IInv, EstimatorsBuilt, Built
  <2>4. a \in AntennaArrays /\ IsVariant(type, a.pattern)
    BY <2>1 DEF IInv, TypeOK, ConfigRecords, ArrayIsVariant
  <2>5. type \in ArrayType /\ a \in ArraysOf(type)
    BY <2>4, ArrayTyped
  <2>6. /\ v \in 0 .. array_variants[type] - 1
        /\ a = [array_type |-> type,
                pattern    |-> [i \in Slots(type) |->
                                  array_list[type][v][ContinuousPattern(a)[i]]]]
    BY <2>4, <2>5, ContinuousPatternDecodes
  <2>7. Cardinality(DOMAIN receiver.pins) = PinPatternSize(type)
    BY <2>2, <2>5, PinPatternLength
  <2>8. config.num_snapshots =
          NumSnapshots(config.cte_min_length, config.cte_slot_duration,
                       PinPatternSize(type))
    BY <2>1 DEF IInv, Finalized
  <2> HIDE DEF v
  <2>9. receiver.pins = PinPattern(
          [array_type |-> type,
           pattern    |-> [i \in Slots(type) |->
                             array_list[type][v][ContinuousPattern(a)[i]]]])
    BY <2>2, <2>6, Zenon
  <2> HIDE DEF a
  <2>10. QED
    BY <2>2, <2>3, <2>6, <2>7, <2>8, <2>9
<1>2. QED
  BY <1>1, IInvAlways, PTL

(* The shared sample buffers and the optional filter fit every estimator   *)
(* (allocate_sample_buffers, aoa_deinit_rtl).                              *)
THEOREM BuffersAgree == Spec => []EstimatorMatchesConfig
<1>1. IInv => EstimatorMatchesConfig
  BY DEF IInv, EstimatorMatchesConfig, EstimatorsBuilt, Built, Finalized
<1>2. QED
  BY <1>1, IInvAlways, PTL

(* The database holds each tag once and only allowed ones (the report case *)
(* of cte_silabs.c, parse_config).                                         *)
THEOREM AllowedAlways == Spec => []OnlyAllowedTags
<1>1. IInv => OnlyAllowedTags
  BY DEF IInv, OnlyAllowedTags, AllAllowed, StateFollowsDb, Holds, Distinct
<1>2. QED
  BY <1>1, IInvAlways, PTL

-----------------------------------------------------------------------------
(* Corrections.                                                            *)

(* The counter wraps at n.                                                 *)
LEMMA Wraps ==
  ASSUME NEW n \in Nat \ {0}, NEW a \in 0 .. n - 1, NEW b \in 0 .. n - 1
  PROVE  /\ a <= b => (a + (b - a)) % n = b
         /\ a <= b => (b + (n - (b - a))) % n = a
<1>1. a % n = a /\ b % n = b
  OBVIOUS
<1>2. (a + n) % n = a
  OBVIOUS
<1>3. a + (b - a) = b /\ b + (n - (b - a)) = a + n
  OBVIOUS
<1>4. QED
  BY <1>1, <1>2, <1>3

(* What aoa_sequence_compare returns is how many reports lie between two   *)
(* sequence numbers, one way round or the other, unless one is missing.    *)
LEMMA CompareIsDistance ==
  ASSUME NEW a \in Sequence \cup {-1}, NEW b \in Sequence, NEW limit \in UInt16,
         SequenceCompare(a, b) <= limit
  PROVE  \E k \in 0 .. limit :
           (a + k) % SequenceLimit = b \/ (b + k) % SequenceLimit = a
<1> DEFINE diff == Magnitude(b - a)
           half == SequenceLimit \div 2
           k == IF diff < half THEN diff ELSE SequenceLimit - diff
<1>1. SequenceLimit \in Nat \ {0} /\ limit \in Int /\ ~(INT32_MAX <= limit)
  <2>1. limit \in Int /\ ~(INT32_MAX <= limit)
    BY UInt16Integers
  <2>2. QED
    BY <2>1, LocatorAssumption
<1>2. half \in Int
  BY <1>1
<1> HIDE DEF half
<1>3. a # -1
  BY <1>1 DEF SequenceCompare
<1>4. a \in 0 .. SequenceLimit - 1 /\ b \in 0 .. SequenceLimit - 1
  BY <1>3 DEF Sequence
<1>5. ~(a < 0) /\ ~(b < 0)
  BY <1>1, <1>4
<1>6. SequenceCompare(a, b) = k
  BY <1>5 DEF SequenceCompare, half
<1>7. /\ a <= b => diff = b - a
      /\ b <= a => diff = a - b
      /\ a <= b \/ b <= a
  BY <1>1, <1>4 DEF Magnitude
<1> HIDE DEF diff
<1>8. k \in 0 .. limit
  BY <1>1, <1>2, <1>4, <1>6, <1>7
<1>9. (a + k) % SequenceLimit = b \/ (b + k) % SequenceLimit = a
  <2>1. CASE a <= b
    <3>1. /\ (a + (b - a)) % SequenceLimit = b
          /\ (b + (SequenceLimit - (b - a))) % SequenceLimit = a
      BY <1>1, <1>4, <2>1, Wraps
    <3>2. QED
      BY <1>7, <2>1, <3>1
  <2>2. CASE b <= a
    <3>1. /\ (b + (a - b)) % SequenceLimit = a
          /\ (a + (SequenceLimit - (a - b))) % SequenceLimit = b
      BY <1>1, <1>4, <2>2, Wraps
    <3>2. QED
      BY <1>7, <2>2, <3>1
  <2>3. QED
    BY <1>7, <2>1, <2>2
<1> HIDE DEF k
<1>10. QED
  BY <1>8, <1>9

(* What the handlers do to the expected direction.                         *)
LEMMA ReportedDirection ==
  ASSUME NEW e \in States, NEW n, NEW estimated
  PROVE  LET r == Reported(e, n, estimated)
         IN  /\ r.expected \in {None, e.expected}
             /\ r.expected # None /\ e.correction_timeout > 0 => r.correction_timeout > 0
<1>1. e.correction_timeout \in Nat
  BY DEF States, UInt8
<1>2. /\ Calculated(e, n).expected =
           IF e.correction_timeout = 1 THEN None ELSE e.expected
      /\ Calculated(e, n).correction_timeout =
           IF e.correction_timeout > 0 THEN e.correction_timeout - 1 ELSE 0
  BY DEF Calculated, States
<1>3. QED
  BY <1>1, <1>2 DEF Reported

LEMMA NewStateDirection ==
  ASSUME NEW s
  PROVE  NewState(s).expected = None
BY DEF NewState

LEMMA CorrectedDirection ==
  ASSUME NEW e \in States, NEW s, NEW n
  PROVE  /\ Corrected(e, s, n).expected = n
         /\ Corrected(e, s, n).correction_timeout = s.angle_correction_timeout % 256
BY DEF Corrected, States

(* The step of a report, as far as the expected direction is concerned.    *)
LEMMA OnIqReportDirection ==
  ASSUME IInv, NEW t \in Tag, NEW n, NEW estimated, OnIqReport(t, n, estimated), NEW u \in Tag,
         state'[u].expected # None
  PROVE  \/ state'[u] = state[u]
         \/ /\ state[u] # None
            /\ state'[u] = Reported(state[u], n, estimated)
<1>1. /\ state \in [Tag -> States \cup {None}] /\ db \in Seq(Entries)
      /\ config \in ConfigRecords /\ ArrayIsVariant(config)
  BY DEF IInv, TypeOK, Entries
<1>2. CASE u # t
  BY <1>1, <1>2 DEF OnIqReport
<1>3. CASE u = t /\ GetTagByAddress(db, t) # 0
  <2>1. state'[t] = Reported(state[t], n, estimated)
    BY <1>1, <1>3 DEF OnIqReport
  <2>2. state[t] # None
    BY <1>1, <1>3, LookupFindsHolder DEF IInv, StateFollowsDb
  <2>3. QED
    BY <1>3, <2>1, <2>2
<1>4. CASE u = t /\ GetTagByAddress(db, t) = 0
  <2>1. state'[t] = Reported(NewState(config), n, estimated)
    BY <1>1, <1>4 DEF OnIqReport
  <2>2. NewState(config) \in States /\ NewState(config).expected = None
    BY <1>1, NewStateBuilt, NewStateDirection
  <2>3. state'[t].expected = None
    BY <2>1, <2>2, ReportedDirection
  <2>4. QED
    BY <1>4, <2>3
<1>5. QED
  BY <1>2, <1>3, <1>4

LEMMA OnCorrectionDirection ==
  ASSUME IInv, NEW t \in Tag, NEW n \in Sequence, OnCorrection(t, n)
  PROVE  /\ state[t] \in States /\ config \in ConfigRecords
         /\ state'[t].expected = n
         /\ state'[t].correction_timeout = config.angle_correction_timeout % 256
         /\ \A u \in Tag : u # t => state'[u] = state[u]
<1>1. /\ state \in [Tag -> States \cup {None}] /\ db \in Seq(Entries)
      /\ config \in ConfigRecords /\ GetTagByAddress(db, t) # 0
      /\ state' = [state EXCEPT ![t] = Corrected(state[t], config, n)]
  BY DEF IInv, TypeOK, Entries, OnCorrection
<1>2. state[t] # None
  BY <1>1, LookupFindsHolder DEF IInv, StateFollowsDb
<1>3. state[t] \in States
  BY <1>1, <1>2
<1>4. state'[t] = Corrected(state[t], config, n)
  BY <1>1
<1>5. \A u \in Tag : u # t => state'[u] = state[u]
  BY <1>1
<1>6. QED
  BY <1>1, <1>3, <1>4, <1>5, CorrectedDirection

(* A configuration, or the first boot, leaves no estimator.                *)
LEMMA NoEstimatorLeft ==
  ASSUME IInv, NEW c, FirstBoot(c) \/ OnConfigMessage(c)
  PROVE  \A t \in Tag : state'[t] = None
BY DEF IInv, EmptyBeforeBoot, FirstBoot, OnConfigMessage, ParseConfig

(* A correction that comes too late, or for an entry that has had no angle *)
(* since a configuration emptied the database, is never applied: for every *)
(* counter width, and wherever the counter wraps (aoa_set_correction in    *)
(* app.c, aoa_sequence_compare).                                           *)
THEOREM OnlyRecentCorrections == Spec => CorrectionIsRecent
<1> DEFINE Recent ==
      \A t \in Tag :
        state[t] # None /\ state'[t] # None
          /\ state'[t].expected \notin {None, state[t].expected}
        => \E k \in 0 .. config.angle_correction_delay :
             \/ (state[t].sequence + k) % SequenceLimit = state'[t].expected
             \/ (state'[t].expected + k) % SequenceLimit = state[t].sequence
<1>1. IInv /\ [Next]_vars => [Recent]_vars
  <2> SUFFICES ASSUME IInv, Next PROVE Recent
    OBVIOUS
  <2>1. ASSUME NEW c, FirstBoot(c) \/ OnConfigMessage(c) PROVE Recent
    BY <2>1, NoEstimatorLeft
  <2>2. CASE LaterBoot
    BY <2>2 DEF LaterBoot
  <2>3. ASSUME NEW t \in Tag, NEW n, NEW estimated, OnIqReport(t, n, estimated) PROVE Recent
    <3> SUFFICES ASSUME NEW u \in Tag, state[u] # None,
                        state'[u].expected \notin {None, state[u].expected}
                 PROVE  FALSE
      OBVIOUS
    <3>1. state[u] \in States
      BY DEF IInv, TypeOK
    <3>2. QED
      BY <2>3, <3>1, OnIqReportDirection, ReportedDirection
  <2>4. ASSUME NEW t \in Tag, NEW n \in Sequence, OnCorrection(t, n) PROVE Recent
    <3>1. /\ state[t] \in States /\ config \in ConfigRecords
          /\ state'[t].expected = n /\ \A u \in Tag : u # t => state'[u] = state[u]
      BY <2>4, OnCorrectionDirection
    <3>2. /\ state[t].sequence \in Sequence \cup {-1}
          /\ config.angle_correction_delay \in UInt16
      BY <3>1 DEF States, ConfigRecords
    <3>3. SequenceCompare(state[t].sequence, n) <= config.angle_correction_delay
      BY <2>4 DEF OnCorrection
    <3>4. \E k \in 0 .. config.angle_correction_delay :
            \/ (state[t].sequence + k) % SequenceLimit = n
            \/ (n + k) % SequenceLimit = state[t].sequence
      BY <3>2, <3>3, CompareIsDistance
    <3>5. QED
      BY <3>1, <3>4
  <2>5. QED
    BY <2>1, <2>2, <2>3, <2>4 DEF Next
<1>2. QED
  BY <1>1, IInvAlways, PTL DEF CorrectionIsRecent, Spec

(* No timeout, of the default or of a configuration, is a multiple of 256, *)
(* which the uint8_t of aoa_set_correction would cut to 0.                 *)
TimeoutFits(n) == n % 256 # 0

TimeoutsFit ==
  /\ TimeoutFits(DefaultTimeout)
  /\ \A c \in Configs : c.angleCorrectionTimeout # Absent => TimeoutFits(c.angleCorrectionTimeout)

TimeoutInForceFits == TimeoutFits(config.angle_correction_timeout)

LEMMA ParsedTimeoutFits ==
  ASSUME TimeoutsFit, NEW s \in ConfigRecords, ArrayIsVariant(s),
         TimeoutFits(s.angle_correction_timeout), NEW c \in Configs, NEW f \in ParsedConfigs(s, c)
  PROVE  TimeoutFits(f.angle_correction_timeout)
<1>1. f.angle_correction_timeout = Given(c.angleCorrectionTimeout, s.angle_correction_timeout)
  BY ParsedConfigsCorrect
<1>2. QED
  BY <1>1 DEF TimeoutsFit, Given

LEMMA TimeoutInForceFitsStep ==
  ASSUME TimeoutsFit, IInv, TimeoutInForceFits, [Next]_vars
  PROVE  TimeoutInForceFits'
<1>1. config \in ConfigRecords /\ ArrayIsVariant(config)
  BY DEF IInv, TypeOK
<1>2. ASSUME NEW c \in Configs \cup {Absent}, FirstBoot(c) PROVE TimeoutInForceFits'
  <2>1. PICK array \in ShuffledArrays(DefaultConfig.array) :
          LET shuffled == [DefaultConfig EXCEPT !.array = array]
          IN  IF c = Absent THEN config' = shuffled
              ELSE config' \in ParsedConfigs(shuffled, c)
    BY <1>2 DEF FirstBoot
  <2> DEFINE shuffled == [DefaultConfig EXCEPT !.array = array]
  <2>2. /\ shuffled \in ConfigRecords /\ ArrayIsVariant(shuffled)
        /\ TimeoutFits(shuffled.angle_correction_timeout)
    BY ShuffledDefaultCorrect DEF TimeoutsFit
  <2>3. IF c = Absent THEN config' = shuffled ELSE config' \in ParsedConfigs(shuffled, c)
    BY <2>1
  <2> HIDE DEF shuffled
  <2>4. QED
    BY <2>2, <2>3, ParsedTimeoutFits DEF TimeoutInForceFits
<1>3. ASSUME NEW c \in Configs \cup {Absent}, OnConfigMessage(c) PROVE TimeoutInForceFits'
  <2>1. IF c = Absent THEN config' = config ELSE config' \in ParsedConfigs(config, c)
    BY <1>3 DEF OnConfigMessage, ParseConfig
  <2>2. QED
    BY <1>1, <2>1, ParsedTimeoutFits DEF TimeoutInForceFits
<1>4. CASE UNCHANGED config
  BY <1>4 DEF TimeoutInForceFits
<1>5. QED
  BY <1>2, <1>3, <1>4 DEF Next, LaterBoot, OnIqReport, OnCorrection, vars

LEMMA CorrectionExpiresStep ==
  ASSUME IInv, TimeoutInForceFits, CorrectionExpires, [Next]_vars
  PROVE  CorrectionExpires'
<1>1. ASSUME NEW c, FirstBoot(c) \/ OnConfigMessage(c) PROVE CorrectionExpires'
  BY <1>1, NoEstimatorLeft DEF CorrectionExpires
<1>2. CASE LaterBoot \/ UNCHANGED vars
  BY <1>2 DEF LaterBoot, vars, CorrectionExpires
<1>3. ASSUME NEW t \in Tag, NEW n \in Sequence, NEW estimated, OnIqReport(t, n, estimated)
      PROVE  CorrectionExpires'
  <2> SUFFICES ASSUME NEW u \in Tag, state'[u] # None, state'[u].expected # None
               PROVE  state'[u].correction_timeout > 0
    BY DEF CorrectionExpires
  <2>1. CASE state'[u] = state[u]
    BY <2>1 DEF CorrectionExpires
  <2>2. CASE state[u] # None /\ state'[u] = Reported(state[u], n, estimated)
    <3>1. state[u] \in States
      BY <2>2 DEF IInv, TypeOK
    <3>2. state[u].expected # None
      BY <2>2, <3>1, ReportedDirection
    <3>3. state[u].correction_timeout > 0
      BY <2>2, <3>2 DEF CorrectionExpires
    <3>4. QED
      BY <2>2, <3>1, <3>3, ReportedDirection
  <2>3. QED
    BY <1>3, <2>1, <2>2, OnIqReportDirection
<1>4. ASSUME NEW t \in Tag, NEW n \in Sequence, OnCorrection(t, n) PROVE CorrectionExpires'
  <2>1. /\ config.angle_correction_timeout \in UInt16
        /\ state'[t].correction_timeout = config.angle_correction_timeout % 256
        /\ \A u \in Tag : u # t => state'[u] = state[u]
    BY <1>4, OnCorrectionDirection DEF ConfigRecords
  <2>2. config.angle_correction_timeout % 256 \in Nat
    BY <2>1, UInt16Integers
  <2>3. state'[t].correction_timeout > 0
    BY <2>1, <2>2 DEF TimeoutInForceFits, TimeoutFits
  <2>4. QED
    BY <2>1, <2>3 DEF CorrectionExpires
<1>5. QED
  BY <1>1, <1>2, <1>3, <1>4 DEF Next

(* Corrections expire (aoa_calculate), for every set of configurations     *)
(* whose timeouts survive the assignment to a uint8_t; for a multiple of   *)
(* 256 the code does what this theorem leaves out: it never clears the     *)
(* expected direction.                                                     *)
THEOREM CorrectionsExpire == TimeoutsFit => (Spec => []CorrectionExpires)
<1> SUFFICES ASSUME TimeoutsFit PROVE Spec => []CorrectionExpires
  OBVIOUS
<1>1. Init => TimeoutInForceFits /\ CorrectionExpires
  BY DefaultConfigCorrect DEF Init, TimeoutInForceFits, TimeoutsFit, CorrectionExpires
<1>2. IInv /\ TimeoutInForceFits /\ CorrectionExpires /\ [Next]_vars
        => (TimeoutInForceFits /\ CorrectionExpires)'
  BY TimeoutInForceFitsStep, CorrectionExpiresStep
<1>3. QED
  BY <1>1, <1>2, IInvAlways, PTL DEF Spec

-----------------------------------------------------------------------------
(* The loop of the shuffle.                                                *)

LEMMA Swapped ==
  ASSUME NEW m \in Nat, NEW A, NEW p \in [0 .. m - 1 -> A], NEW n \in Nat,
         NEW q \in SwapWithLater(p, n)
  PROVE  /\ q \in [0 .. m - 1 -> A]
         /\ \E j \in n + 1 .. m - 1 : q = [p EXCEPT ![n] = p[j], ![j] = p[n]]
<1>1. PICK j \in 0 .. m - 1 : j > n /\ q = [p EXCEPT ![n] = p[j], ![j] = p[n]]
  BY DEF SwapWithLater
<1>2. j \in n + 1 .. m - 1 /\ n \in 0 .. m - 1
  BY <1>1
<1>3. QED
  BY <1>1, <1>2

(* The swaps of an iteration keep a pattern in S.                          *)
ClosedUnderSwaps(S) == \A p \in S : \A n \in Nat : SwapWithLater(p, n) \subseteq S

(* The patterns after the first k iterations, for each k up to n.          *)
Runs(S, pattern, n) ==
  {r \in [0 .. n -> S] :
     /\ r[0] = pattern
     /\ \A k \in 0 .. n - 1 : r[k + 1] \in SwapWithLater(r[k], k)}

(* The equation of the loop: after is what each number of iterations can   *)
(* leave.  TLA+ chooses a solution, so one has to exist: Reached.          *)
LoopStep(pattern, g) ==
  [n \in Nat |-> IF n = 0 THEN {pattern}
                 ELSE UNION {SwapWithLater(p, n - 1) : p \in g[n - 1]}]

IsLoop(pattern, after) == after = LoopStep(pattern, after)

Reached(S, pattern) == [n \in Nat |-> {r[n] : r \in Runs(S, pattern, n)}]

LEMMA RunExtended ==
  ASSUME NEW S, ClosedUnderSwaps(S), NEW pattern \in S, NEW n \in Nat,
         NEW r \in Runs(S, pattern, n), NEW q \in SwapWithLater(r[n], n)
  PROVE  \E s \in Runs(S, pattern, n + 1) : s[n + 1] = q
<1> DEFINE s == [k \in 0 .. n + 1 |-> IF k = n + 1 THEN q ELSE r[k]]
<1>1. /\ r \in [0 .. n -> S] /\ r[0] = pattern
      /\ \A k \in 0 .. n - 1 : r[k + 1] \in SwapWithLater(r[k], k)
  BY DEF Runs
<1>2. n \in 0 .. n /\ r[n] \in S
  BY <1>1
<1>3. q \in S
  BY <1>2 DEF ClosedUnderSwaps
<1>4. s \in [0 .. n + 1 -> S]
  BY <1>1, <1>3
<1>5. \A k \in 0 .. n : s[k] = r[k]
  OBVIOUS
<1>6. s[n + 1] = q
  OBVIOUS
<1> HIDE DEF s
<1>7. ASSUME NEW k \in 0 .. n PROVE s[k + 1] \in SwapWithLater(s[k], k)
  <2>1. CASE k = n
    BY <1>5, <1>6, <2>1
  <2>2. CASE k # n
    <3>1. k \in 0 .. n - 1 /\ k + 1 \in 0 .. n
      BY <2>2
    <3>2. QED
      BY <1>1, <1>5, <3>1
  <2>3. QED
    BY <2>1, <2>2
<1>8. s[0] = pattern
  BY <1>1, <1>5
<1>9. (n + 1) - 1 = n
  OBVIOUS
<1>10. s \in Runs(S, pattern, n + 1)
  BY <1>4, <1>7, <1>8, <1>9 DEF Runs
<1>11. QED
  BY <1>6, <1>10

LEMMA RunShortened ==
  ASSUME NEW S, NEW pattern, NEW n \in Nat,
         NEW s \in Runs(S, pattern, n + 1)
  PROVE  \E r \in Runs(S, pattern, n) : s[n + 1] \in SwapWithLater(r[n], n)
<1> DEFINE r == [k \in 0 .. n |-> s[k]]
<1>1. /\ s \in [0 .. n + 1 -> S] /\ s[0] = pattern
      /\ \A k \in 0 .. n : s[k + 1] \in SwapWithLater(s[k], k)
  BY DEF Runs
<1>2. r \in [0 .. n -> S] /\ r[0] = pattern /\ r[n] = s[n]
  BY <1>1
<1>3. ASSUME NEW k \in 0 .. n - 1 PROVE r[k + 1] \in SwapWithLater(r[k], k)
  <2>1. k \in 0 .. n /\ k + 1 \in 0 .. n
    OBVIOUS
  <2>2. r[k] = s[k] /\ r[k + 1] = s[k + 1]
    BY <2>1
  <2>3. QED
    BY <1>1, <2>1, <2>2
<1> HIDE DEF r
<1>4. r \in Runs(S, pattern, n)
  BY <1>2, <1>3 DEF Runs
<1>5. n \in 0 .. n
  OBVIOUS
<1>6. QED
  BY <1>1, <1>2, <1>4, <1>5

(* The recursive function of the loop exists: its value at n is the set of *)
(* the last patterns of the runs of n iterations.                          *)
LEMMA ReachedIsFixpoint ==
  ASSUME NEW S, ClosedUnderSwaps(S), NEW pattern \in S
  PROVE  Reached(S, pattern) = LoopStep(pattern, Reached(S, pattern))
<1> DEFINE w == Reached(S, pattern)
           v == LoopStep(pattern, w)
<1>1. w[0] = v[0]
  <2>1. v[0] = {pattern}
    BY DEF LoopStep
  <2>2. w[0] = {r[0] : r \in Runs(S, pattern, 0)}
    BY DEF Reached
  <2>3. \A r \in Runs(S, pattern, 0) : r[0] = pattern
    BY DEF Runs
  <2>4. [k \in 0 .. 0 |-> pattern] \in Runs(S, pattern, 0)
    BY DEF Runs
  <2> HIDE DEF w, v
  <2>5. QED
    BY <2>1, <2>2, <2>3, <2>4
<1>2. ASSUME NEW n \in Nat PROVE w[n + 1] = v[n + 1]
  <2>1. w[n + 1] = {s[n + 1] : s \in Runs(S, pattern, n + 1)}
    BY DEF Reached
  <2>2. w[n] = {r[n] : r \in Runs(S, pattern, n)}
    BY DEF Reached
  <2>3. v[n + 1] = UNION {SwapWithLater(p, n) : p \in w[n]}
    <3>1. n + 1 \in Nat /\ n + 1 # 0 /\ (n + 1) - 1 = n
      OBVIOUS
    <3>2. QED
      BY <3>1 DEF LoopStep
  <2> HIDE DEF w, v
  <2>4. ASSUME NEW q \in w[n + 1] PROVE q \in v[n + 1]
    <3>1. PICK s \in Runs(S, pattern, n + 1) : q = s[n + 1]
      BY <2>1
    <3>2. PICK r \in Runs(S, pattern, n) : s[n + 1] \in SwapWithLater(r[n], n)
      BY RunShortened
    <3>3. QED
      BY <2>2, <2>3, <3>1, <3>2
  <2>5. ASSUME NEW q \in v[n + 1] PROVE q \in w[n + 1]
    <3>1. PICK p \in w[n] : q \in SwapWithLater(p, n)
      BY <2>3
    <3>2. PICK r \in Runs(S, pattern, n) : p = r[n]
      BY <2>2
    <3>3. q \in SwapWithLater(r[n], n)
      BY <3>1, <3>2
    <3>4. \E s \in Runs(S, pattern, n + 1) : s[n + 1] = q
      BY <3>3, RunExtended
    <3>5. QED
      BY <2>1, <3>4
  <2>6. QED
    BY <2>4, <2>5
<1>3. \A n \in Nat : n = 0 \/ \E k \in Nat : n = k + 1
  <2>1. SUFFICES ASSUME NEW n \in Nat, n # 0 PROVE \E k \in Nat : n = k + 1
    OBVIOUS
  <2>2. n - 1 \in Nat /\ n = (n - 1) + 1
    BY <2>1
  <2>3. QED
    BY <2>2
<1>4. DOMAIN w = Nat /\ DOMAIN v = Nat /\ w = [n \in Nat |-> w[n]] /\ v = [n \in Nat |-> v[n]]
  BY DEF Reached, LoopStep
<1> HIDE DEF w, v
<1>5. \A n \in Nat : w[n] = v[n]
  BY <1>1, <1>2, <1>3
<1>6. w = v
  BY <1>4, <1>5
<1>7. QED
  BY <1>6 DEF w, v

(* The loop of the code, and that of the definition, satisfy its equation. *)
LEMMA LoopUnfolds ==
  ASSUME NEW t \in ArrayType, NEW pattern \in Patterns(t)
  PROVE  \E after : /\ IsLoop(pattern, after)
                    /\ ShuffleLoop(t, pattern) = after[array_size[t] - 1]
<1> DEFINE m == array_size[t]
           after == CHOOSE g : g = LoopStep(pattern, g)
<1>1. m \in Nat /\ pattern \in [0 .. m - 1 -> Antenna]
  BY ArrayTableAssumption DEF Patterns, Slots
<1>2. \E g : g = LoopStep(pattern, g)
  <2> DEFINE S == [0 .. m - 1 -> Antenna]
  <2>1. ClosedUnderSwaps(S)
    BY <1>1, Swapped DEF ClosedUnderSwaps
  <2> HIDE DEF S
  <2>2. pattern \in S
    BY <1>1 DEF S
  <2>3. QED
    BY <2>1, <2>2, ReachedIsFixpoint
<1>3. after = LoopStep(pattern, after)
  BY <1>2
<1>4. ShuffleLoop(t, pattern) = after[m - 1]
  BY DEF ShuffleLoop, LoopStep
<1>5. QED
  BY <1>3, <1>4 DEF IsLoop

-----------------------------------------------------------------------------
(* A cycle through k and D is a cycle through D in which k is put before   *)
(* some j of D.                                                            *)
LEMMA CycleExtended ==
  ASSUME NEW D, NEW k, k \notin D, NEW j \in D, NEW h \in Cycles(D),
         NEW f, f = [i \in D \cup {k} |->
                       IF i = k THEN j ELSE IF h[i] = j THEN k ELSE h[i]]
  PROVE  f \in Cycles(D \cup {k})
<1> DEFINE E == D \cup {k}
<1>1. h \in [D -> D] /\ \A T \in SUBSET D : T \notin {{}, D} => \E i \in T : h[i] \notin T
  BY DEF Cycles
<1>2. f \in [E -> E]
  BY <1>1
<1>3. f[k] = j /\ \A i \in D : f[i] = IF h[i] = j THEN k ELSE h[i]
  OBVIOUS
<1>4. ASSUME NEW S \in SUBSET E, S # {}, \A i \in S : f[i] \in S
      PROVE  S = E
  <2>1. k \in S
    <3>1. SUFFICES ASSUME k \notin S PROVE FALSE
      OBVIOUS
    <3>2. S \subseteq D /\ \A i \in S : h[i] \in S
      BY <1>3, <1>4, <3>1
    <3>3. S = D
      BY <1>1, <1>4, <3>2
    <3>4. PICK i \in D : h[i] = j
      BY CyclesAreOnto
    <3>5. QED
      BY <1>3, <1>4, <3>1, <3>3, <3>4
  <2>2. j \in S
    BY <1>3, <1>4, <2>1
  <2> DEFINE T == S \ {k}
  <2>3. T \in SUBSET D /\ T # {}
    BY <2>2
  <2>4. ASSUME NEW i \in T PROVE h[i] \in T
    BY <1>1, <1>3, <1>4, <2>2, <2>3
  <2>5. T = D
    BY <1>1, <2>3, <2>4
  <2>6. QED
    BY <2>1, <2>5
<1>5. QED
  BY <1>2, <1>4 DEF E, Cycles

LEMMA CycleShortened ==
  ASSUME NEW D, NEW k, k \notin D, D # {}, IsFiniteSet(D), NEW f \in Cycles(D \cup {k})
  PROVE  /\ f[k] \in D
         /\ \A i, l \in D : f[i] = f[l] => i = l
         /\ \A i \in D : f[i] # f[k]
         /\ [i \in D |-> IF f[i] = k THEN f[k] ELSE f[i]] \in Cycles(D)
<1> DEFINE E == D \cup {k}
           h == [i \in D |-> IF f[i] = k THEN f[k] ELSE f[i]]
<1>1. f \in [E -> E] /\ \A T \in SUBSET E : T \notin {{}, E} => \E i \in T : f[i] \notin T
  BY DEF Cycles
<1>2. f[k] \in D
  <2>1. {k} \in SUBSET E /\ {k} # {} /\ {k} # E
    OBVIOUS
  <2>2. f[k] # k
    BY <1>1, <2>1
  <2>3. QED
    BY <1>1, <2>2
<1>3. \A i, l \in E : f[i] = f[l] => i = l
  <2>1. IsFiniteSet(E)
    BY FS_AddElement
  <2>2. f \in Surjection(E, E)
    <3>1. \A i \in E : \E l \in E : f[l] = i
      BY CyclesAreOnto
    <3>2. QED
      BY <1>1, <3>1, Zenon DEF Surjection
  <2>3. f \in Injection(E, E)
    BY <2>1, <2>2, FS_SurjSameCardinalityImpliesInj
  <2>4. QED
    BY <2>3 DEF Injection, IsInjective
<1>4. h \in [D -> D] /\ \A i \in D : h[i] = IF f[i] = k THEN f[k] ELSE f[i]
  BY <1>1, <1>2
<1> HIDE DEF h
<1>5. ASSUME NEW T \in SUBSET D, T # {}, \A i \in T : h[i] \in T
      PROVE  T = D
  <2>1. CASE \E i \in T : f[i] = k
    <3> DEFINE S == T \cup {k}
    <3>1. f[k] \in T
      BY <1>4, <1>5, <2>1
    <3>2. S \in SUBSET E /\ S # {} /\ \A i \in S : f[i] \in S
      BY <1>4, <1>5, <3>1
    <3>3. S = E
      BY <1>1, <3>2
    <3>4. QED
      BY <3>3
  <2>2. CASE \A i \in T : f[i] # k
    <3>1. T \in SUBSET E /\ \A i \in T : f[i] \in T
      BY <1>4, <1>5, <2>2
    <3>2. T # E
      OBVIOUS
    <3>3. QED
      BY <1>1, <1>5, <3>1, <3>2
  <2>3. QED
    BY <2>1, <2>2
<1>6. h \in Cycles(D)
  BY <1>4, <1>5 DEF Cycles
<1>7. \A i \in D : f[i] # f[k]
  BY <1>3
<1>8. QED
  BY <1>2, <1>3, <1>6, <1>7 DEF h

(* The patterns that differ from q by a cycle through the slots from k on. *)
Rearranged(m, k, q) ==
  {[i \in 0 .. m - 1 |-> IF i < k THEN q[i] ELSE q[h[i]]] : h \in Cycles(k .. m - 1)}

LEMMA SwapThenRearranged ==
  ASSUME NEW m \in Nat, NEW A, NEW p \in [0 .. m - 1 -> A], NEW n \in Nat,
         NEW q \in SwapWithLater(p, n), NEW x \in Rearranged(m, n + 1, q)
  PROVE  x \in Rearranged(m, n, p)
<1> DEFINE D == n + 1 .. m - 1
<1>1. PICK j \in D : q = [p EXCEPT ![n] = p[j], ![j] = p[n]]
  <2>1. PICK j \in 0 .. m - 1 : j > n /\ q = [p EXCEPT ![n] = p[j], ![j] = p[n]]
    BY DEF SwapWithLater
  <2>2. j \in D
    BY <2>1
  <2> HIDE DEF D
  <2>3. QED
    BY <2>1, <2>2
<1>2. PICK h \in Cycles(D) :
        x = [i \in 0 .. m - 1 |-> IF i < n + 1 THEN q[i] ELSE q[h[i]]]
  BY DEF Rearranged
<1>3. n \notin D /\ D \cup {n} = n .. m - 1 /\ j > n
  BY <1>1
<1> DEFINE f == [i \in D \cup {n} |-> IF i = n THEN j ELSE IF h[i] = j THEN n ELSE h[i]]
<1>4. f \in Cycles(n .. m - 1)
  <2> HIDE DEF D
  <2>1. f \in Cycles(D \cup {n})
    BY <1>3, CycleExtended
  <2> HIDE DEF f
  <2>2. QED
    BY <1>3, <2>1
<1>5. h \in [D -> D]
  BY DEF Cycles
<1>6. ASSUME NEW i \in 0 .. m - 1 PROVE x[i] = IF i < n THEN p[i] ELSE p[f[i]]
  <2>1. q[n] = p[j] /\ q[j] = p[n]
    BY <1>1, <1>3
  <2>2. \A l \in 0 .. m - 1 : l # n /\ l # j => q[l] = p[l]
    BY <1>1
  <2>3. CASE i < n
    BY <1>2, <1>3, <2>2, <2>3
  <2>4. CASE i = n
    BY <1>2, <2>1, <2>4
  <2>5. CASE i > n
    <3>1. i \in D /\ h[i] \in D /\ x[i] = q[h[i]]
      BY <1>2, <1>5, <2>5
    <3>2. CASE h[i] = j
      BY <2>1, <2>5, <3>1, <3>2
    <3>3. CASE h[i] # j
      <4>1. f[i] = h[i] /\ h[i] # n /\ h[i] \in 0 .. m - 1
        BY <1>3, <2>5, <3>1, <3>3
      <4>2. QED
        BY <2>2, <2>5, <3>1, <3>3, <4>1
    <3>4. QED
      BY <3>2, <3>3
  <2>6. QED
    BY <2>3, <2>4, <2>5
<1> HIDE DEF f
<1>7. x = [i \in 0 .. m - 1 |-> IF i < n THEN p[i] ELSE p[f[i]]]
  BY <1>2, <1>6
<1>8. QED
  BY <1>4, <1>7 DEF Rearranged

LEMMA RearrangedThenSwap ==
  ASSUME NEW m \in Nat, NEW A, NEW p \in [0 .. m - 1 -> A], NEW n \in Nat, n < m - 1,
         NEW x \in Rearranged(m, n, p)
  PROVE  \E q \in SwapWithLater(p, n) : x \in Rearranged(m, n + 1, q)
<1> DEFINE D == n + 1 .. m - 1
<1>1. PICK f \in Cycles(n .. m - 1) :
        x = [i \in 0 .. m - 1 |-> IF i < n THEN p[i] ELSE p[f[i]]]
  BY DEF Rearranged
<1>2. n \notin D /\ D \cup {n} = n .. m - 1 /\ D # {}
  <2>1. n + 1 \in D
    OBVIOUS
  <2>2. D # {}
    BY <2>1, Zenon
  <2>3. n \notin D /\ D \cup {n} = n .. m - 1
    OBVIOUS
  <2>4. QED
    BY <2>2, <2>3
<1>3. IsFiniteSet(D)
  BY FS_Interval
<1> DEFINE h == [i \in D |-> IF f[i] = n THEN f[n] ELSE f[i]]
           j == f[n]
           q == [p EXCEPT ![n] = p[j], ![j] = p[n]]
<1> HIDE DEF D
<1>4. /\ j \in D
      /\ \A i, l \in D : f[i] = f[l] => i = l
      /\ \A i \in D : f[i] # j
      /\ h \in Cycles(D)
  BY <1>1, <1>2, <1>3, CycleShortened
<1>5. f \in [n .. m - 1 -> n .. m - 1]
  BY DEF Cycles
<1>6. \A i \in D : h[i] = IF f[i] = n THEN j ELSE f[i]
  OBVIOUS
<1> HIDE DEF h
<1> USE DEF D
<1>7. q \in SwapWithLater(p, n)
  <2>1. DOMAIN p = 0 .. m - 1 /\ j \in 0 .. m - 1 /\ j > n
    BY <1>4
  <2>2. j \in {l \in DOMAIN p : l > n}
    BY <2>1
  <2> HIDE DEF j
  <2>3. QED
    BY <2>2, Zenon DEF SwapWithLater
<1>8. /\ q[n] = p[j] /\ q[j] = p[n]
      /\ \A l \in 0 .. m - 1 : l # n /\ l # j => q[l] = p[l]
  BY <1>4
<1> HIDE DEF j, q
<1>9. ASSUME NEW i \in 0 .. m - 1 PROVE x[i] = IF i < n + 1 THEN q[i] ELSE q[h[i]]
  <2>1. CASE i < n
    BY <1>1, <1>4, <1>8, <2>1
  <2>2. CASE i = n
    BY <1>1, <1>8, <2>2 DEF j
  <2>3. CASE i > n
    <3>1. /\ i \in D /\ f[i] \in n .. m - 1 /\ f[i] # j
          /\ x[i] = p[f[i]] /\ ~(i < n + 1)
      <4>1. i \in D /\ i \in n .. m - 1 /\ ~(i < n) /\ ~(i < n + 1)
        BY <2>3
      <4>2. f[i] \in n .. m - 1
        BY <1>5, <4>1
      <4>3. f[i] # j
        BY <1>4, <4>1
      <4>4. x[i] = p[f[i]]
        BY <1>1, <4>1
      <4>5. QED
        BY <4>1, <4>2, <4>3, <4>4
    <3>2. CASE f[i] = n
      BY <1>6, <1>8, <3>1, <3>2
    <3>3. CASE f[i] # n
      <4>1. h[i] = f[i] /\ f[i] \in 0 .. m - 1
        BY <1>6, <3>1, <3>3
      <4>2. q[f[i]] = p[f[i]]
        BY <1>8, <3>1, <3>3, <4>1
      <4>3. QED
        BY <3>1, <4>1, <4>2
    <3>4. QED
      BY <3>2, <3>3
  <2>4. QED
    BY <2>1, <2>2, <2>3
<1>10. x = [i \in 0 .. m - 1 |-> IF i < n + 1 THEN q[i] ELSE q[h[i]]]
  BY <1>1, <1>9
<1>11. x \in Rearranged(m, n + 1, q)
  BY <1>4, <1>10 DEF Rearranged
<1>12. QED
  BY <1>7, <1>11

(* Nothing is left to rearrange from the last slot on.                     *)
LEMMA LastSlotStays ==
  ASSUME NEW m \in Nat, m > 0, NEW A, NEW q \in [0 .. m - 1 -> A]
  PROVE  Rearranged(m, m - 1, q) = {q}
<1> DEFINE D == m - 1 .. m - 1
<1>1. D = {m - 1}
  OBVIOUS
<1>2. ASSUME NEW h \in Cycles(D) PROVE h[m - 1] = m - 1
  BY <1>1 DEF Cycles
<1>3. [i \in D |-> i] \in Cycles(D)
  <2>1. SUBSET D = {{}, D}
    BY <1>1
  <2>2. [i \in D |-> i] \in [D -> D]
    OBVIOUS
  <2> HIDE DEF D
  <2>3. QED
    BY <2>1, <2>2 DEF Cycles
<1> DEFINE F(h) == [i \in 0 .. m - 1 |-> IF i < m - 1 THEN q[i] ELSE q[h[i]]]
<1>4. ASSUME NEW h \in Cycles(D) PROVE q = F(h)
  <2>1. \A i \in 0 .. m - 1 : i < m - 1 \/ i = m - 1
    OBVIOUS
  <2>2. QED
    BY <1>2, <2>1
<1>5. Rearranged(m, m - 1, q) = {F(h) : h \in Cycles(D)}
  BY DEF Rearranged
<1> HIDE DEF D, F
<1>6. QED
  BY <1>3, <1>4, <1>5

(* n iterations of the loop, then a cycle through the slots from n on, give*)
(* what a cycle through all slots gives; so do m - 1 iterations alone.     *)
LEMMA IterationsRearrange ==
  ASSUME NEW m \in Nat, m > 0, NEW A, NEW pattern \in [0 .. m - 1 -> A],
         NEW after, IsLoop(pattern, after)
  PROVE  after[m - 1] = Rearranged(m, 0, pattern)
<1> DEFINE S == [0 .. m - 1 -> A]
           Correct(n) == /\ after[n] \subseteq S
                         /\ UNION {Rearranged(m, n, q) : q \in after[n]}
                              = Rearranged(m, 0, pattern)
           T == {n \in 0 .. m - 1 : ~Correct(n)}
<1>1. after[0] = {pattern}
  BY DEF IsLoop, LoopStep
<1>2. Correct(0)
  BY <1>1
<1>3. ASSUME NEW n \in Nat, n + 1 <= m - 1, Correct(n) PROVE Correct(n + 1)
  <2>1. after[n + 1] = UNION {SwapWithLater(p, n) : p \in after[n]}
    <3>1. n + 1 \in Nat /\ n + 1 # 0 /\ (n + 1) - 1 = n
      OBVIOUS
    <3>2. QED
      BY <3>1 DEF IsLoop, LoopStep
  <2>2. after[n] \subseteq S
    BY <1>3
  <2>3. ASSUME NEW q \in after[n + 1] PROVE q \in S
    <3>1. PICK p \in after[n] : q \in SwapWithLater(p, n)
      BY <2>1
    <3>2. p \in [0 .. m - 1 -> A]
      BY <2>2
    <3>3. QED
      BY <3>1, <3>2, Swapped
  <2>4. ASSUME NEW x, \E q \in after[n + 1] : x \in Rearranged(m, n + 1, q)
        PROVE  \E p \in after[n] : x \in Rearranged(m, n, p)
    <3>1. PICK q \in after[n + 1] : x \in Rearranged(m, n + 1, q)
      BY <2>4
    <3>2. PICK p \in after[n] : q \in SwapWithLater(p, n)
      BY <2>1
    <3>3. p \in S
      BY <2>2
    <3>4. x \in Rearranged(m, n, p)
      BY <3>1, <3>2, <3>3, SwapThenRearranged, Zenon
    <3>5. QED
      BY <3>4
  <2>5. ASSUME NEW x, \E p \in after[n] : x \in Rearranged(m, n, p)
        PROVE  \E q \in after[n + 1] : x \in Rearranged(m, n + 1, q)
    <3>1. PICK p \in after[n] : x \in Rearranged(m, n, p)
      BY <2>5
    <3>2. p \in S /\ n < m - 1
      BY <1>3, <2>2
    <3>3. PICK q \in SwapWithLater(p, n) : x \in Rearranged(m, n + 1, q)
      BY <3>1, <3>2, RearrangedThenSwap, Zenon
    <3>4. q \in after[n + 1]
      BY <2>1, <3>3
    <3>5. QED
      BY <3>3, <3>4
  <2>6. UNION {Rearranged(m, n + 1, q) : q \in after[n + 1]}
          = UNION {Rearranged(m, n, p) : p \in after[n]}
    BY <2>4, <2>5, Zenon
  <2>7. UNION {Rearranged(m, n, p) : p \in after[n]} = Rearranged(m, 0, pattern)
    BY <1>3
  <2>8. QED
    BY <2>3, <2>6, <2>7, Zenon
<1> HIDE DEF Correct
<1>4. T = {}
  <2>1. SUFFICES ASSUME T # {} PROVE FALSE
    OBVIOUS
  <2>2. T \subseteq Nat
    OBVIOUS
  <2>3. PICK l \in T : \A w \in T : l <= w
    BY <2>1, <2>2, LeastNat, Zenon
  <2>4. l \in 0 .. m - 1 /\ ~Correct(l) /\ l # 0
    BY <1>2
  <2>5. l - 1 \in Nat /\ (l - 1) + 1 = l /\ l - 1 \in 0 .. m - 1
    BY <2>4
  <2>6. l - 1 \notin T
    BY <2>3, <2>5
  <2>7. Correct(l - 1)
    BY <2>5, <2>6
  <2>8. Correct((l - 1) + 1)
    BY <1>3, <2>4, <2>5, <2>7
  <2>9. QED
    BY <2>4, <2>5, <2>8
<1>5. /\ after[m - 1] \subseteq S
      /\ UNION {Rearranged(m, m - 1, q) : q \in after[m - 1]} = Rearranged(m, 0, pattern)
  <2>1. m - 1 \in 0 .. m - 1
    OBVIOUS
  <2>2. Correct(m - 1)
    BY <1>4, <2>1
  <2>3. QED
    BY <2>2 DEF Correct
<1>6. \A q \in after[m - 1] : Rearranged(m, m - 1, q) = {q}
  BY <1>5, LastSlotStays
<1> DEFINE R(q) == Rearranged(m, m - 1, q)
           last == after[m - 1]
<1>7. /\ \A q \in last : R(q) = {q}
      /\ UNION {R(q) : q \in last} = Rearranged(m, 0, pattern)
  BY <1>5, <1>6
<1> HIDE DEF R, last
<1>8. last = UNION {R(q) : q \in last}
  BY <1>7
<1>9. QED
  BY <1>7, <1>8 DEF last

(* The loop leaves the rearrangements of the definition, all of them.      *)
LEMMA LoopIsShuffle ==
  ASSUME NEW t \in ArrayType, NEW a \in ArraysOf(t)
  PROVE  ShuffleLoop(t, a.pattern) = {b.pattern : b \in ShuffledArrays(a)}
<1> DEFINE m == array_size[t]
           p == a.pattern
<1>1. m \in Nat /\ m > 0 /\ Slots(t) = 0 .. m - 1
  BY ArrayTableAssumption DEF Slots
<1>2. a.array_type = t /\ p \in [0 .. m - 1 -> Antenna]
  BY <1>1 DEF ArraysOf, Patterns
<1>3. a = [array_type |-> t, pattern |-> p]
  BY DEF ArraysOf
<1>4. PICK after : IsLoop(p, after) /\ ShuffleLoop(t, p) = after[m - 1]
  BY <1>1, <1>2, LoopUnfolds DEF Patterns
<1> HIDE DEF m, p
<1>5. after[m - 1] = Rearranged(m, 0, p)
  BY <1>1, <1>2, <1>4, IterationsRearrange
<1>6. Rearranged(m, 0, p) = {[i \in 0 .. m - 1 |-> p[f[i]]] : f \in Cycles(0 .. m - 1)}
  <2>1. \A i \in 0 .. m - 1 : ~(i < 0)
    BY <1>1
  <2>2. \A h : [i \in 0 .. m - 1 |-> IF i < 0 THEN p[i] ELSE p[h[i]]]
                 = [i \in 0 .. m - 1 |-> p[h[i]]]
    BY <2>1
  <2>3. QED
    BY <2>2 DEF Rearranged
<1>7. {b.pattern : b \in ShuffledArrays(a)}
        = {[i \in 0 .. m - 1 |-> p[f[i]]] : f \in Cycles(0 .. m - 1)}
  <2> DEFINE F(f) == [i \in 0 .. m - 1 |-> p[f[i]]]
  <2>1. DOMAIN p = 0 .. m - 1
    BY <1>2
  <2>2. ShuffledArrays(a)
          = {[array_type |-> t, pattern |-> F(f)] : f \in Cycles(0 .. m - 1)}
    BY <1>1, <1>2, <1>3, <2>1 DEF ShuffledArrays
  <2> DEFINE B(f) == [array_type |-> t, pattern |-> F(f)]
             C == Cycles(0 .. m - 1)
  <2> HIDE DEF F
  <2>3. \A f : B(f).pattern = F(f)
    OBVIOUS
  <2>4. ShuffledArrays(a) = {B(f) : f \in C}
    BY <2>2
  <2> HIDE DEF B, C
  <2>5. {b.pattern : b \in ShuffledArrays(a)} = {F(f) : f \in Cycles(0 .. m - 1)}
    BY <2>3, <2>4 DEF C
  <2>6. QED
    BY <2>5 DEF F
<1>8. QED
  BY <1>4, <1>5, <1>6, <1>7 DEF p

(* Shuffling is a single cycle (antenna_array_shuffle_pattern): for arrays *)
(* of every size, whatever random() returns, the loop leaves a pattern in  *)
(* which no antenna keeps its slot and which moves all of them around one  *)
(* cycle, and it can leave each of these.                                  *)
THEOREM LoopShuffles == Spec => []ShuffleIsOneCycle
<1>1. IInv => ShuffleIsOneCycle
  <2>1. SUFFICES ASSUME IInv PROVE ShuffleIsOneCycle
    OBVIOUS
  <2>2. config.array \in AntennaArrays
    BY <2>1 DEF IInv, TypeOK, ConfigRecords
  <2>3. /\ config.array.array_type \in ArrayType
        /\ config.array \in ArraysOf(config.array.array_type)
    BY <2>2, ArrayTyped
  <2>4. QED
    BY <2>3, LoopIsShuffle, Zenon DEF ShuffleIsOneCycle
<1>2. QED
  BY <1>1, IInvAlways, PTL

=============================================================================
