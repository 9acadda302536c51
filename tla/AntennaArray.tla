---------------------------- MODULE AntennaArray ----------------------------
(***************************************************************************)
(* The antenna arrays of antenna_array.c: which orders of the antennas are *)
(* accepted, what is sent to the antenna switch and what the estimator is  *)
(* told.                                                                   *)
(*                                                                         *)
(* An antenna_array_t is a record [array_type, pattern]; its size is the   *)
(* size of the type, and the indices of a pattern are 0 .. size - 1 as in  *)
(* the code.                                                               *)
(***************************************************************************)
EXTENDS Integers, FiniteSets

CONSTANTS
  ArrayType,             (* ANTENNA_ARRAY_TYPE_*                             *)
  DualPolarized,         (* those for which antenna_array_type_is_dp holds   *)
  Antenna,               (* the antennas of the board                        *)
  array_size,            (* the three tables of the code; array_list[t][v]   *)
  array_variants,        (* is variant v of type t                           *)
  array_list

Slots(type) == 0 .. array_size[type] - 1
Patterns(type) == [Slots(type) -> Antenna]

(* Every table entry is a list of as many different antennas as the type   *)
(* has, which is what lets a pattern be recognised by the antennas in it.  *)
ASSUME ArrayTableAssumption ==
  /\ DualPolarized \subseteq ArrayType
  /\ array_size \in [ArrayType -> Nat \ {0}]
  /\ array_variants \in [ArrayType -> Nat \ {0}]
  /\ \A t \in ArrayType : \A v \in 0 .. array_variants[t] - 1 :
       /\ array_list[t][v] \in Patterns(t)
       /\ \A i, j \in Slots(t) :
            array_list[t][v][i] = array_list[t][v][j] => i = j

ArraysOf(type) == [array_type : {type}, pattern : Patterns(type)]
AntennaArrays == UNION {ArraysOf(t) : t \in ArrayType}

(* Every antenna of the variant occurs in the pattern.                     *)
Covers(type, pattern, variant) ==
  \A i \in Slots(type) : \E j \in Slots(type) :
    pattern[j] = array_list[type][variant][i]

CoveredVariants(type, pattern) ==
  {v \in 0 .. array_variants[type] - 1 : Covers(type, pattern, v)}

(* The first variant the pattern covers, or array_variants if there is     *)
(* none.                                                                   *)
GetArrayVariant(type, pattern) ==
  LET covered == CoveredVariants(type, pattern)
  IN  IF covered = {} THEN array_variants[type]
      ELSE CHOOSE v \in covered : \A w \in covered : v <= w

IsVariant(type, pattern) ==
  GetArrayVariant(type, pattern) # array_variants[type]

-----------------------------------------------------------------------------

(* antenna_array_init: the first variant.                                  *)
InitArray(type) == [array_type |-> type, pattern |-> array_list[type][0]]

(* Mutant: only the size is tested.                                        *)
AcceptsPatternOfSize(type, pattern) == DOMAIN pattern = Slots(type)

(* antenna_array_set_pattern, with the two tests that refuse a pattern.    *)
AcceptsPattern(type, pattern) ==
  /\ DOMAIN pattern = Slots(type)
  /\ IsVariant(type, pattern)

(* Mutant: index i may be swapped with itself.                             *)
SwapWithLaterOrSelf(pattern, i) ==
  {[pattern EXCEPT ![i] = pattern[j], ![j] = pattern[i]] :
     j \in {k \in DOMAIN pattern : k >= i}}

(* The iteration i of antenna_array_shuffle_pattern: index i is swapped    *)
(* with a random later index.                                              *)
SwapWithLater(pattern, i) ==
  {[pattern EXCEPT ![i] = pattern[j], ![j] = pattern[i]] :
     j \in {k \in DOMAIN pattern : k > i}}

(* What the loop can leave after every random() it may draw.               *)
ShuffleLoop(type, pattern) ==
  LET after[n \in Nat] ==
        IF n = 0 THEN {pattern}
        ELSE UNION {SwapWithLater(p, n - 1) : p \in after[n - 1]}
  IN  after[array_size[type] - 1]

(* The rearrangements in which no proper part of the slots keeps to itself:*)
(* the slots form a single cycle.                                          *)
Cycles(D) ==
  {f \in [D -> D] :
     \A S \in SUBSET D : S \notin {{}, D} => \E i \in S : f[i] \notin S}

(* antenna_array_shuffle_pattern by its result.                            *)
ShuffledArrays(array) ==
  {[array EXCEPT !.pattern = [i \in DOMAIN @ |-> @[f[i]]]] :
     f \in Cycles(Slots(array.array_type))}

-----------------------------------------------------------------------------

(* antenna_array_get_pin_pattern.  On a dual polarised array every antenna *)
(* is sampled by both of its feeds, after one sample of the reference.     *)
PinPatternSize(type) ==
  IF type \in DualPolarized THEN 1 + 2 * array_size[type] ELSE array_size[type]

PinPattern(array) ==
  IF array.array_type \in DualPolarized
  THEN [k \in 0 .. 2 * array_size[array.array_type] |->
          IF k = 0 THEN <<"reference">>
          ELSE IF k % 2 = 1 THEN <<"vertical", array.pattern[k \div 2]>>
          ELSE <<"horizontal", array.pattern[k \div 2 - 1]>>]
  ELSE [k \in Slots(array.array_type) |-> <<"antenna", array.pattern[k]>>]

(* antenna_array_get_continuous_pattern: each antenna by its index in the  *)
(* variant; SL_STATUS_FAIL when the pattern is no variant.                 *)
ContinuousPattern(array) ==
  LET type == array.array_type
      reference == array_list[type][GetArrayVariant(type, array.pattern)]
  IN  [i \in Slots(type) |->
         CHOOSE j \in Slots(type) : array.pattern[i] = reference[j]]

=============================================================================
