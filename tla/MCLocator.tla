----------------------------- MODULE MCLocator -----------------------------
(* Instances of Locator for TLC: a board of four antennas, a rectangular   *)
(* array of three of them in two variants, and a dual polarised pair.      *)
EXTENDS Locator

CONSTANTS t1, t2, Timeouts

MCArraySize == [t \in ArrayType |-> IF t = "URA" THEN 3 ELSE 2]
MCArrayVariants == [t \in ArrayType |-> IF t = "URA" THEN 2 ELSE 1]
MCArrayList ==
  [t \in ArrayType |->
     [v \in 0 .. MCArrayVariants[t] - 1 |->
        [i \in 0 .. MCArraySize[t] - 1 |-> i + v]]]

(* The configurations: no key at all, one key, or two that interact.       *)
NoKeys ==
  [reportMode |-> Absent, antennaMode |-> Absent, antennaArray |-> Absent,
   angleFiltering |-> Absent, angleCorrectionTimeout |-> Absent,
   angleCorrectionDelay |-> Absent, cteLength |-> Absent,
   slotDuration |-> Absent, allowlist |-> Absent]

(* Two orders of the second variant and of the pair, an antenna twice, and *)
(* antennas of no variant.                                                 *)
MCAntennaArrays ==
  {[i \in 0 .. 2 |-> <<3, 1, 2>>[i + 1]], [i \in 0 .. 2 |-> <<1, 1, 2>>[i + 1]],
   [i \in 0 .. 2 |-> <<0, 1, 3>>[i + 1]], [i \in 0 .. 1 |-> 1 - i]}

MCConfigs ==
  {[NoKeys EXCEPT !.reportMode = m, !.antennaMode = t] :
     m \in {"ANGLE_REPORT", "IQ_REPORT", Absent}, t \in ArrayType \cup {Absent}}
  \cup {[NoKeys EXCEPT !.antennaArray = a, !.antennaMode = t] :
          a \in MCAntennaArrays, t \in {"URA", Absent}}
  \cup {[NoKeys EXCEPT !.reportMode = "ANGLE_IQ_REPORT"]}
  \cup {[NoKeys EXCEPT !.angleFiltering = b] : b \in BOOLEAN}
  \cup {[NoKeys EXCEPT !.angleCorrectionTimeout = n] : n \in Timeouts}
  \cup {[NoKeys EXCEPT !.slotDuration = n] : n \in {1, 2}}
  \cup {[NoKeys EXCEPT !.allowlist = l] : l \in {<<>>, <<t1>>, <<t2, t1>>, <<t2, t2, t1>>}}
=============================================================================
