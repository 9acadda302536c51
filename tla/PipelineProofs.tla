--------------------------- MODULE PipelineProofs ---------------------------
(***************************************************************************)
(* Proofs about Pipeline, for any number of locators, tags, addresses and  *)
(* reports: the types, that angles are computed from the samples of one    *)
(* report, that measurements keep to their tag, that a position needs      *)
(* measurements of every locator, and that none goes back to older ones.   *)
(*                                                                         *)
(* The handler of SIGINT unlocks mutexes that are in use, so what the      *)
(* mutexes guard is only invariant while the program runs; the two safety  *)
(* properties hold for ever because an AoX thread looks at eAppCtrl before *)
(* it uses its copy.                                                       *)
(***************************************************************************)
EXTENDS Pipeline, TLAPS

Running == eAppCtrl = "RUN"

Reading(s) == aoxPc[s] = "samples"
Writing(l) == bgPc[l] = "samples"
Inserting(l) == bgPc[l] = "insert"

HandlerMeansShutdown == handler # -1 => ~Running

(* A report that is being handled is one.                                  *)
ReportInHand ==
  \A l \in Locator : bgPc[l] \in {"lookup", "insert", "aux", "samples"} =>
    evt[l] \in Report \ {NoReport}

(* The mutex of a buffer excludes its two users.                           *)
BuffersExclude ==
  Running =>
    /\ \A l \in Locator : Writing(l) =>
         iqSamplesCriticalSection[BgSlot(l)] /\ ~Reading(BgSlot(l))
    /\ \A s \in Slot : Reading(s) => iqSamplesCriticalSection[s]

(* The samples are of the report whose auxiliary info is beside them, and  *)
(* of no other if it fills the buffer.                                     *)
Whole(samples) ==
  /\ samples.aux.samples # "none" => samples.aux \in samples.iq
  /\ samples.aux.samples = "all" => samples.iq = {samples.aux}

(* A buffer that is not being written holds what its report has made of    *)
(* it, and so does the working copy once it is made.                       *)
BuffersWhole ==
  Running =>
    /\ \A l \in Locator : Writing(l) => iqSamplesBuffered[BgSlot(l)].aux = evt[l]
    /\ \A s \in Slot :
         /\ Whole(iqSamplesBuffered[s]) \/ \E l \in Locator : Writing(l) /\ BgSlot(l) = s
         /\ Reading(s) => iqSamplesActive[s].aux = iqSamplesBuffered[s].aux
         /\ aoxPc[s] = "azimuth" => Whole(iqSamplesActive[s])

AngleWhole(angle) == angle.iq = {} \/ Whole(angle)

AnglesWhole ==
  \A s \in Slot :
    /\ aoxPc[s] = "elevation" => Whole(iqSamplesActive[s])
    /\ AngleWhole(locatorMeasurements[s].azimuth)
    /\ AngleWhole(locatorMeasurements[s].elevation)

(* The mutex of the table: one thread at a time adds to it, at its end.    *)
TableExclude ==
  Running =>
    /\ \A l \in Locator : Inserting(l) => tagHandleCriticalSection /\ bgTag[l] = tagCounter
    /\ \A k, l \in Locator : Inserting(k) /\ Inserting(l) => k = l
    /\ \A t \in TagID : t >= tagCounter => foundTags[t] = NoAddress

(* The reports that samples or an angle may come from.                     *)
Origins(samples) == {samples.aux} \cup samples.iq

OfTag(samples, t) == \A r \in Origins(samples) : r = NoReport \/ r.address = foundTags[t]
OfNone(samples) == \A r \in Origins(samples) : r = NoReport

(* Reports are filed under the index of their tag.                         *)
BuffersOfTag ==
  Running =>
    /\ \A l \in Locator : bgPc[l] \in {"aux", "samples"} =>
         foundTags[bgTag[l]] = evt[l].address
    /\ \A t \in TagID, l \in Locator :
         OfTag(iqSamplesBuffered[<<t, l>>], t) /\ OfTag(iqSamplesActive[<<t, l>>], t)

(* An index whose entry in the table may still change.                     *)
Fresh(t) == t >= tagCounter \/ \E l \in Locator : Inserting(l) /\ bgTag[l] = t

(* Nothing has been measured at such an index, and what has been measured  *)
(* at another is of the tag in the table.                                  *)
AnglesOfTag ==
  \A t \in TagID, l \in Locator :
    /\ OfTag(locatorMeasurements[<<t, l>>].azimuth, t)
    /\ OfTag(locatorMeasurements[<<t, l>>].elevation, t)
    /\ aoxPc[<<t, l>>] = "elevation" => OfTag(iqSamplesActive[<<t, l>>], t)
    /\ Fresh(t) =>
         /\ OfNone(locatorMeasurements[<<t, l>>].azimuth)
         /\ OfNone(locatorMeasurements[<<t, l>>].elevation)
         /\ aoxPc[<<t, l>>] = "elevation" => OfNone(iqSamplesActive[<<t, l>>])

IInv ==
  /\ TypeOK /\ HandlerMeansShutdown /\ ReportInHand
  /\ BuffersExclude /\ BuffersWhole /\ AnglesWhole
  /\ TableExclude /\ BuffersOfTag /\ AnglesOfTag

-----------------------------------------------------------------------------
(* Who changes what.                                                       *)

BgAny == \E l \in Locator : BgReport(l) \/ BgStep(l)
AoxAny == \E s \in Slot : AoxStep(s)
HandlerAny == SigInt \/ HandlerStep

LEMMA Actors ==
  ASSUME [Next]_vars
  PROVE  BgAny \/ AoxAny \/ LocStep \/ HandlerAny \/ UNCHANGED vars
BY DEF Next, BgAny, AoxAny, HandlerAny

LEMMA BgFrame ==
  ASSUME BgAny
  PROVE  UNCHANGED <<eAppCtrl, handler, aoxVars, locVars, newMeasurementAvailable>>
BY DEF BgAny, BgStep, BgReport, BgStop, BgLookup, BgInsert, BgAux, BgSamples, BgPost,
       ctrlVars, semVars

LEMMA AoxFrame ==
  ASSUME AoxAny
  PROVE  UNCHANGED <<ctrlVars, tagVars, bgVars, locVars, iqSamplesBuffered>>
BY DEF AoxAny, AoxStep, AoxWait, AoxCopyAux, AoxCopySamples, AoxAzimuth, AoxElevation,
       AoxPost, bufferVars

LEMMA LocFrame ==
  ASSUME LocStep
  PROVE  UNCHANGED <<ctrlVars, tagVars, bufferVars, bgVars, aoxVars, newSamplesAvailable>>
BY DEF LocStep, LocTake, LocTimeout, LocAzimuth, LocElevation, LocProcess, semVars

LEMMA HandlerFrame ==
  ASSUME HandlerAny
  PROVE  /\ UNCHANGED <<reports, foundTags, tagCounter, iqSamplesBuffered>>
         /\ UNCHANGED <<bgVars, aoxVars, locVars>>
BY DEF HandlerAny, HandlerStep, SigInt, HandlerRelease, HandlerReturns, tagVars, bufferVars

-----------------------------------------------------------------------------
(* Types, by the thread that owns the variables.                           *)

TypeCtrl == eAppCtrl \in {"RUN", "SHUTDOWN"} /\ handler \in Int /\ reports \in 0 .. MaxReports

TypeTags ==
  /\ foundTags \in [TagID -> Address \cup {NoAddress}] /\ tagCounter \in Nat
  /\ tagHandleCriticalSection \in BOOLEAN

TypeBuffers ==
  iqSamplesBuffered \in [Slot -> Samples] /\ iqSamplesCriticalSection \in [Slot -> BOOLEAN]

TypeSemaphores ==
  newSamplesAvailable \in [Slot -> Nat] /\ newMeasurementAvailable \in [Slot -> Nat]

TypeBg ==
  /\ bgPc \in [Locator -> {"event", "lookup", "insert", "aux", "samples", "post", "done"}]
  /\ evt \in [Locator -> Report]
  /\ bgTag \in [Locator -> TagID]

TypeAox ==
  /\ aoxPc \in [Slot -> {"wait", "aux", "samples", "azimuth", "elevation", "post", "done"}]
  /\ iqSamplesActive \in [Slot -> Samples]
  /\ locatorMeasurements \in [Slot -> Measurement]
  /\ result \in [Slot -> {"SUCCESS", "FAILURE"}] /\ announced \in [Slot -> Nat]

TypeLoc ==
  /\ locPc \in {"wait", "azimuth", "elevation", "process", "done"}
  /\ locTag \in TagID /\ locIndex \in Locator
  /\ given \in [Locator -> Measurement]
  /\ position \in [TagID -> [Locator -> Measurement]]
  /\ loc_sequence \in [TagID -> Nat]

LEMMA TypeParts ==
  TypeOK <=> /\ TypeCtrl /\ TypeTags /\ TypeBuffers /\ TypeSemaphores
             /\ TypeBg /\ TypeAox /\ TypeLoc
BY DEF TypeOK, TypeCtrl, TypeTags, TypeBuffers, TypeSemaphores, TypeBg, TypeAox, TypeLoc

LEMMA ReportType ==
  /\ NoReport \in Report /\ Allocated \in Samples /\ NoMeasurement \in Measurement
  /\ 0 \in TagID /\ 0 \in Locator
  /\ \A s \in Samples, r \in Report : [s EXCEPT !.aux = r] \in Samples
  /\ \A s \in Samples, q \in SUBSET Report : [s EXCEPT !.iq = q] \in Samples
  /\ \A m \in Measurement, s \in Samples :
       [m EXCEPT !.azimuth = s] \in Measurement /\ [m EXCEPT !.elevation = s] \in Measurement
  /\ \A s \in Samples : s.aux \in Report /\ s.iq \in SUBSET Report
  /\ \A m \in Measurement : m.azimuth \in Samples /\ m.elevation \in Samples
<1>1. NoReport \in Report /\ Allocated \in Samples
  BY DEF Report, Samples, Allocated
<1>4. \A s \in Samples : s.aux \in Report /\ s.iq \in SUBSET Report
  BY DEF Samples
<1>5. \A m \in Measurement : m.azimuth \in Samples /\ m.elevation \in Samples
  BY DEF Measurement
<1>6. ASSUME NEW s \in Samples, NEW r \in Report
      PROVE  [s EXCEPT !.aux = r] \in Samples
  BY DEF Samples
<1>8. ASSUME NEW s \in Samples, NEW q \in SUBSET Report
      PROVE  [s EXCEPT !.iq = q] \in Samples
  BY DEF Samples
<1>2. NoMeasurement \in Measurement
  BY <1>1, <1>8 DEF Measurement, NoMeasurement, NotComputed
<1>3. 0 \in TagID /\ 0 \in Locator
  BY NumLocatorsAssumption, MaxTagsAssumption DEF TagID, Locator
<1>7. ASSUME NEW m \in Measurement, NEW s \in Samples
      PROVE  /\ [m EXCEPT !.azimuth = s] \in Measurement
             /\ [m EXCEPT !.elevation = s] \in Measurement
  BY DEF Measurement
<1> QED
  BY <1>1, <1>2, <1>3, <1>4, <1>5, <1>6, <1>7, <1>8

(* Samples that no angle has been computed from.                           *)
LEMMA NotComputedIs ==
  ASSUME NEW s \in Samples
  PROVE  /\ NotComputed(s) \in Samples
         /\ NotComputed(s).aux = s.aux /\ NotComputed(s).iq = {}
<1>1. s \in [aux : Report, iq : SUBSET Report]
  BY DEF Samples
<1> QED
  BY <1>1, ReportType DEF NotComputed

(* What nobody has written is of no report.                                *)
LEMMA NothingFiled ==
  /\ Allocated.aux = NoReport /\ Allocated.iq = {NoReport}
  /\ NoMeasurement.azimuth.aux = NoReport /\ NoMeasurement.azimuth.iq = {}
  /\ NoMeasurement.elevation.aux = NoReport /\ NoMeasurement.elevation.iq = {}
<1>1. Allocated.aux = NoReport /\ Allocated.iq = {NoReport}
  BY DEF Allocated
<1>2. NotComputed(Allocated).aux = NoReport /\ NotComputed(Allocated).iq = {}
  BY <1>1, ReportType, NotComputedIs
<1> QED
  BY <1>1, <1>2 DEF NoMeasurement

(* What a copy makes of the samples in the buffer.                         *)
LEMMA CopiedIs ==
  ASSUME NEW r \in Report, NEW q \in SUBSET Report
  PROVE  /\ Copied(r, q) \in SUBSET Report
         /\ Copied(r, q) \subseteq q \cup {r, NoReport}
         /\ r.samples # "none" => r \in Copied(r, q)
         /\ r.samples = "all" => Copied(r, q) = {r}
<1>1. r.samples \in Portion
  BY DEF Report, NoReport, Portion
<1>2. NoReport \in Report
  BY ReportType
<1> QED
  BY <1>1, <1>2 DEF Copied, Portion

(* Storing one field of one element.                                       *)
LEMMA StoreSamples ==
  ASSUME NEW S, NEW f \in [S -> Samples], NEW s, NEW r \in Report, NEW q \in SUBSET Report
  PROVE  /\ [f EXCEPT ![s].aux = r] \in [S -> Samples]
         /\ [f EXCEPT ![s].iq = q] \in [S -> Samples]
<1>1. ASSUME NEW x \in S
      PROVE  /\ [f EXCEPT ![s].aux = r][x] \in Samples
             /\ [f EXCEPT ![s].iq = q][x] \in Samples
  <2>1. f[x] \in Samples
    OBVIOUS
  <2>2. CASE x = s
    BY <2>1, <2>2, ReportType
  <2>3. CASE x # s
    BY <2>1, <2>3
  <2> QED
    BY <2>2, <2>3
<1> QED
  BY <1>1

LEMMA StoreAngle ==
  ASSUME NEW S, NEW f \in [S -> Measurement], NEW s, NEW a \in Samples
  PROVE  /\ [f EXCEPT ![s].azimuth = a] \in [S -> Measurement]
         /\ [f EXCEPT ![s].elevation = a] \in [S -> Measurement]
<1>1. ASSUME NEW x \in S
      PROVE  /\ [f EXCEPT ![s].azimuth = a][x] \in Measurement
             /\ [f EXCEPT ![s].elevation = a][x] \in Measurement
  <2>1. f[x] \in Measurement
    OBVIOUS
  <2>2. CASE x = s
    BY <2>1, <2>2, ReportType
  <2>3. CASE x # s
    BY <2>1, <2>3
  <2> QED
    BY <2>2, <2>3
<1> QED
  BY <1>1

LEMMA CountUp ==
  ASSUME NEW S, NEW f \in [S -> Nat], NEW s
  PROVE  [f EXCEPT ![s] = @ + 1] \in [S -> Nat]
<1>1. CASE s \in S
  <2>1. f[s] + 1 \in Nat
    BY <1>1
  <2> QED
    BY <2>1
<1>2. CASE s \notin S
  BY <1>2
<1> QED
  BY <1>1, <1>2

LEMMA InitTypeOK == Init => TypeOK
<1> SUFFICES ASSUME Init PROVE TypeOK
  OBVIOUS
<1>1. TypeCtrl /\ TypeTags
  <2>1. TypeCtrl
    BY MaxReportsAssumption DEF Init, TypeCtrl
  <2>2. TypeTags
    BY DEF Init, TypeTags
  <2> QED
    BY <2>1, <2>2
<1>2. TypeBuffers /\ TypeSemaphores
  BY ReportType DEF Init, TypeBuffers, TypeSemaphores
<1>3. TypeBg
  BY ReportType DEF Init, TypeBg
<1>4. TypeAox
  BY ReportType DEF Init, TypeAox
<1>5. TypeLoc
  <2>1. given \in [Locator -> Measurement]
    BY ReportType DEF Init
  <2> QED
    BY <2>1, ReportType DEF Init, TypeLoc
<1> QED
  BY <1>1, <1>2, <1>3, <1>4, <1>5, TypeParts

LEMMA CtrlStep == ASSUME TypeOK, [Next]_vars PROVE TypeCtrl'
<1>0. TypeCtrl
  BY TypeParts
<1>1. CASE BgAny
  <2>1. reports' = reports \/ (reports < MaxReports /\ reports' = reports + 1)
    BY <1>1 DEF BgAny, BgReport, BgStep, BgStop, BgLookup, BgInsert, BgAux, BgSamples, BgPost,
                ctrlVars
  <2> QED
    BY <1>0, <1>1, <2>1, BgFrame, MaxReportsAssumption DEF TypeCtrl
<1>2. CASE AoxAny \/ LocStep \/ UNCHANGED vars
  BY <1>0, <1>2, AoxFrame, LocFrame DEF TypeCtrl, vars, ctrlVars
<1>3. CASE HandlerAny
  BY <1>0, <1>3, HandlerFrame, MaxTagsAssumption, NumLocatorsAssumption
     DEF TypeCtrl, HandlerAny, HandlerStep, SigInt, HandlerRelease, HandlerReturns
<1> QED
  BY <1>1, <1>2, <1>3, Actors

LEMMA TagsStep == ASSUME TypeOK, [Next]_vars PROVE TypeTags'
<1>0. TypeTags /\ TypeBg
  BY TypeParts
<1>1. ASSUME NEW l \in Locator, BgReport(l) \/ BgStep(l)
      PROVE  TypeTags'
  <2>1. CASE BgInsert(l)
    <3>1. evt[l].address \in Address \cup {NoAddress}
      BY <1>0 DEF TypeBg, Report, NoReport
    <3>2. foundTags' \in [TagID -> Address \cup {NoAddress}]
      BY <1>0, <2>1, <3>1 DEF TypeTags, BgInsert
    <3>3. tagCounter' = tagCounter + 1 /\ tagHandleCriticalSection' = FALSE
      BY <2>1 DEF BgInsert
    <3>4. tagCounter \in Nat
      BY <1>0 DEF TypeTags
    <3>5. tagCounter' \in Nat
      BY <3>3, <3>4
    <3> QED
      BY <3>2, <3>3, <3>5 DEF TypeTags
  <2>2. CASE BgLookup(l)
    BY <1>0, <2>2 DEF TypeTags, BgLookup, LockTagTable
  <2>3. CASE UNCHANGED tagVars
    BY <1>0, <2>3 DEF TypeTags, tagVars
  <2> QED
    BY <1>1, <2>1, <2>2, <2>3 DEF BgReport, BgStep, BgStop, BgAux, BgSamples, BgPost
<1>2. CASE AoxAny \/ LocStep \/ UNCHANGED vars
  BY <1>0, <1>2, AoxFrame, LocFrame DEF TypeTags, vars, tagVars
<1>3. CASE HandlerAny
  BY <1>0, <1>3, HandlerFrame
     DEF TypeTags, HandlerAny, HandlerStep, SigInt, HandlerRelease, HandlerReturns, tagVars
<1> QED
  BY <1>1, <1>2, <1>3, Actors DEF BgAny

LEMMA BuffersStep == ASSUME TypeOK, [Next]_vars PROVE TypeBuffers'
<1>0. TypeBuffers /\ TypeBg
  BY TypeParts
<1>1. ASSUME NEW l \in Locator, BgReport(l) \/ BgStep(l)
      PROVE  TypeBuffers'
  <2>1. CASE BgAux(l) \/ BgSamples(l)
    <3> DEFINE q == Copied(evt[l], iqSamplesBuffered[BgSlot(l)].iq)
    <3>1. \/ iqSamplesBuffered' = [iqSamplesBuffered EXCEPT ![BgSlot(l)].aux = evt[l]]
          \/ iqSamplesBuffered' = [iqSamplesBuffered EXCEPT ![BgSlot(l)].iq = q]
      BY <2>1 DEF BgAux, BgSamples
    <3>2. evt[l] \in Report /\ q \in SUBSET Report
      <4>1. evt[l] \in Report /\ BgSlot(l) \in Slot
        BY <1>0 DEF TypeBg, BgSlot, Slot
      <4>2. iqSamplesBuffered[BgSlot(l)].iq \in SUBSET Report
        BY <1>0, <4>1, ReportType DEF TypeBuffers
      <4> QED
        BY <4>1, <4>2, CopiedIs
    <3> HIDE DEF q
    <3>3. iqSamplesBuffered' \in [Slot -> Samples]
      <4>1. iqSamplesBuffered \in [Slot -> Samples]
        BY <1>0 DEF TypeBuffers
      <4>2. /\ [iqSamplesBuffered EXCEPT ![BgSlot(l)].aux = evt[l]] \in [Slot -> Samples]
            /\ [iqSamplesBuffered EXCEPT ![BgSlot(l)].iq = q] \in [Slot -> Samples]
        BY <4>1, <3>2, StoreSamples
      <4> QED
        BY <3>1, <4>1, <4>2
    <3>4. iqSamplesCriticalSection' \in [Slot -> BOOLEAN]
      BY <1>0, <2>1 DEF TypeBuffers, BgAux, BgSamples, LockBuffer
    <3> QED
      BY <3>3, <3>4 DEF TypeBuffers
  <2>2. CASE UNCHANGED bufferVars
    BY <1>0, <2>2 DEF TypeBuffers, bufferVars
  <2> QED
    BY <1>1, <2>1, <2>2 DEF BgReport, BgStep, BgStop, BgLookup, BgInsert, BgPost
<1>2. ASSUME NEW s \in Slot, AoxStep(s)
      PROVE  TypeBuffers'
  BY <1>0, <1>2 DEF TypeBuffers, AoxStep, AoxWait, AoxCopyAux, AoxCopySamples, AoxAzimuth,
                    AoxElevation, AoxPost, LockBuffer, bufferVars
<1>3. CASE LocStep \/ UNCHANGED vars
  BY <1>0, <1>3, LocFrame DEF TypeBuffers, vars, bufferVars
<1>4. CASE HandlerAny
  BY <1>0, <1>4, HandlerFrame
     DEF TypeBuffers, HandlerAny, HandlerStep, SigInt, HandlerRelease, HandlerReturns, bufferVars
<1> QED
  BY <1>1, <1>2, <1>3, <1>4, Actors DEF BgAny, AoxAny

LEMMA SemaphoresStep == ASSUME TypeOK, [Next]_vars PROVE TypeSemaphores'
<1>0. TypeSemaphores
  BY TypeParts
<1>1. ASSUME NEW l \in Locator, BgReport(l) \/ BgStep(l)
      PROVE  TypeSemaphores'
  <2>1. CASE BgPost(l)
    <3>1. /\ newSamplesAvailable' = [newSamplesAvailable EXCEPT ![BgSlot(l)] = @ + 1]
          /\ UNCHANGED newMeasurementAvailable
      BY <2>1 DEF BgPost
    <3>2. newSamplesAvailable' \in [Slot -> Nat]
      <4>1. newSamplesAvailable \in [Slot -> Nat]
        BY <1>0 DEF TypeSemaphores
      <4> QED
        BY <3>1, <4>1, CountUp
    <3>3. newMeasurementAvailable' \in [Slot -> Nat]
      BY <1>0, <3>1 DEF TypeSemaphores
    <3> QED
      BY <3>2, <3>3 DEF TypeSemaphores
  <2>2. CASE UNCHANGED semVars
    BY <1>0, <2>2 DEF TypeSemaphores, semVars
  <2> QED
    BY <1>1, <2>1, <2>2 DEF BgReport, BgStep, BgStop, BgLookup, BgInsert, BgAux, BgSamples
<1>2. ASSUME NEW s \in Slot, AoxStep(s)
      PROVE  TypeSemaphores'
  BY <1>0, <1>2 DEF TypeSemaphores, AoxStep, AoxWait, AoxCopyAux, AoxCopySamples, AoxAzimuth,
                    AoxElevation, AoxPost, Announce, semVars
<1>3. CASE LocStep
  <2>1. CASE LocTake
    <3>1. \A s \in Slot : newMeasurementAvailable'[s] \in Nat
      BY <1>0, <2>1 DEF TypeSemaphores, LocTake
    <3> QED
      BY <1>0, <2>1, <3>1 DEF TypeSemaphores, LocTake
  <2> QED
    BY <1>0, <1>3, <2>1 DEF TypeSemaphores, LocStep, LocTimeout, LocAzimuth, LocElevation,
                            LocProcess, semVars
<1>4. CASE HandlerAny
  BY <1>0, <1>4 DEF TypeSemaphores, HandlerAny, HandlerStep, SigInt, HandlerRelease,
                    HandlerReturns, semVars
<1>5. CASE UNCHANGED vars
  BY <1>0, <1>5 DEF TypeSemaphores, vars, semVars
<1> QED
  BY <1>1, <1>2, <1>3, <1>4, <1>5, Actors DEF BgAny, AoxAny

(* The report that a BG thread reads is the next of all.                   *)
LEMMA ReportRead ==
  ASSUME TypeCtrl, NEW l \in Locator, BgReport(l)
  PROVE  \E r \in Report \ {NoReport} :
           evt' = [evt EXCEPT ![l] = r] /\ r.number = reports + 1
<1>1. PICK a \in Address, n \in Portions[reports'] :
        evt' = [evt EXCEPT ![l] = [address |-> a, number |-> reports', samples |-> n]]
  BY DEF BgReport
<1>2. reports' = reports + 1 /\ reports' \in 1 .. MaxReports
  BY MaxReportsAssumption DEF BgReport, TypeCtrl
<1>3. n \in Portion
  BY <1>2, PortionsAssumption
<1> DEFINE r == [address |-> a, number |-> reports', samples |-> n]
<1>4. r \in Report
  BY <1>2, <1>3 DEF Report
<1>5. r # NoReport /\ r.number = reports + 1
  BY <1>2 DEF NoReport
<1>6. evt' = [evt EXCEPT ![l] = r]
  BY <1>1
<1> HIDE DEF r
<1> QED
  BY <1>4, <1>5, <1>6

LEMMA BgTypeStep == ASSUME TypeOK, [Next]_vars PROVE TypeBg'
<1>0. TypeBg /\ TypeTags /\ TypeCtrl
  BY TypeParts
<1>1. ASSUME NEW l \in Locator, BgReport(l) \/ BgStep(l)
      PROVE  TypeBg'
  <2>1. CASE BgReport(l)
    <3>1. PICK r \in Report : evt' = [evt EXCEPT ![l] = r]
      BY <1>0, <2>1, ReportRead
    <3>2. evt' \in [Locator -> Report]
      BY <1>0, <3>1 DEF TypeBg
    <3> QED
      BY <1>0, <2>1, <3>2 DEF TypeBg, BgReport, BgGoto
  <2>2. CASE BgLookup(l)
    <3>1. CASE BgDone(l)
      BY <1>0, <3>1, ReportType DEF TypeBg, BgDone, BgGoto
    <3>2. CASE /\ UNCHANGED evt
               /\ BgGoto(l, "aux") \/ BgGoto(l, "insert")
               /\ \E t \in TagID : bgTag' = [bgTag EXCEPT ![l] = t]
      BY <1>0, <3>2 DEF TypeBg, BgGoto
    <3>3. ~TableFull => tagCounter \in TagID
      BY <1>0, MaxTagsAssumption DEF TypeTags, TagID, TableFull
    <3> QED
      BY <2>2, <3>1, <3>2, <3>3 DEF BgLookup
  <2>3. CASE BgPost(l)
    BY <1>0, <2>3, ReportType DEF TypeBg, BgPost, BgDone, BgGoto
  <2>4. CASE BgStop(l) \/ BgInsert(l) \/ BgAux(l) \/ BgSamples(l)
    BY <1>0, <2>4 DEF TypeBg, BgStop, BgInsert, BgAux, BgSamples, BgGoto
  <2> QED
    BY <1>1, <2>1, <2>2, <2>3, <2>4 DEF BgStep
<1>2. CASE AoxAny \/ LocStep \/ HandlerAny \/ UNCHANGED vars
  BY <1>0, <1>2, AoxFrame, LocFrame, HandlerFrame DEF TypeBg, vars, bgVars
<1> QED
  BY <1>1, <1>2, Actors DEF BgAny

LEMMA AoxTypeStep == ASSUME TypeOK, [Next]_vars PROVE TypeAox'
<1>0. TypeAox /\ TypeBuffers
  BY TypeParts
<1>1. ASSUME NEW s \in Slot, AoxStep(s)
      PROVE  TypeAox'
  <2>0. aoxPc' \in [Slot -> {"wait", "aux", "samples", "azimuth", "elevation", "post", "done"}]
    BY <1>0, <1>1 DEF TypeAox, AoxGoto, AoxStep, AoxWait, AoxCopyAux, AoxCopySamples, AoxAzimuth,
                      AoxElevation, AoxPost
  <2>1. \/ UNCHANGED iqSamplesActive
        \/ \E r \in Report : iqSamplesActive' = [iqSamplesActive EXCEPT ![s].aux = r]
        \/ \E q \in SUBSET Report : iqSamplesActive' = [iqSamplesActive EXCEPT ![s].iq = q]
    BY <1>0, <1>1, ReportType DEF TypeBuffers, AoxStep, AoxWait, AoxCopyAux, AoxCopySamples,
                                  AoxAzimuth, AoxElevation, AoxPost
  <2>2. iqSamplesActive' \in [Slot -> Samples]
    <3>1. iqSamplesActive \in [Slot -> Samples]
      BY <1>0 DEF TypeAox
    <3>2. ASSUME NEW r \in Report
          PROVE  [iqSamplesActive EXCEPT ![s].aux = r] \in [Slot -> Samples]
      <4>1. {} \in SUBSET Report
        OBVIOUS
      <4> QED
        BY <3>1, <4>1, StoreSamples
    <3>3. ASSUME NEW q \in SUBSET Report
          PROVE  [iqSamplesActive EXCEPT ![s].iq = q] \in [Slot -> Samples]
      BY <3>1, ReportType, StoreSamples
    <3> QED
      BY <2>1, <3>1, <3>2, <3>3
  <2>3. \/ UNCHANGED locatorMeasurements
        \/ \E sc : \/ locatorMeasurements' = [locatorMeasurements EXCEPT ![s].azimuth = Angle(s, sc)]
                  \/ locatorMeasurements' = [locatorMeasurements EXCEPT ![s].elevation = Angle(s, sc)]
    BY <1>1 DEF AoxStep, AoxWait, AoxCopyAux, AoxCopySamples, AoxAzimuth, AoxElevation, AoxPost
  <2>4. locatorMeasurements' \in [Slot -> Measurement]
    <3>1. \A sc : Angle(s, sc) \in Samples
      BY <1>0, NotComputedIs DEF TypeAox, Angle
    <3>2. locatorMeasurements \in [Slot -> Measurement]
      BY <1>0 DEF TypeAox
    <3>3. ASSUME NEW a \in Samples
          PROVE  /\ [locatorMeasurements EXCEPT ![s].azimuth = a] \in [Slot -> Measurement]
                 /\ [locatorMeasurements EXCEPT ![s].elevation = a] \in [Slot -> Measurement]
      BY <3>2, StoreAngle
    <3> QED
      BY <2>3, <3>1, <3>2, <3>3
  <2>5. result' \in [Slot -> {"SUCCESS", "FAILURE"}]
    BY <1>0, <1>1 DEF TypeAox, AoxStep, AoxWait, AoxCopyAux, AoxCopySamples, AoxAzimuth,
                      AoxElevation, AoxPost
  <2>6. announced' \in [Slot -> Nat]
    <3>1. announced \in [Slot -> Nat]
      BY <1>0 DEF TypeAox
    <3>2. UNCHANGED announced \/ announced' = [announced EXCEPT ![s] = @ + 1]
      BY <1>1 DEF AoxStep, AoxWait, AoxCopyAux, AoxCopySamples, AoxAzimuth, AoxElevation,
                  AoxPost, Announce
    <3> QED
      BY <3>1, <3>2, CountUp
  <2> QED
    BY <2>0, <2>2, <2>4, <2>5, <2>6 DEF TypeAox
<1>2. CASE BgAny \/ LocStep \/ HandlerAny \/ UNCHANGED vars
  BY <1>0, <1>2, BgFrame, LocFrame, HandlerFrame DEF TypeAox, vars, aoxVars
<1> QED
  BY <1>1, <1>2, Actors DEF AoxAny

LEMMA LocTypeStep == ASSUME TypeOK, [Next]_vars PROVE TypeLoc'
<1>0. TypeLoc /\ TypeAox
  BY TypeParts
<1>1. CASE LocStep
  <2>1. LocSlot \in Slot
    BY <1>0 DEF TypeLoc, LocSlot, Slot
  <2>2. locTag' \in TagID /\ locIndex' \in Locator
        /\ locPc' \in {"wait", "azimuth", "elevation", "process", "done"}
    <3>1. NextTag => /\ locTag' \in TagID /\ locIndex' \in Locator
                     /\ locPc' \in {"wait", "azimuth", "elevation", "process", "done"}
      BY <1>0, ReportType, MaxTagsAssumption DEF TypeLoc, NextTag, TagID
    <3>2. (locIndex + 1) % NumLocators \in Locator
      BY <1>0, NumLocatorsAssumption DEF TypeLoc, Locator
    <3> QED
      BY <1>0, <1>1, <3>1, <3>2 DEF TypeLoc, LocStep, LocTake, LocTimeout, LocAzimuth,
                                    LocElevation, LocProcess, NextLocator
  <2>3. given' \in [Locator -> Measurement]
    <3>1. \/ UNCHANGED given
          \/ given' = [l \in Locator |-> NoMeasurement]
          \/ \E s \in Samples : \/ given' = [given EXCEPT ![locIndex].azimuth = s]
                                \/ given' = [given EXCEPT ![locIndex].elevation = s]
      BY <1>0, <1>1, <2>1, ReportType DEF TypeAox, LocStep, LocTake, LocTimeout, LocAzimuth,
                                          LocElevation, LocProcess
    <3>2. given \in [Locator -> Measurement]
      BY <1>0 DEF TypeLoc
    <3>3. ASSUME NEW s \in Samples
          PROVE  /\ [given EXCEPT ![locIndex].azimuth = s] \in [Locator -> Measurement]
                 /\ [given EXCEPT ![locIndex].elevation = s] \in [Locator -> Measurement]
      BY <3>2, StoreAngle
    <3>4. [l \in Locator |-> NoMeasurement] \in [Locator -> Measurement]
      BY ReportType
    <3> QED
      BY <3>1, <3>2, <3>3, <3>4
  <2>4. position' \in [TagID -> [Locator -> Measurement]] /\ loc_sequence' \in [TagID -> Nat]
    <3>1. CASE LocProcess
      BY <1>0, <3>1 DEF TypeLoc, LocProcess
    <3>2. CASE LocTake \/ LocTimeout \/ LocAzimuth \/ LocElevation
      BY <1>0, <3>2 DEF TypeLoc, LocTake, LocTimeout, LocAzimuth, LocElevation
    <3> QED
      BY <1>1, <3>1, <3>2 DEF LocStep
  <2> QED
    BY <2>2, <2>3, <2>4 DEF TypeLoc
<1>2. CASE BgAny \/ AoxAny \/ HandlerAny \/ UNCHANGED vars
  BY <1>0, <1>2, BgFrame, AoxFrame, HandlerFrame DEF TypeLoc, vars, locVars
<1> QED
  BY <1>1, <1>2, Actors

LEMMA TypeStep == ASSUME TypeOK, [Next]_vars PROVE TypeOK'
<1>1. /\ TypeCtrl' /\ TypeTags' /\ TypeBuffers' /\ TypeSemaphores'
      /\ TypeBg' /\ TypeAox' /\ TypeLoc'
  BY CtrlStep, TagsStep, BuffersStep, SemaphoresStep, BgTypeStep, AoxTypeStep, LocTypeStep
<1> QED
  BY <1>1 DEF TypeOK, TypeCtrl, TypeTags, TypeBuffers, TypeSemaphores, TypeBg, TypeAox, TypeLoc

(* Every variable keeps its type, in particular the indices of the arrays. *)
THEOREM TypeCorrect == Spec => []TypeOK
<1>1. TypeOK /\ [Next]_vars => TypeOK'
  BY TypeStep
<1> QED
  BY InitTypeOK, <1>1, PTL DEF Spec

LEMMA SlotType == \A t \in TagID, l \in Locator : <<t, l>> \in Slot
BY DEF Slot

-----------------------------------------------------------------------------
(* The steps, as far as the invariants need them.                          *)

LEMMA SlotOfBg ==
  ASSUME TypeOK, NEW l \in Locator
  PROVE  BgSlot(l) \in Slot /\ \A k \in Locator : BgSlot(k) = BgSlot(l) => k = l
<1>1. bgTag[l] \in TagID
  BY TypeParts DEF TypeBg
<1> QED
  BY <1>1 DEF BgSlot, Slot

(* A BG thread leaves the others alone.                                    *)
LEMMA BgOthers ==
  ASSUME TypeOK, NEW l \in Locator, BgReport(l) \/ BgStep(l), NEW k \in Locator, k # l
  PROVE  UNCHANGED <<bgPc[k], evt[k], bgTag[k], BgSlot(k)>>
<1>0. TypeBg
  BY TypeParts
<1>1. CASE BgReport(l)
  BY <1>0, <1>1 DEF TypeBg, BgReport, BgGoto, BgSlot
<1>2. CASE BgLookup(l)
  BY <1>0, <1>2 DEF TypeBg, BgLookup, BgDone, BgGoto, BgSlot
<1>3. CASE BgPost(l)
  BY <1>0, <1>3 DEF TypeBg, BgPost, BgDone, BgGoto, BgSlot
<1>4. CASE BgStop(l) \/ BgInsert(l) \/ BgAux(l) \/ BgSamples(l)
  BY <1>0, <1>4 DEF TypeBg, BgStop, BgInsert, BgAux, BgSamples, BgGoto, BgSlot
<1> QED
  BY <1>1, <1>2, <1>3, <1>4 DEF BgStep

(* Nor does an AoX thread touch what is not of its slot.                   *)
LEMMA AoxOthers ==
  ASSUME TypeOK, NEW s \in Slot, AoxStep(s), NEW r \in Slot, r # s
  PROVE  UNCHANGED <<aoxPc[r], iqSamplesActive[r], locatorMeasurements[r],
                     iqSamplesCriticalSection[r]>>
<1>0. TypeAox /\ TypeBuffers
  BY TypeParts
<1>1. CASE AoxWait(s) \/ AoxPost(s)
  BY <1>0, <1>1 DEF TypeAox, AoxWait, AoxPost, AoxGoto, bufferVars
<1>2. CASE AoxCopyAux(s) \/ AoxCopySamples(s)
  BY <1>0, <1>2 DEF TypeAox, TypeBuffers, AoxCopyAux, AoxCopySamples, AoxGoto, LockBuffer
<1>3. CASE AoxAzimuth(s) \/ AoxElevation(s)
  BY <1>0, <1>3 DEF TypeAox, AoxAzimuth, AoxElevation, AoxGoto, bufferVars
<1> QED
  BY <1>1, <1>2, <1>3 DEF AoxStep

(* Once the handler has begun the program does not run.                    *)
LEMMA HandlerShutsDown ==
  ASSUME HandlerMeansShutdown, HandlerAny
  PROVE  ~Running'
<1>1. NumLocators * MAX_NUM_TAGS # -1
  BY NumLocatorsAssumption, MaxTagsAssumption
<1>2. CASE SigInt
  BY <1>2 DEF SigInt, Running
<1>3. CASE HandlerStep
  <2>1. handler # -1 /\ eAppCtrl' = eAppCtrl
    BY <1>1, <1>3 DEF HandlerStep, HandlerRelease, HandlerReturns
  <2> QED
    BY <2>1 DEF HandlerMeansShutdown, Running
<1> QED
  BY <1>2, <1>3 DEF HandlerAny

LEMMA HandlerMeansShutdownStep ==
  ASSUME HandlerMeansShutdown, [Next]_vars
  PROVE  HandlerMeansShutdown'
<1>1. CASE HandlerAny
  BY <1>1, HandlerShutsDown DEF HandlerMeansShutdown
<1>2. CASE BgAny \/ AoxAny \/ LocStep \/ UNCHANGED vars
  BY <1>2, BgFrame, AoxFrame, LocFrame DEF HandlerMeansShutdown, Running, vars, ctrlVars
<1> QED
  BY <1>1, <1>2, Actors

(* A step after which the program runs is one of a thread.                 *)
LEMMA RunningStep ==
  ASSUME HandlerMeansShutdown, [Next]_vars, Running'
  PROVE  Running /\ (BgAny \/ AoxAny \/ LocStep \/ UNCHANGED vars)
<1>1. ~HandlerAny
  BY HandlerShutsDown
<1> QED
  BY <1>1, Actors, BgFrame, AoxFrame, LocFrame DEF Running, vars, ctrlVars

LEMMA ReportInHandStep ==
  ASSUME TypeOK, ReportInHand, [Next]_vars
  PROVE  ReportInHand'
<1>0. TypeBg /\ TypeCtrl
  BY TypeParts
<1>1. ASSUME NEW l \in Locator, BgReport(l) \/ BgStep(l), NEW k \in Locator,
             bgPc'[k] \in {"lookup", "insert", "aux", "samples"}
      PROVE  evt'[k] \in Report \ {NoReport}
  <2>1. CASE k # l
    BY <1>1, <2>1, BgOthers DEF ReportInHand
  <2>2. CASE k = l /\ BgReport(l)
    <3>1. PICK r \in Report \ {NoReport} : evt' = [evt EXCEPT ![l] = r]
      BY <1>0, <2>2, ReportRead
    <3> QED
      BY <1>0, <2>2, <3>1 DEF TypeBg
  <2>3. CASE k = l /\ (BgLookup(l) \/ BgInsert(l) \/ BgAux(l) \/ BgSamples(l))
    <3>1. bgPc[l] \in {"lookup", "insert", "aux", "samples"} /\ UNCHANGED evt
      BY <1>0, <1>1, <2>3 DEF TypeBg, BgLookup, BgInsert, BgAux, BgSamples, BgDone, BgGoto
    <3> QED
      BY <2>3, <3>1 DEF ReportInHand
  <2>4. CASE k = l /\ (BgStop(l) \/ BgPost(l))
    BY <1>0, <1>1, <2>4 DEF TypeBg, BgStop, BgPost, BgDone, BgGoto
  <2> QED
    BY <1>1, <2>1, <2>2, <2>3, <2>4 DEF BgStep
<1>2. CASE AoxAny \/ LocStep \/ HandlerAny \/ UNCHANGED vars
  BY <1>2, AoxFrame, LocFrame, HandlerFrame DEF ReportInHand, vars, bgVars
<1> QED
  BY <1>1, <1>2, Actors DEF BgAny, ReportInHand

-----------------------------------------------------------------------------
(* Angles are of one report.                                               *)

LEMMA BuffersExcludeStep ==
  ASSUME IInv, [Next]_vars
  PROVE  BuffersExclude'
<1>0. TypeOK /\ TypeBg /\ TypeAox /\ TypeBuffers /\ HandlerMeansShutdown /\ BuffersExclude
  BY TypeParts DEF IInv
<1> SUFFICES ASSUME Running'
             PROVE  /\ \A l \in Locator : Writing(l)' =>
                         iqSamplesCriticalSection'[BgSlot(l)'] /\ ~Reading(BgSlot(l))'
                    /\ \A s \in Slot : Reading(s)' => iqSamplesCriticalSection'[s]
  BY DEF BuffersExclude
<1>1. Running /\ (BgAny \/ AoxAny \/ LocStep \/ UNCHANGED vars)
  BY <1>0, RunningStep
<1>2. /\ \A l \in Locator : Writing(l) =>
           iqSamplesCriticalSection[BgSlot(l)] /\ ~Reading(BgSlot(l))
      /\ \A s \in Slot : Reading(s) => iqSamplesCriticalSection[s]
  BY <1>0, <1>1 DEF BuffersExclude
<1>3. ASSUME NEW l \in Locator, BgReport(l) \/ BgStep(l)
      PROVE  /\ \A k \in Locator : Writing(k)' =>
                  iqSamplesCriticalSection'[BgSlot(k)'] /\ ~Reading(BgSlot(k))'
             /\ \A s \in Slot : Reading(s)' => iqSamplesCriticalSection'[s]
  <2>1. BgSlot(l) \in Slot /\ \A k \in Locator : BgSlot(k) = BgSlot(l) => k = l
    BY <1>0, SlotOfBg
  <2>2. UNCHANGED aoxPc
    BY <1>3, BgFrame DEF BgAny, aoxVars
  <2>3. \A k \in Locator : k # l => UNCHANGED <<bgPc[k], BgSlot(k)>>
    BY <1>0, <1>3, BgOthers
  <2>4. CASE BgAux(l)
    <3>1. /\ ~iqSamplesCriticalSection[BgSlot(l)] /\ UNCHANGED BgSlot(l)
          /\ iqSamplesCriticalSection' = [iqSamplesCriticalSection EXCEPT ![BgSlot(l)] = TRUE]
      BY <2>4 DEF BgAux, LockBuffer, BgSlot
    <3>2. iqSamplesCriticalSection'[BgSlot(l)] /\ ~Reading(BgSlot(l))
      BY <1>0, <1>2, <2>1, <3>1 DEF TypeBuffers
    <3>3. \A s \in Slot : iqSamplesCriticalSection[s] => iqSamplesCriticalSection'[s]
      BY <1>0, <3>1 DEF TypeBuffers
    <3>4. \A k \in Locator : BgSlot(k) \in Slot
      BY <1>0, SlotOfBg
    <3> QED
      BY <1>2, <2>2, <2>3, <3>1, <3>2, <3>3, <3>4 DEF Writing, Reading
  <2>5. CASE BgSamples(l)
    <3>1. /\ iqSamplesCriticalSection' = [iqSamplesCriticalSection EXCEPT ![BgSlot(l)] = FALSE]
          /\ Writing(l) /\ ~Writing(l)'
      BY <1>0, <2>5 DEF TypeBg, BgSamples, BgGoto, Writing
    <3>2. \A s \in Slot : s # BgSlot(l) =>
            iqSamplesCriticalSection'[s] = iqSamplesCriticalSection[s]
      BY <1>0, <3>1 DEF TypeBuffers
    <3>3. \A k \in Locator : BgSlot(k) \in Slot
      BY <1>0, SlotOfBg
    <3> QED
      BY <1>2, <2>1, <2>2, <2>3, <3>1, <3>2, <3>3 DEF Writing, Reading
  <2>6. CASE ~BgAux(l) /\ ~BgSamples(l)
    <3>1. UNCHANGED iqSamplesCriticalSection
      BY <1>3, <2>6 DEF BgStep, BgReport, BgStop, BgLookup, BgInsert, BgPost, bufferVars
    <3>2. ~Writing(l)'
      BY <1>0, <1>3, <2>6 DEF TypeBg, BgStep, BgReport, BgStop, BgLookup, BgInsert, BgPost, BgDone,
                              BgGoto, Writing
    <3> QED
      BY <1>2, <2>2, <2>3, <3>1, <3>2 DEF Writing, Reading
  <2> QED
    BY <2>4, <2>5, <2>6
<1>4. ASSUME NEW s \in Slot, AoxStep(s)
      PROVE  /\ \A l \in Locator : Writing(l)' =>
                  iqSamplesCriticalSection'[BgSlot(l)'] /\ ~Reading(BgSlot(l))'
             /\ \A r \in Slot : Reading(r)' => iqSamplesCriticalSection'[r]
  <2>1. UNCHANGED <<bgPc, bgTag>>
    BY <1>4, AoxFrame DEF AoxAny, bgVars
  <2>2. \A l \in Locator : UNCHANGED BgSlot(l) /\ BgSlot(l) \in Slot
    BY <1>0, <2>1, SlotOfBg DEF BgSlot
  <2>3. \A r \in Slot : r # s => UNCHANGED <<aoxPc[r], iqSamplesCriticalSection[r]>>
    BY <1>0, <1>4, AoxOthers
  <2>4. CASE AoxCopyAux(s)
    <3>1. ~iqSamplesCriticalSection[s] /\ iqSamplesCriticalSection'[s]
      BY <1>0, <2>4 DEF TypeBuffers, AoxCopyAux, LockBuffer
    <3> QED
      BY <1>2, <2>1, <2>2, <2>3, <3>1 DEF Writing, Reading
  <2>5. CASE AoxCopySamples(s)
    <3>1. Reading(s) /\ ~Reading(s)'
      BY <1>0, <2>5 DEF TypeAox, AoxCopySamples, AoxGoto, Reading
    <3> QED
      BY <1>2, <2>1, <2>2, <2>3, <3>1 DEF Writing, Reading
  <2>6. CASE ~AoxCopyAux(s) /\ ~AoxCopySamples(s)
    <3>1. UNCHANGED iqSamplesCriticalSection /\ ~Reading(s)'
      BY <1>0, <1>4, <2>6 DEF TypeAox, AoxStep, AoxWait, AoxAzimuth, AoxElevation, AoxPost, AoxGoto,
                              bufferVars, Reading
    <3> QED
      BY <1>2, <2>1, <2>2, <2>3, <3>1 DEF Writing, Reading
  <2> QED
    BY <2>4, <2>5, <2>6
<1>5. CASE LocStep \/ UNCHANGED vars
  <2>1. UNCHANGED <<bgPc, bgTag, aoxPc, iqSamplesCriticalSection>>
    BY <1>5, LocFrame DEF vars, bgVars, aoxVars, bufferVars
  <2> QED
    BY <1>2, <2>1 DEF Writing, Reading, BgSlot
<1> QED
  BY <1>1, <1>3, <1>4, <1>5 DEF BgAny, AoxAny

(* What BG threads do to the buffers, and what AoX threads do to their     *)
(* copies and measurements.                                                *)
LEMMA BufferWritten ==
  ASSUME TypeOK, NEW l \in Locator, BgReport(l) \/ BgStep(l)
  PROVE  /\ BgAux(l) => iqSamplesBuffered'[BgSlot(l)].aux = evt[l]
         /\ BgSamples(l) => iqSamplesBuffered'[BgSlot(l)].aux = iqSamplesBuffered[BgSlot(l)].aux
         /\ BgAux(l) => iqSamplesBuffered'[BgSlot(l)].iq = iqSamplesBuffered[BgSlot(l)].iq
         /\ BgSamples(l) => iqSamplesBuffered'[BgSlot(l)].iq
                              = Copied(evt[l], iqSamplesBuffered[BgSlot(l)].iq)
         /\ \A s \in Slot : s # BgSlot(l) \/ ~(BgAux(l) \/ BgSamples(l)) =>
              iqSamplesBuffered'[s] = iqSamplesBuffered[s]
<1>0. /\ iqSamplesBuffered \in [Slot -> Samples] /\ BgSlot(l) \in Slot
      /\ iqSamplesBuffered[BgSlot(l)] \in [aux : Report, iq : SUBSET Report]
  BY TypeParts, SlotOfBg DEF TypeBuffers, Samples
<1>1. CASE BgAux(l)
  <2>1. /\ iqSamplesBuffered' = [iqSamplesBuffered EXCEPT ![BgSlot(l)].aux = evt[l]]
        /\ ~BgSamples(l)
    BY <1>1 DEF BgAux, BgSamples
  <2>2. /\ iqSamplesBuffered'[BgSlot(l)].aux = evt[l]
        /\ iqSamplesBuffered'[BgSlot(l)].iq = iqSamplesBuffered[BgSlot(l)].iq
    BY <1>0, <2>1
  <2>3. \A s \in Slot : s # BgSlot(l) => iqSamplesBuffered'[s] = iqSamplesBuffered[s]
    BY <1>0, <2>1
  <2> QED
    BY <1>1, <2>1, <2>2, <2>3
<1>2. CASE BgSamples(l)
  <2> DEFINE q == Copied(evt[l], iqSamplesBuffered[BgSlot(l)].iq)
  <2>1. /\ ~BgAux(l)
        /\ iqSamplesBuffered' = [iqSamplesBuffered EXCEPT ![BgSlot(l)].iq = q]
    BY <1>2 DEF BgAux, BgSamples
  <2>2. iqSamplesBuffered'[BgSlot(l)].aux = iqSamplesBuffered[BgSlot(l)].aux
    BY <1>0, <2>1
  <2>3. iqSamplesBuffered'[BgSlot(l)].iq = q
    BY <1>0, <2>1
  <2>4. \A s \in Slot : s # BgSlot(l) => iqSamplesBuffered'[s] = iqSamplesBuffered[s]
    BY <1>0, <2>1
  <2> QED
    BY <1>2, <2>1, <2>2, <2>3, <2>4
<1>3. CASE ~BgAux(l) /\ ~BgSamples(l)
  BY <1>3 DEF BgStep, BgReport, BgStop, BgLookup, BgInsert, BgPost, bufferVars
<1> QED
  BY <1>1, <1>2, <1>3

LEMMA CopyMade ==
  ASSUME TypeOK, NEW s \in Slot, AoxStep(s)
  PROVE  /\ AoxCopyAux(s) => /\ iqSamplesActive'[s].aux = iqSamplesBuffered[s].aux
                             /\ iqSamplesActive'[s].iq = iqSamplesActive[s].iq
         /\ AoxCopySamples(s) => /\ iqSamplesActive'[s].aux = iqSamplesActive[s].aux
                                 /\ iqSamplesActive'[s].iq = iqSamplesBuffered[s].iq
         /\ ~(AoxCopyAux(s) \/ AoxCopySamples(s)) => iqSamplesActive'[s] = iqSamplesActive[s]
<1>0. iqSamplesActive[s] \in [aux : Report, iq : SUBSET Report] /\ iqSamplesActive \in [Slot -> Samples]
  BY TypeParts DEF TypeAox, Samples
<1>1. CASE AoxCopyAux(s)
  <2>1. /\ iqSamplesActive' = [iqSamplesActive EXCEPT ![s].aux = iqSamplesBuffered[s].aux]
        /\ ~AoxCopySamples(s)
    BY <1>1 DEF AoxCopyAux, AoxCopySamples
  <2>2. /\ iqSamplesActive'[s].aux = iqSamplesBuffered[s].aux
        /\ iqSamplesActive'[s].iq = iqSamplesActive[s].iq
    BY <1>0, <2>1
  <2> QED
    BY <1>1, <2>1, <2>2
<1>2. CASE AoxCopySamples(s)
  <2>1. /\ iqSamplesActive' = [iqSamplesActive EXCEPT ![s].iq = iqSamplesBuffered[s].iq]
        /\ ~AoxCopyAux(s)
    BY <1>2 DEF AoxCopyAux, AoxCopySamples
  <2>2. iqSamplesActive'[s].aux = iqSamplesActive[s].aux
    BY <1>0, <2>1
  <2>3. iqSamplesActive'[s].iq = iqSamplesBuffered[s].iq
    BY <1>0, <2>1
  <2> QED
    BY <1>2, <2>1, <2>2, <2>3
<1>3. CASE ~AoxCopyAux(s) /\ ~AoxCopySamples(s)
  BY <1>3 DEF AoxStep, AoxWait, AoxAzimuth, AoxElevation, AoxPost
<1> QED
  BY <1>1, <1>2, <1>3

(* An angle is computed from the copy, or it is none.                      *)
ComputedFrom(angle, samples) ==
  angle.aux = samples.aux /\ (angle.iq = samples.iq \/ angle.iq = {})

LEMMA AnglesMeasured ==
  ASSUME TypeOK, NEW s \in Slot, AoxStep(s)
  PROVE  /\ \/ locatorMeasurements'[s].azimuth = locatorMeasurements[s].azimuth
            \/ /\ aoxPc[s] = "azimuth" /\ Running
               /\ ComputedFrom(locatorMeasurements'[s].azimuth, iqSamplesActive[s])
         /\ \/ locatorMeasurements'[s].elevation = locatorMeasurements[s].elevation
            \/ /\ aoxPc[s] = "elevation"
               /\ ComputedFrom(locatorMeasurements'[s].elevation, iqSamplesActive[s])
         /\ aoxPc'[s] = "elevation" => aoxPc[s] = "azimuth" /\ Running /\ UNCHANGED iqSamplesActive
<1>0. /\ locatorMeasurements[s] \in [azimuth : Samples, elevation : Samples]
      /\ locatorMeasurements \in [Slot -> Measurement] /\ TypeAox
  BY TypeParts DEF TypeAox, Measurement
<1>9. \A sc : ComputedFrom(Angle(s, sc), iqSamplesActive[s])
  BY <1>0, NotComputedIs DEF TypeAox, Angle, ComputedFrom
<1>1. CASE AoxAzimuth(s)
  <2>1. CASE Running
    <3>1. PICK sc : locatorMeasurements' =
                      [locatorMeasurements EXCEPT ![s].azimuth = Angle(s, sc)]
      BY <1>1, <2>1 DEF AoxAzimuth, Running
    <3>2. aoxPc[s] = "azimuth" /\ UNCHANGED iqSamplesActive
      BY <1>1 DEF AoxAzimuth
    <3>3. /\ locatorMeasurements'[s].azimuth = Angle(s, sc)
          /\ locatorMeasurements'[s].elevation = locatorMeasurements[s].elevation
      BY <1>0, <3>1
    <3> QED
      BY <1>9, <2>1, <3>2, <3>3
  <2>2. CASE ~Running
    BY <1>0, <1>1, <2>2 DEF AoxAzimuth, AoxGoto, Running, TypeAox
  <2> QED
    BY <2>1, <2>2
<1>2. CASE AoxElevation(s)
  <2>1. /\ locatorMeasurements' =
             [locatorMeasurements EXCEPT ![s].elevation = Angle(s, result[s])]
        /\ aoxPc[s] = "elevation" /\ aoxPc'[s] = "post"
    BY <1>0, <1>2 DEF AoxElevation, AoxGoto, TypeAox
  <2>2. /\ locatorMeasurements'[s].elevation = Angle(s, result[s])
        /\ locatorMeasurements'[s].azimuth = locatorMeasurements[s].azimuth
    BY <1>0, <2>1
  <2> QED
    BY <1>9, <2>1, <2>2
<1>3. CASE ~AoxAzimuth(s) /\ ~AoxElevation(s)
  BY <1>0, <1>3 DEF AoxStep, AoxWait, AoxCopyAux, AoxCopySamples, AoxPost, AoxGoto, TypeAox
<1> QED
  BY <1>1, <1>2, <1>3

LEMMA BuffersWholeStep ==
  ASSUME IInv, [Next]_vars
  PROVE  BuffersWhole'
<1>0. /\ TypeOK /\ TypeBg /\ TypeAox /\ TypeBuffers /\ HandlerMeansShutdown /\ ReportInHand
      /\ BuffersExclude /\ BuffersWhole
  BY TypeParts DEF IInv
<1> DEFINE Claim ==
      /\ \A l \in Locator : Writing(l) => iqSamplesBuffered[BgSlot(l)].aux = evt[l]
      /\ \A s \in Slot :
           /\ Whole(iqSamplesBuffered[s]) \/ \E l \in Locator : Writing(l) /\ BgSlot(l) = s
           /\ Reading(s) => iqSamplesActive[s].aux = iqSamplesBuffered[s].aux
           /\ aoxPc[s] = "azimuth" => Whole(iqSamplesActive[s])
<1> SUFFICES ASSUME Running' PROVE Claim'
  BY DEF BuffersWhole
<1>1. Running /\ (BgAny \/ AoxAny \/ LocStep \/ UNCHANGED vars)
  BY <1>0, RunningStep
<1>2. Claim
  BY <1>0, <1>1 DEF BuffersWhole
<1>3. /\ \A l \in Locator : Writing(l) => ~Reading(BgSlot(l)) /\ iqSamplesCriticalSection[BgSlot(l)]
      /\ \A s \in Slot : Reading(s) => iqSamplesCriticalSection[s]
  BY <1>0, <1>1 DEF BuffersExclude
<1>4. ASSUME NEW l \in Locator, BgReport(l) \/ BgStep(l)
      PROVE  Claim'
  <2>1. BgSlot(l) \in Slot /\ \A k \in Locator : BgSlot(k) = BgSlot(l) => k = l
    BY <1>0, SlotOfBg
  <2>2. UNCHANGED <<aoxPc, iqSamplesActive>>
    BY <1>4, BgFrame DEF BgAny, aoxVars
  <2>3. \A k \in Locator : k # l => UNCHANGED <<bgPc[k], evt[k], BgSlot(k)>>
    BY <1>0, <1>4, BgOthers
  <2>4. \A k \in Locator : BgSlot(k) \in Slot
    BY <1>0, SlotOfBg
  <2>5. \A s \in Slot : s # BgSlot(l) => iqSamplesBuffered'[s] = iqSamplesBuffered[s]
    BY <1>0, <1>4, BufferWritten
  <2>6. CASE BgAux(l)
    <3>1. /\ UNCHANGED <<BgSlot(l), evt>> /\ ~iqSamplesCriticalSection[BgSlot(l)] /\ ~Writing(l)
          /\ Writing(l)'
      BY <1>0, <2>6 DEF TypeBg, BgAux, LockBuffer, BgSlot, BgGoto, Writing
    <3>2. iqSamplesBuffered'[BgSlot(l)].aux = evt[l]
      BY <1>0, <1>4, <2>6, BufferWritten
    <3>3. ASSUME NEW k \in Locator, Writing(k)' PROVE iqSamplesBuffered'[BgSlot(k)'].aux = evt'[k]
      BY <1>2, <2>1, <2>3, <2>4, <2>5, <3>1, <3>2, <3>3 DEF Writing
    <3>4. ASSUME NEW s \in Slot
          PROVE  Whole(iqSamplesBuffered'[s]) \/ \E k \in Locator : Writing(k)' /\ BgSlot(k)' = s
      BY <1>2, <2>3, <2>5, <3>1 DEF Writing
    <3>5. ASSUME NEW s \in Slot, Reading(s)'
          PROVE  iqSamplesActive'[s].aux = iqSamplesBuffered'[s].aux
      BY <1>2, <1>3, <2>2, <2>5, <3>1, <3>5 DEF Reading
    <3> QED
      BY <1>2, <2>2, <3>3, <3>4, <3>5 DEF Whole
  <2>7. CASE BgSamples(l)
    <3>1. /\ UNCHANGED <<BgSlot(l), evt>> /\ Writing(l) /\ ~Writing(l)'
      BY <1>0, <2>7 DEF TypeBg, BgSamples, BgSlot, BgGoto, Writing
    <3>2. /\ iqSamplesBuffered'[BgSlot(l)].aux = iqSamplesBuffered[BgSlot(l)].aux
          /\ iqSamplesBuffered'[BgSlot(l)].iq
               = Copied(evt[l], iqSamplesBuffered[BgSlot(l)].iq)
      BY <1>0, <1>4, <2>7, <3>1, BufferWritten
    <3>6. Whole(iqSamplesBuffered'[BgSlot(l)])
      <4>1. iqSamplesBuffered[BgSlot(l)].iq \in SUBSET Report /\ evt[l] \in Report
        BY <1>0, <2>1, ReportType DEF TypeBuffers, TypeBg
      <4>2. iqSamplesBuffered'[BgSlot(l)].aux = evt[l]
        BY <1>2, <3>1, <3>2
      <4> QED
        BY <3>2, <4>1, <4>2, CopiedIs DEF Whole
    <3>3. ASSUME NEW k \in Locator, Writing(k)' PROVE iqSamplesBuffered'[BgSlot(k)'].aux = evt'[k]
      BY <1>2, <2>1, <2>3, <2>4, <2>5, <3>1, <3>3 DEF Writing
    <3>4. ASSUME NEW s \in Slot
          PROVE  Whole(iqSamplesBuffered'[s]) \/ \E k \in Locator : Writing(k)' /\ BgSlot(k)' = s
      <4>1. CASE s = BgSlot(l)
        BY <3>6, <4>1
      <4>2. CASE s # BgSlot(l)
        BY <1>2, <2>3, <2>5, <3>1, <4>2 DEF Writing
      <4> QED
        BY <4>1, <4>2
    <3>5. ASSUME NEW s \in Slot, Reading(s)'
          PROVE  iqSamplesActive'[s].aux = iqSamplesBuffered'[s].aux
      BY <1>2, <1>3, <2>2, <2>5, <3>1, <3>5 DEF Reading
    <3> QED
      BY <1>2, <2>2, <3>3, <3>4, <3>5 DEF Whole
  <2>8. CASE ~BgAux(l) /\ ~BgSamples(l)
    <3>1. \A s \in Slot : iqSamplesBuffered'[s] = iqSamplesBuffered[s]
      BY <1>0, <1>4, <2>8, BufferWritten
    <3>2. ~Writing(l)' /\ ~Writing(l)
      BY <1>0, <1>4, <2>8 DEF TypeBg, BgStep, BgReport, BgStop, BgLookup, BgInsert, BgPost, BgDone,
                              BgGoto, Writing
    <3>3. ASSUME NEW k \in Locator, Writing(k)' PROVE iqSamplesBuffered'[BgSlot(k)'].aux = evt'[k]
      BY <1>2, <2>3, <2>4, <3>1, <3>2, <3>3 DEF Writing
    <3>4. ASSUME NEW s \in Slot
          PROVE  Whole(iqSamplesBuffered'[s]) \/ \E k \in Locator : Writing(k)' /\ BgSlot(k)' = s
      BY <1>2, <2>3, <3>1, <3>2 DEF Writing
    <3> QED
      BY <1>2, <2>2, <3>1, <3>3, <3>4 DEF Whole, Reading
  <2> QED
    BY <2>6, <2>7, <2>8
<1>5. ASSUME NEW s \in Slot, AoxStep(s)
      PROVE  Claim'
  <2>1. UNCHANGED <<bgPc, bgTag, evt, iqSamplesBuffered>>
    BY <1>5, AoxFrame DEF AoxAny, bgVars
  <2>2. \A r \in Slot : r # s => UNCHANGED <<aoxPc[r], iqSamplesActive[r]>>
    BY <1>0, <1>5, AoxOthers
  <2>3. /\ \A l \in Locator : Writing(l)' => iqSamplesBuffered'[BgSlot(l)'].aux = evt'[l]
        /\ \A r \in Slot : Whole(iqSamplesBuffered'[r])
                             \/ \E l \in Locator : Writing(l)' /\ BgSlot(l)' = r
    BY <1>2, <2>1 DEF Writing, BgSlot
  <2>4. /\ Reading(s)' => iqSamplesActive'[s].aux = iqSamplesBuffered'[s].aux
        /\ aoxPc'[s] = "azimuth" => Whole(iqSamplesActive'[s])
    <3>1. CASE AoxCopyAux(s)
      <4>1. aoxPc'[s] = "samples" /\ aoxPc[s] = "aux"
        BY <1>0, <3>1 DEF TypeAox, AoxCopyAux, AoxGoto
      <4>2. iqSamplesActive'[s].aux = iqSamplesBuffered[s].aux
        BY <1>0, <1>5, <3>1, CopyMade
      <4> QED
        BY <2>1, <4>1, <4>2
    <3>2. CASE AoxCopySamples(s)
      <4>1. aoxPc'[s] = "azimuth" /\ Reading(s)
        BY <1>0, <3>2 DEF TypeAox, AoxCopySamples, AoxGoto, Reading
      <4>2. /\ iqSamplesActive'[s].aux = iqSamplesActive[s].aux
            /\ iqSamplesActive'[s].iq = iqSamplesBuffered[s].iq
        BY <1>0, <1>5, <3>2, CopyMade
      <4>3. Whole(iqSamplesBuffered[s])
        BY <1>2, <1>3, <4>1
      <4> QED
        BY <1>2, <4>1, <4>2, <4>3 DEF Whole, Reading
    <3>3. CASE ~AoxCopyAux(s) /\ ~AoxCopySamples(s)
      BY <1>0, <1>5, <3>3 DEF TypeAox, AoxStep, AoxWait, AoxAzimuth, AoxElevation, AoxPost, AoxGoto,
                              Reading
    <3> QED
      BY <3>1, <3>2, <3>3
  <2>5. \A r \in Slot : /\ Reading(r)' => iqSamplesActive'[r].aux = iqSamplesBuffered'[r].aux
                        /\ aoxPc'[r] = "azimuth" => Whole(iqSamplesActive'[r])
    BY <1>2, <2>1, <2>2, <2>4 DEF Reading
  <2> QED
    BY <2>3, <2>5 DEF Whole
<1>6. CASE LocStep \/ UNCHANGED vars
  <2>1. UNCHANGED <<bgPc, bgTag, evt, aoxPc, iqSamplesActive, iqSamplesBuffered>>
    BY <1>6, LocFrame DEF vars, bgVars, aoxVars, bufferVars
  <2> QED
    BY <1>2, <2>1 DEF Writing, Reading, BgSlot, Whole
<1> QED
  BY <1>1, <1>4, <1>5, <1>6 DEF BgAny, AoxAny

LEMMA AnglesWholeStep ==
  ASSUME IInv, [Next]_vars
  PROVE  AnglesWhole'
<1>0. TypeOK /\ BuffersWhole /\ AnglesWhole
  BY DEF IInv
<1>1. ASSUME NEW s \in Slot, AoxStep(s), NEW r \in Slot
      PROVE  /\ aoxPc'[r] = "elevation" => Whole(iqSamplesActive'[r])
             /\ AngleWhole(locatorMeasurements'[r].azimuth)
             /\ AngleWhole(locatorMeasurements'[r].elevation)
  <2>1. CASE r # s
    BY <1>0, <1>1, <2>1, AoxOthers DEF AnglesWhole
  <2>2. CASE r = s
    <3>1. /\ aoxPc[s] = "azimuth" /\ Running => Whole(iqSamplesActive[s])
          /\ aoxPc[s] = "elevation" => Whole(iqSamplesActive[s])
          /\ AngleWhole(locatorMeasurements[s].azimuth)
          /\ AngleWhole(locatorMeasurements[s].elevation)
      BY <1>0, <1>1 DEF BuffersWhole, AnglesWhole
    <3>2. \A angle : Whole(iqSamplesActive[s]) /\ ComputedFrom(angle, iqSamplesActive[s])
                       => AngleWhole(angle)
      BY DEF AngleWhole, Whole, ComputedFrom
    <3> QED
      BY <1>0, <1>1, <2>2, <3>1, <3>2, AnglesMeasured
  <2> QED
    BY <2>1, <2>2
<1>2. CASE BgAny \/ LocStep \/ HandlerAny \/ UNCHANGED vars
  BY <1>0, <1>2, BgFrame, LocFrame, HandlerFrame DEF AnglesWhole, AngleWhole, Whole, vars, aoxVars
<1> QED
  BY <1>1, <1>2, Actors DEF AoxAny, AnglesWhole, AngleWhole, Whole

-----------------------------------------------------------------------------
(* Measurements are of their tag.                                          *)

(* What a BG thread does to the table of tags.                             *)
LEMMA TableWritten ==
  ASSUME TypeOK, NEW l \in Locator, BgReport(l) \/ BgStep(l)
  PROVE  /\ BgInsert(l) => /\ Inserting(l) /\ tagCounter' = tagCounter + 1
                           /\ foundTags'[bgTag[l]] = evt[l].address
                           /\ \A t \in TagID : t # bgTag[l] => foundTags'[t] = foundTags[t]
         /\ ~BgInsert(l) => UNCHANGED <<foundTags, tagCounter>>
         /\ Inserting(l)' => /\ ~tagHandleCriticalSection /\ tagHandleCriticalSection'
                             /\ bgTag'[l] = tagCounter /\ ~Inserting(l)
         /\ ~BgInsert(l) /\ ~Inserting(l)' => UNCHANGED tagHandleCriticalSection
<1>0. TypeBg /\ TypeTags
  BY TypeParts
<1>1. CASE BgInsert(l)
  <2>1. ~Inserting(l)'
    BY <1>0, <1>1 DEF TypeBg, BgInsert, BgGoto, Inserting
  <2>2. /\ Inserting(l) /\ tagCounter' = tagCounter + 1
        /\ foundTags' = [foundTags EXCEPT ![bgTag[l]] = evt[l].address]
    BY <1>1 DEF BgInsert, Inserting
  <2>3. bgTag[l] \in TagID /\ foundTags \in [TagID -> Address \cup {NoAddress}]
    BY <1>0 DEF TypeBg, TypeTags
  <2> QED
    BY <1>1, <2>1, <2>2, <2>3
<1>2. CASE BgLookup(l)
  <2>1. UNCHANGED <<foundTags, tagCounter>> /\ ~BgInsert(l) /\ ~Inserting(l)
    BY <1>2 DEF BgLookup, BgInsert, Inserting
  <2>2. CASE LockTagTable /\ bgTag' = [bgTag EXCEPT ![l] = tagCounter] /\ BgGoto(l, "insert")
    BY <1>0, <2>1, <2>2 DEF TypeBg, TypeTags, LockTagTable, BgGoto, Inserting
  <2>3. CASE UNCHANGED tagHandleCriticalSection /\ (BgGoto(l, "aux") \/ BgDone(l))
    BY <1>0, <2>1, <2>3 DEF TypeBg, BgDone, BgGoto, Inserting
  <2> QED
    BY <1>2, <2>2, <2>3 DEF BgLookup
<1>3. CASE ~BgInsert(l) /\ ~BgLookup(l)
  <2>1. UNCHANGED <<foundTags, tagCounter, tagHandleCriticalSection>>
    BY <1>3 DEF BgStep, BgReport, BgStop, BgAux, BgSamples, BgPost, tagVars
  <2>2. ~Inserting(l)'
    BY <1>0, <1>3 DEF TypeBg, BgStep, BgReport, BgStop, BgAux, BgSamples, BgPost, BgDone, BgGoto,
                      Inserting
  <2> QED
    BY <1>3, <2>1, <2>2
<1> QED
  BY <1>1, <1>2, <1>3

LEMMA TableExcludeStep ==
  ASSUME IInv, [Next]_vars
  PROVE  TableExclude'
<1>0. TypeOK /\ TypeBg /\ TypeTags /\ HandlerMeansShutdown /\ TableExclude
  BY TypeParts DEF IInv
<1> DEFINE Claim ==
      /\ \A l \in Locator : Inserting(l) => tagHandleCriticalSection /\ bgTag[l] = tagCounter
      /\ \A k, l \in Locator : Inserting(k) /\ Inserting(l) => k = l
      /\ \A t \in TagID : t >= tagCounter => foundTags[t] = NoAddress
<1> SUFFICES ASSUME Running' PROVE Claim'
  BY DEF TableExclude
<1>1. Running /\ (BgAny \/ AoxAny \/ LocStep \/ UNCHANGED vars)
  BY <1>0, RunningStep
<1>2. Claim
  BY <1>0, <1>1 DEF TableExclude
<1>3. ASSUME NEW l \in Locator, BgReport(l) \/ BgStep(l)
      PROVE  Claim'
  <2>1. \A k \in Locator : k # l => UNCHANGED <<bgPc[k], bgTag[k]>>
    BY <1>0, <1>3, BgOthers
  <2>2. CASE BgInsert(l)
    <3>1. /\ Inserting(l) /\ ~Inserting(l)' /\ tagCounter' = tagCounter + 1
          /\ \A t \in TagID : t # bgTag[l] => foundTags'[t] = foundTags[t]
      BY <1>0, <1>3, <2>2, TableWritten DEF TypeBg, BgInsert, BgGoto, Inserting
    <3>2. \A k \in Locator : ~Inserting(k)'
      BY <1>2, <2>1, <3>1 DEF Inserting
    <3>3. ASSUME NEW t \in TagID, t >= tagCounter'
          PROVE  foundTags'[t] = NoAddress
      <4>1. t \in Int /\ tagCounter \in Int
        BY <1>0 DEF TypeTags, TagID
      <4>2. t >= tagCounter /\ t # tagCounter
        BY <3>1, <3>3, <4>1
      <4> QED
        BY <1>2, <3>1, <4>2
    <3> QED
      BY <3>2, <3>3
  <2>3. CASE ~BgInsert(l)
    <3>1. /\ UNCHANGED <<foundTags, tagCounter>>
          /\ Inserting(l)' => /\ ~tagHandleCriticalSection /\ tagHandleCriticalSection'
                              /\ bgTag'[l] = tagCounter
          /\ ~Inserting(l)' => UNCHANGED tagHandleCriticalSection
      BY <1>0, <1>3, <2>3, TableWritten
    <3> QED
      BY <1>2, <2>1, <3>1 DEF Inserting
  <2> QED
    BY <2>2, <2>3
<1>4. CASE AoxAny \/ LocStep \/ UNCHANGED vars
  <2>1. UNCHANGED <<bgPc, bgTag, foundTags, tagCounter, tagHandleCriticalSection>>
    BY <1>4, AoxFrame, LocFrame DEF vars, bgVars, tagVars
  <2> QED
    BY <1>2, <2>1 DEF Inserting
<1> QED
  BY <1>1, <1>3, <1>4 DEF BgAny

(* While the program runs the entry of a fresh index is empty, so that     *)
(* nothing can be filed under it.                                          *)
LEMMA FreshIsEmpty ==
  ASSUME TypeOK, TableExclude, Running, NEW t \in TagID, Fresh(t)
  PROVE  /\ foundTags[t] = NoAddress
         /\ \A samples \in Samples : OfTag(samples, t) => OfNone(samples)
<1>1. t \in Int /\ tagCounter \in Int
  BY TypeParts DEF TypeTags, TagID
<1>2. t >= tagCounter
  BY <1>1 DEF Fresh, TableExclude
<1>3. foundTags[t] = NoAddress
  BY <1>2 DEF TableExclude
<1>4. \A r \in Report : r # NoReport => r.address # NoAddress
  BY AddressAssumption DEF Report
<1>5. \A samples \in Samples : Origins(samples) \subseteq Report
  BY ReportType DEF Origins
<1> QED
  BY <1>3, <1>4, <1>5 DEF OfTag, OfNone

LEMMA BuffersOfTagStep ==
  ASSUME IInv, [Next]_vars
  PROVE  BuffersOfTag'
<1>0. /\ TypeOK /\ TypeBg /\ TypeTags /\ TypeBuffers /\ TypeAox /\ HandlerMeansShutdown
      /\ ReportInHand /\ TableExclude /\ BuffersOfTag
  BY TypeParts DEF IInv
<1> DEFINE Claim ==
      /\ \A l \in Locator : bgPc[l] \in {"aux", "samples"} =>
           foundTags[bgTag[l]] = evt[l].address
      /\ \A t \in TagID, l \in Locator :
           OfTag(iqSamplesBuffered[<<t, l>>], t) /\ OfTag(iqSamplesActive[<<t, l>>], t)
<1> SUFFICES ASSUME Running' PROVE Claim'
  BY DEF BuffersOfTag
<1>1. Running /\ (BgAny \/ AoxAny \/ LocStep \/ UNCHANGED vars)
  BY <1>0, RunningStep
<1>2. Claim
  BY <1>0, <1>1 DEF BuffersOfTag
<1>3. ASSUME NEW l \in Locator, BgReport(l) \/ BgStep(l)
      PROVE  Claim'
  <2>1. \A k \in Locator : k # l => UNCHANGED <<bgPc[k], bgTag[k], evt[k]>>
    BY <1>0, <1>3, BgOthers
  <2>2. UNCHANGED iqSamplesActive
    BY <1>3, BgFrame DEF BgAny, aoxVars
  <2>3. CASE BgInsert(l)
    <3>1. /\ Inserting(l) /\ foundTags'[bgTag[l]] = evt[l].address
          /\ \A t \in TagID : t # bgTag[l] => foundTags'[t] = foundTags[t]
      BY <1>0, <1>3, <2>3, TableWritten
    <3>2. bgTag[l] \in TagID /\ Fresh(bgTag[l])
      BY <1>0, <3>1 DEF TypeBg, Fresh
    <3>3. UNCHANGED <<evt, bgTag, iqSamplesBuffered>>
      BY <2>3 DEF BgInsert, bufferVars
    <3>4. ASSUME NEW k \in Locator, bgPc'[k] \in {"aux", "samples"}
          PROVE  foundTags'[bgTag'[k]] = evt'[k].address
      <4>1. CASE k = l
        BY <3>1, <3>3, <4>1
      <4>2. CASE k # l
        <5>1. /\ foundTags[bgTag[k]] = evt[k].address
              /\ evt[k] \in Report \ {NoReport} /\ bgTag[k] \in TagID
          BY <1>0, <1>2, <2>1, <3>4, <4>2 DEF TypeBg, ReportInHand
        <5>2. evt[k].address # NoAddress
          BY <5>1, AddressAssumption DEF Report
        <5>3. bgTag[k] # bgTag[l]
          BY <1>0, <1>1, <3>2, <5>1, <5>2, FreshIsEmpty
        <5> QED
          BY <3>1, <3>3, <5>1, <5>3
      <4> QED
        BY <4>1, <4>2
    <3>5. ASSUME NEW t \in TagID, NEW k \in Locator
          PROVE  OfTag(iqSamplesBuffered[<<t, k>>], t)' /\ OfTag(iqSamplesActive[<<t, k>>], t)'
      <4>1. /\ OfTag(iqSamplesBuffered[<<t, k>>], t) /\ OfTag(iqSamplesActive[<<t, k>>], t)
            /\ iqSamplesBuffered[<<t, k>>] \in Samples /\ iqSamplesActive[<<t, k>>] \in Samples
        BY <1>0, <1>2 DEF TypeBuffers, TypeAox, Slot
      <4>2. CASE t = bgTag[l]
        <5>1. OfNone(iqSamplesBuffered[<<t, k>>]) /\ OfNone(iqSamplesActive[<<t, k>>])
          BY <1>0, <1>1, <3>2, <4>1, <4>2, FreshIsEmpty
        <5> QED
          BY <2>2, <3>3, <5>1 DEF OfTag, OfNone
      <4>3. CASE t # bgTag[l]
        BY <2>2, <3>1, <3>3, <4>1, <4>3 DEF OfTag
      <4> QED
        BY <4>2, <4>3
    <3> QED
      BY <3>4, <3>5
  <2>4. CASE ~BgInsert(l)
    <3>1. UNCHANGED foundTags
      BY <1>0, <1>3, <2>4, TableWritten
    <3>2. bgPc'[l] \in {"aux", "samples"} => foundTags[bgTag'[l]] = evt'[l].address
      <4>1. CASE BgLookup(l)
        <5>1. SUFFICES ASSUME bgPc'[l] \in {"aux", "samples"}
                       PROVE  foundTags[bgTag'[l]] = evt'[l].address
          OBVIOUS
        <5>2. ~BgDone(l) /\ ~BgGoto(l, "insert")
          BY <1>0, <5>1 DEF TypeBg, BgDone, BgGoto
        <5>3. PICK t \in TagID : /\ IsTagId(t, evt[l].address) /\ UNCHANGED evt
                                 /\ bgTag' = [bgTag EXCEPT ![l] = t]
          BY <4>1, <5>2 DEF BgLookup
        <5> QED
          BY <1>0, <5>3 DEF TypeBg, IsTagId
      <4>2. CASE BgAux(l)
        BY <1>2, <4>2 DEF BgAux
      <4>3. CASE ~BgLookup(l) /\ ~BgAux(l)
        BY <1>0, <1>3, <2>4, <4>3 DEF TypeBg, BgStep, BgReport, BgStop, BgSamples, BgPost, BgDone,
                                      BgGoto
      <4> QED
        BY <4>1, <4>2, <4>3
    <3>3. ASSUME NEW t \in TagID, NEW k \in Locator
          PROVE  OfTag(iqSamplesBuffered[<<t, k>>], t)'
      <4>1. OfTag(iqSamplesBuffered[<<t, k>>], t) /\ <<t, k>> \in Slot
        BY <1>2 DEF Slot
      <4>2. CASE (BgAux(l) \/ BgSamples(l)) /\ <<t, k>> = BgSlot(l)
        <5>1. /\ t = bgTag[l] /\ foundTags[t] = evt[l].address
              /\ iqSamplesBuffered[<<t, k>>] \in Samples /\ evt[l] \in Report
          BY <1>0, <1>2, <4>1, <4>2 DEF BgSlot, BgAux, BgSamples, TypeBuffers, TypeBg
        <5>2. Origins(iqSamplesBuffered'[<<t, k>>])
                \subseteq Origins(iqSamplesBuffered[<<t, k>>]) \cup {evt[l], NoReport}
          <6>1. /\ iqSamplesBuffered[<<t, k>>].iq \in SUBSET Report
                /\ ~(BgAux(l) /\ BgSamples(l))
            BY <5>1, ReportType DEF BgAux, BgSamples
          <6>2. CASE BgAux(l)
            BY <1>0, <1>3, <4>2, <6>2, BufferWritten DEF Origins
          <6>3. CASE BgSamples(l)
            <7>1. iqSamplesBuffered'[<<t, k>>].iq
                    = Copied(evt[l], iqSamplesBuffered[<<t, k>>].iq)
              BY <1>0, <1>3, <4>2, <6>3, BufferWritten
            <7>2. iqSamplesBuffered'[<<t, k>>].aux = iqSamplesBuffered[<<t, k>>].aux
              BY <1>0, <1>3, <4>1, <6>1, <6>3, BufferWritten
            <7> QED
              BY <5>1, <6>1, <7>1, <7>2, CopiedIs DEF Origins
          <6> QED
            BY <4>2, <6>2, <6>3
        <5> QED
          BY <3>1, <4>1, <5>1, <5>2 DEF OfTag
      <4>3. CASE ~((BgAux(l) \/ BgSamples(l)) /\ <<t, k>> = BgSlot(l))
        <5>1. iqSamplesBuffered'[<<t, k>>] = iqSamplesBuffered[<<t, k>>]
          BY <1>0, <1>3, <4>1, <4>3, BufferWritten
        <5> QED
          BY <3>1, <4>1, <5>1 DEF OfTag
      <4> QED
        BY <4>2, <4>3
    <3> QED
      BY <1>2, <2>1, <2>2, <3>1, <3>2, <3>3 DEF OfTag
  <2> QED
    BY <2>3, <2>4
<1>4. ASSUME NEW s \in Slot, AoxStep(s)
      PROVE  Claim'
  <2>1. UNCHANGED <<bgPc, bgTag, evt, foundTags, iqSamplesBuffered>>
    BY <1>4, AoxFrame DEF AoxAny, bgVars, tagVars
  <2>2. ASSUME NEW t \in TagID, NEW l \in Locator
        PROVE  OfTag(iqSamplesActive[<<t, l>>], t)'
    <3>1. /\ OfTag(iqSamplesBuffered[<<t, l>>], t) /\ OfTag(iqSamplesActive[<<t, l>>], t)
          /\ <<t, l>> \in Slot
      BY <1>2 DEF Slot
    <3>2. Origins(iqSamplesActive'[<<t, l>>])
            \subseteq Origins(iqSamplesActive[<<t, l>>]) \cup Origins(iqSamplesBuffered[<<t, l>>])
      <4>1. CASE <<t, l>> = s
        BY <1>0, <1>4, <4>1, CopyMade DEF Origins
      <4>2. CASE <<t, l>> # s
        BY <1>0, <1>4, <3>1, <4>2, AoxOthers
      <4> QED
        BY <4>1, <4>2
    <3> QED
      BY <2>1, <3>1, <3>2 DEF OfTag
  <2> QED
    BY <1>2, <2>1, <2>2 DEF OfTag
<1>5. CASE LocStep \/ UNCHANGED vars
  <2>1. UNCHANGED <<bgPc, bgTag, evt, foundTags, iqSamplesBuffered, iqSamplesActive>>
    BY <1>5, LocFrame DEF vars, bgVars, tagVars, bufferVars, aoxVars
  <2> QED
    BY <1>2, <2>1 DEF OfTag
<1> QED
  BY <1>1, <1>3, <1>4, <1>5 DEF BgAny, AoxAny

LEMMA AnglesOfTagStep ==
  ASSUME IInv, [Next]_vars
  PROVE  AnglesOfTag'
<1>0. /\ TypeOK /\ TypeBg /\ TypeTags /\ TypeAox /\ TableExclude /\ BuffersOfTag /\ AnglesOfTag
  BY TypeParts DEF IInv
<1> DEFINE Claim(t, l) ==
      /\ OfTag(locatorMeasurements[<<t, l>>].azimuth, t)
      /\ OfTag(locatorMeasurements[<<t, l>>].elevation, t)
      /\ aoxPc[<<t, l>>] = "elevation" => OfTag(iqSamplesActive[<<t, l>>], t)
      /\ Fresh(t) =>
           /\ OfNone(locatorMeasurements[<<t, l>>].azimuth)
           /\ OfNone(locatorMeasurements[<<t, l>>].elevation)
           /\ aoxPc[<<t, l>>] = "elevation" => OfNone(iqSamplesActive[<<t, l>>])
<1> SUFFICES ASSUME NEW t \in TagID, NEW l \in Locator PROVE Claim(t, l)'
  BY DEF AnglesOfTag
<1>1. Claim(t, l)
  BY <1>0 DEF AnglesOfTag
<1>2. ASSUME NEW k \in Locator, BgReport(k) \/ BgStep(k)
      PROVE  Claim(t, l)'
  <2>1. UNCHANGED <<aoxPc, iqSamplesActive, locatorMeasurements>>
    BY <1>2, BgFrame DEF BgAny, aoxVars
  <2>2. \A j \in Locator : j # k => UNCHANGED <<bgPc[j], bgTag[j]>>
    BY <1>0, <1>2, BgOthers
  <2>3. Fresh(t)' => Fresh(t)
    <3>1. t \in Int /\ tagCounter \in Int
      BY <1>0 DEF TypeTags, TagID
    <3>2. Inserting(k)' => bgTag'[k] = tagCounter
      BY <1>0, <1>2, TableWritten
    <3>3. tagCounter' = tagCounter \/ tagCounter' = tagCounter + 1
      BY <1>0, <1>2, TableWritten
    <3> QED
      BY <2>2, <3>1, <3>2, <3>3 DEF Fresh, Inserting
  <2>4. foundTags'[t] # foundTags[t] => Fresh(t)
    BY <1>0, <1>2, TableWritten DEF Fresh
  <2> QED
    BY <1>1, <2>1, <2>3, <2>4 DEF OfTag, OfNone
<1>3. ASSUME NEW s \in Slot, AoxStep(s)
      PROVE  Claim(t, l)'
  <2>1. UNCHANGED <<bgPc, bgTag, foundTags, tagCounter>> /\ <<t, l>> \in Slot
    BY <1>3, AoxFrame DEF AoxAny, bgVars, tagVars, Slot
  <2>2. Fresh(t)' <=> Fresh(t)
    BY <2>1 DEF Fresh, Inserting
  <2>3. CASE <<t, l>> # s
    <3>1. UNCHANGED <<aoxPc[<<t, l>>], iqSamplesActive[<<t, l>>], locatorMeasurements[<<t, l>>]>>
      BY <1>0, <1>3, <2>1, <2>3, AoxOthers
    <3> QED
      BY <1>1, <2>1, <2>2, <3>1 DEF OfTag, OfNone
  <2>4. CASE <<t, l>> = s
    <3>1. aoxPc[s] = "elevation" \/ (aoxPc[s] = "azimuth" /\ Running) =>
            /\ OfTag(iqSamplesActive[s], t)
            /\ Fresh(t) => OfNone(iqSamplesActive[s])
      <4>1. iqSamplesActive[s] \in Samples
        BY <1>0 DEF TypeAox
      <4>2. Running => OfTag(iqSamplesActive[s], t)
        BY <1>0, <2>4 DEF BuffersOfTag
      <4> QED
        BY <1>0, <1>1, <2>4, <4>1, <4>2, FreshIsEmpty
    <3>2. /\ \/ locatorMeasurements'[s].azimuth = locatorMeasurements[s].azimuth
             \/ /\ aoxPc[s] = "azimuth" /\ Running
                /\ ComputedFrom(locatorMeasurements'[s].azimuth, iqSamplesActive[s])
          /\ \/ locatorMeasurements'[s].elevation = locatorMeasurements[s].elevation
             \/ /\ aoxPc[s] = "elevation"
                /\ ComputedFrom(locatorMeasurements'[s].elevation, iqSamplesActive[s])
          /\ aoxPc'[s] = "elevation" =>
               aoxPc[s] = "azimuth" /\ Running /\ UNCHANGED iqSamplesActive
      BY <1>0, <1>3, AnglesMeasured
    <3>3. \A angle : ComputedFrom(angle, iqSamplesActive[s]) =>
            /\ OfTag(iqSamplesActive[s], t) => OfTag(angle, t)
            /\ OfNone(iqSamplesActive[s]) => OfNone(angle)
      BY DEF OfTag, OfNone, Origins, ComputedFrom
    <3>4. foundTags'[t] = foundTags[t]
      BY <2>1
    <3>5. /\ OfTag(locatorMeasurements'[s].azimuth, t)
          /\ OfTag(locatorMeasurements'[s].elevation, t)
          /\ Fresh(t) => /\ OfNone(locatorMeasurements'[s].azimuth)
                         /\ OfNone(locatorMeasurements'[s].elevation)
      BY <1>1, <2>4, <3>1, <3>2, <3>3
    <3>6. aoxPc'[s] = "elevation" => /\ OfTag(iqSamplesActive'[s], t)
                                     /\ Fresh(t) => OfNone(iqSamplesActive'[s])
      BY <3>1, <3>2
    <3> QED
      BY <2>2, <2>4, <3>4, <3>5, <3>6 DEF OfTag, OfNone
  <2> QED
    BY <2>3, <2>4
<1>4. CASE LocStep \/ HandlerAny \/ UNCHANGED vars
  <2>1. UNCHANGED <<bgPc, bgTag, foundTags, tagCounter, aoxPc, iqSamplesActive,
                    locatorMeasurements>>
    BY <1>4, LocFrame, HandlerFrame DEF vars, bgVars, tagVars, aoxVars
  <2> QED
    BY <1>1, <2>1 DEF OfTag, OfNone, Fresh, Inserting
<1> QED
  BY <1>2, <1>3, <1>4, Actors DEF BgAny, AoxAny

-----------------------------------------------------------------------------
(* The invariant, and what follows from it.                                *)

LEMMA InitIInv == Init => IInv
<1> SUFFICES ASSUME Init PROVE IInv
  OBVIOUS
<1>1. TypeOK
  BY InitTypeOK
<1>2. \A s \in Slot : /\ iqSamplesBuffered[s] = Allocated /\ iqSamplesActive[s] = Allocated
                      /\ aoxPc[s] = "wait" /\ locatorMeasurements[s] = NoMeasurement
  BY DEF Init
<1>3. \A l \in Locator : bgPc[l] = "event"
  BY DEF Init
<1>4. /\ Whole(Allocated)
      /\ AngleWhole(NoMeasurement.azimuth) /\ AngleWhole(NoMeasurement.elevation)
  BY NothingFiled DEF Whole, AngleWhole, NoReport
<1>9. /\ OfNone(Allocated)
      /\ OfNone(NoMeasurement.azimuth) /\ OfNone(NoMeasurement.elevation)
  BY NothingFiled DEF OfNone, Origins
<1>5. HandlerMeansShutdown /\ ReportInHand /\ BuffersExclude
  BY <1>2, <1>3 DEF Init, HandlerMeansShutdown, ReportInHand, BuffersExclude, Writing, Reading
<1>6. BuffersWhole /\ AnglesWhole
  BY <1>2, <1>3, <1>4 DEF BuffersWhole, AnglesWhole, Writing, Reading
<1>7. TableExclude
  BY <1>3 DEF Init, TableExclude, Inserting
<1>8. BuffersOfTag /\ AnglesOfTag
  BY <1>2, <1>3, <1>9, SlotType DEF BuffersOfTag, AnglesOfTag, OfTag, OfNone
<1> QED
  BY <1>1, <1>5, <1>6, <1>7, <1>8 DEF IInv

(* What the mutexes of the buffers and of the table guard holds in every   *)
(* state, as long as the program runs.                                     *)
THEOREM Invariant == Spec => []IInv
<1>1. IInv /\ [Next]_vars => IInv'
  <2> SUFFICES ASSUME IInv, [Next]_vars PROVE IInv'
    OBVIOUS
  <2>1. TypeOK' /\ HandlerMeansShutdown' /\ ReportInHand'
    BY TypeStep, HandlerMeansShutdownStep, ReportInHandStep DEF IInv
  <2>2. BuffersExclude' /\ BuffersWhole' /\ AnglesWhole'
    BY BuffersExcludeStep, BuffersWholeStep, AnglesWholeStep
  <2>3. TableExclude' /\ BuffersOfTag' /\ AnglesOfTag'
    BY TableExcludeStep, BuffersOfTagStep, AnglesOfTagStep
  <2> QED
    BY <2>1, <2>2, <2>3 DEF IInv
<1> QED
  BY InitIInv, <1>1, PTL DEF Spec

(* No angle is ever computed from a buffer that was being written, for any *)
(* number of locators, tags and reports, and whenever a SIGINT comes.      *)
THEOREM SamplesAreOfOneReport == Spec => []AnglesAreOfOneReport
<1>1. IInv => AnglesAreOfOneReport
  BY DEF IInv, AnglesWhole, AnglesAreOfOneReport, Angles, AngleWhole, Whole
<1> QED
  BY Invariant, <1>1, PTL

(* Every angle is filed under the index of its own tag, for any number of  *)
(* locators that fill the table at the same time.                          *)
THEOREM IndicesAreOfTags == Spec => []MeasurementsAreOfTheirTag
<1>1. IInv => MeasurementsAreOfTheirTag
  BY DEF IInv, AnglesOfTag, MeasurementsAreOfTheirTag, Angles, OfTag, Origins
<1> QED
  BY Invariant, <1>1, PTL

-----------------------------------------------------------------------------
(* Positions need every locator.                                           *)

(* Auxiliary info is in the samples; both angles are in the measurement.   *)
Filed(samples) == samples.aux # NoReport
Measured(m) == Filed(m.azimuth) /\ Filed(m.elevation)

(* What a report has passed is filed: the buffer before the semaphore of   *)
(* the AoX thread is posted, its copy before the angles are computed, both *)
(* angles before the semaphore of the Loc thread is posted.                *)
ReportsPassOn ==
  /\ \A l \in Locator : bgPc[l] \in {"samples", "post"} => Filed(iqSamplesBuffered[BgSlot(l)])
  /\ \A s \in Slot :
       /\ newSamplesAvailable[s] > 0 \/ aoxPc[s] = "aux" => Filed(iqSamplesBuffered[s])
       /\ aoxPc[s] \in {"samples", "azimuth", "elevation", "post"} => Filed(iqSamplesActive[s])
       /\ aoxPc[s] \in {"elevation", "post"} => Filed(locatorMeasurements[s].azimuth)
       /\ aoxPc[s] = "post" => Filed(locatorMeasurements[s].elevation)
       /\ newMeasurementAvailable[s] > 0 => Measured(locatorMeasurements[s])

(* The Loc thread has taken the semaphores of the locators up to its index *)
(* or of all of them, and then read the measurements up to its index.      *)
LocGathers ==
  /\ \A l \in Locator :
       (locPc = "wait" /\ l < locIndex) \/ locPc \in {"azimuth", "elevation"} =>
         Measured(locatorMeasurements[<<locTag, l>>])
  /\ \A l \in Locator :
       (locPc \in {"azimuth", "elevation"} /\ l < locIndex) \/ locPc = "process" =>
         Measured(given[l])
  /\ locPc = "elevation" => Filed(given[locIndex].azimuth)

(* The handler of SIGINT posts semaphores for nothing, but the Loc thread  *)
(* looks at eAppCtrl before it computes a position.                        *)
FlowInv == Running => ReportsPassOn /\ LocGathers

PositionsMeasured ==
  \A t \in TagID, l \in Locator : loc_sequence[t] > 0 => Measured(position[t][l])

(* What fills the buffers and measurements.                                *)
LEMMA NothingIsEmpty ==
  ASSUME TypeOK, ReportInHand, NEW l \in Locator, bgPc[l] = "aux"
  PROVE  evt[l] # NoReport
BY DEF ReportInHand

(* Samples that are filed stay filed, angles that are measured measured,   *)
(* while the program runs.                                                 *)
LEMMA FiledStays ==
  ASSUME IInv, Running, Running', ReportsPassOn, [Next]_vars, NEW s \in Slot
  PROVE  /\ Filed(iqSamplesBuffered[s]) => Filed(iqSamplesBuffered'[s])
         /\ Filed(iqSamplesActive[s]) => Filed(iqSamplesActive'[s])
         /\ Filed(locatorMeasurements[s].azimuth) => Filed(locatorMeasurements'[s].azimuth)
         /\ Filed(locatorMeasurements[s].elevation) => Filed(locatorMeasurements'[s].elevation)
<1>0. TypeOK /\ ReportInHand /\ HandlerMeansShutdown
  BY DEF IInv
<1>1. ASSUME NEW l \in Locator, BgReport(l) \/ BgStep(l)
      PROVE  Filed(iqSamplesBuffered[s]) => Filed(iqSamplesBuffered'[s])
  <2>1. BgAux(l) => Filed(iqSamplesBuffered'[BgSlot(l)])
    BY <1>0, <1>1, BufferWritten, NothingIsEmpty DEF BgAux, Filed
  <2>2. BgSamples(l) => iqSamplesBuffered'[BgSlot(l)].aux = iqSamplesBuffered[BgSlot(l)].aux
    BY <1>0, <1>1, BufferWritten
  <2>3. s # BgSlot(l) \/ ~(BgAux(l) \/ BgSamples(l)) =>
          iqSamplesBuffered'[s] = iqSamplesBuffered[s]
    BY <1>0, <1>1, BufferWritten
  <2> QED
    BY <2>1, <2>2, <2>3 DEF Filed
<1>2. CASE BgAny
  BY <1>1, <1>2, BgFrame DEF BgAny, aoxVars
<1>3. ASSUME NEW r \in Slot, AoxStep(r)
      PROVE  /\ Filed(iqSamplesActive[s]) => Filed(iqSamplesActive'[s])
             /\ Filed(locatorMeasurements[s].azimuth) => Filed(locatorMeasurements'[s].azimuth)
             /\ Filed(locatorMeasurements[s].elevation) => Filed(locatorMeasurements'[s].elevation)
  <2>1. CASE s # r
    BY <1>0, <1>3, <2>1, AoxOthers
  <2>2. CASE s = r
    <3>1. AoxCopyAux(s) => Filed(iqSamplesBuffered[s])
      BY DEF ReportsPassOn, AoxCopyAux
    <3>2. Filed(iqSamplesActive[s]) => Filed(iqSamplesActive'[s])
      BY <1>0, <1>3, <2>2, <3>1, CopyMade DEF Filed
    <3>3. aoxPc[s] \in {"azimuth", "elevation"} => Filed(iqSamplesActive[s])
      BY DEF ReportsPassOn
    <3> QED
      BY <1>0, <1>3, <2>2, <3>2, <3>3, AnglesMeasured DEF Filed, ComputedFrom
  <2> QED
    BY <2>1, <2>2
<1>4. CASE AoxAny
  BY <1>3, <1>4, AoxFrame DEF AoxAny
<1>5. CASE LocStep \/ UNCHANGED vars
  BY <1>5, LocFrame DEF vars, bufferVars, aoxVars
<1> QED
  BY <1>0, <1>2, <1>4, <1>5, RunningStep

LEMMA PassOnStep ==
  ASSUME IInv, Running, Running', ReportsPassOn, [Next]_vars
  PROVE  ReportsPassOn'
<1>0. TypeOK /\ TypeBg /\ TypeAox /\ TypeSemaphores /\ ReportInHand /\ HandlerMeansShutdown
  BY TypeParts DEF IInv
<1>1. \A s \in Slot :
        /\ Filed(iqSamplesBuffered[s]) => Filed(iqSamplesBuffered'[s])
        /\ Filed(iqSamplesActive[s]) => Filed(iqSamplesActive'[s])
        /\ Filed(locatorMeasurements[s].azimuth) => Filed(locatorMeasurements'[s].azimuth)
        /\ Filed(locatorMeasurements[s].elevation) => Filed(locatorMeasurements'[s].elevation)
  BY FiledStays
<1> DEFINE BgClaim(l) == bgPc[l] \in {"samples", "post"} => Filed(iqSamplesBuffered[BgSlot(l)])
           AoxClaim(s) ==
             /\ newSamplesAvailable[s] > 0 \/ aoxPc[s] = "aux" => Filed(iqSamplesBuffered[s])
             /\ aoxPc[s] \in {"samples", "azimuth", "elevation", "post"} =>
                  Filed(iqSamplesActive[s])
             /\ aoxPc[s] \in {"elevation", "post"} => Filed(locatorMeasurements[s].azimuth)
             /\ aoxPc[s] = "post" => Filed(locatorMeasurements[s].elevation)
             /\ newMeasurementAvailable[s] > 0 => Measured(locatorMeasurements[s])
<1>2. (\A l \in Locator : BgClaim(l)) /\ (\A s \in Slot : AoxClaim(s))
  BY DEF ReportsPassOn
<1>3. \A l \in Locator : BgSlot(l) \in Slot
  BY <1>0, SlotOfBg
<1>4. ASSUME NEW l \in Locator, BgReport(l) \/ BgStep(l)
      PROVE  (\A k \in Locator : BgClaim(k)') /\ (\A s \in Slot : AoxClaim(s)')
  <2>1. \A k \in Locator : k # l => UNCHANGED <<bgPc[k], BgSlot(k)>>
    BY <1>0, <1>4, BgOthers
  <2>2. UNCHANGED <<aoxPc, iqSamplesActive, locatorMeasurements, newMeasurementAvailable>>
    BY <1>4, BgFrame DEF BgAny, aoxVars
  <2>3. BgClaim(l)'
    <3>1. CASE BgAux(l)
      <4>1. UNCHANGED BgSlot(l) /\ iqSamplesBuffered'[BgSlot(l)].aux = evt[l] /\ bgPc[l] = "aux"
        BY <1>0, <1>4, <3>1, BufferWritten DEF BgAux, BgSlot
      <4> QED
        BY <1>0, <4>1, NothingIsEmpty DEF Filed
    <3>2. CASE BgSamples(l)
      BY <1>1, <1>2, <1>3, <3>2 DEF BgSamples, BgSlot
    <3>3. CASE ~BgAux(l) /\ ~BgSamples(l)
      BY <1>0, <1>4, <3>3 DEF TypeBg, BgStep, BgReport, BgStop, BgLookup, BgInsert, BgPost, BgDone,
                              BgGoto
    <3> QED
      BY <3>1, <3>2, <3>3
  <2>4. \A k \in Locator : BgClaim(k)'
    BY <1>1, <1>2, <1>3, <2>1, <2>3
  <2>5. ASSUME NEW s \in Slot, newSamplesAvailable'[s] > 0
        PROVE  Filed(iqSamplesBuffered'[s])
    <3>1. CASE BgPost(l) /\ s = BgSlot(l)
      BY <1>1, <1>2, <3>1 DEF BgPost
    <3>2. CASE ~(BgPost(l) /\ s = BgSlot(l))
      <4>1. newSamplesAvailable'[s] = newSamplesAvailable[s]
        BY <1>0, <1>4, <3>2 DEF TypeSemaphores, BgStep, BgReport, BgStop, BgLookup, BgInsert,
                                BgAux, BgSamples, BgPost, semVars
      <4> QED
        BY <1>1, <1>2, <2>5, <4>1
    <3> QED
      BY <3>1, <3>2
  <2>6. \A s \in Slot : AoxClaim(s)'
    BY <1>1, <1>2, <2>2, <2>5
  <2> QED
    BY <2>4, <2>6
<1>5. ASSUME NEW r \in Slot, AoxStep(r)
      PROVE  (\A k \in Locator : BgClaim(k)') /\ (\A s \in Slot : AoxClaim(s)')
  <2>1. UNCHANGED <<bgPc, bgTag, iqSamplesBuffered>>
    BY <1>5, AoxFrame DEF AoxAny, bgVars
  <2>2. \A k \in Locator : BgClaim(k)'
    BY <1>2, <2>1 DEF BgSlot
  <2>3. \A s \in Slot : s # r =>
          UNCHANGED <<aoxPc[s], iqSamplesActive[s], locatorMeasurements[s]>>
    BY <1>0, <1>5, AoxOthers
  <2>4. \A s \in Slot : /\ newSamplesAvailable'[s] > 0 => newSamplesAvailable[s] > 0
                        /\ newMeasurementAvailable'[s] > 0 =>
                             newMeasurementAvailable[s] > 0 \/ (s = r /\ AoxPost(r))
    <3>1. \/ UNCHANGED newSamplesAvailable
          \/ newSamplesAvailable' = [newSamplesAvailable EXCEPT ![r] = @ - 1]
      BY <1>5 DEF AoxStep, AoxWait, AoxCopyAux, AoxCopySamples, AoxAzimuth, AoxElevation, AoxPost,
                  semVars
    <3>2. \/ UNCHANGED newMeasurementAvailable
          \/ AoxPost(r) /\ newMeasurementAvailable' = [newMeasurementAvailable EXCEPT ![r] = @ + 1]
      BY <1>5 DEF AoxStep, AoxWait, AoxCopyAux, AoxCopySamples, AoxAzimuth, AoxElevation, AoxPost,
                  Announce, semVars
    <3>3. /\ newSamplesAvailable \in [Slot -> Nat]
          /\ newMeasurementAvailable \in [Slot -> Nat]
      BY <1>0 DEF TypeSemaphores
    <3> QED
      BY <3>1, <3>2, <3>3
  <2>5. AoxClaim(r)'
    <3>1. CASE AoxWait(r)
      <4>1. /\ newSamplesAvailable[r] > 0 /\ aoxPc'[r] \in {"aux", "done"}
            /\ UNCHANGED <<newMeasurementAvailable, locatorMeasurements>>
        BY <1>0, <3>1 DEF TypeAox, AoxWait, AoxGoto
      <4> QED
        BY <1>2, <2>1, <2>4, <4>1
    <3>2. CASE AoxCopyAux(r)
      <4>1. /\ aoxPc[r] = "aux" /\ aoxPc'[r] = "samples" /\ UNCHANGED locatorMeasurements
            /\ iqSamplesActive'[r].aux = iqSamplesBuffered[r].aux /\ ~AoxPost(r)
        BY <1>0, <1>5, <3>2, CopyMade DEF TypeAox, AoxCopyAux, AoxPost, AoxGoto
      <4> QED
        BY <1>2, <2>1, <2>4, <4>1 DEF Filed
    <3>3. CASE AoxCopySamples(r)
      <4>1. /\ aoxPc[r] = "samples" /\ aoxPc'[r] = "azimuth" /\ UNCHANGED locatorMeasurements
            /\ ~AoxPost(r)
        BY <1>0, <3>3 DEF TypeAox, AoxCopySamples, AoxPost, AoxGoto
      <4> QED
        BY <1>1, <1>2, <2>1, <2>4, <4>1
    <3>4. CASE AoxAzimuth(r)
      <4>1. /\ aoxPc[r] = "azimuth" /\ aoxPc'[r] = "elevation" /\ UNCHANGED iqSamplesActive
            /\ ~AoxPost(r)
            /\ \E sc : locatorMeasurements' =
                        [locatorMeasurements EXCEPT ![r].azimuth = Angle(r, sc)]
        BY <1>0, <3>4 DEF TypeAox, AoxAzimuth, AoxPost, AoxGoto, Running
      <4>3. \A sc : Angle(r, sc).aux = iqSamplesActive[r].aux
        BY <1>0, NotComputedIs DEF TypeAox, Angle
      <4>2. Filed(iqSamplesActive[r]) => Filed(locatorMeasurements'[r].azimuth)
        BY <1>0, <4>1, <4>3 DEF TypeAox, Measurement, Filed
      <4> QED
        BY <1>1, <1>2, <2>1, <2>4, <4>1, <4>2 DEF Measured
    <3>5. CASE AoxElevation(r)
      <4>1. /\ aoxPc[r] = "elevation" /\ aoxPc'[r] = "post" /\ UNCHANGED iqSamplesActive
            /\ ~AoxPost(r)
            /\ locatorMeasurements' =
                 [locatorMeasurements EXCEPT ![r].elevation = Angle(r, result[r])]
        BY <1>0, <3>5 DEF TypeAox, AoxElevation, AoxPost, AoxGoto
      <4>3. Angle(r, result[r]).aux = iqSamplesActive[r].aux
        BY <1>0, NotComputedIs DEF TypeAox, Angle
      <4>2. Filed(iqSamplesActive[r]) => Filed(locatorMeasurements'[r].elevation)
        BY <1>0, <4>1, <4>3 DEF TypeAox, Measurement, Filed
      <4> QED
        BY <1>1, <1>2, <2>1, <2>4, <4>1, <4>2 DEF Measured
    <3>6. CASE AoxPost(r)
      <4>1. /\ aoxPc[r] = "post" /\ aoxPc'[r] \in {"wait", "done"} /\ UNCHANGED locatorMeasurements
        BY <1>0, <3>6 DEF TypeAox, AoxPost, AoxGoto
      <4> QED
        BY <1>2, <2>1, <2>4, <4>1 DEF Measured
    <3> QED
      BY <1>5, <3>1, <3>2, <3>3, <3>4, <3>5, <3>6 DEF AoxStep
  <2>6. \A s \in Slot : AoxClaim(s)'
    BY <1>2, <2>1, <2>3, <2>4, <2>5
  <2> QED
    BY <2>2, <2>6
<1>6. ASSUME LocStep \/ UNCHANGED vars
      PROVE  (\A k \in Locator : BgClaim(k)') /\ (\A s \in Slot : AoxClaim(s)')
  <2>1. UNCHANGED <<bgPc, bgTag, aoxPc, iqSamplesActive, iqSamplesBuffered, locatorMeasurements,
                    newSamplesAvailable>>
    BY <1>6, LocFrame DEF vars, bgVars, aoxVars, bufferVars, semVars
  <2>2. \A s \in Slot : newMeasurementAvailable'[s] > 0 => newMeasurementAvailable[s] > 0
    <3>1. \/ UNCHANGED newMeasurementAvailable
          \/ newMeasurementAvailable' = [newMeasurementAvailable EXCEPT ![LocSlot] = @ - 1]
      BY <1>6 DEF LocStep, LocTake, LocTimeout, LocAzimuth, LocElevation, LocProcess, vars, semVars
    <3>2. newMeasurementAvailable \in [Slot -> Nat]
      BY <1>0 DEF TypeSemaphores
    <3> QED
      BY <3>1, <3>2
  <2>3. \A k \in Locator : BgClaim(k)'
    BY <1>2, <2>1 DEF BgSlot
  <2>4. \A s \in Slot : AoxClaim(s)'
    BY <1>2, <2>1, <2>2
  <2> QED
    BY <2>3, <2>4
<1>7. BgAny \/ AoxAny \/ LocStep \/ UNCHANGED vars
  BY <1>0, RunningStep
<1>8. (\A k \in Locator : BgClaim(k)') /\ (\A s \in Slot : AoxClaim(s)')
  <2> HIDE DEF BgClaim, AoxClaim
  <2>1. CASE BgAny
    BY <1>4, <2>1 DEF BgAny
  <2>2. CASE AoxAny
    BY <1>5, <2>2 DEF AoxAny
  <2> QED
    BY <1>6, <1>7, <2>1, <2>2
<1> QED
  BY <1>8 DEF ReportsPassOn

(* How the Loc thread moves.                                               *)
LEMMA NextLocatorMoves ==
  ASSUME TypeOK, NEW pc, NEW afterLast, NextLocator(pc, afterLast)
  PROVE  /\ locIndex < NumLocators - 1 => locIndex' = locIndex + 1 /\ locPc' = pc
         /\ locIndex = NumLocators - 1 => locIndex' = 0 /\ locPc' = afterLast
         /\ locTag' = locTag /\ locIndex \in 0 .. NumLocators - 1
<1>1. locIndex \in 0 .. NumLocators - 1 /\ NumLocators \in Nat \ {0}
  BY NumLocatorsAssumption, TypeParts DEF TypeLoc, Locator
<1>2. CASE locIndex = NumLocators - 1
  <2>1. locIndex + 1 = NumLocators
    BY <1>1, <1>2
  <2>2. (locIndex + 1) % NumLocators = 0
    BY <1>1, <2>1
  <2> QED
    BY <1>1, <1>2, <2>2 DEF NextLocator
<1>3. CASE locIndex < NumLocators - 1
  <2>1. (locIndex + 1) % NumLocators = locIndex + 1
    BY <1>1, <1>3
  <2> QED
    BY <1>1, <1>3, <2>1 DEF NextLocator
<1> QED
  BY <1>1, <1>2, <1>3

(* One angle of one measurement is given to the estimator.                 *)
LEMMA GivenWritten ==
  ASSUME TypeOK
  PROVE  /\ LocAzimuth =>
              given'[locIndex].azimuth = locatorMeasurements[LocSlot].azimuth
         /\ LocElevation =>
              /\ given'[locIndex].azimuth = given[locIndex].azimuth
              /\ given'[locIndex].elevation = locatorMeasurements[LocSlot].elevation
         /\ LocAzimuth \/ LocElevation =>
              \A l \in Locator : l # locIndex => given'[l] = given[l]
<1>0. /\ given \in [Locator -> Measurement] /\ locIndex \in Locator
      /\ given[locIndex] \in [azimuth : Samples, elevation : Samples]
  BY TypeParts DEF TypeLoc, Measurement
<1>1. LocAzimuth => given'[locIndex].azimuth = locatorMeasurements[LocSlot].azimuth
  BY <1>0 DEF LocAzimuth
<1>2. LocElevation => given'[locIndex].azimuth = given[locIndex].azimuth
  BY <1>0 DEF LocElevation
<1>3. LocElevation => given'[locIndex].elevation = locatorMeasurements[LocSlot].elevation
  BY <1>0 DEF LocElevation
<1>4. ASSUME LocAzimuth \/ LocElevation, NEW l \in Locator, l # locIndex
      PROVE  given'[l] = given[l]
  BY <1>0, <1>4 DEF LocAzimuth, LocElevation
<1> QED
  BY <1>1, <1>2, <1>3, <1>4

LEMMA LocGathersStep ==
  ASSUME IInv, Running, Running', ReportsPassOn, LocGathers, [Next]_vars
  PROVE  LocGathers'
<1>0. TypeOK /\ TypeLoc /\ HandlerMeansShutdown
  BY TypeParts DEF IInv
<1>1. \A l \in Locator : <<locTag, l>> \in Slot
  BY <1>0 DEF TypeLoc, Slot
<1>2. \A l \in Locator : Measured(locatorMeasurements[<<locTag, l>>]) =>
                           Measured(locatorMeasurements'[<<locTag, l>>])
  BY <1>1, FiledStays DEF Measured
<1>3. CASE UNCHANGED locVars
  BY <1>2, <1>3 DEF LocGathers, locVars
<1>4. CASE BgAny \/ AoxAny \/ UNCHANGED vars
  BY <1>3, <1>4, BgFrame, AoxFrame DEF vars
<1>5. ASSUME LocStep
      PROVE  locIndex \in Int /\ locIndex' \in Int /\ Locator \subseteq Int
             /\ \A l \in Locator : l <= NumLocators - 1 /\ ~(l < 0)
             /\ UNCHANGED locatorMeasurements
  <2>1. locIndex \in Locator /\ locIndex' \in Locator
    BY <1>0, LocTypeStep DEF TypeLoc
  <2> QED
    BY <1>5, <2>1, LocFrame, NumLocatorsAssumption DEF Locator, aoxVars
<1>6. CASE NextTag
  <2>1. locIndex' = 0 /\ locPc' \in {"wait", "done"}
    BY <1>6 DEF NextTag
  <2>2. \A l \in Locator : ~(l < 0)
    BY DEF Locator
  <2> QED
    BY <2>1, <2>2 DEF LocGathers
<1>7. CASE LocTake
  <2>1. /\ locPc = "wait" /\ Measured(locatorMeasurements[<<locTag, locIndex>>])
        /\ NextLocator("wait", "azimuth")
    BY <1>0, <1>1, <1>7 DEF LocTake, LocSlot, ReportsPassOn, TypeLoc
  <2>2. \A l \in Locator : l <= locIndex => Measured(locatorMeasurements[<<locTag, l>>])
    <3>1. \A l \in Locator : l <= locIndex => l < locIndex \/ l = locIndex
      BY <1>5, <1>7 DEF LocStep
    <3> QED
      BY <2>1, <3>1 DEF LocGathers
  <2>3. CASE locIndex < NumLocators - 1
    <3>1. locIndex' = locIndex + 1 /\ locPc' = "wait" /\ locTag' = locTag
      BY <1>0, <2>1, <2>3, NextLocatorMoves
    <3>2. \A l \in Locator : l < locIndex' => l <= locIndex
      BY <1>5, <1>7, <3>1 DEF LocStep
    <3> QED
      BY <1>2, <2>2, <3>1, <3>2 DEF LocGathers
  <2>4. CASE locIndex = NumLocators - 1
    <3>1. locIndex' = 0 /\ locPc' = "azimuth" /\ locTag' = locTag
      BY <1>0, <2>1, <2>4, NextLocatorMoves
    <3>2. \A l \in Locator : l <= locIndex /\ ~(l < locIndex')
      BY <1>5, <1>7, <2>4, <3>1 DEF LocStep
    <3> QED
      BY <1>2, <2>2, <3>1, <3>2 DEF LocGathers
  <2>5. locIndex < NumLocators - 1 \/ locIndex = NumLocators - 1
    <3>1. locIndex \in 0 .. NumLocators - 1
      BY <1>0, <2>1, NextLocatorMoves
    <3> QED
      BY <3>1, NumLocatorsAssumption
  <2> QED
    BY <2>3, <2>4, <2>5
<1>8. CASE LocAzimuth
  <2>1. /\ locPc = "azimuth" /\ locPc' = "elevation" /\ UNCHANGED <<locTag, locIndex>>
    BY <1>8 DEF LocAzimuth
  <2>2. /\ Filed(given'[locIndex].azimuth) /\ \A l \in Locator : l # locIndex => given'[l] = given[l]
    BY <1>0, <1>8, <2>1, GivenWritten DEF LocSlot, LocGathers, Measured, TypeLoc
  <2>3. \A l \in Locator : l < locIndex => l # locIndex
    BY <1>5, <1>8 DEF LocStep
  <2> QED
    BY <1>2, <2>1, <2>2, <2>3 DEF LocGathers
<1>9. CASE LocElevation
  <2>1. locPc = "elevation" /\ NextLocator("azimuth", "process")
    BY <1>9 DEF LocElevation
  <2>2. \A l \in Locator : l # locIndex => given'[l] = given[l]
    BY <1>0, <1>9, GivenWritten
  <2>3. Measured(given'[locIndex])
    BY <1>0, <1>9, <2>1, GivenWritten DEF LocSlot, LocGathers, Measured, TypeLoc
  <2>4. \A l \in Locator : l <= locIndex => Measured(given'[l])
    <3>1. \A l \in Locator : l <= locIndex => l < locIndex \/ l = locIndex
      BY <1>5, <1>9 DEF LocStep
    <3>2. \A l \in Locator : l < locIndex => l # locIndex
      BY <1>5, <1>9 DEF LocStep
    <3> QED
      BY <2>1, <2>2, <2>3, <3>1, <3>2 DEF LocGathers
  <2>5. CASE locIndex < NumLocators - 1
    <3>1. locIndex' = locIndex + 1 /\ locPc' = "azimuth" /\ locTag' = locTag
      BY <1>0, <2>1, <2>5, NextLocatorMoves
    <3>2. \A l \in Locator : l < locIndex' => l <= locIndex
      BY <1>5, <1>9, <3>1 DEF LocStep
    <3> QED
      BY <1>2, <2>1, <2>4, <3>1, <3>2 DEF LocGathers
  <2>6. CASE locIndex = NumLocators - 1
    <3>1. locIndex' = 0 /\ locPc' = "process" /\ locTag' = locTag
      BY <1>0, <2>1, <2>6, NextLocatorMoves
    <3>2. \A l \in Locator : l <= locIndex
      BY <1>5, <1>9, <2>6 DEF LocStep
    <3> QED
      BY <1>2, <2>4, <3>1, <3>2 DEF LocGathers
  <2>7. locIndex < NumLocators - 1 \/ locIndex = NumLocators - 1
    <3>1. locIndex \in 0 .. NumLocators - 1
      BY <1>0, <2>1, NextLocatorMoves
    <3> QED
      BY <3>1, NumLocatorsAssumption
  <2> QED
    BY <2>5, <2>6, <2>7
<1>10. CASE LocTimeout \/ LocProcess
  BY <1>6, <1>10 DEF LocTimeout, LocProcess, Running
<1> QED
  BY <1>0, <1>4, <1>7, <1>8, <1>9, <1>10, RunningStep DEF LocStep

LEMMA PositionsMeasuredStep ==
  ASSUME IInv, FlowInv, PositionsMeasured, [Next]_vars
  PROVE  PositionsMeasured'
<1>0. TypeOK /\ TypeLoc
  BY TypeParts DEF IInv
<1>1. CASE LocProcess /\ Running
  <2>1. /\ position' = [position EXCEPT ![locTag] = given]
        /\ loc_sequence' = [loc_sequence EXCEPT ![locTag] = @ + 1]
        /\ locPc = "process"
    BY <1>1 DEF LocProcess, Running
  <2>2. \A l \in Locator : Measured(given[l])
    BY <1>1, <2>1 DEF FlowInv, LocGathers
  <2>3. \A t \in TagID : t # locTag =>
          position'[t] = position[t] /\ loc_sequence'[t] = loc_sequence[t]
    BY <1>0, <2>1 DEF TypeLoc
  <2>4. position'[locTag] = given
    BY <1>0, <2>1 DEF TypeLoc
  <2> QED
    BY <2>2, <2>3, <2>4 DEF PositionsMeasured
<1>2. CASE ~(LocProcess /\ Running)
  <2>1. UNCHANGED <<position, loc_sequence>>
    BY <1>2, Actors, BgFrame, AoxFrame, HandlerFrame
       DEF LocStep, LocTake, LocTimeout, LocAzimuth, LocElevation, LocProcess, Running, vars, locVars
  <2> QED
    BY <2>1 DEF PositionsMeasured
<1> QED
  BY <1>1, <1>2

(* The semaphore of this locator has been taken for the position that the  *)
(* Loc thread is at.                                                       *)
Taken(t, l) ==
  /\ locTag = t
  /\ locPc \in {"azimuth", "elevation", "process"} \/ (locPc = "wait" /\ l < locIndex)

TakenCount(t, l) == IF Taken(t, l) THEN 1 ELSE 0

(* Every announcement is in a semaphore, taken, used or lost.              *)
AnnouncementsCount ==
  \A t \in TagID, l \in Locator :
    /\ Running => newMeasurementAvailable[<<t, l>>] + TakenCount(t, l) + loc_sequence[t]
                    <= announced[<<t, l>>]
    /\ loc_sequence[t] <= announced[<<t, l>>]

(* What the Loc thread does to what has been taken: it takes one, it gives *)
(* all up, it uses all, or it goes on.                                     *)
LEMMA TakenMoves ==
  ASSUME TypeOK, LocStep, NEW t \in TagID, NEW l \in Locator
  PROVE  \/ LocTake /\ LocSlot = <<t, l>> /\ ~Taken(t, l)
         \/ LocTake /\ LocSlot # <<t, l>> /\ Taken(t, l)' = Taken(t, l)
         \/ LocTimeout /\ ~Taken(t, l)'
         \/ LocProcess /\ ~Taken(t, l)' /\ Taken(locTag, l)
         \/ (LocAzimuth \/ LocElevation) /\ Taken(t, l)' = Taken(t, l)
<1>0. TypeLoc /\ l \in Int /\ locIndex \in Int /\ ~(l < 0) /\ l <= NumLocators - 1
  BY TypeParts, NumLocatorsAssumption DEF TypeLoc, Locator
<1>1. ASSUME locIndex' = 0, locPc' \in {"wait", "done"}
      PROVE  ~Taken(t, l)'
  BY <1>0, <1>1 DEF Taken
<1>2. CASE LocTake
  <2>1. locPc = "wait" /\ NextLocator("wait", "azimuth")
    BY <1>2 DEF LocTake
  <2>2. CASE LocSlot = <<t, l>>
    BY <1>0, <1>2, <2>1, <2>2 DEF Taken, LocSlot
  <2>3. CASE LocSlot # <<t, l>> /\ t = locTag
    <3>1. l # locIndex
      BY <2>3 DEF LocSlot
    <3>2. CASE locIndex < NumLocators - 1
      <4>1. locIndex' = locIndex + 1 /\ locPc' = "wait" /\ locTag' = locTag
        BY <2>1, <3>2, NextLocatorMoves
      <4> QED
        BY <1>0, <1>2, <2>1, <2>3, <3>1, <4>1 DEF Taken
    <3>3. CASE locIndex = NumLocators - 1
      <4>1. locPc' = "azimuth" /\ locTag' = locTag
        BY <2>1, <3>3, NextLocatorMoves
      <4> QED
        BY <1>0, <1>2, <2>1, <2>3, <3>1, <3>3, <4>1, NumLocatorsAssumption DEF Taken
    <3> QED
      BY <2>1, <3>2, <3>3, NextLocatorMoves, NumLocatorsAssumption
  <2>4. CASE t # locTag
    BY <1>2, <2>1, <2>4 DEF Taken, NextLocator, LocSlot
  <2> QED
    BY <2>2, <2>3, <2>4
<1>3. CASE LocTimeout
  BY <1>1, <1>3 DEF LocTimeout, NextTag
<1>4. CASE LocProcess
  <2>1. locPc = "process" /\ (NextTag \/ (locPc' = "done" /\ UNCHANGED locIndex))
    BY <1>4 DEF LocProcess
  <2>2. ~Taken(t, l)'
    BY <1>1, <2>1 DEF NextTag, Taken
  <2> QED
    BY <1>4, <2>1, <2>2 DEF Taken
<1>5. CASE LocAzimuth
  BY <1>5 DEF LocAzimuth, Taken
<1>6. CASE LocElevation
  <2>1. /\ locPc = "elevation" /\ locPc' \in {"azimuth", "process"}
        /\ UNCHANGED locTag
    BY <1>6 DEF LocElevation, NextLocator
  <2> QED
    BY <1>6, <2>1 DEF Taken
<1> QED
  BY <1>2, <1>3, <1>4, <1>5, <1>6 DEF LocStep

LEMMA AnnouncementsCountStep ==
  ASSUME IInv, AnnouncementsCount, [Next]_vars
  PROVE  AnnouncementsCount'
<1>0. /\ TypeOK /\ TypeLoc /\ TypeAox /\ TypeSemaphores /\ HandlerMeansShutdown
      /\ TypeLoc' /\ TypeAox' /\ TypeSemaphores'
  BY TypeParts, LocTypeStep, AoxTypeStep, SemaphoresStep DEF IInv
<1> SUFFICES ASSUME NEW t \in TagID, NEW l \in Locator
             PROVE  /\ Running' => newMeasurementAvailable'[<<t, l>>] + TakenCount(t, l)'
                                      + loc_sequence'[t] <= announced'[<<t, l>>]
                    /\ loc_sequence'[t] <= announced'[<<t, l>>]
  BY DEF AnnouncementsCount
<1>1. /\ Running => newMeasurementAvailable[<<t, l>>] + TakenCount(t, l) + loc_sequence[t]
                      <= announced[<<t, l>>]
      /\ loc_sequence[t] <= announced[<<t, l>>]
  BY DEF AnnouncementsCount
<1>2. /\ <<t, l>> \in Slot
      /\ loc_sequence[t] \in Nat /\ loc_sequence'[t] \in Nat
      /\ newMeasurementAvailable[<<t, l>>] \in Nat /\ newMeasurementAvailable'[<<t, l>>] \in Nat
      /\ announced[<<t, l>>] \in Nat /\ announced'[<<t, l>>] \in Nat
      /\ TakenCount(t, l) \in {0, 1} /\ TakenCount(t, l)' \in {0, 1}
  BY <1>0, SlotType DEF TypeLoc, TypeAox, TypeSemaphores, TakenCount
<1>3. CASE ~LocStep
  <2>1. UNCHANGED locVars
    BY <1>3, Actors, BgFrame, AoxFrame, HandlerFrame DEF vars
  <2>2. loc_sequence'[t] = loc_sequence[t] /\ TakenCount(t, l)' = TakenCount(t, l)
    BY <2>1 DEF locVars, TakenCount, Taken
  <2>3. CASE AoxAny
    <3>1. PICK s \in Slot : AoxStep(s)
      BY <2>3 DEF AoxAny
    <3>2. \/ UNCHANGED <<newMeasurementAvailable, announced>>
          \/ /\ newMeasurementAvailable' = [newMeasurementAvailable EXCEPT ![s] = @ + 1]
             /\ announced' = [announced EXCEPT ![s] = @ + 1]
      BY <3>1 DEF AoxStep, AoxWait, AoxCopyAux, AoxCopySamples, AoxAzimuth, AoxElevation, AoxPost,
                  Announce, semVars
    <3>3. \/ /\ newMeasurementAvailable'[<<t, l>>] = newMeasurementAvailable[<<t, l>>]
             /\ announced'[<<t, l>>] = announced[<<t, l>>]
          \/ /\ newMeasurementAvailable'[<<t, l>>] = newMeasurementAvailable[<<t, l>>] + 1
             /\ announced'[<<t, l>>] = announced[<<t, l>>] + 1
      BY <1>0, <1>2, <3>2 DEF TypeAox, TypeSemaphores
    <3>4. Running' = Running
      BY <2>3, AoxFrame DEF ctrlVars, Running
    <3> QED
      BY <1>1, <1>2, <2>2, <3>3, <3>4
  <2>4. CASE ~AoxAny
    <3>1. UNCHANGED announced
      BY <1>3, <2>4, Actors, BgFrame, HandlerFrame DEF vars, aoxVars
    <3>2. Running' => Running /\ UNCHANGED newMeasurementAvailable
      BY <1>0, <1>3, <2>4, RunningStep, BgFrame DEF vars, semVars
    <3> QED
      BY <1>1, <1>2, <2>2, <3>1, <3>2
  <2> QED
    BY <2>3, <2>4
<1>4. CASE LocStep
  <2>1. UNCHANGED announced /\ Running' = Running
    BY <1>4, LocFrame DEF aoxVars, ctrlVars, Running
  <2>2. CASE LocTake
    <3>1. /\ newMeasurementAvailable[LocSlot] > 0 /\ UNCHANGED loc_sequence
          /\ newMeasurementAvailable' = [newMeasurementAvailable EXCEPT ![LocSlot] = @ - 1]
      BY <2>2 DEF LocTake
    <3>2. CASE LocSlot = <<t, l>>
      <4>1. newMeasurementAvailable'[<<t, l>>] = newMeasurementAvailable[<<t, l>>] - 1
        BY <1>0, <1>2, <3>1, <3>2 DEF TypeSemaphores
      <4>2. TakenCount(t, l) = 0
        BY <1>0, <1>4, <2>2, <3>2, TakenMoves
           DEF TakenCount, LocTimeout, LocProcess, LocAzimuth, LocElevation, LocTake
      <4> QED
        BY <1>1, <1>2, <2>1, <3>1, <4>1, <4>2
    <3>3. CASE LocSlot # <<t, l>>
      <4>1. newMeasurementAvailable'[<<t, l>>] = newMeasurementAvailable[<<t, l>>]
        BY <1>0, <1>2, <3>1, <3>3 DEF TypeSemaphores
      <4>2. ~LocTimeout /\ ~LocProcess /\ ~LocAzimuth /\ ~LocElevation
        BY <2>2, <3>1 DEF LocTimeout, LocProcess, LocAzimuth, LocElevation, LocTake
      <4>3. TakenCount(t, l)' = TakenCount(t, l)
        BY <1>0, <1>4, <3>3, <4>2, TakenMoves DEF TakenCount
      <4> QED
        BY <1>1, <1>2, <2>1, <3>1, <4>1, <4>3
    <3> QED
      BY <3>2, <3>3
  <2>3. ASSUME ~LocTake
        PROVE  UNCHANGED newMeasurementAvailable
    BY <1>4, <2>3 DEF LocStep, LocTimeout, LocAzimuth, LocElevation, LocProcess, semVars
  <2>4. CASE LocTimeout \/ LocAzimuth \/ LocElevation
    <3>1. UNCHANGED loc_sequence /\ ~LocTake /\ ~LocProcess
      BY <2>4 DEF LocTimeout, LocAzimuth, LocElevation, LocTake, LocProcess
    <3>2. TakenCount(t, l)' <= TakenCount(t, l)
      BY <1>0, <1>2, <1>4, <3>1, TakenMoves DEF TakenCount
    <3> QED
      BY <1>1, <1>2, <2>1, <2>3, <3>1, <3>2
  <2>5. CASE LocProcess
    <3>1. locPc = "process" /\ ~LocTake /\ ~LocTimeout /\ ~LocAzimuth /\ ~LocElevation
      BY <2>5 DEF LocProcess, LocTake, LocTimeout, LocAzimuth, LocElevation
    <3>2. ~Taken(t, l)' /\ Taken(locTag, l)
      BY <1>0, <1>4, <3>1, TakenMoves
    <3>3. CASE Running /\ t = locTag
      <4>1. loc_sequence'[t] = loc_sequence[t] + 1
        BY <1>0, <2>5, <3>3 DEF LocProcess, Running, TypeLoc
      <4>2. TakenCount(t, l) = 1 /\ TakenCount(t, l)' = 0
        BY <3>2, <3>3 DEF TakenCount
      <4> QED
        BY <1>1, <1>2, <2>1, <2>3, <3>1, <3>3, <4>1, <4>2
    <3>4. CASE ~(Running /\ t = locTag)
      <4>1. loc_sequence'[t] = loc_sequence[t]
        BY <1>0, <2>5, <3>4 DEF LocProcess, Running, TypeLoc
      <4>2. TakenCount(t, l)' = 0
        BY <3>2 DEF TakenCount
      <4> QED
        BY <1>1, <1>2, <2>1, <2>3, <3>1, <4>1, <4>2
    <3> QED
      BY <3>3, <3>4
  <2> QED
    BY <1>4, <2>2, <2>4, <2>5 DEF LocStep
<1> QED
  BY <1>3, <1>4

(* A position is computed only from angles of every locator, and from an   *)
(* announcement of every locator that no other position has used, for any  *)
(* number of locators and tags, although the semaphores may hold more than *)
(* one count and the handler of SIGINT posts them all (loc.cpp).           *)
THEOREM EveryLocatorMeasured == Spec => []PositionsNeedEveryLocator
<1> DEFINE Inv == FlowInv /\ PositionsMeasured /\ AnnouncementsCount
<1>1. Init => Inv
  <2> SUFFICES ASSUME Init PROVE Inv
    OBVIOUS
  <2>1. ReportsPassOn
    BY DEF Init, ReportsPassOn
  <2>2. LocGathers
    BY DEF Init, LocGathers, Locator
  <2>3. PositionsMeasured
    BY DEF Init, PositionsMeasured
  <2>4. AnnouncementsCount
    <3>1. \A t \in TagID, l \in Locator :
            newMeasurementAvailable[<<t, l>>] = 0 /\ announced[<<t, l>>] = 0
      BY SlotType DEF Init
    <3>2. \A t \in TagID : loc_sequence[t] = 0
      BY DEF Init
    <3>3. \A t \in TagID, l \in Locator : ~Taken(t, l)
      <4>1. locPc = "wait" /\ locIndex = 0
        BY DEF Init
      <4>2. \A l \in Locator : ~(l < 0)
        BY DEF Locator
      <4> QED
        BY <4>1, <4>2 DEF Taken
    <3>4. \A t \in TagID, l \in Locator : TakenCount(t, l) = 0
      BY <3>3 DEF TakenCount
    <3>5. ASSUME NEW t \in TagID, NEW l \in Locator
          PROVE  /\ newMeasurementAvailable[<<t, l>>] + TakenCount(t, l) + loc_sequence[t]
                      <= announced[<<t, l>>]
                 /\ loc_sequence[t] <= announced[<<t, l>>]
      BY <3>1, <3>2, <3>4
    <3> QED
      BY <3>5 DEF AnnouncementsCount
  <2> QED
    BY <2>1, <2>2, <2>3, <2>4 DEF FlowInv
<1>2. IInv /\ Inv /\ [Next]_vars => Inv'
  <2> SUFFICES ASSUME IInv, Inv, [Next]_vars PROVE Inv'
    OBVIOUS
  <2>1. ASSUME Running' PROVE ReportsPassOn' /\ LocGathers'
    <3>1. Running
      BY <2>1, RunningStep DEF IInv
    <3> QED
      BY <2>1, <3>1, PassOnStep, LocGathersStep DEF FlowInv
  <2> QED
    BY <2>1, PositionsMeasuredStep, AnnouncementsCountStep DEF FlowInv
<1>3. Inv => PositionsNeedEveryLocator
  BY DEF PositionsMeasured, AnnouncementsCount, PositionsNeedEveryLocator, Measured, Filed
<1> QED
  BY <1>1, <1>2, <1>3, Invariant, PTL DEF Spec

-----------------------------------------------------------------------------
(* Nothing gets older on its way from a report to a position.              *)

(* The number of the report an angle is computed from.                     *)
Age(samples) == samples.aux.number

(* Neither angle of n is computed from an older report than that of m.     *)
NotOlder(m, n) == Age(m.azimuth) <= Age(n.azimuth) /\ Age(m.elevation) <= Age(n.elevation)

(* A position of a tag is computed from no older angles than the position  *)
(* before it, at any locator.                                              *)
PositionsNeverGoBack ==
  [][\A t \in TagID, l \in Locator : NotOlder(position[t][l], position'[t][l])]_vars

(* A report in hand is newer than all its locator has stored.              *)
ReportsAreNewer ==
  \A l \in Locator :
    /\ evt[l].number <= reports
    /\ bgPc[l] \in {"lookup", "insert", "aux"} =>
         \A t \in TagID : Age(iqSamplesBuffered[<<t, l>>]) <= evt[l].number

(* The angles are of the working copy or older, which is of the buffer or  *)
(* older.                                                                  *)
CopiesAreOlder ==
  \A s \in Slot :
    /\ Age(iqSamplesBuffered[s]) <= reports
    /\ Age(iqSamplesActive[s]) <= Age(iqSamplesBuffered[s])
    /\ Age(locatorMeasurements[s].azimuth) <= Age(iqSamplesActive[s])
    /\ Age(locatorMeasurements[s].elevation) <= Age(iqSamplesActive[s])

(* A position is of the measurements there are now, or of older ones.      *)
PositionsAreOlder ==
  \A t \in TagID, l \in Locator : NotOlder(position[t][l], locatorMeasurements[<<t, l>>])

(* What the Loc thread has read for the next position is between the       *)
(* position before it and the measurements there are now.                  *)
AzimuthBetween(l) ==
  /\ Age(position[locTag][l].azimuth) <= Age(given[l].azimuth)
  /\ Age(given[l].azimuth) <= Age(locatorMeasurements[<<locTag, l>>].azimuth)

ElevationBetween(l) ==
  /\ Age(position[locTag][l].elevation) <= Age(given[l].elevation)
  /\ Age(given[l].elevation) <= Age(locatorMeasurements[<<locTag, l>>].elevation)

GivenIsBetween ==
  \A l \in Locator :
    /\ \/ locPc \in {"azimuth", "elevation"} /\ l < locIndex
       \/ locPc = "process"
       => AzimuthBetween(l) /\ ElevationBetween(l)
    /\ locPc = "elevation" /\ l = locIndex => AzimuthBetween(l)

(* The inductive invariant.                                                *)
AgeInv == ReportsAreNewer /\ CopiesAreOlder /\ PositionsAreOlder /\ GivenIsBetween

(* Reports are numbered, and there is none with the number 0.              *)
LEMMA AgeType ==
  /\ Age(Allocated) = 0 /\ NoReport.number = 0
  /\ Age(NoMeasurement.azimuth) = 0 /\ Age(NoMeasurement.elevation) = 0
  /\ \A x \in Samples : Age(x) \in Nat
  /\ \A r \in Report : r.number \in Nat
<1>1. \A r \in Report : r.number \in Nat
  BY DEF Report, NoReport
<1>2. \A x \in Samples : Age(x) \in Nat
  BY <1>1, ReportType DEF Age
<1>3. /\ Age(Allocated) = 0 /\ NoReport.number = 0
      /\ Age(NoMeasurement.azimuth) = 0 /\ Age(NoMeasurement.elevation) = 0
  BY NothingFiled DEF NoReport, Age
<1> QED
  BY <1>1, <1>2, <1>3

(* Ages before and after a step are numbers.                               *)
LEMMA AgesAreNumbers ==
  ASSUME TypeOK, [Next]_vars
  PROVE  /\ reports \in Nat /\ reports' \in Nat
         /\ \A l \in Locator : evt[l].number \in Nat /\ evt'[l].number \in Nat
         /\ \A s \in Slot :
              /\ Age(iqSamplesBuffered[s]) \in Nat /\ Age(iqSamplesBuffered'[s]) \in Nat
              /\ Age(iqSamplesActive[s]) \in Nat /\ Age(iqSamplesActive'[s]) \in Nat
              /\ Age(locatorMeasurements[s].azimuth) \in Nat
              /\ Age(locatorMeasurements'[s].azimuth) \in Nat
              /\ Age(locatorMeasurements[s].elevation) \in Nat
              /\ Age(locatorMeasurements'[s].elevation) \in Nat
<1>1. TypeCtrl /\ TypeBuffers /\ TypeBg /\ TypeAox
  BY TypeParts
<1>2. TypeCtrl' /\ TypeBuffers' /\ TypeBg' /\ TypeAox'
  BY CtrlStep, BuffersStep, BgTypeStep, AoxTypeStep
<1>3. reports \in Nat /\ reports' \in Nat
  BY <1>1, <1>2, MaxReportsAssumption DEF TypeCtrl
<1>4. \A l \in Locator : evt[l].number \in Nat /\ evt'[l].number \in Nat
  BY <1>1, <1>2, AgeType DEF TypeBg
<1>5. \A s \in Slot :
        /\ iqSamplesBuffered[s] \in Samples /\ iqSamplesBuffered'[s] \in Samples
        /\ iqSamplesActive[s] \in Samples /\ iqSamplesActive'[s] \in Samples
        /\ locatorMeasurements[s] \in Measurement /\ locatorMeasurements'[s] \in Measurement
  BY <1>1, <1>2 DEF TypeBuffers, TypeAox
<1> QED
  BY <1>3, <1>4, <1>5, AgeType, ReportType

(* Reports are numbered in the order they are read.                        *)
LEMMA ReportsCount ==
  ASSUME NEW l \in Locator, BgReport(l) \/ BgStep(l), reports \in Nat
  PROVE  reports <= reports'
<1>1. CASE BgReport(l)
  <2>1. reports' = reports + 1
    BY <1>1 DEF BgReport
  <2> QED
    BY <2>1
<1>2. CASE BgStep(l)
  <2>1. UNCHANGED ctrlVars
    BY <1>2 DEF BgStep, BgStop, BgLookup, BgInsert, BgAux, BgSamples, BgPost
  <2>2. reports' = reports
    BY <2>1 DEF ctrlVars
  <2> QED
    BY <2>2
<1> QED
  BY <1>1, <1>2

(* A BG thread that reads a report has the newest there is.                *)
LEMMA ReportsAreNewerStep ==
  ASSUME TypeOK, ReportsAreNewer, CopiesAreOlder, [Next]_vars
  PROVE  ReportsAreNewer'
<1>0. TypeBg
  BY TypeParts
<1>n. /\ reports \in Nat /\ reports' \in Nat
      /\ \A l \in Locator : evt[l].number \in Nat
      /\ \A s \in Slot : Age(iqSamplesBuffered[s]) \in Nat
  BY AgesAreNumbers
<1>1. ASSUME NEW k \in Locator, UNCHANGED <<evt[k], bgPc[k]>>, reports <= reports',
             \A t \in TagID : UNCHANGED iqSamplesBuffered[<<t, k>>]
      PROVE  /\ evt'[k].number <= reports'
             /\ bgPc'[k] \in {"lookup", "insert", "aux"} =>
                  \A t \in TagID : Age(iqSamplesBuffered'[<<t, k>>]) <= evt'[k].number
  BY <1>n, <1>1 DEF ReportsAreNewer
<1>2. CASE BgAny
  <2>1. PICK l \in Locator : BgReport(l) \/ BgStep(l)
    BY <1>2 DEF BgAny
  <2>2. reports <= reports'
    BY <1>n, <2>1, ReportsCount
  <2>3. ASSUME NEW k \in Locator, k # l
        PROVE  /\ evt'[k].number <= reports'
               /\ bgPc'[k] \in {"lookup", "insert", "aux"} =>
                    \A t \in TagID : Age(iqSamplesBuffered'[<<t, k>>]) <= evt'[k].number
    <3>1. \A t \in TagID : <<t, k>> \in Slot /\ <<t, k>> # BgSlot(l)
      BY <2>3, SlotType DEF BgSlot
    <3>2. \A t \in TagID : UNCHANGED iqSamplesBuffered[<<t, k>>]
      BY <2>1, <3>1, BufferWritten
    <3>3. UNCHANGED <<evt[k], bgPc[k]>>
      BY <2>1, <2>3, BgOthers
    <3> QED
      BY <1>1, <2>2, <3>2, <3>3
  <2>4. /\ evt'[l].number <= reports'
        /\ bgPc'[l] \in {"lookup", "insert", "aux"} =>
             \A t \in TagID : Age(iqSamplesBuffered'[<<t, l>>]) <= evt'[l].number
    <3>1. CASE BgReport(l)
      <4>1. evt'[l].number = reports + 1 /\ reports' = reports + 1 /\ UNCHANGED iqSamplesBuffered
        <5>1. PICK r \in Report : evt' = [evt EXCEPT ![l] = r] /\ r.number = reports + 1
          BY <3>1, TypeParts, ReportRead
        <5> QED
          BY <1>0, <3>1, <5>1 DEF BgReport, TypeBg, bufferVars
      <4>2. \A t \in TagID : Age(iqSamplesBuffered[<<t, l>>]) <= reports
        BY SlotType DEF CopiesAreOlder
      <4> QED
        BY <1>n, <4>1, <4>2, SlotType
    <3>2. CASE BgDone(l)
      <4>1. evt'[l] = NoReport /\ bgPc'[l] = "event"
        BY <1>0, <3>2 DEF BgDone, BgGoto, TypeBg
      <4> QED
        BY <1>n, <4>1, AgeType
    <3>3. CASE BgStep(l) /\ ~BgDone(l)
      <4>1. evt'[l] = evt[l]
        BY <3>3 DEF BgStep, BgStop, BgLookup, BgInsert, BgAux, BgSamples, BgPost
      <4>2. bgPc'[l] \in {"lookup", "insert", "aux"} =>
              bgPc[l] \in {"lookup", "insert", "aux"} /\ UNCHANGED iqSamplesBuffered
        BY <1>0, <3>3 DEF BgStep, BgStop, BgLookup, BgInsert, BgAux, BgSamples, BgPost, BgGoto,
                          TypeBg, bufferVars
      <4> QED
        BY <1>n, <2>2, <4>1, <4>2 DEF ReportsAreNewer
    <3> QED
      BY <2>1, <3>1, <3>2, <3>3
  <2> QED
    BY <2>3, <2>4 DEF ReportsAreNewer
<1>3. CASE ~BgAny
  <2>1. UNCHANGED <<reports, evt, bgPc, iqSamplesBuffered>>
    BY <1>3, Actors, AoxFrame, LocFrame, HandlerFrame DEF vars, ctrlVars, bgVars, bufferVars
  <2>2. reports <= reports'
    BY <1>n, <2>1
  <2> QED
    BY <1>1, <2>1, <2>2 DEF ReportsAreNewer
<1> QED
  BY <1>2, <1>3

(* The copies of one slot after a step.                                    *)
LEMMA CopiesAreOlderStep ==
  ASSUME TypeOK, ReportsAreNewer, CopiesAreOlder, [Next]_vars
  PROVE  /\ CopiesAreOlder'
         /\ \A s \in Slot : NotOlder(locatorMeasurements[s], locatorMeasurements'[s])
<1>n. /\ reports \in Nat /\ reports' \in Nat
      /\ \A l \in Locator : evt[l].number \in Nat
      /\ \A s \in Slot :
           /\ Age(iqSamplesBuffered[s]) \in Nat /\ Age(iqSamplesBuffered'[s]) \in Nat
           /\ Age(iqSamplesActive[s]) \in Nat /\ Age(iqSamplesActive'[s]) \in Nat
           /\ Age(locatorMeasurements[s].azimuth) \in Nat
           /\ Age(locatorMeasurements'[s].azimuth) \in Nat
           /\ Age(locatorMeasurements[s].elevation) \in Nat
           /\ Age(locatorMeasurements'[s].elevation) \in Nat
  BY AgesAreNumbers
<1> SUFFICES ASSUME NEW s \in Slot
             PROVE  /\ Age(iqSamplesBuffered'[s]) <= reports'
                    /\ Age(iqSamplesActive'[s]) <= Age(iqSamplesBuffered'[s])
                    /\ Age(locatorMeasurements'[s].azimuth) <= Age(iqSamplesActive'[s])
                    /\ Age(locatorMeasurements'[s].elevation) <= Age(iqSamplesActive'[s])
                    /\ NotOlder(locatorMeasurements[s], locatorMeasurements'[s])
  BY DEF CopiesAreOlder
<1>1. /\ Age(iqSamplesBuffered[s]) <= reports
      /\ Age(iqSamplesActive[s]) <= Age(iqSamplesBuffered[s])
      /\ Age(locatorMeasurements[s].azimuth) <= Age(iqSamplesActive[s])
      /\ Age(locatorMeasurements[s].elevation) <= Age(iqSamplesActive[s])
  BY DEF CopiesAreOlder
<1>2. CASE BgAny
  <2>1. PICK l \in Locator : BgReport(l) \/ BgStep(l)
    BY <1>2 DEF BgAny
  <2>2. UNCHANGED <<iqSamplesActive, locatorMeasurements>> /\ reports <= reports'
    BY <1>n, <1>2, <2>1, BgFrame, ReportsCount DEF aoxVars
  <2>3. Age(iqSamplesBuffered[s]) <= Age(iqSamplesBuffered'[s]) /\ Age(iqSamplesBuffered'[s]) <= reports'
    <3>1. CASE BgAux(l) /\ s = BgSlot(l)
      <4>1. bgPc[l] = "aux" /\ iqSamplesBuffered'[s].aux = evt[l]
        BY <2>1, <3>1, BufferWritten DEF BgAux
      <4>2. \E t \in TagID : s = <<t, l>>
        BY <3>1, TypeParts DEF BgSlot, TypeBg
      <4>3. Age(iqSamplesBuffered[s]) <= evt[l].number /\ evt[l].number <= reports
        BY <4>1, <4>2 DEF ReportsAreNewer
      <4> QED
        BY <1>n, <2>2, <4>1, <4>3 DEF Age
    <3>2. CASE ~(BgAux(l) /\ s = BgSlot(l))
      <4>1. iqSamplesBuffered'[s].aux = iqSamplesBuffered[s].aux
        BY <2>1, <3>2, BufferWritten
      <4> QED
        BY <1>n, <1>1, <2>2, <4>1 DEF Age
    <3> QED
      BY <3>1, <3>2
  <2> QED
    BY <1>n, <1>1, <2>2, <2>3 DEF NotOlder
<1>3. ASSUME UNCHANGED <<reports, iqSamplesBuffered[s], iqSamplesActive[s], locatorMeasurements[s]>>
      PROVE  /\ Age(iqSamplesBuffered'[s]) <= reports'
             /\ Age(iqSamplesActive'[s]) <= Age(iqSamplesBuffered'[s])
             /\ Age(locatorMeasurements'[s].azimuth) <= Age(iqSamplesActive'[s])
             /\ Age(locatorMeasurements'[s].elevation) <= Age(iqSamplesActive'[s])
             /\ NotOlder(locatorMeasurements[s], locatorMeasurements'[s])
  BY <1>n, <1>1, <1>3 DEF NotOlder
<1>4. CASE AoxAny
  <2>1. PICK r \in Slot : AoxStep(r)
    BY <1>4 DEF AoxAny
  <2>2. UNCHANGED <<reports, iqSamplesBuffered>>
    BY <1>4, AoxFrame DEF ctrlVars
  <2>3. CASE s # r
    BY <1>3, <2>1, <2>2, <2>3, AoxOthers
  <2>4. CASE s = r
    <3>1. \/ Age(iqSamplesActive'[s]) = Age(iqSamplesActive[s])
          \/ Age(iqSamplesActive'[s]) = Age(iqSamplesBuffered[s])
      BY <2>1, <2>4, CopyMade DEF Age
    <3>2. Age(iqSamplesActive[s]) <= Age(iqSamplesActive'[s])
          /\ Age(iqSamplesActive'[s]) <= Age(iqSamplesBuffered'[s])
      BY <1>n, <1>1, <2>2, <3>1
    <3>3. /\ \/ Age(locatorMeasurements'[s].azimuth) = Age(locatorMeasurements[s].azimuth)
             \/ Age(locatorMeasurements'[s].azimuth) = Age(iqSamplesActive[s])
          /\ \/ Age(locatorMeasurements'[s].elevation) = Age(locatorMeasurements[s].elevation)
             \/ Age(locatorMeasurements'[s].elevation) = Age(iqSamplesActive[s])
      BY <2>1, <2>4, AnglesMeasured DEF Age, ComputedFrom
    <3> QED
      BY <1>n, <1>1, <2>2, <3>2, <3>3 DEF NotOlder
  <2> QED
    BY <2>3, <2>4
<1>5. CASE ~BgAny /\ ~AoxAny
  <2>1. UNCHANGED <<reports, iqSamplesBuffered, iqSamplesActive, locatorMeasurements>>
    BY <1>5, Actors, LocFrame, HandlerFrame DEF vars, ctrlVars, bufferVars, aoxVars
  <2> QED
    BY <1>3, <2>1
<1> QED
  BY <1>2, <1>4, <1>5

(* Every tag but the one at hand keeps its position, and that gets what    *)
(* the Loc thread has read.                                                *)
LEMMA PositionWritten ==
  ASSUME TypeOK, [Next]_vars
  PROVE  \/ UNCHANGED position
         \/ /\ LocProcess /\ Running /\ locPc = "process"
            /\ position'[locTag] = given
            /\ \A t \in TagID : t # locTag => position'[t] = position[t]
<1>0. TypeLoc
  BY TypeParts
<1>1. CASE LocProcess /\ Running
  BY <1>0, <1>1 DEF LocProcess, Running, TypeLoc
<1>2. CASE LocStep /\ ~(LocProcess /\ Running)
  BY <1>2 DEF LocStep, LocTake, LocTimeout, LocAzimuth, LocElevation, LocProcess, Running
<1>3. CASE ~LocStep
  BY <1>3, Actors, BgFrame, AoxFrame, HandlerFrame DEF vars, locVars
<1> QED
  BY <1>1, <1>2, <1>3

(* Ages of what the Loc thread has are numbers.                            *)
LEMMA LocAgesAreNumbers ==
  ASSUME TypeOK
  PROVE  /\ \A l \in Locator : /\ Age(given[l].azimuth) \in Nat
                               /\ Age(given[l].elevation) \in Nat
         /\ \A t \in TagID, l \in Locator : /\ Age(position[t][l].azimuth) \in Nat
                                            /\ Age(position[t][l].elevation) \in Nat
<1>1. /\ \A l \in Locator : given[l] \in Measurement
      /\ \A t \in TagID, l \in Locator : position[t][l] \in Measurement
  BY TypeParts DEF TypeLoc
<1> QED
  BY <1>1, AgeType, ReportType

(* Being not older is reflexive and transitive.                            *)
LEMMA NotOlderOrder ==
  ASSUME NEW m \in Measurement, NEW n \in Measurement, NEW o \in Measurement
  PROVE  NotOlder(m, m) /\ (NotOlder(m, n) /\ NotOlder(n, o) => NotOlder(m, o))
<1>1. /\ Age(m.azimuth) \in Nat /\ Age(m.elevation) \in Nat
      /\ Age(n.azimuth) \in Nat /\ Age(n.elevation) \in Nat
      /\ Age(o.azimuth) \in Nat /\ Age(o.elevation) \in Nat
  BY AgeType, ReportType
<1> QED
  BY <1>1 DEF NotOlder

(* Positions only get newer, and no newer than the measurements.           *)
LEMMA PositionsAreOlderStep ==
  ASSUME TypeOK, AgeInv, [Next]_vars
  PROVE  /\ PositionsAreOlder'
         /\ \A t \in TagID, l \in Locator : NotOlder(position[t][l], position'[t][l])
<1>0. TypeLoc /\ TypeAox /\ TypeAox' /\ TypeLoc'
  BY TypeParts, AoxTypeStep, LocTypeStep
<1> SUFFICES ASSUME NEW t \in TagID, NEW l \in Locator
             PROVE  /\ NotOlder(position'[t][l], locatorMeasurements'[<<t, l>>])
                    /\ NotOlder(position[t][l], position'[t][l])
  BY DEF PositionsAreOlder
<1>1. <<t, l>> \in Slot
  BY SlotType
<1>2. /\ position[t][l] \in Measurement /\ position'[t][l] \in Measurement
      /\ locatorMeasurements[<<t, l>>] \in Measurement
      /\ locatorMeasurements'[<<t, l>>] \in Measurement
  BY <1>0, <1>1 DEF TypeLoc, TypeAox
<1>3. /\ NotOlder(position[t][l], locatorMeasurements[<<t, l>>])
      /\ NotOlder(locatorMeasurements[<<t, l>>], locatorMeasurements'[<<t, l>>])
  BY <1>1, CopiesAreOlderStep DEF AgeInv, PositionsAreOlder
<1>4. CASE position'[t] = position[t]
  BY <1>2, <1>3, <1>4, NotOlderOrder
<1>5. CASE LocProcess /\ t = locTag /\ locPc = "process" /\ position'[t] = given
  <2>1. AzimuthBetween(l) /\ ElevationBetween(l)
    BY <1>5 DEF AgeInv, GivenIsBetween
  <2>2. /\ NotOlder(position[t][l], position'[t][l])
        /\ NotOlder(position'[t][l], locatorMeasurements[<<t, l>>])
    BY <1>5, <2>1 DEF AzimuthBetween, ElevationBetween, NotOlder
  <2> QED
    BY <1>2, <1>3, <2>2, NotOlderOrder
<1> QED
  BY <1>4, <1>5, PositionWritten

(* What has been read stays between the position and the measurements.     *)
LEMMA GivenIsBetweenStep ==
  ASSUME TypeOK, AgeInv, [Next]_vars
  PROVE  GivenIsBetween'
<1>0. TypeLoc /\ TypeOK
  BY TypeParts
<1>1. \A l \in Locator :
        /\ <<locTag, l>> \in Slot
        /\ Age(position[locTag][l].azimuth) \in Nat /\ Age(position[locTag][l].elevation) \in Nat
        /\ Age(given[l].azimuth) \in Nat /\ Age(given[l].elevation) \in Nat
        /\ Age(locatorMeasurements[<<locTag, l>>].azimuth) \in Nat
        /\ Age(locatorMeasurements'[<<locTag, l>>].azimuth) \in Nat
        /\ Age(locatorMeasurements[<<locTag, l>>].elevation) \in Nat
        /\ Age(locatorMeasurements'[<<locTag, l>>].elevation) \in Nat
        /\ NotOlder(locatorMeasurements[<<locTag, l>>], locatorMeasurements'[<<locTag, l>>])
        /\ NotOlder(position[locTag][l], locatorMeasurements[<<locTag, l>>])
  BY <1>0, SlotType, AgesAreNumbers, LocAgesAreNumbers, CopiesAreOlderStep
     DEF AgeInv, TypeLoc, PositionsAreOlder
<1>2. ASSUME NEW l \in Locator, UNCHANGED <<locTag, given[l], position[locTag]>>
      PROVE  /\ AzimuthBetween(l) => AzimuthBetween(l)'
             /\ ElevationBetween(l) => ElevationBetween(l)'
  BY <1>1, <1>2 DEF AzimuthBetween, ElevationBetween, NotOlder
<1>3. CASE ~LocStep
  <2>1. UNCHANGED locVars
    BY <1>3, Actors, BgFrame, AoxFrame, HandlerFrame DEF vars
  <2> QED
    BY <1>2, <2>1 DEF locVars, AgeInv, GivenIsBetween
<1>4. CASE locPc' \in {"wait", "done"}
  BY <1>4 DEF GivenIsBetween
<1>5. ASSUME LocStep
      PROVE  /\ locIndex \in Int /\ locIndex' \in Int /\ NumLocators \in Int /\ Locator \subseteq Int
             /\ \A l \in Locator : l <= NumLocators - 1 /\ ~(l < 0)
             /\ UNCHANGED locatorMeasurements
             /\ locIndex < NumLocators - 1 \/ locIndex = NumLocators - 1
  <2>1. locIndex \in Locator /\ locIndex' \in Locator
    BY <1>0, LocTypeStep DEF TypeLoc
  <2> QED
    BY <1>5, <2>1, LocFrame, NumLocatorsAssumption DEF Locator, aoxVars
<1>6. CASE LocTake
  <2>1. CASE locIndex < NumLocators - 1
    <3>1. locPc' = "wait"
      BY <1>0, <1>6, <2>1, NextLocatorMoves DEF LocTake
    <3> QED
      BY <1>4, <3>1
  <2>2. CASE locIndex = NumLocators - 1
    <3>1. locIndex' = 0 /\ locPc' = "azimuth"
      BY <1>0, <1>6, <2>2, NextLocatorMoves DEF LocTake
    <3>2. \A l \in Locator : ~(l < locIndex')
      BY <1>5, <1>6, <3>1 DEF LocStep
    <3> QED
      BY <3>1, <3>2 DEF GivenIsBetween
  <2> QED
    BY <1>5, <1>6, <2>1, <2>2 DEF LocStep
<1>7. CASE LocAzimuth
  <2>1. /\ locPc = "azimuth" /\ locPc' = "elevation" /\ UNCHANGED <<locTag, locIndex, position>>
    BY <1>7 DEF LocAzimuth
  <2>2. \A l \in Locator : l < locIndex => l # locIndex
    BY <1>5, <1>7 DEF LocStep
  <2>3. \A l \in Locator : l < locIndex => AzimuthBetween(l)' /\ ElevationBetween(l)'
    <3>1. \A l \in Locator : l < locIndex => given'[l] = given[l]
      BY <1>0, <1>7, <2>2, GivenWritten
    <3> QED
      BY <1>2, <2>1, <3>1 DEF AgeInv, GivenIsBetween
  <2>4. AzimuthBetween(locIndex)'
    <3>1. locIndex \in Locator /\ given'[locIndex].azimuth = locatorMeasurements[<<locTag, locIndex>>].azimuth
      BY <1>0, <1>7, GivenWritten DEF LocSlot, TypeLoc
    <3>2. /\ Age(position[locTag][locIndex].azimuth)
               <= Age(locatorMeasurements[<<locTag, locIndex>>].azimuth)
          /\ UNCHANGED locatorMeasurements
          /\ Age(locatorMeasurements[<<locTag, locIndex>>].azimuth) \in Nat
      BY <1>1, <1>5, <1>7, <3>1 DEF NotOlder, LocStep
    <3> QED
      BY <2>1, <3>1, <3>2 DEF AzimuthBetween
  <2> QED
    BY <2>1, <2>3, <2>4 DEF GivenIsBetween
<1>8. CASE LocElevation
  <2>1. locPc = "elevation" /\ NextLocator("azimuth", "process") /\ UNCHANGED <<locTag, position>>
    BY <1>0, <1>8, NextLocatorMoves DEF LocElevation
  <2>2. \A l \in Locator : l < locIndex => AzimuthBetween(l)' /\ ElevationBetween(l)'
    <3>1. \A l \in Locator : l < locIndex => l # locIndex
      BY <1>5, <1>8 DEF LocStep
    <3>2. \A l \in Locator : l < locIndex => given'[l] = given[l]
      BY <1>0, <1>8, <3>1, GivenWritten
    <3> QED
      BY <1>2, <2>1, <3>2 DEF AgeInv, GivenIsBetween
  <2>3. ASSUME NEW i \in Locator, i = locIndex PROVE AzimuthBetween(i)' /\ ElevationBetween(i)'
    <3>1. /\ given'[i].azimuth = given[i].azimuth
          /\ given'[i].elevation = locatorMeasurements[<<locTag, i>>].elevation
      BY <1>0, <1>8, <2>3, GivenWritten DEF LocSlot
    <3>2. AzimuthBetween(i)
      BY <2>1, <2>3 DEF AgeInv, GivenIsBetween
    <3>3. /\ Age(position[locTag][i].elevation)
               <= Age(locatorMeasurements[<<locTag, i>>].elevation)
          /\ UNCHANGED locatorMeasurements
          /\ Age(locatorMeasurements[<<locTag, i>>].elevation) \in Nat
      BY <1>1, <1>5, <1>8, <2>3 DEF NotOlder, LocStep
    <3> QED
      BY <2>1, <3>1, <3>2, <3>3 DEF AzimuthBetween, ElevationBetween
  <2>4. \A l \in Locator : l <= locIndex => AzimuthBetween(l)' /\ ElevationBetween(l)'
    <3>1. \A l \in Locator : l <= locIndex => l < locIndex \/ l = locIndex
      BY <1>5, <1>8 DEF LocStep
    <3> QED
      BY <2>2, <2>3, <3>1
  <2>5. CASE locIndex < NumLocators - 1
    <3>1. locIndex' = locIndex + 1 /\ locPc' = "azimuth"
      BY <1>0, <2>1, <2>5, NextLocatorMoves
    <3>2. \A l \in Locator : l < locIndex' => l <= locIndex
      BY <1>5, <1>8, <3>1 DEF LocStep
    <3> QED
      BY <2>4, <3>1, <3>2 DEF GivenIsBetween
  <2>6. CASE locIndex = NumLocators - 1
    <3>1. locPc' = "process"
      BY <1>0, <2>1, <2>6, NextLocatorMoves
    <3>2. \A l \in Locator : l <= locIndex
      BY <1>5, <1>8, <2>6 DEF LocStep
    <3> QED
      BY <2>4, <3>1, <3>2 DEF GivenIsBetween
  <2> QED
    BY <1>5, <1>8, <2>5, <2>6 DEF LocStep
<1>9. CASE LocTimeout \/ LocProcess
  <2>1. locPc' \in {"wait", "done"}
    BY <1>9 DEF LocTimeout, LocProcess, NextTag
  <2> QED
    BY <1>4, <2>1
<1> QED
  BY <1>3, <1>6, <1>7, <1>8, <1>9 DEF LocStep

(* From one position of a tag to the next no locator goes back to an older *)
(* report (aox.cpp, loc.cpp), although the threads pass buffers, copies    *)
(* and measurements on at their own pace, no mutex guards the              *)
(* measurements, a semaphore may count one that was read before, and the   *)
(* handler of SIGINT unlocks every mutex.                                  *)
THEOREM NoPositionGoesBack == Spec => PositionsNeverGoBack
<1>1. Init => AgeInv
  <2> SUFFICES ASSUME Init PROVE AgeInv
    OBVIOUS
  <2>1. /\ Age(Allocated) = 0 /\ NoReport.number = 0
        /\ Age(NoMeasurement.azimuth) = 0 /\ Age(NoMeasurement.elevation) = 0
    BY AgeType
  <2>3. ReportsAreNewer
    BY <2>1 DEF Init, ReportsAreNewer
  <2>4. CopiesAreOlder
    BY <2>1 DEF Init, CopiesAreOlder
  <2>5. PositionsAreOlder
    <3>1. \A t \in TagID, l \in Locator :
            position[t][l] = NoMeasurement /\ locatorMeasurements[<<t, l>>] = NoMeasurement
      BY SlotType DEF Init
    <3>2. NotOlder(NoMeasurement, NoMeasurement)
      BY <2>1 DEF NotOlder
    <3> QED
      BY <3>1, <3>2 DEF PositionsAreOlder
  <2>6. GivenIsBetween
    BY DEF Init, GivenIsBetween
  <2> QED
    BY <2>3, <2>4, <2>5, <2>6 DEF AgeInv
<1>2. TypeOK /\ AgeInv /\ [Next]_vars
        => AgeInv' /\ \A t \in TagID, l \in Locator : NotOlder(position[t][l], position'[t][l])
  BY ReportsAreNewerStep, CopiesAreOlderStep, PositionsAreOlderStep, GivenIsBetweenStep DEF AgeInv
<1>3. TypeOK /\ AgeInv /\ [Next]_vars
        => [\A t \in TagID, l \in Locator : NotOlder(position[t][l], position'[t][l])]_vars
  BY <1>2
<1> QED
  BY <1>1, <1>2, <1>3, TypeCorrect, PTL DEF Spec, PositionsNeverGoBack

=============================================================================
