------------------------------ MODULE Pipeline ------------------------------
(***************************************************************************)
(* The threads of main_application_v1, in its POSIX build: one BG thread   *)
(* per locator, one AoX thread per tag and locator, one Loc thread, and    *)
(* the handler of SIGINT in the main thread.                               *)
(*                                                                         *)
(* One action per piece of a thread between two accesses to shared state   *)
(* that another thread could tell apart; taking a mutex is one step with   *)
(* the first access it guards, releasing it with the last.  A mutex is a   *)
(* flag: the handler of SIGINT unlocks mutexes that other threads hold,    *)
(* and the default mutex of glibc is then free.  A program whose bgInit,   *)
(* aoxInit and locInit have returned is the initial state.                 *)
(***************************************************************************)
EXTENDS Integers

CONSTANTS
  NumLocators,       (* numLocators, the locators of the configuration file *)
  MAX_NUM_TAGS,
  Address,           (* addresses of tags                                   *)
  NoAddress,         (* six zeroes, the address in an unused entry          *)
  MaxReports,        (* bound: IQ reports of all locators together          *)
  SigIntReports,     (* bound: a SIGINT comes after fewer reports than this *)
  Portions,          (* bound: for each report, how many samples it may have *)
  FailingReports     (* bound: the reports whose estimate may fail          *)

ASSUME NumLocatorsAssumption == NumLocators \in Nat \ {0}
ASSUME MaxTagsAssumption == MAX_NUM_TAGS \in Nat \ {0}
ASSUME AddressAssumption == NoAddress \notin Address
ASSUME MaxReportsAssumption == MaxReports \in Nat /\ SigIntReports \in Nat

(* How much of the sample buffer the samples of a report fill: all of it,  *)
(* the reference samples and some others, no more than the reference       *)
(* samples, or nothing.                                                    *)
Portion == {"all", "some", "reference", "none"}

ASSUME PortionsAssumption == Portions \in [1 .. MaxReports -> SUBSET Portion]

Locator == 0 .. NumLocators - 1
TagID == 0 .. MAX_NUM_TAGS - 1

(* The arrays of the code have an element per tag and locator, two of them *)
(* indexed by the locator first; here all of them are functions of slots.  *)
Slot == TagID \X Locator

(* An IQ report stands for its contents: whose it is, which report of all  *)
(* it is, and how many samples it has.                                     *)
NoReport == [address |-> NoAddress, number |-> 0, samples |-> "none"]
Report ==
  [address : Address, number : 1 .. MaxReports, samples : Portion] \cup {NoReport}

(* iqSamples_t: the auxiliary info (channel, rssi) of one report, and the  *)
(* reports that the samples may be of: NoReport if there may be bytes      *)
(* among them that no report brought.                                      *)
Samples == [aux : Report, iq : SUBSET Report]
Allocated == [aux |-> NoReport, iq |-> {NoReport}]

(* locatorMeasurement_t: each angle stands for the samples it is computed  *)
(* from, which is none for one that has not been computed.                 *)
NotComputed(samples) == [samples EXCEPT !.iq = {}]
NoMeasurement ==
  [azimuth |-> NotComputed(Allocated), elevation |-> NotComputed(Allocated)]
Measurement == [azimuth : Samples, elevation : Samples]

VARIABLES
  eAppCtrl,
  handler,                   (* how far the handler of SIGINT is            *)
  (* the table of tags and its mutex *)
  foundTags, tagCounter, tagHandleCriticalSection,
  (* the buffers of BG and AoX, their mutexes, the semaphores *)
  iqSamplesBuffered, iqSamplesActive, iqSamplesCriticalSection,
  newSamplesAvailable, newMeasurementAvailable, locatorMeasurements,
  reports,                   (* IQ reports read so far                      *)
  (* BG threads: place in the code, event in hand, and its tag             *)
  bgPc, evt, bgTag,
  (* AoX threads: place in the code, and what sl_rtl_aox_process returned  *)
  aoxPc, result,
  announced,                 (* history: measurements posted, per slot      *)
  (* the Loc thread: place, loop variables, measurements given to the      *)
  (* position estimator, and per tag those of the last position            *)
  locPc, locTag, locIndex, given, position, loc_sequence

tagVars == <<foundTags, tagCounter, tagHandleCriticalSection>>
bufferVars == <<iqSamplesBuffered, iqSamplesCriticalSection>>
bgVars == <<bgPc, evt, bgTag>>
aoxVars == <<aoxPc, iqSamplesActive, locatorMeasurements, result, announced>>
locVars == <<locPc, locTag, locIndex, given, position, loc_sequence>>
semVars == <<newSamplesAvailable, newMeasurementAvailable>>
ctrlVars == <<eAppCtrl, handler, reports>>
vars == <<ctrlVars, tagVars, bufferVars, semVars, bgVars, aoxVars, locVars>>

Init ==
  /\ eAppCtrl = "RUN" /\ handler = -1 /\ reports = 0
  /\ foundTags = [t \in TagID |-> NoAddress] /\ tagCounter = 0
  /\ tagHandleCriticalSection = FALSE
  /\ iqSamplesBuffered = [s \in Slot |-> Allocated]
  /\ iqSamplesActive = [s \in Slot |-> Allocated]
  /\ iqSamplesCriticalSection = [s \in Slot |-> FALSE]
  /\ newSamplesAvailable = [s \in Slot |-> 0]
  /\ newMeasurementAvailable = [s \in Slot |-> 0]
  /\ locatorMeasurements = [s \in Slot |-> NoMeasurement]
  /\ bgPc = [l \in Locator |-> "event"] /\ evt = [l \in Locator |-> NoReport]
  /\ bgTag = [l \in Locator |-> 0]
  /\ aoxPc = [s \in Slot |-> "wait"] /\ result = [s \in Slot |-> "SUCCESS"]
  /\ announced = [s \in Slot |-> 0]
  /\ locPc = "wait" /\ locTag = 0 /\ locIndex = 0
  /\ given = [l \in Locator |-> NoMeasurement]
  /\ position = [t \in TagID |-> given]
  /\ loc_sequence = [t \in TagID |-> 0]

-----------------------------------------------------------------------------
(* The BG thread of locator l: bgMain, bgWaitNewEvent, bgProcessEvent.     *)

BgGoto(l, pc) == bgPc' = [bgPc EXCEPT ![l] = pc]

(* gecko_peek_event returns an IQ report.                                  *)
BgReport(l) ==
  /\ bgPc[l] = "event" /\ eAppCtrl = "RUN"
  /\ reports < MaxReports
  /\ reports' = reports + 1
  /\ \E a \in Address, n \in Portions[reports'] :
       evt' = [evt EXCEPT ![l] = [address |-> a, number |-> reports', samples |-> n]]
  /\ BgGoto(l, "lookup")
  /\ UNCHANGED <<bgTag, eAppCtrl, handler>>
  /\ UNCHANGED <<tagVars, bufferVars, semVars, aoxVars, locVars>>

(* The end of the loop of bgMain.                                          *)
BgStop(l) ==
  /\ bgPc[l] = "event" /\ eAppCtrl = "SHUTDOWN"
  /\ BgGoto(l, "done")
  /\ UNCHANGED <<evt, bgTag>>
  /\ UNCHANGED <<ctrlVars, tagVars, bufferVars, semVars, aoxVars, locVars>>

(* The end of the block that handles the event, and of its variables.      *)
BgDone(l) ==
  /\ BgGoto(l, "event")
  /\ evt' = [evt EXCEPT ![l] = NoReport]
  /\ bgTag' = [bgTag EXCEPT ![l] = 0]

(* GetTagId: the first entry with the address.                             *)
IsTagId(t, a) == foundTags[t] = a /\ \A i \in 0 .. t - 1 : foundTags[i] # a
Known(a) == \E t \in TagID : foundTags[t] = a

(* Mutant: one entry too many.                                             *)
TableFullLate == tagCounter > MAX_NUM_TAGS

TableFull == tagCounter >= MAX_NUM_TAGS

(* Mutant: the table is filled without its mutex.                          *)
LockTagTableNot == UNCHANGED tagHandleCriticalSection

LockTagTable == ~tagHandleCriticalSection /\ tagHandleCriticalSection' = TRUE

(* HandleFoundTags up to the write of AddToFoundTags.  Only the branch     *)
(* that writes holds the mutex beyond this step.                           *)
BgLookup(l) ==
  /\ bgPc[l] = "lookup" /\ ~tagHandleCriticalSection
  /\ LET a == evt[l].address
     IN  \/ \E t \in TagID :
              /\ IsTagId(t, a)
              /\ bgTag' = [bgTag EXCEPT ![l] = t]
              /\ BgGoto(l, "aux")
              /\ UNCHANGED <<tagHandleCriticalSection, evt>>
         \/ /\ ~Known(a) /\ TableFull
            /\ BgDone(l)
            /\ UNCHANGED tagHandleCriticalSection
         \/ /\ ~Known(a) /\ ~TableFull
            /\ LockTagTable
            /\ bgTag' = [bgTag EXCEPT ![l] = tagCounter]
            /\ BgGoto(l, "insert")
            /\ UNCHANGED evt
  /\ UNCHANGED <<foundTags, tagCounter>>
  /\ UNCHANGED <<ctrlVars, bufferVars, semVars, aoxVars, locVars>>

BgInsert(l) ==
  /\ bgPc[l] = "insert"
  /\ foundTags' = [foundTags EXCEPT ![bgTag[l]] = evt[l].address]
  /\ tagCounter' = tagCounter + 1
  /\ tagHandleCriticalSection' = FALSE
  /\ BgGoto(l, "aux")
  /\ UNCHANGED <<evt, bgTag>>
  /\ UNCHANGED <<ctrlVars, bufferVars, semVars, aoxVars, locVars>>

BgSlot(l) == <<bgTag[l], l>>

(* Mutant: the mutex of the buffer is forgotten.                           *)
LockBufferNot(s) == UNCHANGED iqSamplesCriticalSection

LockBuffer(s) ==
  /\ ~iqSamplesCriticalSection[s]
  /\ iqSamplesCriticalSection' = [iqSamplesCriticalSection EXCEPT ![s] = TRUE]

(* Auxiliary info into the buffer, under its mutex.                        *)
BgAux(l) ==
  /\ bgPc[l] = "aux" /\ LockBuffer(BgSlot(l))
  /\ iqSamplesBuffered' = [iqSamplesBuffered EXCEPT ![BgSlot(l)].aux = evt[l]]
  /\ BgGoto(l, "samples")
  /\ UNCHANGED <<evt, bgTag>>
  /\ UNCHANGED <<ctrlVars, tagVars, semVars, aoxVars, locVars>>

(* What the samples of report r make of those in the buffer.  The copy     *)
(* ends with the report, and what is in the rest of the buffer stays.  If  *)
(* it ends within the reference samples the copy goes on behind them, and  *)
(* reads all others beyond the end of the report.                          *)
Copied(r, iq) ==
  CASE r.samples = "all"       -> {r}
    [] r.samples = "some"      -> iq \cup {r}
    [] r.samples = "reference" -> iq \cup {r, NoReport}
    [] r.samples = "none"      -> iq

BgSamples(l) ==
  /\ bgPc[l] = "samples"
  /\ iqSamplesBuffered' = [iqSamplesBuffered EXCEPT ![BgSlot(l)].iq = Copied(evt[l], @)]
  /\ iqSamplesCriticalSection' = [iqSamplesCriticalSection EXCEPT ![BgSlot(l)] = FALSE]
  /\ BgGoto(l, "post")
  /\ UNCHANGED <<evt, bgTag>>
  /\ UNCHANGED <<ctrlVars, tagVars, semVars, aoxVars, locVars>>

BgPost(l) ==
  /\ bgPc[l] = "post"
  /\ newSamplesAvailable' = [newSamplesAvailable EXCEPT ![BgSlot(l)] = @ + 1]
  /\ BgDone(l)
  /\ UNCHANGED newMeasurementAvailable
  /\ UNCHANGED <<ctrlVars, tagVars, bufferVars, aoxVars, locVars>>

BgStep(l) ==
  \/ BgStop(l) \/ BgLookup(l) \/ BgInsert(l)
  \/ BgAux(l) \/ BgSamples(l) \/ BgPost(l)

-----------------------------------------------------------------------------
(* The AoX thread of slot s: aoxMain, aoxWaitNewSamples, aoxProcessSamples.*)

AoxGoto(s, pc) == aoxPc' = [aoxPc EXCEPT ![s] = pc]

(* SEM_WAIT_S, and the test that follows it; when it says SHUTDOWN the     *)
(* loop of aoxMain ends.                                                   *)
AoxWait(s) ==
  /\ aoxPc[s] = "wait" /\ newSamplesAvailable[s] > 0
  /\ newSamplesAvailable' = [newSamplesAvailable EXCEPT ![s] = @ - 1]
  /\ AoxGoto(s, IF eAppCtrl = "RUN" THEN "aux" ELSE "done")
  /\ UNCHANGED <<newMeasurementAvailable, iqSamplesActive, locatorMeasurements, result, announced>>
  /\ UNCHANGED <<ctrlVars, tagVars, bufferVars, bgVars, locVars>>

(* The working copy, under the mutex of the buffer.                        *)
AoxCopyAux(s) ==
  /\ aoxPc[s] = "aux" /\ LockBuffer(s)
  /\ iqSamplesActive' = [iqSamplesActive EXCEPT ![s].aux = iqSamplesBuffered[s].aux]
  /\ AoxGoto(s, "samples")
  /\ UNCHANGED <<iqSamplesBuffered, locatorMeasurements, result, announced>>
  /\ UNCHANGED <<ctrlVars, tagVars, semVars, bgVars, locVars>>

AoxCopySamples(s) ==
  /\ aoxPc[s] = "samples"
  /\ iqSamplesActive' = [iqSamplesActive EXCEPT ![s].iq = iqSamplesBuffered[s].iq]
  /\ iqSamplesCriticalSection' = [iqSamplesCriticalSection EXCEPT ![s] = FALSE]
  /\ AoxGoto(s, "azimuth")
  /\ UNCHANGED <<iqSamplesBuffered, locatorMeasurements, result, announced>>
  /\ UNCHANGED <<ctrlVars, tagVars, semVars, bgVars, locVars>>

(* The angles that AoX stores.  If sl_rtl_aox_process failed they are what *)
(* was in its variables, which it may not have written.                    *)
Angle(s, sc) ==
  IF sc = "SUCCESS" THEN iqSamplesActive[s] ELSE NotComputed(iqSamplesActive[s])

(* The second test of aoxMain; the estimate, and the first field of the    *)
(* measurement.  No mutex guards the measurements.                         *)
AoxAzimuth(s) ==
  /\ aoxPc[s] = "azimuth"
  /\ IF eAppCtrl = "RUN"
     THEN /\ \E sc \in {"SUCCESS", "FAILURE"} :
               /\ sc = "FAILURE" => iqSamplesActive[s].aux.number \in FailingReports
               /\ result' = [result EXCEPT ![s] = sc]
               /\ locatorMeasurements' =
                    [locatorMeasurements EXCEPT ![s].azimuth = Angle(s, sc)]
          /\ AoxGoto(s, "elevation")
     ELSE AoxGoto(s, "done") /\ UNCHANGED <<locatorMeasurements, result>>
  /\ UNCHANGED <<iqSamplesActive, announced>>
  /\ UNCHANGED <<ctrlVars, tagVars, bufferVars, semVars, bgVars, locVars>>

AoxElevation(s) ==
  /\ aoxPc[s] = "elevation"
  /\ locatorMeasurements' =
       [locatorMeasurements EXCEPT ![s].elevation = Angle(s, result[s])]
  /\ AoxGoto(s, "post")
  /\ UNCHANGED <<iqSamplesActive, result, announced>>
  /\ UNCHANGED <<ctrlVars, tagVars, bufferVars, semVars, bgVars, locVars>>

(* Only a measurement that did not fail is announced.                      *)
Announce(s) ==
  IF result[s] = "SUCCESS"
  THEN /\ newMeasurementAvailable' = [newMeasurementAvailable EXCEPT ![s] = @ + 1]
       /\ announced' = [announced EXCEPT ![s] = @ + 1]
  ELSE UNCHANGED <<newMeasurementAvailable, announced>>

(* Mutant: SEM_RESET forgets the reports that came in the meantime.        *)
AoxPostResets(s) ==
  /\ aoxPc[s] = "post"
  /\ newSamplesAvailable' = [newSamplesAvailable EXCEPT ![s] = 0]
  /\ Announce(s) /\ result' = [result EXCEPT ![s] = "SUCCESS"]
  /\ AoxGoto(s, IF eAppCtrl = "RUN" THEN "wait" ELSE "done")
  /\ UNCHANGED <<iqSamplesActive, locatorMeasurements>>
  /\ UNCHANGED <<ctrlVars, tagVars, bufferVars, bgVars, locVars>>

(* The end of aoxProcessSamples, and of its variables.                     *)
AoxPost(s) ==
  /\ aoxPc[s] = "post"
  /\ Announce(s) /\ result' = [result EXCEPT ![s] = "SUCCESS"]
  /\ AoxGoto(s, IF eAppCtrl = "RUN" THEN "wait" ELSE "done")
  /\ UNCHANGED <<newSamplesAvailable, iqSamplesActive, locatorMeasurements>>
  /\ UNCHANGED <<ctrlVars, tagVars, bufferVars, bgVars, locVars>>

AoxStep(s) ==
  \/ AoxWait(s) \/ AoxCopyAux(s) \/ AoxCopySamples(s)
  \/ AoxAzimuth(s) \/ AoxElevation(s) \/ AoxPost(s)

-----------------------------------------------------------------------------
(* The Loc thread: locMain, locWaitNewMeasurements, locProcessMeasurements.*)

LocSlot == <<locTag, locIndex>>

(* Mutant: the last tag is skipped.                                        *)
NextTagSkipsLast ==
  /\ locIndex' = 0
  /\ IF locTag < MAX_NUM_TAGS - 2
     THEN locTag' = locTag + 1 /\ locPc' = "wait"
     ELSE /\ locTag' = 0
          /\ locPc' = IF eAppCtrl = "RUN" THEN "wait" ELSE "done"

(* The loop of locMain over the tags, inside the loop over eAppCtrl.       *)
NextTag ==
  /\ locIndex' = 0
  /\ IF locTag < MAX_NUM_TAGS - 1
     THEN locTag' = locTag + 1 /\ locPc' = "wait"
     ELSE /\ locTag' = 0
          /\ locPc' = IF eAppCtrl = "RUN" THEN "wait" ELSE "done"

NextLocator(pc, afterLast) ==
  /\ locIndex' = (locIndex + 1) % NumLocators
  /\ locPc' = IF locIndex = NumLocators - 1 THEN afterLast ELSE pc
  /\ UNCHANGED locTag

(* sem_timedwait with the present as its deadline takes the semaphore if   *)
(* it is there.  After the last one the measurements are cleared.          *)
LocTake ==
  /\ locPc = "wait" /\ newMeasurementAvailable[LocSlot] > 0
  /\ newMeasurementAvailable' = [newMeasurementAvailable EXCEPT ![LocSlot] = @ - 1]
  /\ NextLocator("wait", "azimuth")
  /\ given' = [l \in Locator |-> NoMeasurement]
  /\ UNCHANGED <<newSamplesAvailable, position, loc_sequence>>
  /\ UNCHANGED <<ctrlVars, tagVars, bufferVars, bgVars, aoxVars>>

(* Mutant: a locator that is not ready is passed over.                     *)
LocTimeoutContinues ==
  /\ locPc = "wait" /\ newMeasurementAvailable[LocSlot] = 0
  /\ NextLocator("wait", "azimuth")
  /\ UNCHANGED <<given, position, loc_sequence>>
  /\ UNCHANGED <<ctrlVars, tagVars, bufferVars, semVars, bgVars, aoxVars>>

(* The first that is not there ends the attempt; those taken are lost.     *)
LocTimeout ==
  /\ locPc = "wait" /\ newMeasurementAvailable[LocSlot] = 0
  /\ NextTag
  /\ UNCHANGED <<given, position, loc_sequence>>
  /\ UNCHANGED <<ctrlVars, tagVars, bufferVars, semVars, bgVars, aoxVars>>

LocAzimuth ==
  /\ locPc = "azimuth"
  /\ given' = [given EXCEPT ![locIndex].azimuth = locatorMeasurements[LocSlot].azimuth]
  /\ locPc' = "elevation"
  /\ UNCHANGED <<locTag, locIndex, position, loc_sequence>>
  /\ UNCHANGED <<ctrlVars, tagVars, bufferVars, semVars, bgVars, aoxVars>>

LocElevation ==
  /\ locPc = "elevation"
  /\ given' = [given EXCEPT ![locIndex].elevation = locatorMeasurements[LocSlot].elevation]
  /\ NextLocator("azimuth", "process")
  /\ UNCHANGED <<position, loc_sequence>>
  /\ UNCHANGED <<ctrlVars, tagVars, bufferVars, semVars, bgVars, aoxVars>>

(* The test in locMain, and the position.                                  *)
LocProcess ==
  /\ locPc = "process"
  /\ IF eAppCtrl = "RUN"
     THEN /\ position' = [position EXCEPT ![locTag] = given]
          /\ loc_sequence' = [loc_sequence EXCEPT ![locTag] = @ + 1]
          /\ NextTag
     ELSE /\ locPc' = "done"
          /\ UNCHANGED <<locTag, locIndex, position, loc_sequence>>
  /\ UNCHANGED <<given, ctrlVars, tagVars, bufferVars, semVars, bgVars, aoxVars>>

LocStep == LocTake \/ LocTimeout \/ LocAzimuth \/ LocElevation \/ LocProcess

-----------------------------------------------------------------------------
(* SignalHandler, in the main thread, which otherwise waits for the others *)
(* to end: first eAppCtrl, then, locator by locator and tag by tag, both   *)
(* semaphores and a mutex it does not hold, and at last the mutex of the   *)
(* table of tags.                                                          *)

SigInt ==
  /\ handler = -1 /\ reports < SigIntReports
  /\ eAppCtrl' = "SHUTDOWN" /\ handler' = 0
  /\ UNCHANGED <<reports, tagVars, bufferVars, semVars, bgVars, aoxVars, locVars>>

HandlerSlot == <<handler % MAX_NUM_TAGS, handler \div MAX_NUM_TAGS>>

(* Mutant: the AoX threads are not woken.                                  *)
HandlerReleaseOneSemaphore ==
  /\ handler \in 0 .. NumLocators * MAX_NUM_TAGS - 1
  /\ newMeasurementAvailable' = [newMeasurementAvailable EXCEPT ![HandlerSlot] = @ + 1]
  /\ iqSamplesCriticalSection' = [iqSamplesCriticalSection EXCEPT ![HandlerSlot] = FALSE]
  /\ handler' = handler + 1
  /\ UNCHANGED <<newSamplesAvailable, eAppCtrl, reports, iqSamplesBuffered>>
  /\ UNCHANGED <<tagVars, bgVars, aoxVars, locVars>>

HandlerRelease ==
  /\ handler \in 0 .. NumLocators * MAX_NUM_TAGS - 1
  /\ newSamplesAvailable' = [newSamplesAvailable EXCEPT ![HandlerSlot] = @ + 1]
  /\ newMeasurementAvailable' = [newMeasurementAvailable EXCEPT ![HandlerSlot] = @ + 1]
  /\ iqSamplesCriticalSection' = [iqSamplesCriticalSection EXCEPT ![HandlerSlot] = FALSE]
  /\ handler' = handler + 1
  /\ UNCHANGED <<eAppCtrl, reports, iqSamplesBuffered, tagVars, bgVars, aoxVars, locVars>>

HandlerReturns ==
  /\ handler = NumLocators * MAX_NUM_TAGS
  /\ tagHandleCriticalSection' = FALSE
  /\ handler' = handler + 1
  /\ UNCHANGED <<eAppCtrl, reports, foundTags, tagCounter>>
  /\ UNCHANGED <<bufferVars, semVars, bgVars, aoxVars, locVars>>

HandlerStep == HandlerRelease \/ HandlerReturns

-----------------------------------------------------------------------------

Next ==
  \/ \E l \in Locator : BgReport(l) \/ BgStep(l)
  \/ \E s \in Slot : AoxStep(s)
  \/ LocStep
  \/ SigInt \/ HandlerStep

Spec == Init /\ [][Next]_vars

(* The scheduler runs every thread that is not blocked.  Reports need not  *)
(* come, nor a SIGINT.                                                     *)
Fairness ==
  /\ \A l \in Locator : WF_vars(BgStep(l))
  /\ \A s \in Slot : WF_vars(AoxStep(s))
  /\ WF_vars(LocStep) /\ WF_vars(HandlerStep)

FairSpec == Spec /\ Fairness

-----------------------------------------------------------------------------
(* Properties.                                                             *)

(* Every variable has its type: in particular no tag is given an index     *)
(* beyond the arrays, and no mutex or semaphore is anything else.          *)
TypeOK ==
  /\ eAppCtrl \in {"RUN", "SHUTDOWN"} /\ handler \in Int /\ reports \in 0 .. MaxReports
  /\ foundTags \in [TagID -> Address \cup {NoAddress}] /\ tagCounter \in Nat
  /\ tagHandleCriticalSection \in BOOLEAN
  /\ iqSamplesBuffered \in [Slot -> Samples]
  /\ iqSamplesActive \in [Slot -> Samples]
  /\ iqSamplesCriticalSection \in [Slot -> BOOLEAN]
  /\ newSamplesAvailable \in [Slot -> Nat]
  /\ newMeasurementAvailable \in [Slot -> Nat]
  /\ locatorMeasurements \in [Slot -> Measurement]
  /\ bgPc \in [Locator -> {"event", "lookup", "insert", "aux", "samples", "post", "done"}]
  /\ evt \in [Locator -> Report] /\ bgTag \in [Locator -> TagID]
  /\ aoxPc \in [Slot -> {"wait", "aux", "samples", "azimuth", "elevation", "post", "done"}]
  /\ result \in [Slot -> {"SUCCESS", "FAILURE"}] /\ announced \in [Slot -> Nat]
  /\ locPc \in {"wait", "azimuth", "elevation", "process", "done"}
  /\ locTag \in TagID /\ locIndex \in Locator
  /\ given \in [Locator -> Measurement]
  /\ position \in [TagID -> [Locator -> Measurement]]
  /\ loc_sequence \in [TagID -> Nat]

Angles(s) == {locatorMeasurements[s].azimuth, locatorMeasurements[s].elevation}

(* "Make sure we do not write the IQ sample buffer while the AoX thread is *)
(* reading it": every angle that is computed is computed from samples of   *)
(* the report whose channel and rssi it has (if that had any), and, if the *)
(* report filled the buffer, from no others, although the handler of       *)
(* SIGINT unlocks the mutex in the middle of a copy and short reports      *)
(* leave others behind in the buffer.                                      *)
AnglesAreOfOneReport ==
  \A s \in Slot : \A angle \in Angles(s) : angle.iq # {} =>
    /\ angle.aux.samples # "none" => angle.aux \in angle.iq
    /\ angle.aux.samples = "all" => angle.iq = {angle.aux}

(* The angles at an index are those of the tag that foundTags has there,   *)
(* for every locator, although the BG threads fill the table together and  *)
(* the handler of SIGINT unlocks its mutex too: so are the samples of      *)
(* earlier reports that a short report leaves in the buffer.               *)
MeasurementsAreOfTheirTag ==
  \A t \in TagID, l \in Locator : \A angle \in Angles(<<t, l>>) :
    \A r \in {angle.aux} \cup angle.iq : r # NoReport => r.address = foundTags[t]

(* A tag has no more positions than any locator has announced measurements *)
(* of it: each is computed from an announcement of every locator that no   *)
(* other position used, and from two angles that its AoX thread stored;    *)
(* neither failed estimates nor the semaphores that the handler of SIGINT  *)
(* posts count.                                                            *)
PositionsNeedEveryLocator ==
  \A t \in TagID, l \in Locator :
    /\ loc_sequence[t] <= announced[<<t, l>>]
    /\ loc_sequence[t] > 0 => /\ position[t][l].azimuth.aux # NoReport
                              /\ position[t][l].elevation.aux # NoReport

(* "Wait for measurements (angle estimations + distance estimation) from   *)
(* all locator", and "Provide new measurements": from one position of a    *)
(* tag to the next every locator has made a new measurement.               *)
PositionsUseNewMeasurements ==
  [][\A t \in TagID : loc_sequence[t] > 0 /\ loc_sequence'[t] # loc_sequence[t] =>
       \A l \in Locator : position'[t][l] # position[t][l]]_vars

(* The newest report is never forgotten: once reports stop coming, every   *)
(* angle is of the report written last (or of its estimate that failed),   *)
(* although reports overwrite each other while the AoX thread is busy with *)
(* an older one.                                                           *)
NewestIsEstimated ==
  <>[](\/ eAppCtrl = "SHUTDOWN"
       \/ \A s \in Slot : \A angle \in Angles(s) : angle.aux = iqSamplesBuffered[s].aux)

(* When every locator has announced a measurement of a tag, a position of  *)
(* the tag follows: the Loc thread throws away measurements that come one  *)
(* by one, but not when they are all there.                                *)
ReadyMeansPosition ==
  \A t \in TagID :
    (\A l \in Locator : newMeasurementAvailable[<<t, l>>] > 0)
      ~> eAppCtrl = "SHUTDOWN" \/ (locPc = "process" /\ locTag = t)

(* main waits for its threads: after a SIGINT all of them end, wherever    *)
(* they were and whatever they were waiting for.                           *)
ThreadsEnd ==
  eAppCtrl = "SHUTDOWN" ~>
    /\ \A l \in Locator : bgPc[l] = "done"
    /\ \A s \in Slot : aoxPc[s] = "done"
    /\ locPc = "done"

=============================================================================
