------------------------------- MODULE Faults -------------------------------
(***************************************************************************)
(* The life of a fault: the FaultScheduler process that finds devices       *)
(* silent and opens auto-offline faults, the ingest requests that touch the *)
(* ETS heartbeat of a device and spawn a FaultClearer task, and the admins  *)
(* who report manual faults and resolve faults from a page they loaded      *)
(* earlier (lib/voria2/network/fault*.ex, ingest.ex, webcam_ingest.ex,      *)
(* cache.ex).                                                               *)
(*                                                                          *)
(* Time is relative: every stored instant is the AGE of that instant, which *)
(* Tick makes grow and which saturates at MaxAge; a reading dated ahead of    *)
(* its arrival has a negative age.  A resolved fault that no                *)
(* task and no page refers to any more may give its identifier to a later   *)
(* fault, so that behaviours are not cut short by the number of faults.     *)
(***************************************************************************)
EXTENDS Integers, FiniteSets

CONSTANTS
  Stations, Webcams,   \* the devices
  Admins,              \* the admin pages that are open
  ClearTasks,          \* slots of the task supervisor that clears may get
  FaultId,             \* identifiers of fault rows
  Threshold,           \* fault_staleness_threshold_s, in ticks
  MaxLag,              \* bound: ticks that may pass during one check
  MaxAge,              \* bound: ages saturate here
  MaxAhead,            \* bound: how far ahead a reading may be dated
  MeasuredAges,        \* how old a reading may be when it is committed
  MaxManual,           \* bound: manual faults active at a time
  MaxCrashes,          \* bound: crashes of the scheduler or of the node
  Nil                  \* nil

Devices == Stations \union Webcams

ASSUME DeviceAssumption == Stations \intersect Webcams = {}
ASSUME TimeAssumption ==
  /\ Threshold \in Nat \ {0}
  /\ MaxLag \in Nat
  /\ MaxAge \in Nat
  /\ MaxAhead \in Nat
  /\ MaxAge > Threshold + MaxLag + MaxAhead
  /\ MeasuredAges \subseteq -MaxAhead..MaxAge
ASSUME BoundAssumption == MaxManual \in Nat /\ MaxCrashes \in Nat

VARIABLES
  faults,        \* the faults table
  rowAge,        \* age of the newest row of the device's active sensors, or
                 \* of the webcam's newest shot
  ahead,         \* how far ahead of its arrival one of those rows was dated,
                 \* at most (observer)
  heartbeat,     \* the ETS heartbeat of each device
  quiet,         \* time since the device last reached the server, or since
                 \* its station got its first active sensor (observer)
  inflight,      \* devices with a request between its commit and its touch
  enabled,       \* devices with is_active
  instrumented,  \* stations with an active sensor
  outdated,      \* stations with a removed sensor that the lookup cache has
  clear,         \* the FaultClearer tasks
  held,          \* the fault an admin page is about to resolve, as loaded
  phase,         \* what the scheduler is checking
  step,          \* where it is with the device it found stale
  todo,          \* devices it has not judged yet
  device,        \* the device it found stale
  lag,           \* ticks since its cutoff was computed
  recent,        \* stations with a recent row, as read at the cutoff
  bare,          \* stations without active sensors, as read at the cutoff
  crashes

deviceVars == <<rowAge, ahead, quiet, inflight>>
adminVars == <<enabled, instrumented, outdated>>
snapshot == <<recent, bare>>
schedVars == <<phase, step, todo, device, lag, snapshot>>
vars == <<faults, heartbeat, clear, held, crashes, deviceVars, adminVars,
          schedVars>>

Ages == 0..MaxAge
RowAges == -MaxAhead..MaxAge

Fault == [subject : Devices, type : {"auto_offline", "manual"},
          resolved : BOOLEAN, by : Admins \union {Nil}]
ClearTask == [subject : Devices, fault : FaultId \union {Nil}]
Copy == [fault : FaultId, resolved : BOOLEAN]

ASSUME NilAssumption ==
  /\ Nil \notin Int
  /\ Nil \notin Devices \union Admins \union FaultId
  /\ Nil \notin Fault /\ Nil \notin ClearTask /\ Nil \notin Copy

TypeOK ==
  /\ faults \in [FaultId -> Fault \union {Nil}]
  /\ rowAge \in [Devices -> RowAges \union {Nil}]
  /\ ahead \in [Devices -> 0..MaxAhead]
  /\ heartbeat \in [Devices -> Ages \union {Nil}]
  /\ quiet \in [Devices -> Ages]
  /\ inflight \subseteq Devices
  /\ enabled \subseteq Devices
  /\ instrumented \subseteq Stations
  /\ outdated \subseteq Stations
  /\ clear \in [ClearTasks -> ClearTask \union {Nil}]
  /\ held \in [Admins -> Copy \union {Nil}]
  /\ phase \in {"idle", "stations", "webcams"}
  /\ step \in {"judge", "lookup", "create"}
  /\ todo \subseteq Devices
  /\ device \in Devices \union {Nil}
  /\ step # "judge" => device \in Devices
  /\ lag \in 0..MaxLag
  /\ recent \subseteq Stations
  /\ bare \subseteq Stations
  /\ crashes \in 0..MaxCrashes

(***************************************************************************)
(* The faults table.                                                        *)
(***************************************************************************)
Exists(f) == faults[f] # Nil
Active(f) == Exists(f) /\ ~faults[f].resolved
\* (mutant: the clearer's query forgets the fault type)
ActiveAutoAnyType(d) == {f \in FaultId : Active(f) /\ faults[f].subject = d}

ActiveAuto(d) ==
  {f \in FaultId : Active(f) /\ faults[f].type = "auto_offline"
                             /\ faults[f].subject = d}

Unreferenced(f) ==
  /\ \A t \in ClearTasks : clear[t] # Nil => clear[t].fault # f
  /\ \A a \in Admins : held[a] # Nil => held[a].fault # f
Fresh(f) == ~Active(f) /\ Unreferenced(f)

\* (mutant: the reason lands in the type)
InsertReason(f, d, type) ==
  faults' = [faults EXCEPT ![f] = [subject |-> d, type |-> "offline",
                                   resolved |-> FALSE, by |-> Nil]]

Insert(f, d, type) ==
  faults' = [faults EXCEPT ![f] = [subject |-> d, type |-> type,
                                   resolved |-> FALSE, by |-> Nil]]

\* The :resolve action.  Its validation looks at the record the caller holds,
\* not at the row: the update then runs whatever the row says.
Resolve(copy, by) ==
  IF copy.resolved
    THEN UNCHANGED faults
    ELSE faults' = [faults EXCEPT ![copy.fault].resolved = TRUE,
                                  ![copy.fault].by = by]

(***************************************************************************)
(* Time, and the device side: a request commits its row, then touches the   *)
(* heartbeat, then spawns a task that clears the device's fault.            *)
(***************************************************************************)
Older(age) == IF age = Nil \/ age = MaxAge THEN age ELSE age + 1

Tick ==
  /\ phase # "idle" => lag < MaxLag
  /\ lag' = IF phase = "idle" THEN lag ELSE lag + 1
  /\ rowAge' = [d \in Devices |-> Older(rowAge[d])]
  /\ heartbeat' = [d \in Devices |-> Older(heartbeat[d])]
  /\ quiet' = [d \in Devices |-> Older(quiet[d])]
  /\ UNCHANGED <<faults, ahead, inflight, clear, held, crashes, adminVars,
                 phase, step, todo, device, snapshot>>

Further(a, b) == IF a < b THEN b ELSE a

\* A reading of an active sensor.  Its timestamp is the sender's: it may be
\* old when it arrives, and then it is not the newest row, or lie ahead.  A
\* shot is captured on arrival.
Commit(d, age) ==
  /\ d \notin inflight
  /\ d \in Webcams \union instrumented
  /\ d \in Webcams => age = 0
  /\ inflight' = inflight \union {d}
  /\ rowAge' = [rowAge EXCEPT ![d] = IF @ # Nil /\ @ < age THEN @ ELSE age]
  /\ ahead' = [ahead EXCEPT ![d] = Further(@, -age)]
  /\ quiet' = [quiet EXCEPT ![d] = 0]
  /\ UNCHANGED <<faults, heartbeat, clear, held, crashes, adminVars, schedVars>>

\* A reading of a sensor that was removed, which the lookup cache still gives:
\* it is accepted, and its row is not one of an active sensor.
CommitRemoved(s) ==
  /\ s \in outdated \ inflight
  /\ inflight' = inflight \union {s}
  /\ quiet' = [quiet EXCEPT ![s] = 0]
  /\ UNCHANGED <<faults, heartbeat, rowAge, ahead, clear, held, crashes,
                 adminVars, schedVars>>

LookupExpires(s) ==
  /\ s \in outdated
  /\ outdated' = outdated \ {s}
  /\ UNCHANGED <<faults, heartbeat, clear, held, crashes, deviceVars, enabled,
                 instrumented, schedVars>>

Touch(d) ==
  /\ d \in inflight
  /\ inflight' = inflight \ {d}
  /\ heartbeat' = [heartbeat EXCEPT ![d] = 0]
  /\ quiet' = [quiet EXCEPT ![d] = 0]
  /\ UNCHANGED <<faults, rowAge, ahead, held, crashes, adminVars, schedVars>>

TouchAndClear(d) ==
  /\ Touch(d)
  /\ \E t \in ClearTasks :
       /\ clear[t] = Nil
       /\ clear' = [clear EXCEPT ![t] = [subject |-> d, fault |-> Nil]]

\* Task.Supervisor.start_child fails at max_children (warm tasks share the
\* supervisor) and the result is ignored.  A task one of whose queries fails
\* ends without a word as well: it is one that was never started.
TouchAndDrop(d) == Touch(d) /\ UNCHANGED clear

(***************************************************************************)
(* FaultClearer: read the newest active auto fault, then resolve that copy. *)
(***************************************************************************)
ClearRead(t) ==
  /\ clear[t] # Nil
  /\ clear[t].fault = Nil
  /\ IF ActiveAuto(clear[t].subject) = {}
       THEN clear' = [clear EXCEPT ![t] = Nil]
       ELSE \E f \in ActiveAuto(clear[t].subject) :
              clear' = [clear EXCEPT ![t].fault = f]
  /\ UNCHANGED <<faults, heartbeat, held, crashes, deviceVars, adminVars,
                 schedVars>>

ClearResolve(t) ==
  /\ clear[t] # Nil
  /\ clear[t].fault # Nil
  /\ Resolve([fault |-> clear[t].fault, resolved |-> FALSE], Nil)
  /\ clear' = [clear EXCEPT ![t] = Nil]
  /\ UNCHANGED <<heartbeat, held, crashes, deviceVars, adminVars, schedVars>>

(***************************************************************************)
(* Admins.  A page shows the faults as they were when it was loaded.        *)
(***************************************************************************)
Load(a, f) ==
  /\ Exists(f)
  /\ held' = [held EXCEPT ![a] = [fault |-> f, resolved |-> faults[f].resolved]]
  /\ UNCHANGED <<faults, heartbeat, clear, crashes, deviceVars, adminVars,
                 schedVars>>

AdminResolve(a) ==
  /\ held[a] # Nil
  /\ Resolve(held[a], a)
  /\ held' = [held EXCEPT ![a] = Nil]
  /\ UNCHANGED <<heartbeat, clear, crashes, deviceVars, adminVars, schedVars>>

Report(d) ==
  /\ Cardinality({f \in FaultId : Active(f) /\ faults[f].type = "manual"})
       < MaxManual
  /\ \E f \in FaultId : Fresh(f) /\ Insert(f, d, "manual")
  /\ UNCHANGED <<heartbeat, clear, held, crashes, deviceVars, adminVars,
                 schedVars>>

ToggleActive(d) ==
  /\ enabled' = IF d \in enabled THEN enabled \ {d} ELSE enabled \union {d}
  /\ UNCHANGED <<faults, heartbeat, clear, held, crashes, deviceVars,
                 instrumented, outdated, schedVars>>

\* The last active sensor of a station is decommissioned: its rows are no
\* longer rows of an active sensor.  The lookup cache is told to forget it
\* before the update commits; a request that reads the sensor until then puts
\* it back.
Decommission(s) ==
  /\ s \in instrumented
  /\ instrumented' = instrumented \ {s}
  /\ rowAge' = [rowAge EXCEPT ![s] = Nil]
  /\ ahead' = [ahead EXCEPT ![s] = 0]
  /\ outdated' \in {outdated, outdated \union {s}}
  /\ UNCHANGED <<faults, heartbeat, quiet, inflight, clear, held, crashes,
                 enabled, schedVars>>

InstallSensor(s) ==
  /\ s \in Stations \ instrumented
  /\ instrumented' = instrumented \union {s}
  /\ quiet' = [quiet EXCEPT ![s] = 0]
  /\ UNCHANGED <<faults, rowAge, ahead, heartbeat, inflight, clear, held,
                 crashes, enabled, outdated, schedVars>>

(***************************************************************************)
(* FaultScheduler: one :check_staleness message is a check of the stations  *)
(* and then one of the webcams, each with its own cutoff and its own list.  *)
(***************************************************************************)
\* (mutant: the union query forgets the cutoff)
EverMeasured == {s \in instrumented : rowAge[s] # Nil}

\* The query has a lower bound only: a row dated ahead stays recent for
\* longer than a threshold.
RecentlyMeasured ==
  {s \in instrumented : rowAge[s] # Nil /\ rowAge[s] < Threshold}

CheckStations ==
  /\ phase = "idle"
  /\ phase' = "stations"
  /\ todo' = enabled \intersect Stations
  /\ recent' = RecentlyMeasured
  /\ bare' = Stations \ instrumented
  /\ lag' = 0
  /\ UNCHANGED <<faults, heartbeat, clear, held, crashes, deviceVars,
                 adminVars, step, device>>

CheckWebcams ==
  /\ phase = "stations" /\ step = "judge" /\ todo = {}
  /\ phase' = "webcams"
  /\ todo' = enabled \intersect Webcams
  /\ lag' = 0
  /\ recent' = {} /\ bare' = {}
  /\ UNCHANGED <<faults, heartbeat, clear, held, crashes, deviceVars,
                 adminVars, step, device>>

EndCheck ==
  /\ phase = "webcams" /\ step = "judge" /\ todo = {}
  /\ phase' = "idle"
  /\ lag' = 0
  /\ UNCHANGED <<faults, heartbeat, clear, held, crashes, deviceVars,
                 adminVars, step, todo, device, snapshot>>

\* (mutant: off by one at the cutoff)
AtCutoff(age) == age >= Threshold + lag

\* The cutoff was computed lag ticks ago.
BeforeCutoff(age) == age > Threshold + lag

Judged(d, stale) ==
  /\ todo' = todo \ {d}
  /\ IF stale THEN step' = "lookup" /\ device' = d
              ELSE UNCHANGED <<step, device>>
  /\ UNCHANGED <<faults, clear, held, crashes, deviceVars, adminVars,
                 phase, lag, snapshot>>

\* (mutant: the warming also refreshes a warm heartbeat)
JudgeStationWarmAlways(s) ==
  /\ phase = "stations" /\ step = "judge" /\ s \in todo
  /\ Judged(s, heartbeat[s] # Nil /\ BeforeCutoff(heartbeat[s]))
  /\ heartbeat' = [heartbeat EXCEPT ![s] = 0]

\* A station with a cold heartbeat is judged by the rows read at the cutoff;
\* one without active sensors counts as fresh.  A fresh one is warmed.
ColdFresh(s) == s \in recent \union bare

JudgeStation(s) ==
  /\ phase = "stations" /\ step = "judge" /\ s \in todo
  /\ IF heartbeat[s] # Nil
       THEN Judged(s, BeforeCutoff(heartbeat[s])) /\ UNCHANGED heartbeat
       ELSE /\ Judged(s, ~ColdFresh(s))
            /\ heartbeat' = IF ColdFresh(s)
                              THEN [heartbeat EXCEPT ![s] = 0] ELSE heartbeat

\* (mutant: a webcam without shots counts as fresh)
JudgeWebcamNoShots(w) ==
  /\ phase = "webcams" /\ step = "judge" /\ w \in todo
  /\ Judged(w, IF heartbeat[w] # Nil THEN BeforeCutoff(heartbeat[w])
               ELSE rowAge[w] # Nil /\ BeforeCutoff(rowAge[w]))
  /\ UNCHANGED heartbeat

\* A webcam with a cold heartbeat is judged by its newest shot, and not
\* warmed; it counts as stale if the query for the shot fails.
JudgeWebcam(w) ==
  /\ phase = "webcams" /\ step = "judge" /\ w \in todo
  /\ \/ Judged(w, IF heartbeat[w] # Nil THEN BeforeCutoff(heartbeat[w])
                  ELSE rowAge[w] = Nil \/ BeforeCutoff(rowAge[w]))
     \/ heartbeat[w] = Nil /\ Judged(w, TRUE)
  /\ UNCHANGED heartbeat

NextDevice == step' = "judge" /\ device' = Nil

\* (mutant: no look at the active faults before the insert)
LookupNothing ==
  /\ step = "lookup"
  /\ step' = "create"
  /\ UNCHANGED <<faults, heartbeat, clear, held, crashes, deviceVars,
                 adminVars, phase, todo, device, lag, snapshot>>

LookupFault ==
  /\ step = "lookup"
  /\ IF ActiveAuto(device) = {}
       THEN step' = "create" /\ UNCHANGED device
       ELSE NextDevice
  /\ UNCHANGED <<faults, heartbeat, clear, held, crashes, deviceVars,
                 adminVars, phase, todo, lag, snapshot>>

\* The query failed: the scheduler goes on to the next device.
LookupFails ==
  /\ step = "lookup"
  /\ NextDevice
  /\ UNCHANGED <<faults, heartbeat, clear, held, crashes, deviceVars,
                 adminVars, phase, todo, lag, snapshot>>

CreateFault ==
  /\ step = "create"
  /\ \E f \in FaultId : Fresh(f) /\ Insert(f, device, "auto_offline")
  /\ NextDevice
  /\ UNCHANGED <<heartbeat, clear, held, crashes, deviceVars, adminVars,
                 phase, todo, lag, snapshot>>

(***************************************************************************)
(* Crashes.  A failing query ends the scheduler's process, which restarts   *)
(* and seeds the heartbeats; the seeding itself may fail and is skipped     *)
(* then.  A restart of the node also loses the ETS table, the requests, the *)
(* tasks and the pages.                                                     *)
(***************************************************************************)
Crash ==
  /\ crashes < MaxCrashes
  /\ crashes' = crashes + 1
  /\ phase' = "idle"
  /\ NextDevice
  /\ todo' = {} /\ lag' = 0
  /\ recent' = {} /\ bare' = {}
  /\ UNCHANGED <<faults, rowAge, ahead, quiet, enabled, instrumented>>

Seeded(beats) ==
  [d \in Devices |-> IF d \in RecentlyMeasured THEN 0 ELSE beats[d]]

SchedulerCrash ==
  /\ phase # "idle"
  /\ Crash
  /\ heartbeat' \in {heartbeat, Seeded(heartbeat)}
  /\ UNCHANGED <<inflight, outdated, clear, held>>

NodeRestart ==
  /\ Crash
  /\ LET cold == [d \in Devices |-> Nil]
     IN  heartbeat' \in {cold, Seeded(cold)}
  /\ inflight' = {}
  /\ outdated' = {}
  /\ clear' = [t \in ClearTasks |-> Nil]
  /\ held' = [a \in Admins |-> Nil]

-----------------------------------------------------------------------------
\* A node that has just started, over a database without rows or faults.
Init ==
  /\ faults = [f \in FaultId |-> Nil]
  /\ rowAge = [d \in Devices |-> Nil]
  /\ heartbeat = [d \in Devices |-> Nil]
  /\ ahead = [d \in Devices |-> 0]
  /\ quiet = [d \in Devices |-> 0]
  /\ inflight = {}
  /\ enabled \in SUBSET Devices
  /\ instrumented \in SUBSET Stations
  /\ outdated = {}
  /\ clear = [t \in ClearTasks |-> Nil]
  /\ held = [a \in Admins |-> Nil]
  /\ phase = "idle"
  /\ step = "judge"
  /\ todo = {}
  /\ device = Nil
  /\ lag = 0
  /\ recent = {}
  /\ bare = {}
  /\ crashes = 0

SchedulerStep ==
  \/ CheckStations
  \/ CheckWebcams
  \/ EndCheck
  \/ \E s \in Stations : JudgeStation(s)
  \/ \E w \in Webcams : JudgeWebcam(w)
  \/ LookupFault
  \/ LookupFails
  \/ CreateFault

ClearStep(t) == ClearRead(t) \/ ClearResolve(t)

DeviceStep(d) ==
  \/ \E age \in MeasuredAges : Commit(d, age)
  \/ TouchAndClear(d)
  \/ TouchAndDrop(d)

AdminStep ==
  \/ \E a \in Admins, f \in FaultId : Load(a, f)
  \/ \E a \in Admins : AdminResolve(a)
  \/ \E d \in Devices : Report(d)
  \/ \E d \in Devices : ToggleActive(d)
  \/ \E s \in Stations : Decommission(s)
  \/ \E s \in Stations : InstallSensor(s)
  \/ \E s \in Stations : CommitRemoved(s)
  \/ \E s \in Stations : LookupExpires(s)

Next ==
  \/ Tick
  \/ SchedulerStep
  \/ \E t \in ClearTasks : ClearStep(t)
  \/ \E d \in Devices : DeviceStep(d)
  \/ AdminStep
  \/ SchedulerCrash
  \/ NodeRestart

Spec == Init /\ [][Next]_vars

\* Time passes (MaxLag bounds only how much of it one check may take), the
\* timer fires again and again, processes and tasks run on, a request
\* that committed goes on to its touch.  What may fail does not fail every
\* single time: neither the start of a device's clear task and its queries nor
\* the scheduler's query for the faults of a device.
Fairness ==
  /\ SF_vars(Tick)
  /\ WF_vars(SchedulerStep)
  /\ \A t \in ClearTasks : WF_vars(ClearStep(t))
  /\ \A d \in Devices : WF_vars(TouchAndClear(d) \/ TouchAndDrop(d))
  /\ \A d \in Devices : SF_vars(TouchAndClear(d))
  /\ \A d \in Devices : SF_vars(device = d /\ LookupFault)

FairSpec == Spec /\ Fairness

-----------------------------------------------------------------------------
(***************************************************************************)
(* Properties.                                                              *)
(***************************************************************************)

\* No index of the faults table forbids two active auto-offline faults of one
\* device; only the scheduler's read before its insert does.  The clearer
\* resolves one fault per reading, so that a second one would stay.
AtMostOneActiveAuto ==
  \A d \in Devices : \A f, g \in ActiveAuto(d) : f = g

\* Warming a heartbeat from the rows counts a device as seen NOW.  However
\* often the scheduler or the node restarts, that hides a silent device for
\* less than one threshold and one check more than its own heartbeat would
\* have, and for as long again as its clock ran ahead: a station that dated a
\* reading an hour ahead may stay hidden for that hour, and no longer.
BoundedBlindSpot ==
  \A d \in Webcams \union instrumented :
     heartbeat[d] # Nil =>
       quiet[d] < heartbeat[d] + Threshold + MaxLag + ahead[d]

\* The clearer and the scheduler never resolve a fault that a person reported:
\* a manual fault that gets resolved gets the name of an admin.
ManualResolvedByAdmin ==
  [][\A f \in FaultId :
       (/\ Active(f) /\ faults[f].type = "manual"
        /\ faults'[f].type = "manual" /\ faults'[f].resolved)
       => faults'[f].by \in Admins]_vars

\* A device that keeps its heartbeat fresh ends up without an auto-offline
\* fault and stays so, whatever check was under way when it came back.
ReportingDeviceClears ==
  \A d \in Devices :
     (<>[](heartbeat[d] \in 0..Threshold)) => <>[](ActiveAuto(d) = {})

\* A device that falls silent is faulted, and faulted again whenever its
\* fault is resolved while it is still silent.
Watched(d) == d \in enabled /\ d \in Webcams \union instrumented
SilentDeviceFaulted ==
  \A d \in Devices :
     (<>[](Watched(d) /\ quiet[d] = MaxAge)) => []<>(ActiveAuto(d) # {})

\* test/voria2/network/fault_test.exs: a fault that is already resolved
\* cannot be resolved: its resolution, once written, stays.  The code does
\* not keep this (README, section 4); no configuration checks it.
ResolutionIsFinal ==
  [][\A f \in FaultId :
       (Exists(f) /\ faults[f].resolved /\ faults'[f].resolved)
       => faults'[f] = faults[f]]_vars

\* fault_scheduler.ex: "Stations with no active sensors are never faulted."
\* (bare holds the stations that the check itself saw without sensors.)
\* The code does not keep this (README, section 4); no configuration checks
\* it.
SensorlessNeverFaulted ==
  [][\A s \in Stations :
       (s \in bare /\ ActiveAuto(s) = {}) => ActiveAuto(s)' = {}]_vars

=============================================================================
