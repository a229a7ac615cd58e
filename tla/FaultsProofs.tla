---------------------------- MODULE FaultsProofs ----------------------------
(***************************************************************************)
(* Type correctness of Faults and its safety invariants, for every set of   *)
(* devices, admins and tasks and every threshold.                           *)
(***************************************************************************)
EXTENDS Faults, TLAPS

\* What a task or a page refers to is a row of the table: rows are resolved
\* but not removed while somebody holds them.
RefsExist ==
  /\ \A t \in ClearTasks :
       (clear[t] # Nil /\ clear[t].fault # Nil) => Exists(clear[t].fault)
  /\ \A a \in Admins : held[a] # Nil => Exists(held[a].fault)

\* Between the scheduler's look at the active faults of a device and its
\* insert, nobody opens an auto-offline fault of that device.
CreateGuarded == step = "create" => ActiveAuto(device) = {}

Base == TypeOK /\ RefsExist
AutoInv == Base /\ CreateGuarded /\ AtMostOneActiveAuto

-----------------------------------------------------------------------------
\* Any of the copies held is one of a row, which keeps its type when resolved.
LEMMA ResolveType ==
  ASSUME TypeOK, NEW copy \in Copy, NEW by \in Admins \union {Nil},
         Exists(copy.fault), Resolve(copy, by)
  PROVE  /\ faults' \in [FaultId -> Fault \union {Nil}]
         /\ \A f \in FaultId : Exists(f)' <=> Exists(f)
         /\ \A d \in Devices : ActiveAuto(d)' \subseteq ActiveAuto(d)
<1>1. CASE copy.resolved
  BY <1>1 DEF Resolve, TypeOK, Exists, ActiveAuto, Active
<1>2. CASE ~copy.resolved
  <2> DEFINE g == copy.fault
             row == [faults[g] EXCEPT !.resolved = TRUE, !.by = by]
  <2>1. g \in FaultId /\ faults[g] \in Fault
    BY DEF TypeOK, Copy, Exists
  <2>2. row \in Fault /\ row.resolved
    BY <2>1 DEF Fault
  <2>3. faults' = [faults EXCEPT ![g] = row]
    BY <1>2, <2>1 DEF Resolve, TypeOK, Fault
  <2>4. Nil \notin Fault
    BY NilAssumption
  <2> HIDE DEF g, row
  <2>5. faults' \in [FaultId -> Fault \union {Nil}]
    BY <2>1, <2>2, <2>3 DEF TypeOK
  <2>6. \A f \in FaultId : f # g => faults'[f] = faults[f]
    BY <2>1, <2>3 DEF TypeOK
  <2>7. faults'[g] = row
    BY <2>1, <2>3 DEF TypeOK
  <2>8. \A f \in FaultId : Exists(f)' <=> Exists(f)
    BY <2>1, <2>2, <2>4, <2>6, <2>7 DEF Exists
  <2>9. \A d \in Devices : ActiveAuto(d)' \subseteq ActiveAuto(d)
    BY <2>2, <2>6, <2>7 DEF Exists, ActiveAuto, Active
  <2> QED BY <2>5, <2>8, <2>9
<1> QED BY <1>1, <1>2

\* A new fault is one row more, and one more active fault of its device if it
\* is an auto-offline one.
LEMMA InsertType ==
  ASSUME TypeOK, NEW f \in FaultId, NEW d \in Devices,
         NEW type \in {"auto_offline", "manual"}, Insert(f, d, type)
  PROVE  /\ faults' \in [FaultId -> Fault \union {Nil}]
         /\ \A g \in FaultId : Exists(g) => Exists(g)'
         /\ \A e \in Devices : ActiveAuto(e)' \subseteq ActiveAuto(e) \union {f}
         /\ \A e \in Devices : (e # d \/ type = "manual")
                                 => ActiveAuto(e)' \subseteq ActiveAuto(e)
<1> DEFINE row == [subject |-> d, type |-> type, resolved |-> FALSE, by |-> Nil]
<1>1. row \in Fault /\ row.subject = d /\ row.type = type
  BY DEF Fault
<1>2. faults' = [faults EXCEPT ![f] = row]
  BY DEF Insert
<1>3. Nil \notin Fault
  BY NilAssumption
<1> HIDE DEF row
<1>4. faults' \in [FaultId -> Fault \union {Nil}]
  BY <1>1, <1>2 DEF TypeOK
<1>5. /\ faults'[f] = row
      /\ \A g \in FaultId : g # f => faults'[g] = faults[g]
  BY <1>2 DEF TypeOK
<1>6. \A g \in FaultId : Exists(g) => Exists(g)'
  BY <1>1, <1>3, <1>5 DEF Exists
<1>7. \A e \in Devices : ActiveAuto(e)' \subseteq ActiveAuto(e) \union {f}
  BY <1>5 DEF ActiveAuto, Active, Exists
<1>8. \A e \in Devices : (e # d \/ type = "manual")
                           => ActiveAuto(e)' \subseteq ActiveAuto(e)
  BY <1>1, <1>5 DEF ActiveAuto, Active, Exists
<1> QED BY <1>4, <1>6, <1>7, <1>8

LEMMA OlderType ==
  ASSUME NEW age \in RowAges \union {Nil}
  PROVE  /\ Older(age) \in RowAges \union {Nil}
         /\ age \in Ages \union {Nil} => Older(age) \in Ages \union {Nil}
         /\ age \in Ages => Older(age) \in Ages
BY TimeAssumption, NilAssumption DEF Older, Ages, RowAges

LEMMA AgesAreRowAges == Ages \subseteq RowAges
BY TimeAssumption DEF Ages, RowAges

LEMMA SeededType ==
  ASSUME NEW beats \in [Devices -> Ages \union {Nil}]
  PROVE  Seeded(beats) \in [Devices -> Ages \union {Nil}]
BY TimeAssumption DEF Seeded, Ages

-----------------------------------------------------------------------------
LEMMA BaseInit == Init => Base
BY TimeAssumption, BoundAssumption
   DEF Init, Base, TypeOK, RefsExist, Ages

LEMMA BaseStep == Base /\ [Next]_vars => Base'
<1> SUFFICES ASSUME TypeOK, RefsExist, [Next]_vars
             PROVE  TypeOK' /\ RefsExist'
  BY DEF Base
<1> USE DEF deviceVars, adminVars, schedVars, snapshot
<1>1. CASE Tick
  <2>1. rowAge' \in [Devices -> RowAges \union {Nil}]
    BY <1>1, OlderType DEF Tick, TypeOK
  <2>2. heartbeat' \in [Devices -> Ages \union {Nil}]
    BY <1>1, OlderType, AgesAreRowAges DEF Tick, TypeOK
  <2>3. quiet' \in [Devices -> Ages]
    BY <1>1, OlderType, AgesAreRowAges DEF Tick, TypeOK
  <2>4. lag' \in 0..MaxLag
    BY <1>1, TimeAssumption DEF Tick, TypeOK
  <2> QED
    BY <1>1, <2>1, <2>2, <2>3, <2>4 DEF Tick, TypeOK, RefsExist, Exists
<1>2. ASSUME NEW d \in Devices, NEW age \in MeasuredAges, Commit(d, age)
      PROVE  TypeOK' /\ RefsExist'
  <2>1. age \in RowAges /\ 0 \in Ages /\ -age \in -MaxAge..MaxAhead
    BY TimeAssumption DEF Ages, RowAges
  <2>2. \A a \in 0..MaxAhead : Further(a, -age) \in 0..MaxAhead
    BY <2>1, TimeAssumption DEF Further
  <2>3. ahead' \in [Devices -> 0..MaxAhead]
    BY <1>2, <2>2 DEF Commit, TypeOK
  <2> QED BY <1>2, <2>1, <2>3 DEF Commit, TypeOK, RefsExist, Exists
<1>3. ASSUME NEW d \in Devices, TouchAndClear(d) \/ TouchAndDrop(d)
      PROVE  TypeOK' /\ RefsExist'
  <2>1. 0 \in Ages
    BY TimeAssumption DEF Ages
  <2>2. /\ clear' \in [ClearTasks -> ClearTask \union {Nil}]
        /\ \A t \in ClearTasks :
             (clear'[t] # Nil /\ clear'[t].fault # Nil) => clear'[t] = clear[t]
    BY <1>3 DEF TouchAndClear, TouchAndDrop, TypeOK, ClearTask
  <2> QED
    BY <1>3, <2>1, <2>2
       DEF TouchAndClear, TouchAndDrop, Touch, TypeOK, RefsExist, Exists
<1>4. ASSUME NEW t \in ClearTasks, ClearRead(t)
      PROVE  TypeOK' /\ RefsExist'
  <2>1. CASE ActiveAuto(clear[t].subject) = {}
    BY <1>4, <2>1 DEF ClearRead, TypeOK, RefsExist, Exists
  <2>2. CASE ActiveAuto(clear[t].subject) # {}
    <3>1. PICK f \in ActiveAuto(clear[t].subject) :
            clear' = [clear EXCEPT ![t].fault = f]
      BY <1>4, <2>2 DEF ClearRead
    <3>2. f \in FaultId /\ Exists(f) /\ clear[t] \in ClearTask
      BY <1>4 DEF ActiveAuto, Active, ClearRead, TypeOK
    <3>3. /\ clear' = [clear EXCEPT ![t] = [clear[t] EXCEPT !.fault = f]]
          /\ [clear[t] EXCEPT !.fault = f] \in ClearTask
          /\ [clear[t] EXCEPT !.fault = f].fault = f
      BY <3>1, <3>2 DEF ClearTask, TypeOK
    <3>4. clear' \in [ClearTasks -> ClearTask \union {Nil}]
      BY <3>3 DEF TypeOK
    <3>5. \A u \in ClearTasks : clear'[u] # clear[u] => clear'[u].fault = f
      BY <3>3 DEF TypeOK
    <3> QED
      BY <1>4, <3>2, <3>4, <3>5 DEF ClearRead, TypeOK, RefsExist, Exists
  <2> QED BY <2>1, <2>2
<1>5. ASSUME NEW t \in ClearTasks, ClearResolve(t)
      PROVE  TypeOK' /\ RefsExist'
  <2> DEFINE copy == [fault |-> clear[t].fault, resolved |-> FALSE]
  <2>1. copy \in Copy /\ Exists(copy.fault) /\ Resolve(copy, Nil)
    BY <1>5 DEF ClearResolve, TypeOK, RefsExist, ClearTask, Copy
  <2>2. /\ faults' \in [FaultId -> Fault \union {Nil}]
        /\ \A f \in FaultId : Exists(f)' <=> Exists(f)
    BY <2>1, ResolveType
  <2>3. clear' = [clear EXCEPT ![t] = Nil]
    BY <1>5 DEF ClearResolve
  <2>4. TypeOK'
    BY <1>5, <2>2, <2>3 DEF ClearResolve, TypeOK
  <2>5. /\ \A u \in ClearTasks : clear'[u] # Nil => clear'[u] = clear[u]
        /\ held' = held
    BY <1>5, <2>3 DEF ClearResolve, TypeOK
  <2>6. RefsExist'
    BY <2>2, <2>5 DEF TypeOK, RefsExist, ClearTask, Copy
  <2> QED BY <2>4, <2>6
<1>6. ASSUME NEW a \in Admins, NEW f \in FaultId, Load(a, f)
      PROVE  TypeOK' /\ RefsExist'
  <2> DEFINE copy == [fault |-> f, resolved |-> faults[f].resolved]
  <2>1. copy \in Copy /\ Exists(f) /\ copy.fault = f
    BY <1>6 DEF Load, Exists, TypeOK, Fault, Copy
  <2>2. held' = [held EXCEPT ![a] = copy]
    BY <1>6 DEF Load
  <2> HIDE DEF copy
  <2> QED
    BY <1>6, <2>1, <2>2 DEF Load, TypeOK, RefsExist, Exists
<1>7. ASSUME NEW a \in Admins, AdminResolve(a)
      PROVE  TypeOK' /\ RefsExist'
  <2>1. held[a] \in Copy /\ Exists(held[a].fault) /\ Resolve(held[a], a)
    BY <1>7 DEF AdminResolve, TypeOK, RefsExist
  <2>2. /\ faults' \in [FaultId -> Fault \union {Nil}]
        /\ \A f \in FaultId : Exists(f)' <=> Exists(f)
    BY <2>1, ResolveType
  <2>3. TypeOK'
    BY <1>7, <2>2 DEF AdminResolve, TypeOK
  <2>4. /\ \A b \in Admins : held'[b] # Nil => held'[b] = held[b]
        /\ clear' = clear
    BY <1>7 DEF AdminResolve, TypeOK
  <2>5. RefsExist'
    BY <2>2, <2>4 DEF TypeOK, RefsExist, ClearTask, Copy
  <2> QED BY <2>3, <2>5
<1>8. ASSUME NEW d \in Devices, Report(d)
      PROVE  TypeOK' /\ RefsExist'
  <2>1. PICK f \in FaultId : Insert(f, d, "manual")
    BY <1>8 DEF Report
  <2>2. /\ faults' \in [FaultId -> Fault \union {Nil}]
        /\ \A g \in FaultId : Exists(g) => Exists(g)'
    BY <2>1, InsertType
  <2> QED
    BY <1>8, <2>2 DEF Report, TypeOK, RefsExist, ClearTask, Copy
<1>9. ASSUME NEW d \in Devices,
             \/ ToggleActive(d) \/ Decommission(d) \/ InstallSensor(d)
             \/ CommitRemoved(d) \/ LookupExpires(d),
             d \in Stations \/ ToggleActive(d)
      PROVE  TypeOK' /\ RefsExist'
  <2>1. 0 \in Ages /\ 0 \in 0..MaxAhead
    BY TimeAssumption DEF Ages
  <2> QED
    BY <1>9, <2>1
       DEF ToggleActive, Decommission, InstallSensor, CommitRemoved,
           LookupExpires, TypeOK, RefsExist, Exists
<1>10. CASE \/ CheckStations \/ CheckWebcams \/ EndCheck
            \/ LookupFault \/ LookupFails
  BY <1>10, TimeAssumption
     DEF CheckStations, CheckWebcams, EndCheck, LookupFault, LookupFails,
         NextDevice, RecentlyMeasured, Devices, TypeOK, RefsExist, Exists
<1>11. ASSUME NEW s \in Stations, JudgeStation(s)
       PROVE  TypeOK' /\ RefsExist'
  <2>1. heartbeat' \in [Devices -> Ages \union {Nil}]
    BY <1>11, TimeAssumption DEF JudgeStation, TypeOK, Ages
  <2>2. todo' \subseteq Devices /\ step' \in {"judge", "lookup"}
        /\ device' \in Devices \union {Nil}
        /\ (step' # "judge" => device' \in Devices)
    BY <1>11 DEF JudgeStation, Judged, TypeOK, Devices
  <2> QED
    BY <1>11, <2>1, <2>2 DEF JudgeStation, Judged, TypeOK, RefsExist, Exists
<1>12. ASSUME NEW w \in Webcams, JudgeWebcam(w)
       PROVE  TypeOK' /\ RefsExist'
  BY <1>12 DEF JudgeWebcam, Judged, Devices, TypeOK, RefsExist, Exists
<1>13. CASE CreateFault
  <2>1. PICK f \in FaultId : Insert(f, device, "auto_offline")
    BY <1>13 DEF CreateFault
  <2>2. device \in Devices
    BY <1>13 DEF CreateFault, TypeOK
  <2>3. /\ faults' \in [FaultId -> Fault \union {Nil}]
        /\ \A g \in FaultId : Exists(g) => Exists(g)'
    BY <2>1, <2>2, InsertType
  <2> QED
    BY <1>13, <2>3
       DEF CreateFault, NextDevice, TypeOK, RefsExist, ClearTask, Copy
<1>14. CASE SchedulerCrash
  <2>1. heartbeat' \in [Devices -> Ages \union {Nil}]
    BY <1>14, SeededType DEF SchedulerCrash, TypeOK
  <2> QED
    BY <1>14, <2>1, BoundAssumption, TimeAssumption
       DEF SchedulerCrash, Crash, NextDevice, TypeOK, RefsExist, Exists
<1>15. CASE NodeRestart
  <2>1. heartbeat' \in [Devices -> Ages \union {Nil}]
    BY <1>15, SeededType DEF NodeRestart
  <2> QED
    BY <1>15, <2>1, BoundAssumption, TimeAssumption
       DEF NodeRestart, Crash, NextDevice, TypeOK, RefsExist, Exists
<1>16. CASE UNCHANGED vars
  BY <1>16 DEF vars, TypeOK, RefsExist, Exists
<1> HIDE DEF deviceVars, adminVars, schedVars, snapshot
<1> QED
  BY <1>1, <1>2, <1>3, <1>4, <1>5, <1>6, <1>7, <1>8, <1>9, <1>10, <1>11, <1>12,
     <1>13, <1>14, <1>15, <1>16
     DEF Next, SchedulerStep, ClearStep, DeviceStep, AdminStep, Devices

\* Every variable keeps its type, and a task or a page never refers to a row
\* that is not there.
THEOREM Typing == Spec => []TypeOK
<1>1. Base => TypeOK
  BY DEF Base
<1> QED
  BY BaseInit, BaseStep, <1>1, PTL DEF Spec

-----------------------------------------------------------------------------
\* A resolution, by a task or by a page, only takes active faults away.
LEMMA ResolvingStep ==
  ASSUME Base,
         \/ \E t \in ClearTasks : ClearResolve(t)
         \/ \E a \in Admins : AdminResolve(a)
  PROVE  /\ \A d \in Devices : ActiveAuto(d)' \subseteq ActiveAuto(d)
         /\ UNCHANGED <<step, device>>
<1>1. ASSUME NEW t \in ClearTasks, ClearResolve(t)
      PROVE  \A d \in Devices : ActiveAuto(d)' \subseteq ActiveAuto(d)
  <2> DEFINE copy == [fault |-> clear[t].fault, resolved |-> FALSE]
  <2>1. copy \in Copy /\ Exists(copy.fault) /\ Resolve(copy, Nil)
    BY <1>1 DEF ClearResolve, Base, TypeOK, RefsExist, ClearTask, Copy
  <2> QED BY <2>1, ResolveType DEF Base
<1>2. ASSUME NEW a \in Admins, AdminResolve(a)
      PROVE  \A d \in Devices : ActiveAuto(d)' \subseteq ActiveAuto(d)
  <2>1. held[a] \in Copy /\ Exists(held[a].fault) /\ Resolve(held[a], a)
    BY <1>2 DEF AdminResolve, Base, TypeOK, RefsExist
  <2> QED BY <2>1, ResolveType DEF Base
<1>3. UNCHANGED <<step, device>>
  BY DEF ClearResolve, AdminResolve, schedVars
<1> QED BY <1>1, <1>2, <1>3

LEMMA AutoInit == Init => AutoInv
BY BaseInit DEF Init, AutoInv, CreateGuarded, AtMostOneActiveAuto, ActiveAuto,
                Active, Exists

LEMMA AutoStep == AutoInv /\ [Next]_vars => AutoInv'
<1> SUFFICES ASSUME Base, CreateGuarded, AtMostOneActiveAuto, [Next]_vars
             PROVE  CreateGuarded' /\ AtMostOneActiveAuto'
  BY BaseStep DEF AutoInv
<1> USE DEF schedVars, snapshot
\* A step that opens no auto-offline fault keeps both, if the scheduler does
\* not reach its insert by it.
<1>a. ASSUME \A d \in Devices : ActiveAuto(d)' \subseteq ActiveAuto(d),
             \/ UNCHANGED <<step, device>>
             \/ step' # "create"
      PROVE  CreateGuarded' /\ AtMostOneActiveAuto'
  <2>1. AtMostOneActiveAuto'
    BY <1>a DEF AtMostOneActiveAuto
  <2>2. step' = "create" => device' = device /\ device \in Devices
    BY <1>a DEF Base, TypeOK
  <2>3. CreateGuarded'
    BY <1>a, <2>2 DEF CreateGuarded
  <2> QED BY <2>1, <2>3
<1>b. UNCHANGED faults => \A d \in Devices : ActiveAuto(d)' = ActiveAuto(d)
  BY DEF ActiveAuto, Active, Exists
<1>1. CASE UNCHANGED <<faults, step, device>>
  BY <1>1, <1>a, <1>b
<1>2. CASE \/ \E t \in ClearTasks : ClearResolve(t)
           \/ \E a \in Admins : AdminResolve(a)
  BY <1>2, <1>a, ResolvingStep
<1>3. ASSUME NEW d \in Devices, Report(d)
      PROVE  CreateGuarded' /\ AtMostOneActiveAuto'
  <2>1. PICK f \in FaultId : Insert(f, d, "manual")
    BY <1>3 DEF Report
  <2>2. \A e \in Devices : ActiveAuto(e)' \subseteq ActiveAuto(e)
    BY <2>1, InsertType DEF Base
  <2> QED BY <1>3, <1>a, <2>2 DEF Report
<1>4. CASE \/ \E s \in Stations : JudgeStation(s)
           \/ \E w \in Webcams : JudgeWebcam(w)
  <2>1. UNCHANGED faults /\ step' # "create"
    BY <1>4 DEF JudgeStation, JudgeWebcam, Judged
  <2> QED BY <2>1, <1>a, <1>b
<1>5. CASE LookupFault \/ LookupFails
  <2>1. UNCHANGED faults
    BY <1>5 DEF LookupFault, LookupFails
  <2>2. step' = "create" => ActiveAuto(device) = {} /\ device' = device
    BY <1>5 DEF LookupFault, LookupFails, NextDevice
  <2>3. CreateGuarded'
    BY <2>1, <2>2 DEF CreateGuarded, ActiveAuto, Active, Exists
  <2> QED BY <1>b, <2>1, <2>3 DEF AtMostOneActiveAuto, ActiveAuto, Active, Exists
<1>6. CASE CreateFault
  <2>1. PICK f \in FaultId : Insert(f, device, "auto_offline")
    BY <1>6 DEF CreateFault
  <2>2. device \in Devices /\ ActiveAuto(device) = {} /\ step' = "judge"
    BY <1>6 DEF CreateFault, NextDevice, Base, TypeOK, CreateGuarded
  <2>3. /\ \A e \in Devices : ActiveAuto(e)' \subseteq ActiveAuto(e) \union {f}
        /\ \A e \in Devices : e # device => ActiveAuto(e)' \subseteq ActiveAuto(e)
    BY <2>1, <2>2, InsertType DEF Base
  <2>4. AtMostOneActiveAuto'
    BY <2>2, <2>3 DEF AtMostOneActiveAuto
  <2> QED BY <2>2, <2>4 DEF CreateGuarded
<1>7. CASE SchedulerCrash \/ NodeRestart
  <2>1. UNCHANGED faults /\ step' # "create"
    BY <1>7 DEF SchedulerCrash, NodeRestart, Crash, NextDevice
  <2> QED BY <2>1, <1>a, <1>b
<1>8. [Next]_vars =>
        \/ UNCHANGED <<faults, step, device>>
        \/ \E t \in ClearTasks : ClearResolve(t)
        \/ \E a \in Admins : AdminResolve(a)
        \/ \E d \in Devices : Report(d)
        \/ \E s \in Stations : JudgeStation(s)
        \/ \E w \in Webcams : JudgeWebcam(w)
        \/ LookupFault \/ LookupFails \/ CreateFault
        \/ SchedulerCrash \/ NodeRestart
  BY DEF Next, vars, SchedulerStep, ClearStep, DeviceStep, AdminStep, Tick,
         Commit, TouchAndClear, TouchAndDrop, Touch, ClearRead, Load,
         ToggleActive, Decommission, InstallSensor, CommitRemoved,
         LookupExpires, CheckStations, CheckWebcams, EndCheck
<1> QED BY <1>1, <1>2, <1>3, <1>4, <1>5, <1>6, <1>7, <1>8

\* The scheduler is the only one that opens auto-offline faults and looks
\* before it does: a device has at most one, whoever resolves what meanwhile.
THEOREM OneAutoFault == Spec => []AtMostOneActiveAuto
<1>1. AutoInv => AtMostOneActiveAuto
  BY DEF AutoInv
<1> QED
  BY AutoInit, AutoStep, <1>1, PTL DEF Spec

-----------------------------------------------------------------------------
\* A row was sent by the device, so the device has been silent for no longer
\* than the row is old and its clock was ahead; and a station that the cutoff's queries give as fresh
\* had a row younger than the threshold, or has a sensor only since then.
RowsBoundSilence ==
  \A d \in Devices : rowAge[d] # Nil => quiet[d] <= rowAge[d] + ahead[d]
ColdFreshIsRecent ==
  phase = "stations" =>
    \A s \in instrumented : ColdFresh(s) => quiet[s] < Threshold + lag + ahead[s]

BlindInv == Base /\ RowsBoundSilence /\ ColdFreshIsRecent /\ BoundedBlindSpot

LEMMA BlindInit == Init => BlindInv
BY BaseInit
   DEF Init, BlindInv, RowsBoundSilence, ColdFreshIsRecent, BoundedBlindSpot,
       Devices

LEMMA BlindStep == BlindInv /\ [Next]_vars => BlindInv'
<1> SUFFICES ASSUME Base, RowsBoundSilence, ColdFreshIsRecent,
                    BoundedBlindSpot, [Next]_vars
             PROVE  RowsBoundSilence' /\ ColdFreshIsRecent' /\ BoundedBlindSpot'
  BY BaseStep DEF BlindInv
<1> USE DEF deviceVars, adminVars, schedVars, snapshot
<1>a. /\ rowAge \in [Devices -> RowAges \union {Nil}]
      /\ ahead \in [Devices -> 0..MaxAhead] /\ MaxAhead \in Nat
      /\ heartbeat \in [Devices -> Ages \union {Nil}]
      /\ quiet \in [Devices -> Ages]
      /\ instrumented \subseteq Devices /\ Webcams \subseteq Devices
      /\ lag \in 0..MaxLag /\ MaxLag \in Nat
      /\ Threshold \in Nat /\ Threshold > 0 /\ Ages \subseteq Nat
      /\ RowAges \subseteq Int /\ Nil \notin Int
  BY TimeAssumption, NilAssumption DEF Base, TypeOK, Devices, Ages, RowAges
<1>b. \A d \in Devices :
        /\ quiet[d] \in Nat /\ ahead[d] \in Nat
        /\ rowAge[d] # Nil => rowAge[d] \in Int
        /\ heartbeat[d] # Nil => heartbeat[d] \in Nat
  <2>1. 0..MaxAhead \subseteq Nat
    BY <1>a
  <2> QED BY <1>a, <2>1
<1>1. CASE Tick
  <2>1. \A d \in Devices : quiet'[d] <= MaxAge /\ quiet'[d] <= quiet[d] + 1
    BY <1>1, <1>a, TimeAssumption DEF Tick, Older, Ages
  <2>2. \A d \in Devices :
          /\ heartbeat'[d] = Nil <=> heartbeat[d] = Nil
          /\ heartbeat[d] # Nil =>
               heartbeat'[d] \in {heartbeat[d] + 1, MaxAge}
    BY <1>1, <1>a, TimeAssumption DEF Tick, Older, Ages
  <2>3. \A d \in Devices :
          /\ rowAge'[d] = Nil <=> rowAge[d] = Nil
          /\ rowAge[d] # Nil => rowAge'[d] \in {rowAge[d] + 1, MaxAge}
    BY <1>1, <1>a, TimeAssumption DEF Tick, Older, RowAges
  <2>4. UNCHANGED <<ahead, instrumented, phase, recent, bare>>
        /\ (phase = "stations" => lag' = lag + 1)
    BY <1>1 DEF Tick
  <2>5. RowsBoundSilence'
    <3> SUFFICES ASSUME NEW d \in Devices, rowAge'[d] # Nil
                 PROVE  quiet'[d] <= rowAge'[d] + ahead[d]
      BY <2>4 DEF RowsBoundSilence
    <3>1. quiet[d] <= rowAge[d] + ahead[d]
          /\ rowAge[d] \in Int /\ quiet[d] \in Nat /\ ahead[d] \in Nat
      BY <1>b, <2>3 DEF RowsBoundSilence
    <3>2. quiet'[d] \in Nat
      BY <1>1, <1>a, <3>1 DEF Tick, Older, Ages
    <3> QED BY <2>1, <2>3, <3>1, <3>2, TimeAssumption
  <2>6. ColdFreshIsRecent'
    <3> SUFFICES ASSUME phase = "stations", NEW s \in instrumented, ColdFresh(s)
                 PROVE  quiet'[s] < Threshold + lag' + ahead[s]
      BY <2>4 DEF ColdFreshIsRecent, ColdFresh
    <3>1. quiet[s] < Threshold + lag + ahead[s] /\ s \in Devices
          /\ quiet[s] \in Nat /\ ahead[s] \in Nat
      BY <1>a, <1>b DEF ColdFreshIsRecent
    <3>2. quiet'[s] \in Nat
      BY <1>1, <1>a, <3>1 DEF Tick, Older, Ages
    <3> QED BY <1>a, <2>1, <2>4, <3>1, <3>2
  <2>7. BoundedBlindSpot'
    <3> SUFFICES ASSUME NEW d \in Webcams \union instrumented,
                        heartbeat'[d] # Nil
                 PROVE  quiet'[d] < heartbeat'[d] + Threshold + MaxLag + ahead[d]
      BY <2>4 DEF BoundedBlindSpot
    <3>1. /\ d \in Devices /\ quiet[d] \in Nat /\ heartbeat[d] \in Nat
          /\ ahead[d] \in Nat
          /\ quiet[d] < heartbeat[d] + Threshold + MaxLag + ahead[d]
      BY <1>a, <1>b, <2>2 DEF BoundedBlindSpot
    <3>2. quiet'[d] \in Nat
      BY <1>1, <1>a, <3>1 DEF Tick, Older, Ages
    <3> QED BY <1>a, <2>1, <2>2, <3>1, <3>2, TimeAssumption
  <2> QED BY <2>5, <2>6, <2>7
\* Commit, Touch, Decommission and InstallSensor disturb one device; what
\* they make of its ages keeps both bounds, and the check is not moved.
<1>2. ASSUME UNCHANGED <<phase, lag, recent, bare>>, NEW d \in Devices,
             \A e \in Devices : e # d =>
               /\ rowAge'[e] = rowAge[e] /\ quiet'[e] = quiet[e]
               /\ ahead'[e] = ahead[e]
               /\ heartbeat'[e] = heartbeat[e]
               /\ e \in instrumented' <=> e \in instrumented,
             instrumented' \subseteq Devices,
             rowAge'[d] # Nil => quiet'[d] <= rowAge'[d] + ahead'[d],
             d \in Webcams \union instrumented' =>
               /\ quiet'[d] = 0 /\ ahead'[d] \in Nat
               /\ heartbeat'[d] # Nil => heartbeat'[d] \in Nat
      PROVE  RowsBoundSilence' /\ ColdFreshIsRecent' /\ BoundedBlindSpot'
  <2>1. RowsBoundSilence'
    <3> SUFFICES ASSUME NEW e \in Devices, rowAge'[e] # Nil
                 PROVE  quiet'[e] <= rowAge'[e] + ahead'[e]
      BY DEF RowsBoundSilence
    <3> QED BY <1>2, <1>a, <1>b DEF RowsBoundSilence
  <2>2. ColdFreshIsRecent'
    <3> SUFFICES ASSUME phase = "stations", NEW e \in instrumented', ColdFresh(e)
                 PROVE  quiet'[e] < Threshold + lag + ahead'[e]
      BY <1>2 DEF ColdFreshIsRecent, ColdFresh
    <3> QED BY <1>2, <1>a, <1>b DEF ColdFreshIsRecent
  <2>3. BoundedBlindSpot'
    <3> SUFFICES ASSUME NEW e \in Webcams \union instrumented',
                        heartbeat'[e] # Nil
                 PROVE  quiet'[e] < heartbeat'[e] + Threshold + MaxLag + ahead'[e]
      BY DEF BoundedBlindSpot
    <3>1. CASE e = d
      BY <1>2, <1>a, <3>1
    <3>2. CASE e # d
      BY <1>2, <1>a, <3>2 DEF BoundedBlindSpot
    <3> QED BY <3>1, <3>2
  <2> QED BY <2>1, <2>2, <2>3
<1>3. ASSUME NEW d \in Devices, NEW age \in MeasuredAges, Commit(d, age)
      PROVE  RowsBoundSilence' /\ ColdFreshIsRecent' /\ BoundedBlindSpot'
  <2>1. age \in Int
    BY TimeAssumption
  <2>2. /\ quiet' = [quiet EXCEPT ![d] = 0]
        /\ UNCHANGED <<heartbeat, instrumented, phase, lag, recent, bare>>
        /\ \A e \in Devices : e # d =>
             rowAge'[e] = rowAge[e] /\ ahead'[e] = ahead[e]
        /\ d \in Webcams \union instrumented
    BY <1>3, <1>a DEF Commit
  <2>3. /\ rowAge'[d] \in {rowAge[d], age} /\ rowAge'[d] # Nil
        /\ ahead'[d] = Further(ahead[d], -age)
    BY <1>3, <1>a, <2>1 DEF Commit
  <2>4. ahead'[d] \in Nat /\ ahead[d] <= ahead'[d] /\ -age <= ahead'[d]
    BY <1>b, <2>1, <2>3 DEF Further
  <2>5. quiet'[d] = 0 /\ 0 <= rowAge'[d] + ahead'[d]
    <3> quiet'[d] = 0
      BY <1>a, <2>2
    <3>1. CASE rowAge'[d] = age
      BY <2>1, <2>4, <3>1
    <3>2. CASE rowAge'[d] = rowAge[d]
      <4>1. 0 <= rowAge[d] + ahead[d] /\ rowAge[d] \in Int
        BY <1>b, <2>2, <2>3, <3>2 DEF RowsBoundSilence
      <4> QED BY <1>b, <2>4, <3>2, <4>1
    <3> QED BY <2>3, <3>1, <3>2
  <2> QED BY <1>2, <1>a, <1>b, <2>2, <2>4, <2>5
<1>4. ASSUME NEW d \in Devices,
             TouchAndClear(d) \/ TouchAndDrop(d) \/ CommitRemoved(d)
      PROVE  RowsBoundSilence' /\ ColdFreshIsRecent' /\ BoundedBlindSpot'
  <2>1. /\ quiet' = [quiet EXCEPT ![d] = 0]
        /\ UNCHANGED <<rowAge, ahead, instrumented, phase, lag, recent, bare>>
        /\ \A e \in Devices : e # d => heartbeat'[e] = heartbeat[e]
        /\ heartbeat'[d] \in {heartbeat[d], 0}
    BY <1>4, <1>a DEF TouchAndClear, TouchAndDrop, Touch, CommitRemoved
  <2>2. quiet'[d] = 0 /\ (rowAge[d] # Nil => 0 <= rowAge[d] + ahead[d])
    BY <1>a, <1>b, <2>1 DEF RowsBoundSilence
  <2> QED BY <1>2, <1>a, <1>b, <2>1, <2>2
<1>5. ASSUME NEW s \in Stations, Decommission(s) \/ InstallSensor(s)
      PROVE  RowsBoundSilence' /\ ColdFreshIsRecent' /\ BoundedBlindSpot'
  <2>1. s \in Devices /\ s \notin Webcams
    BY DeviceAssumption DEF Devices
  <2>2. CASE Decommission(s)
    <3>1. /\ instrumented' = instrumented \ {s}
          /\ rowAge' = [rowAge EXCEPT ![s] = Nil]
          /\ ahead' = [ahead EXCEPT ![s] = 0]
          /\ UNCHANGED <<quiet, heartbeat, phase, lag, recent, bare>>
      BY <2>2 DEF Decommission
    <3> QED BY <1>2, <1>a, <2>1, <3>1
  <2>3. CASE InstallSensor(s)
    <3>1. /\ instrumented' = instrumented \union {s}
          /\ quiet' = [quiet EXCEPT ![s] = 0]
          /\ UNCHANGED <<rowAge, ahead, heartbeat, phase, lag, recent, bare>>
      BY <2>3 DEF InstallSensor
    <3>2. quiet'[s] = 0 /\ (rowAge[s] # Nil => 0 <= rowAge[s] + ahead[s])
      BY <1>a, <1>b, <2>1, <3>1 DEF RowsBoundSilence
    <3> QED BY <1>2, <1>a, <1>b, <2>1, <3>1, <3>2
  <2> QED BY <1>5, <2>2, <2>3
<1>6. CASE CheckStations
  <2>1. /\ UNCHANGED <<rowAge, ahead, quiet, heartbeat, instrumented>>
        /\ recent' = RecentlyMeasured /\ bare' = Stations \ instrumented
        /\ lag' = 0
    BY <1>6 DEF CheckStations
  <2>2. \A s \in instrumented : s \in recent' \union bare' =>
          quiet[s] < Threshold + ahead[s]
    <3> SUFFICES ASSUME NEW s \in instrumented, s \in RecentlyMeasured
                 PROVE  quiet[s] < Threshold + ahead[s]
      BY <1>a, <1>b, <2>1
    <3>1. /\ rowAge[s] # Nil /\ rowAge[s] < Threshold
          /\ quiet[s] <= rowAge[s] + ahead[s]
      BY <1>a DEF RecentlyMeasured, RowsBoundSilence
    <3> QED BY <1>a, <1>b, <3>1
  <2>3. ColdFreshIsRecent'
    BY <1>a, <2>1, <2>2 DEF ColdFreshIsRecent, ColdFresh
  <2> QED BY <2>1, <2>3 DEF RowsBoundSilence, BoundedBlindSpot
<1>7. ASSUME NEW s \in Stations, JudgeStation(s)
      PROVE  RowsBoundSilence' /\ ColdFreshIsRecent' /\ BoundedBlindSpot'
  <2>1. \A d \in Devices : heartbeat'[d] # heartbeat[d] =>
          d = s /\ ColdFresh(s) /\ heartbeat'[d] = 0 /\ phase = "stations"
    BY <1>7, <1>a DEF JudgeStation
  <2>2. UNCHANGED <<rowAge, ahead, quiet, instrumented, phase, lag, recent, bare>>
    BY <1>7 DEF JudgeStation, Judged
  <2>3. BoundedBlindSpot'
    <3> SUFFICES ASSUME NEW d \in Webcams \union instrumented,
                        heartbeat'[d] # Nil
                 PROVE  quiet[d] < heartbeat'[d] + Threshold + MaxLag + ahead[d]
      BY <2>2 DEF BoundedBlindSpot
    <3>1. CASE heartbeat'[d] = heartbeat[d]
      BY <3>1 DEF BoundedBlindSpot
    <3>2. CASE heartbeat'[d] # heartbeat[d]
      <4>1. d = s /\ ColdFresh(s) /\ heartbeat'[d] = 0 /\ phase = "stations"
        BY <1>a, <2>1, <3>2
      <4>2. d \in instrumented
        BY <4>1, DeviceAssumption
      <4>3. quiet[d] < Threshold + lag + ahead[d]
        BY <4>1, <4>2 DEF ColdFreshIsRecent
      <4> QED BY <1>a, <1>b, <4>1, <4>3
    <3> QED BY <3>1, <3>2
  <2> QED BY <2>2, <2>3 DEF RowsBoundSilence, ColdFreshIsRecent, ColdFresh
<1>8. CASE CheckWebcams \/ EndCheck
  BY <1>8 DEF CheckWebcams, EndCheck, RowsBoundSilence, ColdFreshIsRecent,
              BoundedBlindSpot
<1>9. CASE SchedulerCrash \/ NodeRestart
  <2>1. /\ UNCHANGED <<rowAge, ahead, quiet, instrumented>>
        /\ phase' = "idle"
    BY <1>9 DEF SchedulerCrash, NodeRestart, Crash
  <2>2. \A d \in Devices :
          heartbeat'[d] \in {Nil, heartbeat[d]}
            \/ (heartbeat'[d] = 0 /\ d \in RecentlyMeasured)
    BY <1>9, <1>a DEF SchedulerCrash, NodeRestart, Seeded
  <2>3. ASSUME NEW d \in RecentlyMeasured
        PROVE  quiet[d] < Threshold + ahead[d]
    <3>1. /\ d \in instrumented /\ rowAge[d] # Nil /\ rowAge[d] < Threshold
          /\ quiet[d] <= rowAge[d] + ahead[d]
      BY <1>a DEF RecentlyMeasured, RowsBoundSilence
    <3> QED BY <1>a, <1>b, <3>1
  <2>4. ASSUME NEW d \in Webcams \union instrumented, heartbeat'[d] # Nil
        PROVE  quiet[d] < heartbeat'[d] + Threshold + MaxLag + ahead[d]
    <3>1. CASE heartbeat'[d] = heartbeat[d]
      BY <2>4, <3>1 DEF BoundedBlindSpot
    <3>2. CASE heartbeat'[d] = 0 /\ d \in RecentlyMeasured
      BY <1>a, <1>b, <2>3, <3>2
    <3> QED BY <1>a, <2>2, <2>4, <3>1, <3>2
  <2> QED
    BY <2>1, <2>4 DEF RowsBoundSilence, ColdFreshIsRecent, BoundedBlindSpot
<1>10. CASE UNCHANGED <<rowAge, ahead, quiet, heartbeat, instrumented, phase, lag,
                       recent, bare>>
  BY <1>10 DEF RowsBoundSilence, ColdFreshIsRecent, ColdFresh, BoundedBlindSpot
<1>11. [Next]_vars =>
         \/ Tick
         \/ \E d \in Devices, age \in MeasuredAges : Commit(d, age)
         \/ \E d \in Devices :
              TouchAndClear(d) \/ TouchAndDrop(d) \/ CommitRemoved(d)
         \/ \E s \in Stations : Decommission(s) \/ InstallSensor(s)
         \/ CheckStations \/ CheckWebcams \/ EndCheck
         \/ \E s \in Stations : JudgeStation(s)
         \/ SchedulerCrash \/ NodeRestart
         \/ UNCHANGED <<rowAge, ahead, quiet, heartbeat, instrumented, phase, lag,
                        recent, bare>>
  BY DEF Next, vars, SchedulerStep, ClearStep, DeviceStep, AdminStep,
         ClearRead, ClearResolve, Load, AdminResolve, Report, ToggleActive,
         JudgeWebcam, Judged, LookupFault, LookupFails, CreateFault,
         LookupExpires, Devices
<1> HIDE DEF deviceVars, adminVars, schedVars, snapshot
<1> QED BY <1>1, <1>3, <1>4, <1>5, <1>6, <1>7, <1>8, <1>9, <1>10, <1>11

\* Warming and seeding from the rows delay the discovery of a silent device by
\* less than one threshold and one check, however often they happen.
THEOREM BlindSpot == Spec => []BoundedBlindSpot
<1>1. BlindInv => BoundedBlindSpot
  BY DEF BlindInv
<1> QED
  BY BlindInit, BlindStep, <1>1, PTL DEF Spec

-----------------------------------------------------------------------------
\* What a clear task is about to resolve is an auto-offline fault: its row is
\* not reused for another one while the task refers to it.
ClearsAuto ==
  \A t \in ClearTasks :
    (clear[t] # Nil /\ clear[t].fault # Nil)
      => faults[clear[t].fault].type = "auto_offline"

ManualInv == Base /\ ClearsAuto

ManualKept ==
  \A f \in FaultId :
    (/\ Active(f) /\ faults[f].type = "manual"
     /\ faults'[f].type = "manual" /\ faults'[f].resolved)
    => faults'[f].by \in Admins

\* A resolution changes no type and one row at most, which gets a name.
LEMMA ResolveRow ==
  ASSUME TypeOK, NEW copy \in Copy, NEW by \in Admins \union {Nil},
         Exists(copy.fault), Resolve(copy, by)
  PROVE  /\ \A f \in FaultId : Exists(f) => faults'[f].type = faults[f].type
         /\ \A f \in FaultId :
              faults'[f] = faults[f] \/ (f = copy.fault /\ faults'[f].by = by)
<1>1. CASE copy.resolved
  BY <1>1 DEF Resolve
<1>2. CASE ~copy.resolved
  <2> DEFINE g == copy.fault
             row == [faults[g] EXCEPT !.resolved = TRUE, !.by = by]
  <2>1. g \in FaultId /\ faults[g] \in Fault
    BY DEF TypeOK, Copy, Exists
  <2>2. row.type = faults[g].type /\ row.by = by
    BY <2>1 DEF Fault
  <2>3. faults' = [faults EXCEPT ![g] = row]
    BY <1>2, <2>1 DEF Resolve, TypeOK, Fault
  <2> HIDE DEF g, row
  <2>4. faults'[g] = row /\ \A f \in FaultId : f # g => faults'[f] = faults[f]
    BY <2>1, <2>3 DEF TypeOK
  <2> QED BY <2>2, <2>4 DEF g
<1> QED BY <1>1, <1>2

\* A new fault is written over a row that is not active and that no task
\* refers to.
LEMMA InsertRow ==
  ASSUME TypeOK, NEW f \in FaultId, NEW d \in Devices,
         NEW type \in {"auto_offline", "manual"}, Fresh(f), Insert(f, d, type)
  PROVE  /\ \A g \in FaultId : Active(g) => faults'[g] = faults[g]
         /\ \A t \in ClearTasks : (clear[t] # Nil /\ clear[t].fault # Nil) =>
              faults'[clear[t].fault] = faults[clear[t].fault]
<1>1. \A g \in FaultId : g # f => faults'[g] = faults[g]
  BY DEF Insert, TypeOK
<1>2. \A t \in ClearTasks : (clear[t] # Nil /\ clear[t].fault # Nil) =>
        clear[t].fault \in FaultId /\ clear[t].fault # f
  BY DEF Fresh, Unreferenced, TypeOK, ClearTask
<1> QED BY <1>1, <1>2 DEF Fresh

LEMMA ManualInit == Init => ManualInv
BY BaseInit DEF Init, ManualInv, ClearsAuto

LEMMA ManualStep == ManualInv /\ [Next]_vars => ManualInv' /\ ManualKept
<1> SUFFICES ASSUME Base, ClearsAuto, [Next]_vars
             PROVE  ClearsAuto' /\ ManualKept
  BY BaseStep DEF ManualInv
<1>a. TypeOK /\ RefsExist
  BY DEF Base
<1>1. CASE UNCHANGED <<faults, clear>>
  BY <1>1 DEF ClearsAuto, ManualKept, Active
<1>2. ASSUME NEW d \in Devices, TouchAndClear(d)
      PROVE  ClearsAuto' /\ ManualKept
  <2>1. PICK t \in ClearTasks :
          clear' = [clear EXCEPT ![t] = [subject |-> d, fault |-> Nil]]
    BY <1>2 DEF TouchAndClear
  <2>2. \A u \in ClearTasks :
          (clear'[u] # Nil /\ clear'[u].fault # Nil) => clear'[u] = clear[u]
    BY <1>a, <2>1 DEF TypeOK
  <2> QED
    BY <1>2, <2>2 DEF TouchAndClear, Touch, ClearsAuto, ManualKept, Active
<1>3. ASSUME NEW t \in ClearTasks, ClearRead(t)
      PROVE  ClearsAuto' /\ ManualKept
  <2>1. UNCHANGED faults
    BY <1>3 DEF ClearRead
  <2>2. CASE ActiveAuto(clear[t].subject) = {}
    BY <1>3, <1>a, <2>1, <2>2 DEF ClearRead, ClearsAuto, ManualKept, Active, TypeOK
  <2>3. CASE ActiveAuto(clear[t].subject) # {}
    <3>1. PICK f \in ActiveAuto(clear[t].subject) :
            clear' = [clear EXCEPT ![t].fault = f]
      BY <1>3, <2>3 DEF ClearRead
    <3>2. faults[f].type = "auto_offline" /\ clear[t] \in ClearTask
      BY <1>3, <1>a DEF ActiveAuto, ClearRead, TypeOK
    <3>3. \A u \in ClearTasks : clear'[u] = clear[u] \/ clear'[u].fault = f
      BY <1>a, <3>1, <3>2 DEF TypeOK, ClearTask
    <3> QED BY <2>1, <3>2, <3>3 DEF ClearsAuto, ManualKept, Active
  <2> QED BY <2>2, <2>3
<1>4. ASSUME NEW t \in ClearTasks, ClearResolve(t)
      PROVE  ClearsAuto' /\ ManualKept
  <2> DEFINE copy == [fault |-> clear[t].fault, resolved |-> FALSE]
  <2>1. copy \in Copy /\ Exists(copy.fault) /\ Resolve(copy, Nil)
        /\ faults[copy.fault].type = "auto_offline"
    BY <1>4, <1>a DEF ClearResolve, TypeOK, RefsExist, ClearTask, Copy, ClearsAuto
  <2>2. /\ \A f \in FaultId : Exists(f) => faults'[f].type = faults[f].type
        /\ \A f \in FaultId :
             faults'[f] = faults[f] \/ (f = copy.fault /\ faults'[f].by = Nil)
    BY <1>a, <2>1, ResolveRow
  <2>3. \A u \in ClearTasks : clear'[u] # Nil => clear'[u] = clear[u]
    BY <1>4, <1>a DEF ClearResolve, TypeOK
  <2>4. ClearsAuto'
    BY <1>a, <2>2, <2>3 DEF ClearsAuto, RefsExist, TypeOK, ClearTask
  <2>5. ManualKept
    BY <2>1, <2>2 DEF ManualKept, Active
  <2> QED BY <2>4, <2>5
<1>5. ASSUME NEW a \in Admins, AdminResolve(a)
      PROVE  ClearsAuto' /\ ManualKept
  <2>1. held[a] \in Copy /\ Exists(held[a].fault) /\ Resolve(held[a], a)
    BY <1>5, <1>a DEF AdminResolve, TypeOK, RefsExist
  <2>2. /\ \A f \in FaultId : Exists(f) => faults'[f].type = faults[f].type
        /\ \A f \in FaultId :
             faults'[f] = faults[f] \/ (f = held[a].fault /\ faults'[f].by = a)
    BY <1>a, <2>1, ResolveRow
  <2>3. clear' = clear
    BY <1>5 DEF AdminResolve
  <2>4. ClearsAuto'
    BY <1>a, <2>2, <2>3 DEF ClearsAuto, RefsExist, TypeOK, ClearTask
  <2>5. ManualKept
    BY <2>2 DEF ManualKept, Active
  <2> QED BY <2>4, <2>5
<1>6. CASE \/ \E d \in Devices : Report(d)
           \/ CreateFault
  <2>1. PICK f \in FaultId, d \in Devices, type \in {"auto_offline", "manual"} :
          Fresh(f) /\ Insert(f, d, type)
    <3>1. ASSUME NEW d \in Devices, Report(d)
          PROVE  \E f \in FaultId : Fresh(f) /\ Insert(f, d, "manual")
      BY <3>1 DEF Report
    <3>2. ASSUME CreateFault
          PROVE  /\ device \in Devices
                 /\ \E f \in FaultId : Fresh(f) /\ Insert(f, device, "auto_offline")
      BY <1>a, <3>2 DEF CreateFault, TypeOK
    <3> QED BY <1>6, <3>1, <3>2
  <2>2. /\ \A g \in FaultId : Active(g) => faults'[g] = faults[g]
        /\ \A t \in ClearTasks : (clear[t] # Nil /\ clear[t].fault # Nil) =>
             faults'[clear[t].fault] = faults[clear[t].fault]
    BY <1>a, <2>1, InsertRow
  <2>3. clear' = clear
    BY <1>6 DEF Report, CreateFault
  <2>4. ClearsAuto'
    BY <2>2, <2>3 DEF ClearsAuto
  <2>5. ManualKept
    BY <2>2 DEF ManualKept, Active
  <2> QED BY <2>4, <2>5
<1>7. CASE NodeRestart
  BY <1>7 DEF NodeRestart, Crash, ClearsAuto, ManualKept, Active
<1>8. [Next]_vars =>
        \/ UNCHANGED <<faults, clear>>
        \/ \E d \in Devices : TouchAndClear(d) \/ Report(d)
        \/ \E t \in ClearTasks : ClearRead(t) \/ ClearResolve(t)
        \/ \E a \in Admins : AdminResolve(a)
        \/ CreateFault \/ NodeRestart
  BY DEF Next, vars, SchedulerStep, ClearStep, DeviceStep, AdminStep, Tick,
         Commit, CommitRemoved, LookupExpires, TouchAndDrop, Touch, Load,
         ToggleActive, Decommission, InstallSensor, LookupFails, CheckStations, CheckWebcams, EndCheck, JudgeStation,
         JudgeWebcam, Judged, LookupFault, SchedulerCrash, Crash
<1> QED BY <1>1, <1>2, <1>3, <1>4, <1>5, <1>6, <1>7, <1>8

\* A fault that a person reported is resolved by an admin and by nobody else,
\* although rows are read, resolved and reused by tasks and pages at any time.
THEOREM ManualFaults == Spec => ManualResolvedByAdmin
<1>1. ManualInv /\ [Next]_vars => [ManualKept]_vars
  BY ManualStep
<1> QED
  BY ManualInit, ManualStep, <1>1, PTL DEF Spec, ManualResolvedByAdmin, ManualKept
=============================================================================
