---------------------------- MODULE SshControlProofs ---------------------------
(***************************************************************************)
(* For any number of monitors, command processes, addresses and process    *)
(* ids: the controller's types; that the switch loses both of its markers  *)
(* only where an enable and a disable overlap, whatever else runs and      *)
(* whenever the power fails; and, while only the switch's own commands are *)
(* used, that the ip file tells the address of the Dropbear that the pid   *)
(* file names.                                                             *)
(***************************************************************************)
EXTENDS SshControl, TLAPS

\* Where a monitor's stop_server returns to.
MonitorReturns == {"sleep", "start", "trap_remove", "exit_remove"}

ServerTypes ==
  /\ server_pid \in Pids \cup {None}
  /\ bound_ip \in Addresses \cup {None}
  /\ monitor_pid \in Monitors \cup {None}
  /\ server \in [Pids -> [state : {"dead", "starting", "up", "dying"},
                          ip : Addresses \cup {None}]]

SwitchTypes ==
  /\ enabled \in BOOLEAN /\ disabled \in BOOLEAN /\ key \in BOOLEAN
  /\ developerOff \in BOOLEAN /\ card \in BOOLEAN /\ overlapped \in BOOLEAN
  /\ restarting \in [Clis -> BOOLEAN]
  /\ address \in Addresses \cup {None}

PointOK(q) ==
  /\ IF q \in Clis THEN pc[q] \in CliPoints
     ELSE pc[q] \in {"none", "spawned"} \cup LoopPoints \cup TrapPoints
  /\ IF q \in Clis THEN back[q] \in {"idle", "forget"}
     ELSE back[q] \in {"idle"} \cup MonitorReturns
  /\ q \notin Clis => ((pc[q] \in StopPoints) <=> (back[q] # "idle"))
  /\ victim[q] \in Pids \cup {None}
  /\ (pc[q] = "stop_wait") <=> (victim[q] # None)

ProcTypes ==
  /\ pc = [q \in Procs |-> pc[q]]
  /\ back = [q \in Procs |-> back[q]]
  /\ victim = [q \in Procs |-> victim[q]]
  /\ \A q \in Procs : PointOK(q)
  /\ desired_ip \in [Monitors -> Addresses \cup {None}]
  /\ term \in [Monitors -> BOOLEAN]

SshInv == SwitchTypes /\ ServerTypes /\ ProcTypes

-------------------------------------------------------------------------------
LEMMA Names == /\ \A m \in Monitors : m \notin Clis /\ m # None /\ m \in Procs
               /\ \A q \in Clis : q \in Procs /\ \A m \in Monitors : m # q
               /\ Boot \in Clis
               /\ \A p \in Pids : p # None
               /\ \A a \in Addresses : a # None
  BY NamesAssumption, BoundsAssumption DEF Procs, Pids

LEMMA InvTypes == SshInv => TypeOK
<1> SUFFICES ASSUME SshInv PROVE TypeOK
  OBVIOUS
<1>1. {enabled, disabled, key, developerOff, card, overlapped} \subseteq BOOLEAN
      /\ restarting \in [Clis -> BOOLEAN]
      /\ address \in Addresses \cup {None}
  BY DEF SshInv, SwitchTypes
<1>2. \A q \in Procs : PointOK(q)
  BY DEF SshInv, ProcTypes
<1>3. ASSUME NEW m \in Monitors
      PROVE  /\ pc[m] \in {"none", "spawned"} \cup LoopPoints \cup TrapPoints
             /\ (pc[m] \in StopPoints) = (back[m] # "idle")
  BY <1>2, Names DEF PointOK
<1>4. \A q \in Clis : pc[q] \in CliPoints /\ back[q] \in {"idle", "forget"}
  BY <1>2, Names DEF PointOK
<1>5. \A q \in Procs : /\ victim[q] \in Pids \cup {None}
                       /\ (pc[q] = "stop_wait") = (victim[q] # None)
  BY <1>2 DEF PointOK
<1> QED
  BY <1>1, <1>3, <1>4, <1>5 DEF TypeOK, SshInv, ServerTypes, ProcTypes

LEMMA SshInit == Init => SshInv
<1> SUFFICES ASSUME Init PROVE SshInv
  OBVIOUS
<1>1. SwitchTypes
  BY DEF Init, SwitchTypes
<1>2. ServerTypes
  BY DEF Init, ServerTypes, NoServers, Dead
<1>3. \A q \in Procs : PointOK(q)
  BY Names DEF Init, BootPc, PointOK, CliPoints, StopPoints, Procs
<1>4. ProcTypes
  BY <1>3 DEF Init, BootPc, ProcTypes
<1> QED
  BY <1>1, <1>2, <1>4 DEF SshInv

\* One process q moves to another point.
LEMMA Moves ==
  ASSUME SshInv, SwitchTypes', ServerTypes', NEW q \in Procs,
         pc' = [pc EXCEPT ![q] = pc'[q]],
         back' = [back EXCEPT ![q] = back'[q]],
         victim' = [victim EXCEPT ![q] = victim'[q]],
         PointOK(q)',
         desired_ip' \in [Monitors -> Addresses \cup {None}],
         term' \in [Monitors -> BOOLEAN]
  PROVE  SshInv'
<1>1. ASSUME NEW r \in Procs, r # q PROVE PointOK(r)'
  BY <1>1 DEF SshInv, ProcTypes, PointOK
<1>2. ProcTypes'
  BY <1>1 DEF SshInv, ProcTypes
<1> QED
  BY <1>2 DEF SshInv

\* A monitor moves, and leaves the switch alone.
LEMMA MonitorMoves ==
  ASSUME SshInv, ServerTypes', NEW m \in Monitors, key' \in BOOLEAN,
         UNCHANGED <<enabled, disabled, overlapped, envVars, restarting>>,
         pc' = [pc EXCEPT ![m] = pc'[m]],
         back' = [back EXCEPT ![m] = back'[m]],
         victim' = [victim EXCEPT ![m] = victim'[m]],
         PointOK(m)',
         desired_ip' \in [Monitors -> Addresses \cup {None}],
         term' \in [Monitors -> BOOLEAN]
  PROVE  SshInv'
<1>1. SwitchTypes'
  BY DEF SshInv, SwitchTypes, envVars
<1> QED
  BY <1>1, Moves, Names

LEMMA StopKeeps ==
  ASSUME SshInv, NEW q \in Procs, StopServer(q)
  PROVE  SshInv'
<1> USE DEF SshInv, SwitchTypes, ServerTypes, ProcTypes
<1>0. SwitchTypes' /\ desired_ip' \in [Monitors -> Addresses \cup {None}]
      /\ term' \in [Monitors -> BOOLEAN]
  BY DEF StopServer, StopRead, StopWait, StopRemove, markerVars, envVars
<1>1. CASE StopRead(q)
  <2>1. ServerTypes'
    BY <1>1 DEF StopRead, Alive
  <2>2. /\ pc' = [pc EXCEPT ![q] = pc'[q]]
        /\ back' = [back EXCEPT ![q] = back'[q]]
        /\ victim' = [victim EXCEPT ![q] = victim'[q]]
    BY <1>1 DEF StopRead, Goto
  <2>3. PointOK(q)'
    BY <1>1, Names DEF StopRead, Goto, PointOK, CliPoints, StopPoints, LoopPoints
  <2> QED
    BY <1>0, <2>1, <2>2, <2>3, Moves
<1>2. CASE StopWait(q)
  <2>1. ServerTypes'
    BY <1>2 DEF StopWait, Dead, PointOK
  <2>2. /\ pc' = [pc EXCEPT ![q] = pc'[q]]
        /\ back' = [back EXCEPT ![q] = back'[q]]
        /\ victim' = [victim EXCEPT ![q] = victim'[q]]
    BY <1>2 DEF StopWait, Goto
  <2>3. PointOK(q)'
    BY <1>2, Names DEF StopWait, Goto, PointOK, CliPoints, StopPoints, LoopPoints
  <2> QED
    BY <1>0, <2>1, <2>2, <2>3, Moves
<1>3. CASE StopRemove(q)
  <2>1. ServerTypes'
    BY <1>3 DEF StopRemove
  <2>2. /\ pc' = [pc EXCEPT ![q] = pc'[q]]
        /\ back' = [back EXCEPT ![q] = back'[q]]
        /\ victim' = [victim EXCEPT ![q] = victim'[q]]
    BY <1>3 DEF StopRemove, Goto
  <2>3. PointOK(q)'
    <3>1. PointOK(q) /\ pc[q] = "stop_remove"
      BY <1>3 DEF StopRemove
    <3>2. pc'[q] = back[q] /\ back'[q] = "idle" /\ victim'[q] = victim[q]
      BY <1>3 DEF StopRemove, Goto
    <3>3. CASE q \in Clis
      BY <3>1, <3>2, <3>3 DEF PointOK, CliPoints, StopPoints
    <3>4. CASE q \notin Clis
      BY <3>1, <3>2, <3>4 DEF PointOK, StopPoints, LoopPoints, TrapPoints, MonitorReturns
    <3> QED
      BY <3>3, <3>4
  <2> QED
    BY <1>0, <2>1, <2>2, <2>3, Moves
<1> QED
  BY <1>1, <1>2, <1>3 DEF StopServer

LEMMA ServerKeeps ==
  ASSUME SshInv, NEW p \in Pids, ServerWritesPid(p) \/ ServerEnds(p)
  PROVE  SshInv'
<1>1. ServerTypes'
  BY DEF ServerWritesPid, ServerEnds, SshInv, ServerTypes, Dead
<1>2. UNCHANGED <<markerVars, envVars, procVars>>
  BY DEF ServerWritesPid, ServerEnds
<1>3. \A q \in Procs : PointOK(q)'
  BY <1>2 DEF SshInv, ProcTypes, PointOK, procVars
<1>4. SwitchTypes'
  BY <1>2 DEF SshInv, SwitchTypes, markerVars, envVars, procVars
<1>5. ProcTypes'
  BY <1>2, <1>3 DEF SshInv, ProcTypes, procVars
<1> QED
  BY <1>1, <1>4, <1>5 DEF SshInv

LEMMA DesiredType == SshInv => Desired \in Addresses \cup {None}
  BY DEF Desired, SshInv, SwitchTypes

LEMMA MonitorKeeps ==
  ASSUME SshInv, NEW m \in Monitors, MonitorStep(m)
  PROVE  SshInv'
<1> USE DEF SshInv, SwitchTypes, ServerTypes, ProcTypes
<1>0. m \in Procs /\ m \notin Clis /\ m # None /\ PointOK(m)
  BY Names
<1>1. CASE MonitorBegins(m)
  <2>1. ServerTypes'
    BY <1>1 DEF MonitorBegins
  <2>2. PointOK(m)'
    BY <1>0, <1>1 DEF MonitorBegins, Goto, PointOK, StopPoints, LoopPoints
  <2> QED
    BY <1>1, <2>1, <2>2, MonitorMoves DEF MonitorBegins, Goto, markerVars
<1>2. CASE MonitorEvaluates(m)
  <2>1. ServerTypes' /\ desired_ip' \in [Monitors -> Addresses \cup {None}]
    BY <1>2, DesiredType DEF MonitorEvaluates, runVars
  <2>2. PointOK(m)'
    BY <1>0, <1>2 DEF MonitorEvaluates, InLoop, Goto, PointOK, StopPoints, LoopPoints
  <2> QED
    BY <1>2, <2>1, <2>2, MonitorMoves DEF MonitorEvaluates, Goto, markerVars
<1>3. CASE MonitorDecides(m)
  <2>1. ServerTypes'
    BY <1>3 DEF MonitorDecides, runVars
  <2>2. PointOK(m)' /\ pc' = [pc EXCEPT ![m] = pc'[m]] /\ back' = [back EXCEPT ![m] = back'[m]]
    BY <1>0, <1>3
    DEF MonitorDecides, InLoop, Goto, CallStop, PointOK, StopPoints, LoopPoints,
        MonitorReturns
  <2> QED
    BY <1>3, <2>1, <2>2, MonitorMoves DEF MonitorDecides, markerVars
<1>4. CASE MonitorStarts(m)
  <2>1. ServerTypes'
    <3>1. desired_ip[m] \in Addresses \cup {None}
      OBVIOUS
    <3>2. CASE UNCHANGED server
      BY <1>4, <3>2 DEF MonitorStarts
    <3>3. CASE /\ FreePids # {}
               /\ server' = [server EXCEPT ![CHOOSE p \in FreePids : TRUE] =
                              [state |-> "starting", ip |-> desired_ip[m]]]
      <4>1. (CHOOSE p \in FreePids : TRUE) \in Pids
        BY <3>3 DEF FreePids
      <4> QED
        BY <1>4, <3>1, <3>3, <4>1 DEF MonitorStarts
    <3> QED
      BY <1>4, <3>2, <3>3 DEF MonitorStarts
  <2>2. PointOK(m)'
    BY <1>0, <1>4 DEF MonitorStarts, InLoop, Goto, PointOK, StopPoints, LoopPoints
  <2> QED
    BY <1>4, <2>1, <2>2, MonitorMoves DEF MonitorStarts, Goto
<1>5. CASE KeyFails(m)
  <2>1. ServerTypes'
    BY <1>5 DEF KeyFails, runVars
  <2>2. PointOK(m)'
    BY <1>0, <1>5 DEF KeyFails, InLoop, Goto, PointOK, StopPoints, LoopPoints
  <2> QED
    BY <1>5, <2>1, <2>2, MonitorMoves DEF KeyFails, Goto, markerVars
<1>6. CASE MonitorNotesAddress(m)
  <2>1. ServerTypes'
    BY <1>6 DEF MonitorNotesAddress
  <2>2. PointOK(m)'
    BY <1>0, <1>6 DEF MonitorNotesAddress, InLoop, Goto, PointOK, StopPoints, LoopPoints
  <2> QED
    BY <1>6, <2>1, <2>2, MonitorMoves DEF MonitorNotesAddress, Goto, markerVars
<1>7. CASE MonitorWakes(m)
  <2>1. ServerTypes'
    BY <1>7 DEF MonitorWakes, runVars
  <2>2. PointOK(m)'
    BY <1>0, <1>7 DEF MonitorWakes, InLoop, Goto, PointOK, StopPoints, LoopPoints
  <2> QED
    BY <1>7, <2>1, <2>2, MonitorMoves DEF MonitorWakes, Goto, markerVars
<1>8. CASE MonitorTraps(m)
  <2>1. ServerTypes'
    BY <1>8 DEF MonitorTraps, runVars
  <2>2. PointOK(m)'
    BY <1>0, <1>8
    DEF MonitorTraps, CallStop, Goto, PointOK, StopPoints, LoopPoints, MonitorReturns
  <2> QED
    BY <1>8, <2>1, <2>2, MonitorMoves DEF MonitorTraps, CallStop, Goto, markerVars
<1>9. CASE TrapRemoves(m)
  <2>1. ServerTypes'
    BY <1>9 DEF TrapRemoves
  <2>2. PointOK(m)'
    BY <1>0, <1>9
    DEF TrapRemoves, CallStop, Goto, PointOK, StopPoints, LoopPoints, MonitorReturns
  <2> QED
    BY <1>9, <2>1, <2>2, MonitorMoves DEF TrapRemoves, CallStop, Goto, markerVars
<1>10. CASE MonitorExits(m)
  <2>1. ServerTypes'
    BY <1>10 DEF MonitorExits
  <2>2. PointOK(m)'
    BY <1>0, <1>10 DEF MonitorExits, Goto, PointOK, StopPoints
  <2> QED
    BY <1>10, <2>1, <2>2, MonitorMoves DEF MonitorExits, Goto, markerVars
<1> HIDE DEF SshInv, SwitchTypes, ServerTypes, ProcTypes
<1>11. CASE StopServer(m)
  BY <1>0, <1>11, StopKeeps
<1> QED
  BY <1>1, <1>2, <1>3, <1>4, <1>5, <1>6, <1>7, <1>8, <1>9, <1>10, <1>11 DEF MonitorStep

\* A command's process moves.
LEMMA CliMoves ==
  ASSUME SshInv, SwitchTypes', ServerTypes', NEW q \in Clis,
         pc' = [pc EXCEPT ![q] = pc'[q]],
         back' = [back EXCEPT ![q] = back'[q]],
         PointOK(q)', UNCHANGED <<victim, desired_ip>>,
         term' \in [Monitors -> BOOLEAN]
  PROVE  SshInv'
<1>1. victim' = [victim EXCEPT ![q] = victim'[q]]
  BY Names DEF SshInv, ProcTypes
<1> QED
  BY <1>1, Moves, Names DEF SshInv, ProcTypes

LEMMA CommandKeeps ==
  ASSUME SshInv, NEW q \in Clis, NEW c \in Commands, Command(q, c)
  PROVE  SshInv'
<1> USE DEF SshInv, SwitchTypes, ServerTypes, ProcTypes
<1>0. q \in Procs /\ PointOK(q)
  BY Names
<1>1. pc'[q] \in {"off_1", "on_1", "start_1", "stop_1"}
  BY <1>0, CommandsAssumption DEF Command, Goto
<1>2. SwitchTypes' /\ ServerTypes'
  BY DEF Command, markerVars, envVars, runVars
<1>3. PointOK(q)'
  BY <1>0, <1>1 DEF Command, PointOK, CliPoints, StopPoints
<1>4. pc' = [pc EXCEPT ![q] = pc'[q]]
  BY <1>0 DEF Command, Goto
<1> QED
  BY <1>2, <1>3, <1>4, CliMoves DEF Command

\* What the history variable notes is true or false.
LEMMA NoteTypes == overlapped \in BOOLEAN /\ NoteOverlap => overlapped' \in BOOLEAN
  BY DEF NoteOverlap, Overlap

LEMMA CliKeeps ==
  ASSUME SshInv, NEW q \in Clis, CliStep(q)
  PROVE  SshInv'
<1> USE DEF SshInv, SwitchTypes, ServerTypes, ProcTypes
<1>0. q \in Procs /\ PointOK(q) /\ \A m \in Monitors : m # q /\ m \notin Clis
  BY Names
<1>1. CASE \/ EnableTouches(q) \/ EnableRemoves(q) \/ DisableTouches(q) \/ TouchFails(q)
           \/ StartLooks(q) \/ StartMigrates(q) \/ ForgetMonitor(q)
  <2>1. /\ pc' = [pc EXCEPT ![q] = pc'[q]]
        /\ pc'[q] \in {"on_2", "idle", "off_2", "migrate", "start_1", "start_2"}
        /\ pc[q] \in {"on_1", "on_2", "off_1", "start_1", "migrate", "forget"}
        /\ UNCHANGED <<back, victim, desired_ip, term, envVars, key>>
    BY <1>0, <1>1
    DEF EnableTouches, EnableRemoves, DisableTouches, TouchFails, StartLooks,
        StartMigrates, ForgetMonitor, Goto, markerVars
  <2>2. SwitchTypes' /\ ServerTypes'
    BY <1>1, NoteTypes
    DEF EnableTouches, EnableRemoves, DisableTouches, TouchFails, StartLooks,
        StartMigrates, ForgetMonitor, markerVars, envVars, runVars
  <2>3. PointOK(q)'
    BY <1>0, <2>1 DEF PointOK, CliPoints, StopPoints
  <2> QED
    BY <2>1, <2>2, <2>3, CliMoves
<1>2. CASE DisableRemoves(q)
  <2>1. SwitchTypes' /\ ServerTypes' /\ PointOK(q)'
    BY <1>0, <1>2, NoteTypes
    DEF DisableRemoves, CallStop, Goto, envVars, runVars, PointOK, CliPoints, StopPoints
  <2> QED
    BY <1>2, <2>1, CliMoves DEF DisableRemoves, CallStop, Goto
<1>3. CASE StartSpawns(q)
  <2>1. SwitchTypes' /\ ServerTypes'
    BY <1>3 DEF StartSpawns, markerVars, envVars, runVars
  <2>2. pc'[q] = "idle"
    BY <1>0, <1>3 DEF StartSpawns, Goto
  <2>3. PointOK(q)'
    BY <1>0, <1>3, <2>2 DEF StartSpawns, PointOK, CliPoints, StopPoints
  <2>4. CASE Goto(q, "idle")
    BY <1>3, <2>1, <2>3, <2>4, CliMoves DEF StartSpawns, Goto
  <2>5. ASSUME NEW m \in Monitors, ~MonitorAlive(m),
               pc' = [pc EXCEPT ![q] = "idle", ![m] = "spawned"]
        PROVE  SshInv'
    <3>1. m \in Procs /\ m \notin Clis /\ PointOK(m) /\ pc[m] = "none"
      BY <2>5, Names DEF MonitorAlive
    <3>2. UNCHANGED <<back, victim, desired_ip, term>>
      BY <1>3 DEF StartSpawns
    <3>3. PointOK(m)'
      BY <1>0, <2>5, <3>1, <3>2 DEF PointOK, StopPoints
    <3>4. \A r \in Procs : r # m /\ r # q => PointOK(r)'
      BY <1>0, <2>5, <3>2 DEF PointOK
    <3>5. ProcTypes'
      BY <2>3, <2>5, <3>2, <3>3, <3>4
    <3> QED
      BY <2>1, <3>5
  <2> QED
    BY <1>3, <2>4, <2>5 DEF StartSpawns
<1>4. CASE StopCommand(q)
  <2>1. SwitchTypes' /\ ServerTypes'
    BY <1>4 DEF StopCommand, markerVars, envVars, runVars
  <2>2. /\ pc' = [pc EXCEPT ![q] = pc'[q]]
        /\ back' = [back EXCEPT ![q] = back'[q]]
        /\ PointOK(q)'
    BY <1>0, <1>4 DEF StopCommand, CallStop, Goto, PointOK, CliPoints, StopPoints
  <2>3. term' \in [Monitors -> BOOLEAN]
    <3>1. ASSUME NEW b \in BOOLEAN PROVE [term EXCEPT ![monitor_pid] = b] \in [Monitors -> BOOLEAN]
      OBVIOUS
    <3>2. (pc[monitor_pid] \in LoopPoints) \in BOOLEAN
      OBVIOUS
    <3> QED
      BY <1>4, <3>1, <3>2, Zenon DEF StopCommand
  <2> QED
    BY <1>4, <2>1, <2>2, <2>3, CliMoves DEF StopCommand
<1> HIDE DEF SshInv, SwitchTypes, ServerTypes, ProcTypes
<1>5. CASE StopServer(q)
  BY <1>0, <1>5, StopKeeps
<1> QED
  BY <1>1, <1>2, <1>3, <1>4, <1>5 DEF CliStep

\* Outside the controller, the network and the card change, and the power goes.
LEMMA EnvironmentKeeps ==
  ASSUME SshInv, WifiChanges \/ DeveloperModeToggles \/ CardToggles \/ UNCHANGED vars
  PROVE  SshInv'
<1>1. UNCHANGED <<markerVars, runVars, procVars>>
  BY DEF WifiChanges, DeveloperModeToggles, CardToggles, vars
<1>2. SwitchTypes'
  BY DEF WifiChanges, DeveloperModeToggles, CardToggles, vars, envVars, SshInv, SwitchTypes,
         markerVars, procVars
<1>3. ServerTypes'
  BY <1>1 DEF SshInv, ServerTypes, runVars
<1>4. ProcTypes'
  BY <1>1 DEF SshInv, ProcTypes, PointOK, procVars
<1> QED
  BY <1>2, <1>3, <1>4 DEF SshInv

LEMMA PowerKeeps ==
  ASSUME SshInv, PowerCycle
  PROVE  SshInv'
<1>1. SwitchTypes'
  BY DEF PowerCycle, SshInv, SwitchTypes, markerVars
<1>2. ServerTypes'
  BY DEF PowerCycle, ServerTypes, NoServers, Dead
<1>3. \A q \in Procs : PointOK(q)'
  BY Names DEF PowerCycle, BootPc, PointOK, CliPoints, StopPoints, Procs
<1>4. ProcTypes'
  BY <1>3 DEF PowerCycle, BootPc, ProcTypes
<1> QED
  BY <1>1, <1>2, <1>4 DEF SshInv

LEMMA SshNext ==
  ASSUME SshInv, [Next]_vars
  PROVE  SshInv'
  BY MonitorKeeps, ServerKeeps, CommandKeeps, CliKeeps, EnvironmentKeeps, PowerKeeps
  DEF Next

LEMMA SshInvariant == Spec => []SshInv
  BY SshInit, SshNext, PTL DEF Spec

\* Whatever the numbers of monitors, addresses and process ids, the controller's
\* variables keep their types, and a process waits in stop_server exactly while
\* it knows whom it waits for (r1-ssh-control, stop_server).
THEOREM TypeCorrect == Spec => []TypeOK
  BY SshInvariant, InvTypes, PTL

-------------------------------------------------------------------------------
(***************************************************************************)
(* The markers of the switch.                                              *)
(***************************************************************************)
\* While no enable and disable have met at the markers, each command that has
\* touched its marker still finds it there when it removes the other.
MarkerInv ==
  ~overlapped =>
    /\ ~Overlap
    /\ \A q \in Clis : /\ pc[q] = "on_2" => enabled
                       /\ pc[q] = "off_2" => disabled

\* Nobody comes to a removal, and the history is kept, or nobody is at one.
Aside == /\ \A r \in Clis : pc'[r] \in {"on_2", "off_2"} => pc'[r] = pc[r]
         /\ \/ UNCHANGED overlapped
            \/ \A r \in Clis : pc'[r] \notin {"on_2", "off_2"}

\* Steps that leave the markers alone, and a migration, do neither.
LEMMA MarkersLeftAlone ==
  ASSUME SshInv, [Next]_vars
  PROVE  \/ \E q \in Clis : EnableTouches(q) \/ EnableRemoves(q) \/ DisableTouches(q)
                            \/ DisableRemoves(q)
         \/ \E q \in Clis : StartMigrates(q)
         \/ Aside /\ UNCHANGED <<enabled, disabled>>
<1> USE DEF Aside
<1>0. /\ pc = [r \in Procs |-> pc[r]]
      /\ \A q \in Procs : PointOK(q)
  BY DEF SshInv, ProcTypes
<1>1. ASSUME NEW q \in Procs, StopServer(q)
      PROVE  Aside /\ UNCHANGED <<enabled, disabled>>
  <2>1. /\ pc' = [pc EXCEPT ![q] = pc'[q]] /\ UNCHANGED markerVars
        /\ pc'[q] \in {"stop_wait", "stop_remove", back[q]}
    BY <1>0, <1>1 DEF StopServer, StopRead, StopWait, StopRemove, Goto
  <2>2. back[q] \notin {"on_2", "off_2"}
    BY <1>0 DEF PointOK, MonitorReturns
  <2> QED
    BY <2>1, <2>2, <1>0, Names DEF markerVars
<1>2. ASSUME NEW m \in Monitors, MonitorStep(m)
      PROVE  Aside /\ UNCHANGED <<enabled, disabled>>
  <2>1. CASE StopServer(m)
    BY <1>1, <2>1, Names
  <2>2. CASE ~StopServer(m)
    <3>1. UNCHANGED <<enabled, disabled, overlapped>> /\ pc' = [pc EXCEPT ![m] = pc'[m]]
      BY <1>0, <1>2, <2>2, Names
      DEF MonitorStep, MonitorBegins, MonitorEvaluates, MonitorDecides, MonitorStarts,
          KeyFails, MonitorNotesAddress, MonitorWakes, MonitorTraps, TrapRemoves,
          MonitorExits, markerVars, Goto, CallStop
    <3>2. \A r \in Clis : pc'[r] = pc[r]
      BY <1>0, <3>1, Names
    <3> QED
      BY <3>1, <3>2
  <2> QED
    BY <2>1, <2>2
<1>3. ASSUME NEW q \in Clis, NEW c \in Commands, Command(q, c)
      PROVE  Aside /\ UNCHANGED <<enabled, disabled>>
  <2>1. pc'[q] \in {"off_1", "on_1", "start_1", "stop_1"} /\ UNCHANGED markerVars
    BY <1>0, <1>3, Names, CommandsAssumption DEF Command, Goto
  <2>2. \A r \in Clis : r # q => pc'[r] = pc[r]
    BY <1>0, <1>3, Names DEF Command, Goto
  <2> QED
    BY <2>1, <2>2 DEF markerVars
<1>4. ASSUME NEW q \in Clis, TouchFails(q) \/ StartLooks(q) \/ StopCommand(q) \/ ForgetMonitor(q)
      PROVE  Aside /\ UNCHANGED <<enabled, disabled>>
  <2>1. /\ pc'[q] \in {"idle", "migrate", "start_1", "start_2", "stop_read"}
        /\ UNCHANGED markerVars
    BY <1>0, <1>4, Names
    DEF TouchFails, StartLooks, StopCommand, ForgetMonitor, CallStop, Goto
  <2>2. \A r \in Clis : r # q => pc'[r] = pc[r]
    BY <1>0, <1>4, Names DEF TouchFails, StartLooks, StopCommand, ForgetMonitor, CallStop, Goto
  <2> QED
    BY <2>1, <2>2 DEF markerVars
<1>5. ASSUME NEW q \in Clis, StartSpawns(q)
      PROVE  Aside /\ UNCHANGED <<enabled, disabled>>
  <2>1. UNCHANGED markerVars /\ \A r \in Clis : pc'[r] \in {pc[r], "idle"}
    BY <1>0, <1>5, Names DEF StartSpawns, Goto
  <2> QED
    BY <2>1 DEF markerVars
<1>6. CASE PowerCycle
  BY <1>6, Names DEF PowerCycle, BootPc, markerVars
<1>7. CASE \/ WifiChanges \/ DeveloperModeToggles \/ CardToggles \/ UNCHANGED vars
           \/ \E p \in Pids : ServerWritesPid(p) \/ ServerEnds(p)
  BY <1>7 DEF WifiChanges, DeveloperModeToggles, CardToggles, vars, ServerWritesPid,
              ServerEnds, markerVars, procVars
<1> HIDE DEF Aside
<1> QED
  BY <1>1, <1>2, <1>3, <1>4, <1>5, <1>6, <1>7, Names DEF Next, CliStep

\* A command at the markers moves alone.
LEMMA MarkerSteps ==
  ASSUME SshInv, NEW q \in Clis,
         \/ EnableTouches(q) \/ EnableRemoves(q) \/ DisableTouches(q)
         \/ DisableRemoves(q)
  PROVE  /\ NoteOverlap
         /\ \A r \in Clis : r # q => pc'[r] = pc[r]
         /\ \/ pc'[q] = "on_2" /\ enabled' /\ UNCHANGED disabled
            \/ pc[q] = "on_2" /\ pc'[q] = "idle" /\ UNCHANGED enabled
            \/ pc'[q] = "off_2" /\ disabled' /\ UNCHANGED enabled
            \/ pc[q] = "off_2" /\ pc'[q] = "stop_read" /\ UNCHANGED disabled
<1>1. /\ q \in Procs /\ Clis \subseteq Procs /\ pc = [r \in Procs |-> pc[r]]
      /\ enabled \in BOOLEAN
  BY Names DEF SshInv, ProcTypes, SwitchTypes
<1>2. CASE EnableTouches(q) \/ EnableRemoves(q)
  BY <1>1, <1>2 DEF EnableTouches, EnableRemoves, Goto
<1>3. CASE DisableTouches(q) \/ DisableRemoves(q)
  BY <1>1, <1>3 DEF DisableTouches, DisableRemoves, CallStop, Goto
<1> QED
  BY <1>2, <1>3

\* A migration only adds a marker.
LEMMA MigrationStep ==
  ASSUME SshInv, NEW q \in Clis, StartMigrates(q)
  PROVE  Aside /\ (enabled => enabled') /\ UNCHANGED disabled
<1>1. q \in Procs /\ Clis \subseteq Procs /\ pc = [r \in Procs |-> pc[r]]
  BY Names DEF SshInv, ProcTypes
<1>2. /\ pc' = [pc EXCEPT ![q] = "start_2"]
      /\ UNCHANGED <<disabled, overlapped>> /\ enabled' \in {enabled, TRUE}
  BY DEF StartMigrates, Goto
<1>3. Aside
  BY <1>1, <1>2 DEF Aside
<1>4. enabled => enabled'
  BY <1>2
<1> QED
  BY <1>2, <1>3, <1>4

LEMMA MarkerNext ==
  ASSUME SshInv, MarkerInv, [Next]_vars
  PROVE  MarkerInv'
<1> SUFFICES ASSUME ~overlapped'
             PROVE  /\ ~Overlap'
                    /\ \A r \in Clis : /\ pc'[r] = "on_2" => enabled'
                                       /\ pc'[r] = "off_2" => disabled'
  BY DEF MarkerInv
<1>1. CASE Aside /\ (enabled => enabled') /\ (disabled => disabled')
  BY <1>1 DEF Aside, MarkerInv, Overlap
<1>2. ASSUME NEW q \in Clis,
             \/ EnableTouches(q) \/ EnableRemoves(q) \/ DisableTouches(q)
             \/ DisableRemoves(q)
      PROVE  /\ ~Overlap'
             /\ \A r \in Clis : /\ pc'[r] = "on_2" => enabled'
                                /\ pc'[r] = "off_2" => disabled'
  <2>1. ~Overlap' /\ (overlapped => ~Removing')
    BY <1>2, MarkerSteps DEF NoteOverlap
  <2>2. CASE overlapped
    BY <2>1, <2>2 DEF Removing
  <2>3. CASE ~overlapped
    <3>1. /\ ~Overlap
          /\ \A r \in Clis : /\ pc[r] = "on_2" => enabled
                             /\ pc[r] = "off_2" => disabled
      BY <2>3 DEF MarkerInv
    <3>2. \A r \in Clis : /\ pc'[r] = "on_2" => enabled'
                          /\ pc'[r] = "off_2" => disabled'
      BY <1>2, <3>1, MarkerSteps DEF Overlap
    <3> QED
      BY <2>1, <3>2
  <2> QED
    BY <2>2, <2>3
<1>3. ASSUME NEW q \in Clis, StartMigrates(q)
      PROVE  Aside /\ (enabled => enabled') /\ (disabled => disabled')
  BY <1>3, MigrationStep
<1> QED
  BY <1>1, <1>2, <1>3, MarkersLeftAlone

\* Once the switch has a marker it keeps one, whatever step the power is lost
\* after and however many commands and monitors interleave, unless an enable
\* and a disable have met between their touches and removals
\* (r1-ssh-control, set_enabled and set_disabled).
THEOREM MarkersKept == Spec => MarkersLostOnlyByOverlap
<1>1. Init => SshInv /\ MarkerInv
  <2> SUFFICES ASSUME Init PROVE SshInv /\ MarkerInv
    OBVIOUS
  <2>1. \A q \in Clis : pc[q] \in {"start_1", "idle"}
    BY Names DEF Init, BootPc
  <2> QED
    BY <2>1, SshInit DEF MarkerInv, Overlap
<1>2. SshInv /\ MarkerInv /\ [Next]_vars => (SshInv /\ MarkerInv)'
  BY SshNext, MarkerNext
<1>3. ASSUME SshInv, MarkerInv, [Next]_vars, enabled \/ disabled
      PROVE  enabled' \/ disabled' \/ overlapped
  <2>1. CASE (enabled => enabled') /\ (disabled => disabled')
    BY <1>3, <2>1
  <2>2. ASSUME NEW q \in Clis,
               \/ EnableTouches(q) \/ EnableRemoves(q) \/ DisableTouches(q)
               \/ DisableRemoves(q)
        PROVE  enabled' \/ disabled' \/ overlapped
    BY <1>3, <2>2, MarkerSteps DEF MarkerInv
  <2>3. ASSUME NEW q \in Clis, StartMigrates(q)
        PROVE  (enabled => enabled') /\ (disabled => disabled')
    BY <2>3, MigrationStep, <1>3
  <2> QED
    BY <1>3, <2>1, <2>2, <2>3, MarkersLeftAlone
<1> QED
  BY <1>1, <1>2, <1>3, PTL DEF Spec, MarkersLostOnlyByOverlap

-------------------------------------------------------------------------------
(***************************************************************************)
(* The ip file, while nobody but boot starts a monitor and nobody stops    *)
(* one: the switch in the user interface knows no other commands.          *)
(***************************************************************************)
SwitchOnly == Commands \subseteq {"enable", "disable", "toggle"}

StartPoints == {"start_1", "migrate", "start_2"}

\* The first monitor is the only one: only boot starts one, there is none
\* before, no SIGTERM is sent, and stop_server returns to a command's end.
OneMonitor ==
  /\ \A q \in Clis : /\ pc[q] \notin {"stop_1", "forget"} /\ back[q] = "idle"
                     /\ pc[q] \in StartPoints => q = Boot
  /\ pc[Boot] \in StartPoints => \A m \in Monitors : pc[m] = "none"
  /\ \A m, n \in Monitors : pc[m] # "none" /\ pc[n] # "none" => m = n
  /\ \A m \in Monitors : /\ term[m] = FALSE /\ pc[m] \notin TrapPoints
                         /\ back[m] \in {"idle", "sleep", "start"}

\* What the monitor knows of the Dropbear it started until that has written
\* its pid file.
Starting == {p \in Pids : server[p].state = "starting"}
Follows(m) ==
  /\ pc[m] = "start" => server_pid = None /\ bound_ip = None
  /\ pc[m] = "bound" =>
       /\ bound_ip = None
       /\ \A p \in Starting : server[p].ip = desired_ip[m]
       /\ server_pid # None /\ Alive(server_pid) => server[server_pid].ip = desired_ip[m]
  /\ pc[m] = "sleep" =>
       \A p \in Starting : /\ server[p].ip = desired_ip[m]
                           /\ bound_ip \in {None, desired_ip[m]}
NoneStarts == Starting # {} => \E m \in Monitors : pc[m] \in {"bound", "sleep"}
TruthInv ==
  OneMonitor /\ NoneStarts /\ BoundIpTruthful /\ \A m \in Monitors : Follows(m)

LEMMA TruthInit == Init => TruthInv
<1> SUFFICES ASSUME Init PROVE TruthInv
  OBVIOUS
<1>1. /\ \A m \in Monitors : pc[m] = "none" /\ back[m] = "idle" /\ term[m] = FALSE
      /\ \A q \in Clis : /\ pc[q] \in {"start_1", "idle"} /\ back[q] = "idle"
                         /\ pc[q] = "start_1" => q = Boot
      /\ server_pid = None /\ bound_ip = None
      /\ \A p \in Pids : server[p] = Dead
  BY Names DEF Init, BootPc, NoServers
<1>2. OneMonitor
  BY <1>1 DEF OneMonitor, TrapPoints, StartPoints
<1>3. Starting = {}
  BY <1>1 DEF Starting, Dead
<1>4. NoneStarts /\ BoundIpTruthful /\ \A m \in Monitors : Follows(m)
  BY <1>1, <1>3 DEF NoneStarts, BoundIpTruthful, Follows
<1> QED
  BY <1>2, <1>4 DEF TruthInv

\* While its monitor does not wait for it, no Dropbear is on its way.
LEMMA NothingStarts ==
  ASSUME TruthInv, NEW m \in Monitors, pc[m] \notin {"none", "bound", "sleep"}
  PROVE  Starting = {}
BY DEF TruthInv, OneMonitor, NoneStarts

\* The other monitors were never started.
LEMMA OthersFollow ==
  ASSUME SshInv, TruthInv, NEW m \in Monitors, pc[m] # "none",
         pc' = [pc EXCEPT ![m] = pc'[m]], Follows(m)'
  PROVE  \A n \in Monitors : Follows(n)'
<1>1. ASSUME NEW n \in Monitors, n # m PROVE Follows(n)'
  <2>1. pc[n] = "none"
    BY <1>1 DEF TruthInv, OneMonitor
  <2>2. pc'[n] = "none"
    BY <1>1, <2>1, Names DEF SshInv, ProcTypes
  <2> QED
    BY <2>2 DEF Follows
<1> QED
  BY <1>1

\* No step of a monitor makes a second one.
LEMMA MonitorStaysOne ==
  ASSUME SshInv, TruthInv, NEW m \in Monitors, pc[m] # "none",
         pc' = [pc EXCEPT ![m] = pc'[m]], back' = [back EXCEPT ![m] = back'[m]],
         term' = term, pc'[m] \notin TrapPoints,
         back'[m] \in {"idle", "sleep", "start"}
  PROVE  OneMonitor'
<1>1. m \in Procs /\ m \notin Clis /\ pc = [q \in Procs |-> pc[q]]
      /\ back = [q \in Procs |-> back[q]]
  BY Names DEF SshInv, ProcTypes
<1>2. /\ \A q \in Clis : pc'[q] = pc[q] /\ back'[q] = back[q]
      /\ \A n \in Monitors : n # m => pc'[n] = pc[n] /\ back'[n] = back[n]
  BY <1>1, Names
<1>3. Boot \in Clis /\ pc[Boot] \notin StartPoints
  BY Names DEF TruthInv, OneMonitor
<1>4. \A n \in Monitors : n # m => pc[n] = "none"
  BY DEF TruthInv, OneMonitor
<1>5. /\ \A q \in Clis : /\ pc[q] \notin {"stop_1", "forget"} /\ back[q] = "idle"
                         /\ pc[q] \in StartPoints => q = Boot
      /\ \A n \in Monitors : /\ term[n] = FALSE /\ pc[n] \notin TrapPoints
                             /\ back[n] \in {"idle", "sleep", "start"}
  BY DEF TruthInv, OneMonitor
<1> QED
  BY <1>2, <1>3, <1>4, <1>5 DEF OneMonitor

\* A step that starts no Dropbear, while none is on its way.
LEMMA QuietStep ==
  ASSUME SshInv, TruthInv, NEW m \in Monitors, pc[m] # "none", Starting = {},
         pc' = [pc EXCEPT ![m] = pc'[m]],
         pc'[m] \notin {"start", "bound"},
         server' = server, server_pid' = server_pid, bound_ip' = bound_ip, OneMonitor'
  PROVE  TruthInv'
<1>1. Starting' = {}
  BY DEF Starting
<1>2. Follows(m)'
  BY <1>1 DEF Follows
<1>3. BoundIpTruthful'
  BY DEF TruthInv, BoundIpTruthful, Alive
<1> QED
  BY <1>1, <1>2, <1>3, OthersFollow DEF TruthInv, NoneStarts

\* Dropbears die or are told to, and the two files stay or go together: what
\* is left is as true as it was.
LEMMA LessIsTrue ==
  ASSUME SshInv, TruthInv, OneMonitor',
         \A m \in Monitors : pc'[m] = pc[m], desired_ip' = desired_ip,
         \A p \in Pids : \/ server'[p] = server[p] \/ server'[p] = Dead
                         \/ server'[p] = [server[p] EXCEPT !.state = "dying"]
                            /\ Alive(p),
         \/ server_pid' = server_pid /\ bound_ip' = bound_ip
         \/ server_pid' = None /\ bound_ip' = None
  PROVE  TruthInv'
<1>1. \A p \in Pids :
        /\ server'[p].state # "dead" => /\ server[p].state # "dead"
                                        /\ server'[p].ip = server[p].ip
        /\ server'[p].state = "starting" => server[p].state = "starting"
  <2>1. ASSUME NEW p \in Pids
        PROVE  /\ server'[p].state # "dead" => /\ server[p].state # "dead"
                                               /\ server'[p].ip = server[p].ip
               /\ server'[p].state = "starting" => server[p].state = "starting"
    <3>1. CASE server'[p] = server[p]
      BY <3>1
    <3>2. CASE server'[p] = Dead
      BY <3>2 DEF Dead
    <3>3. CASE server'[p] = [server[p] EXCEPT !.state = "dying"] /\ Alive(p)
      <4>1. server[p] \in [state : {"dead", "starting", "up", "dying"},
                           ip : Addresses \cup {None}]
        BY DEF SshInv, ServerTypes
      <4> QED
        BY <3>3, <4>1 DEF Alive
    <3> QED
      BY <3>1, <3>2, <3>3
  <2> QED
    BY <2>1
<1>2. Starting' \subseteq Starting /\ \A p \in Starting' : server'[p].ip = server[p].ip
  BY <1>1 DEF Starting
<1>3. BoundIpTruthful'
  BY <1>1 DEF TruthInv, BoundIpTruthful, Alive, SshInv, ServerTypes
<1>4. ASSUME NEW m \in Monitors PROVE Follows(m)'
  <2>1. Follows(m)
    BY DEF TruthInv
  <2>2. server_pid' # None /\ Alive(server_pid)' =>
          /\ server_pid # None /\ Alive(server_pid)
          /\ server'[server_pid'].ip = server[server_pid].ip
    BY <1>1 DEF Alive, SshInv, ServerTypes
  <2> QED
    BY <1>2, <2>1, <2>2 DEF Follows
<1>5. NoneStarts'
  BY <1>2 DEF TruthInv, NoneStarts
<1> QED
  BY <1>3, <1>4, <1>5 DEF TruthInv

\* stop_server, in the monitor or in a command.
LEMMA StopIsTrue ==
  ASSUME SshInv, TruthInv, NEW q \in Procs, StopServer(q), OneMonitor'
  PROVE  /\ \A p \in Pids : \/ server'[p] = server[p] \/ server'[p] = Dead
                            \/ server'[p] = [server[p] EXCEPT !.state = "dying"]
                               /\ Alive(p)
         /\ \/ server_pid' = server_pid /\ bound_ip' = bound_ip
            \/ server_pid' = None /\ bound_ip' = None
         /\ desired_ip' = desired_ip /\ term' = term
         /\ pc' = [pc EXCEPT ![q] = pc'[q]]
<1>1. server = [p \in Pids |-> server[p]] /\ pc = [r \in Procs |-> pc[r]]
      /\ server_pid \in Pids \cup {None}
      /\ victim[q] \in Pids \cup {None} /\ (pc[q] = "stop_wait" => victim[q] # None)
  BY DEF SshInv, ServerTypes, ProcTypes, PointOK
<1>2. CASE StopRead(q)
  BY <1>1, <1>2 DEF StopRead, Alive, Goto
<1>3. CASE StopWait(q)
  BY <1>1, <1>3 DEF StopWait, Goto
<1>4. CASE StopRemove(q)
  BY <1>1, <1>4 DEF StopRemove, Goto
<1> QED
  BY <1>2, <1>3, <1>4 DEF StopServer

\* A monitor that stops its Dropbear goes on with neither file there.
LEMMA MonitorStopIsTrue ==
  ASSUME SshInv, TruthInv, NEW m \in Monitors, StopServer(m)
  PROVE  TruthInv'
<1>1. /\ m \in Procs /\ m \notin Clis /\ pc = [q \in Procs |-> pc[q]]
      /\ back = [q \in Procs |-> back[q]] /\ PointOK(m)
  BY Names DEF SshInv, ProcTypes
<1>2. /\ pc[m] \in StopPoints /\ term' = term
      /\ pc' = [pc EXCEPT ![m] = pc'[m]] /\ back' = [back EXCEPT ![m] = back'[m]]
  BY <1>1 DEF StopServer, StopRead, StopWait, StopRemove, StopPoints, Goto
<1>3. Starting = {}
  BY <1>2, NothingStarts DEF StopPoints
<1>4. back[m] \in {"sleep", "start"}
  BY <1>1, <1>2 DEF TruthInv, OneMonitor, PointOK
<1>5. /\ pc'[m] \in {"stop_wait", "stop_remove", "sleep", "start"}
      /\ back'[m] \in {"idle", "sleep", "start"}
      /\ pc'[m] = "start" => server_pid' = None /\ bound_ip' = None
  BY <1>1, <1>4 DEF StopServer, StopRead, StopWait, StopRemove, Goto
<1>6. OneMonitor'
  BY <1>2, <1>5, MonitorStaysOne DEF StopPoints, TrapPoints
<1>7. /\ \A p \in Pids : \/ server'[p] = server[p] \/ server'[p] = Dead
                         \/ server'[p] = [server[p] EXCEPT !.state = "dying"]
                            /\ Alive(p)
      /\ \/ server_pid' = server_pid /\ bound_ip' = bound_ip
         \/ server_pid' = None /\ bound_ip' = None
  BY <1>1, <1>6, StopIsTrue
<1>8. \A p \in Pids :
        /\ server'[p].state # "dead" => /\ server[p].state # "dead"
                                        /\ server'[p].ip = server[p].ip
        /\ server'[p].state # "starting"
  <2>1. ASSUME NEW p \in Pids
        PROVE  /\ server'[p].state # "dead" => /\ server[p].state # "dead"
                                               /\ server'[p].ip = server[p].ip
               /\ server'[p].state # "starting"
    <3>0. /\ server[p].state # "starting"
          /\ server[p] \in [state : {"dead", "starting", "up", "dying"},
                            ip : Addresses \cup {None}]
      BY <1>3 DEF Starting, SshInv, ServerTypes
    <3>1. CASE server'[p] = server[p]
      BY <3>0, <3>1
    <3>2. CASE server'[p] = Dead
      BY <3>2 DEF Dead
    <3>3. CASE server'[p] = [server[p] EXCEPT !.state = "dying"] /\ Alive(p)
      BY <3>0, <3>3 DEF Alive
    <3> QED
      BY <1>7, <3>1, <3>2, <3>3
  <2> QED
    BY <2>1
<1>9. Starting' = {}
  BY <1>8 DEF Starting
<1>10. Follows(m)'
  BY <1>5, <1>9 DEF Follows
<1>11. BoundIpTruthful'
  BY <1>7, <1>8 DEF TruthInv, BoundIpTruthful, Alive, SshInv, ServerTypes
<1> QED
  BY <1>2, <1>6, <1>9, <1>10, <1>11, OthersFollow DEF TruthInv, NoneStarts, StopPoints

\* A step of the monitor: only one that starts a Dropbear, notes its address
\* or wakes changes what is known of it.
LEMMA MonitorIsTrue ==
  ASSUME SshInv, TruthInv, NEW m \in Monitors, MonitorStep(m), SshInv'
  PROVE  TruthInv'
<1>0. /\ m \in Procs /\ m \notin Clis /\ pc = [q \in Procs |-> pc[q]]
      /\ back = [q \in Procs |-> back[q]] /\ PointOK(m)
      /\ term[m] = FALSE /\ back[m] \in {"idle", "sleep", "start"}
      /\ pc[m] \notin TrapPoints
      /\ desired_ip \in [Monitors -> Addresses \cup {None}]
  BY Names DEF SshInv, ProcTypes, TruthInv, OneMonitor
<1>1. CASE MonitorBegins(m) \/ MonitorEvaluates(m) \/ MonitorDecides(m) \/ KeyFails(m)
  <2>1. /\ pc[m] \in {"spawned", "eval", "decide", "start"} /\ term' = term
        /\ server' = server /\ server_pid' = server_pid /\ bound_ip' = bound_ip
    BY <1>1 DEF MonitorBegins, MonitorEvaluates, MonitorDecides, KeyFails, InLoop, runVars
  <2>2. /\ pc' = [pc EXCEPT ![m] = pc'[m]] /\ back' = [back EXCEPT ![m] = back'[m]]
        /\ pc'[m] \in {"eval", "decide", "sleep", "stop_read"}
        /\ back'[m] \in {"idle", "sleep", "start"}
    BY <1>0, <1>1 DEF MonitorBegins, MonitorEvaluates, MonitorDecides, KeyFails,
                      Goto, CallStop
  <2>3. Starting = {}
    BY <2>1, NothingStarts
  <2>4. OneMonitor'
    BY <2>1, <2>2, MonitorStaysOne DEF TrapPoints
  <2> QED
    BY <2>1, <2>2, <2>3, <2>4, QuietStep
<1>2. CASE StopServer(m)
  BY <1>2, MonitorStopIsTrue
<1>3. CASE MonitorStarts(m)
  <2>1. /\ pc[m] = "start" /\ term' = term /\ back' = back /\ desired_ip' = desired_ip
        /\ server_pid' = server_pid /\ bound_ip' = bound_ip
        /\ pc' = [pc EXCEPT ![m] = pc'[m]] /\ pc'[m] = "bound"
    BY <1>0, <1>3 DEF MonitorStarts, InLoop, Goto
  <2>2. Starting = {} /\ server_pid = None /\ bound_ip = None
    BY <2>1, NothingStarts DEF TruthInv, Follows
  <2>3. \A p \in Starting' : server'[p].ip = desired_ip[m]
    <3>1. CASE server' = server
      BY <2>2, <3>1 DEF Starting
    <3>2. ASSUME NEW f \in Pids,
                 server' = [server EXCEPT ![f] = [state |-> "starting", ip |-> desired_ip[m]]]
          PROVE  \A p \in Starting' : server'[p].ip = desired_ip[m]
      BY <2>2, <3>2 DEF Starting, SshInv, ServerTypes
    <3>3. \/ server' = server
          \/ \E f \in Pids :
               server' = [server EXCEPT ![f] = [state |-> "starting", ip |-> desired_ip[m]]]
      <4>1. FreePids # {} => (CHOOSE p \in FreePids : TRUE) \in Pids
        BY DEF FreePids
      <4> QED
        BY <1>3, <4>1 DEF MonitorStarts
    <3> QED
      BY <3>1, <3>2, <3>3
  <2>4. OneMonitor'
    BY <1>0, <2>1, MonitorStaysOne DEF TrapPoints
  <2>5. Follows(m)'
    BY <2>1, <2>2, <2>3 DEF Follows
  <2>6. BoundIpTruthful' /\ NoneStarts'
    BY <2>1, <2>2 DEF BoundIpTruthful, NoneStarts
  <2> QED
    BY <2>1, <2>4, <2>5, <2>6, OthersFollow DEF TruthInv
<1>4. CASE MonitorNotesAddress(m)
  <2>1. /\ pc[m] = "bound" /\ term' = term /\ back' = back /\ desired_ip' = desired_ip
        /\ server' = server /\ server_pid' = server_pid /\ bound_ip' = desired_ip[m]
        /\ pc' = [pc EXCEPT ![m] = pc'[m]] /\ pc'[m] = "sleep"
    BY <1>0, <1>4 DEF MonitorNotesAddress, InLoop, Goto
  <2>2. /\ \A p \in Starting : server[p].ip = desired_ip[m]
        /\ server_pid # None /\ Alive(server_pid) => server[server_pid].ip = desired_ip[m]
    BY <2>1 DEF TruthInv, Follows
  <2>3. OneMonitor'
    BY <1>0, <2>1, MonitorStaysOne DEF TrapPoints
  <2>4. Follows(m)'
    BY <2>1, <2>2 DEF Follows, Starting
  <2>5. BoundIpTruthful' /\ NoneStarts'
    BY <2>1, <2>2 DEF BoundIpTruthful, NoneStarts, Alive
  <2> QED
    BY <2>1, <2>3, <2>4, <2>5, OthersFollow DEF TruthInv
<1>5. CASE MonitorWakes(m)
  <2>1. /\ pc[m] = "sleep" /\ term' = term /\ back' = back
        /\ server' = server /\ server_pid' = server_pid /\ bound_ip' = bound_ip
        /\ pc' = [pc EXCEPT ![m] = pc'[m]] /\ pc'[m] = "eval"
        /\ Starting = {}
    BY <1>0, <1>5 DEF MonitorWakes, InLoop, Goto, runVars, Starting
  <2>2. OneMonitor'
    BY <1>0, <2>1, MonitorStaysOne DEF TrapPoints
  <2> QED
    BY <2>1, <2>2, QuietStep
<1>6. ~MonitorTraps(m) /\ ~TrapRemoves(m) /\ ~MonitorExits(m)
  BY <1>0 DEF MonitorTraps, TrapRemoves, MonitorExits, TrapPoints
<1> QED
  BY <1>1, <1>2, <1>3, <1>4, <1>5, <1>6 DEF MonitorStep

\* The Dropbear on its way writes its pid file: the monitor that started it
\* has noted its address, or will.
LEMMA ServerIsTrue ==
  ASSUME SshInv, TruthInv, NEW p \in Pids, ServerWritesPid(p) \/ ServerEnds(p)
  PROVE  TruthInv'
<1>0. UNCHANGED <<pc, back, term, desired_ip, bound_ip>>
  BY DEF ServerWritesPid, ServerEnds, procVars
<1>1. OneMonitor'
  BY <1>0 DEF TruthInv, OneMonitor
<1>2. CASE ServerEnds(p)
  <2>1. /\ server_pid' = server_pid
        /\ \A r \in Pids : server'[r] = server[r] \/ server'[r] = Dead
    BY <1>2 DEF ServerEnds, SshInv, ServerTypes
  <2> QED
    BY <1>0, <1>1, <2>1, LessIsTrue
<1>3. CASE ServerWritesPid(p)
  <2>1. /\ p \in Starting /\ server_pid' = p
        /\ server' = [server EXCEPT ![p].state = "up"]
    BY <1>3 DEF ServerWritesPid, Starting
  <2>2. PICK m \in Monitors : pc[m] \in {"bound", "sleep"}
    BY <2>1 DEF TruthInv, NoneStarts
  <2>3. \A n \in Monitors : n # m => pc[n] = "none"
    BY <2>2 DEF TruthInv, OneMonitor
  <2>4. \A r \in Pids :
          /\ server'[r].ip = server[r].ip
          /\ server'[r].state = "starting" => server[r].state = "starting"
    BY <2>1 DEF SshInv, ServerTypes
  <2>5. Starting' \subseteq Starting /\ \A r \in Starting' : server'[r].ip = server[r].ip
    BY <2>4 DEF Starting
  <2>6. server'[p].ip = desired_ip[m] /\ bound_ip \in {None, desired_ip[m]}
    BY <2>1, <2>2, <2>4 DEF TruthInv, Follows, Starting
  <2>7. Follows(m)'
    BY <1>0, <2>1, <2>2, <2>5, <2>6 DEF TruthInv, Follows
  <2>8. \A n \in Monitors : Follows(n)'
    BY <1>0, <2>3, <2>7 DEF Follows
  <2>9. BoundIpTruthful'
    BY <1>0, <2>1, <2>6 DEF BoundIpTruthful
  <2>10. NoneStarts'
    BY <1>0, <2>2 DEF NoneStarts
  <2> QED
    BY <1>1, <2>8, <2>9, <2>10 DEF TruthInv
<1> QED
  BY <1>2, <1>3

\* The commands of the switch touch the markers, and stop the Dropbear.
LEMMA CliIsTrue ==
  ASSUME SwitchOnly, SshInv, TruthInv, NEW q \in Clis,
         CliStep(q) \/ \E c \in Commands : Command(q, c)
  PROVE  TruthInv'
<1>0. /\ q \in Procs /\ \A m \in Monitors : m # q /\ m \in Procs
      /\ Clis \subseteq Procs /\ Boot \in Clis
      /\ pc = [r \in Procs |-> pc[r]] /\ back = [r \in Procs |-> back[r]]
      /\ \A r \in Clis : /\ pc[r] \notin {"stop_1", "forget"} /\ back[r] = "idle"
                         /\ pc[r] \in StartPoints => r = Boot
      /\ \A n \in Monitors : /\ term[n] = FALSE /\ pc[n] \notin TrapPoints
                             /\ back[n] \in {"idle", "sleep", "start"}
  BY Names DEF SshInv, ProcTypes, TruthInv, OneMonitor
<1> DEFINE Moved == /\ pc' = [pc EXCEPT ![q] = pc'[q]] /\ term' = term
                    /\ back' = [back EXCEPT ![q] = "idle"]
                    /\ desired_ip' = desired_ip
                    /\ pc'[q] \notin {"stop_1", "forget"}
                    /\ pc'[q] \in StartPoints => pc[q] \in StartPoints
<1>1. Moved => OneMonitor' /\ \A m \in Monitors : pc'[m] = pc[m]
  <2> SUFFICES ASSUME Moved PROVE OneMonitor' /\ \A m \in Monitors : pc'[m] = pc[m]
    OBVIOUS
  <2>1. \A m \in Monitors : pc'[m] = pc[m] /\ back'[m] = back[m]
    BY <1>0
  <2>2. \A r \in Clis : /\ pc'[r] \notin {"stop_1", "forget"} /\ back'[r] = "idle"
                        /\ pc'[r] \in StartPoints => pc[r] \in StartPoints
    BY <1>0
  <2>3. /\ \A m, n \in Monitors : pc[m] # "none" /\ pc[n] # "none" => m = n
        /\ pc[Boot] \in StartPoints => \A m \in Monitors : pc[m] = "none"
    BY DEF TruthInv, OneMonitor
  <2> QED
    BY <1>0, <2>1, <2>2, <2>3 DEF OneMonitor
<1>2. ASSUME Moved, server' = server, server_pid' = server_pid, bound_ip' = bound_ip
      PROVE  TruthInv'
  BY <1>1, <1>2, LessIsTrue
<1>3. CASE \E c \in Commands : Command(q, c)
  <2>1. PICK c \in Commands : Command(q, c)
    BY <1>3
  <2>2. pc'[q] \in {"on_1", "off_1"}
    BY <1>0, <2>1 DEF Command, SwitchOnly, Goto
  <2> QED
    BY <1>0, <1>2, <2>1, <2>2 DEF Command, Goto, runVars, StartPoints
<1>4. CASE \/ EnableTouches(q) \/ EnableRemoves(q) \/ DisableTouches(q) \/ DisableRemoves(q)
           \/ TouchFails(q) \/ StartLooks(q) \/ StartMigrates(q)
  <2>1. Moved
    BY <1>0, <1>4
    DEF EnableTouches, EnableRemoves, DisableTouches, DisableRemoves, TouchFails,
        StartLooks, StartMigrates, CallStop, Goto, StartPoints
  <2>2. server' = server /\ server_pid' = server_pid /\ bound_ip' = bound_ip
    BY <1>4 DEF EnableTouches, EnableRemoves, DisableTouches, DisableRemoves,
                TouchFails, StartLooks, StartMigrates, runVars
  <2> QED
    BY <1>2, <2>1, <2>2
<1>5. CASE StopServer(q)
  <2>1. Moved
    BY <1>0, <1>5 DEF StopServer, StopRead, StopWait, StopRemove, Goto, StartPoints
  <2>2. OneMonitor' /\ \A m \in Monitors : pc'[m] = pc[m]
    BY <1>1, <2>1
  <2> QED
    BY <1>0, <1>5, <2>2, StopIsTrue, LessIsTrue
<1>6. ~StopCommand(q) /\ ~ForgetMonitor(q)
  BY <1>0 DEF StopCommand, ForgetMonitor
<1>7. CASE StartSpawns(q)
  <2>1. q = Boot /\ \A m \in Monitors : pc[m] = "none"
    BY <1>7 DEF StartSpawns, StartPoints, TruthInv, OneMonitor
  <2>2. /\ server' = server /\ server_pid' = server_pid /\ bound_ip' = bound_ip
        /\ back' = back /\ desired_ip' = desired_ip /\ term' = term
    BY <1>7 DEF StartSpawns, runVars
  <2>3. CASE Goto(q, "idle")
    BY <1>0, <1>2, <2>2, <2>3 DEF Goto, StartPoints
  <2>4. ASSUME NEW m \in Monitors,
               pc' = [pc EXCEPT ![q] = "idle", ![m] = "spawned"]
        PROVE  TruthInv'
    <3>1. /\ pc'[q] = "idle" /\ pc'[m] = "spawned"
          /\ \A n \in Monitors : n # m => pc'[n] = "none"
          /\ \A r \in Clis : r # q => pc'[r] = pc[r]
      BY <1>0, <2>1, <2>4, Names
    <3>2. OneMonitor'
      BY <1>0, <2>1, <2>2, <3>1 DEF OneMonitor, TrapPoints, StartPoints
    <3>3. Starting' = {}
      BY <2>1, <2>2 DEF Starting, TruthInv, NoneStarts
    <3>4. \A n \in Monitors : Follows(n)'
      BY <3>1 DEF Follows
    <3>5. BoundIpTruthful' /\ NoneStarts'
      BY <2>2, <3>3 DEF TruthInv, BoundIpTruthful, NoneStarts, Alive
    <3> QED
      BY <3>2, <3>4, <3>5 DEF TruthInv
  <2> QED
    BY <1>7, <2>3, <2>4 DEF StartSpawns
<1> QED
  BY <1>3, <1>4, <1>5, <1>6, <1>7 DEF CliStep

\* Every step leaves the ip file true.
LEMMA TruthNext ==
  ASSUME SwitchOnly
  PROVE  SshInv /\ TruthInv /\ [Next]_vars => TruthInv'
<1> SUFFICES ASSUME SshInv, TruthInv, [Next]_vars PROVE TruthInv'
  OBVIOUS
<1>1. SshInv'
  BY SshNext
<1>2. CASE \E m \in Monitors : MonitorStep(m)
  BY <1>1, <1>2, MonitorIsTrue
<1>3. CASE \E p \in Pids : ServerWritesPid(p) \/ ServerEnds(p)
  BY <1>3, ServerIsTrue
<1>4. CASE \E q \in Clis : CliStep(q) \/ \E c \in Commands : Command(q, c)
  BY <1>4, CliIsTrue
<1>5. CASE WifiChanges \/ DeveloperModeToggles \/ CardToggles \/ UNCHANGED vars
  <2>1. UNCHANGED <<runVars, procVars>>
    BY <1>5 DEF WifiChanges, DeveloperModeToggles, CardToggles, vars
  <2>2. /\ pc' = pc /\ back' = back /\ term' = term /\ desired_ip' = desired_ip
        /\ server' = server /\ server_pid' = server_pid /\ bound_ip' = bound_ip
    BY <2>1 DEF runVars, procVars
  <2>3. OneMonitor'
    BY <2>2 DEF TruthInv, OneMonitor
  <2> QED
    BY <2>2, <2>3, LessIsTrue
<1>6. CASE PowerCycle
  <2>1. /\ \A m \in Monitors : pc'[m] = "none" /\ back'[m] = "idle" /\ term'[m] = FALSE
        /\ \A q \in Clis : /\ pc'[q] \in {"start_1", "idle"} /\ back'[q] = "idle"
                           /\ pc'[q] = "start_1" => q = Boot
        /\ server_pid' = None /\ bound_ip' = None
        /\ \A p \in Pids : server'[p] = Dead
    BY <1>6, Names DEF PowerCycle, BootPc, NoServers
  <2>2. OneMonitor'
    BY <2>1 DEF OneMonitor, TrapPoints, StartPoints
  <2>3. Starting' = {}
    BY <2>1 DEF Starting, Dead
  <2> QED
    BY <2>1, <2>2, <2>3 DEF TruthInv, NoneStarts, BoundIpTruthful, Follows
<1> QED
  BY <1>2, <1>3, <1>4, <1>5, <1>6 DEF Next

\* While nothing but the user interface's switch is used, the ip file is
\* right whenever the pid file names a live Dropbear, however the switch's
\* own stop_server falls between the monitor's steps (r1-ssh-control,
\* is_running, start_server, stop_server).
THEOREM BoundIpAlwaysTruthful ==
  ASSUME SwitchOnly
  PROVE  Spec => []BoundIpTruthful
<1>1. SshInv /\ TruthInv /\ [Next]_vars => TruthInv'
  BY TruthNext
<1>2. TruthInv => BoundIpTruthful
  BY DEF TruthInv
<1> QED
  BY <1>1, <1>2, TruthInit, SshInvariant, PTL DEF Spec

================================================================================
