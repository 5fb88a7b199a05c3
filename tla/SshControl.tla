------------------------------ MODULE SshControl ------------------------------
(***************************************************************************)
(* The SSH controller, mods/ssh-dropbear/.../usr/bin/r1-ssh-control and    *)
(* its init script S91dropbear.  A monitor process makes Dropbear follow   *)
(* the persistent switch, Developer Mode, the recovery card and wlan0's    *)
(* address, while commands run by the user interface and by the init       *)
(* script change the switch and touch the same files in /run.              *)
(*                                                                         *)
(* A shell process is a control point in pc; stop_server, which sleeps and *)
(* is called from everywhere, is three steps with a return point (back).   *)
(* The script takes no lock: any number of commands may be at work at once.*)
(* Dropbear itself is external: it binds its address, goes into the        *)
(* background, and only then writes its pid file.                          *)
(***************************************************************************)
EXTENDS Integers

CONSTANTS Monitors,   \* processes that may run `r1-ssh-control monitor`
          Clis,       \* processes that run the other commands
          Boot,       \* the one of them that init runs S91dropbear start in
          Addresses,  \* the IPv4 addresses wlan0 may have
          None,       \* no address, no process, no marker file's content
          Commands,   \* the commands that are run in this instance
          MaxServers  \* bound: process ids a Dropbear may have

ASSUME NamesAssumption ==
  /\ Boot \in Clis
  /\ Clis \cap Monitors = {}
  /\ None \notin Monitors /\ None \notin Addresses /\ None \notin Nat
ASSUME BoundsAssumption == MaxServers \in Nat \ {0}
ASSUME CommandsAssumption ==
  Commands \subseteq {"enable", "disable", "toggle", "start", "stop", "restart"}

Procs == Monitors \cup Clis
Pids  == 1 .. MaxServers

VARIABLES
  enabled, disabled,  \* the two marker files
  key,                \* is dropbear_ed25519_host_key there and not empty
  developerOff,       \* /usr/data/disableadb exists
  card,               \* CFW_SSH_ENABLE is on the card
  address,            \* what wifi_ipv4 prints
  server_pid, bound_ip, monitor_pid,  \* the files in /run
  server,             \* Dropbear, by process id
  pc, back,           \* where each process is, where stop_server returns to
  victim,             \* the pid it read from server_pid
  desired_ip,         \* a monitor's desired_ip
  term,               \* a SIGTERM that waits for a monitor's trap
  restarting,         \* a command: `S91dropbear restart` still has to run start
  overlapped          \* history: since the markers were last left in peace, an
                      \* enable and a disable have both been at them

markerVars == <<enabled, disabled, key, overlapped>>
envVars    == <<developerOff, card, address>>
runVars    == <<server_pid, bound_ip, monitor_pid, server>>
procVars   == <<pc, back, victim, desired_ip, term, restarting>>
vars == <<markerVars, envVars, runVars, procVars>>

Dead == [state |-> "dead", ip |-> None]
Alive(p) == server[p].state # "dead"
ListensOn(p, a) == Alive(p) /\ server[p].ip = a
MonitorAlive(m) == pc[m] # "none"

\* configured_enabled: a host key without any marker is the legacy "on".  Its
\* three tests are one step: while one command changes the markers they give
\* what they would at some moment between them.
Configured == enabled \/ (~disabled /\ key)
Gates      == (Configured /\ ~developerOff) \/ card
Desired    == IF Gates THEN address ELSE None

\* The points at which a monitor supervises; after a SIGTERM it is in its trap.
StopPoints == {"stop_read", "stop_wait", "stop_remove"}
LoopPoints == {"eval", "decide", "start", "bound", "sleep"} \cup StopPoints
TrapPoints == {"trap_remove", "exit_remove"}
CliPoints  == {"idle", "on_1", "on_2", "off_1", "off_2", "start_1", "migrate",
               "start_2", "stop_1", "forget"} \cup StopPoints

-------------------------------------------------------------------------------
(***************************************************************************)
(* A device leaves the factory with no marker and no key, or was upgraded  *)
(* from the lab build, whose key means "on".  Booting runs S91dropbear     *)
(* start.                                                                  *)
(***************************************************************************)
BootPc == [q \in Procs |-> IF q = Boot THEN "start_1"
                           ELSE IF q \in Clis THEN "idle" ELSE "none"]

NoServers == [p \in Pids |-> Dead]

Init ==
  /\ enabled = FALSE /\ disabled = FALSE /\ overlapped = FALSE
  /\ key \in BOOLEAN
  /\ developerOff \in BOOLEAN
  /\ card = FALSE
  /\ address = None
  /\ server_pid = None /\ bound_ip = None /\ monitor_pid = None
  /\ server = NoServers
  /\ pc = BootPc
  /\ back = [q \in Procs |-> "idle"]
  /\ victim = [q \in Procs |-> None]
  /\ desired_ip = [m \in Monitors |-> None]
  /\ term = [m \in Monitors |-> FALSE]
  /\ restarting = [q \in Clis |-> FALSE]

Goto(q, p) == pc' = [pc EXCEPT ![q] = p]

\* Call stop_server, to go on at p.
CallStop(q, p) ==
  /\ Goto(q, "stop_read")
  /\ back' = [back EXCEPT ![q] = p]

(***************************************************************************)
(* stop_server.                                                            *)
(***************************************************************************)
\* The pid is read; a live Dropbear of that pid gets a SIGTERM.
StopRead(q) ==
  /\ pc[q] = "stop_read"
  /\ LET p == server_pid
         found == p # None /\ Alive(p)
     IN  /\ victim' = [victim EXCEPT ![q] = IF found THEN p ELSE None]
         /\ server' = IF found THEN [server EXCEPT ![p].state = "dying"] ELSE server
         /\ Goto(q, IF found THEN "stop_wait" ELSE "stop_remove")
  /\ UNCHANGED <<markerVars, envVars, server_pid, bound_ip, monitor_pid, back,
                 desired_ip, term, restarting>>

\* It is gone, or still there after five seconds and killed with -9.
StopWait(q) ==
  /\ pc[q] = "stop_wait"
  /\ server' = [server EXCEPT ![victim[q]] = Dead]
  /\ victim' = [victim EXCEPT ![q] = None]
  /\ Goto(q, "stop_remove")
  /\ UNCHANGED <<markerVars, envVars, server_pid, bound_ip, monitor_pid, back,
                 desired_ip, term, restarting>>

\* Variant: the ip file stays behind.
StopRemoveKeepsIp(q) ==
  /\ pc[q] = "stop_remove"
  /\ server_pid' = None
  /\ Goto(q, back[q])
  /\ back' = [back EXCEPT ![q] = "idle"]
  /\ UNCHANGED <<markerVars, envVars, bound_ip, monitor_pid, server, victim,
                 desired_ip, term, restarting>>

StopRemove(q) ==
  /\ pc[q] = "stop_remove"
  /\ server_pid' = None
  /\ bound_ip' = None
  /\ Goto(q, back[q])
  /\ back' = [back EXCEPT ![q] = "idle"]
  /\ UNCHANGED <<markerVars, envVars, monitor_pid, server, victim, desired_ip,
                 term, restarting>>

StopServer(q) == StopRead(q) \/ StopWait(q) \/ StopRemove(q)

(***************************************************************************)
(* Dropbear.                                                               *)
(***************************************************************************)
\* The daemon writes its pid file once it is in the background.
ServerWritesPid(p) ==
  /\ server[p].state = "starting"
  /\ server' = [server EXCEPT ![p].state = "up"]
  /\ server_pid' = p
  /\ UNCHANGED <<markerVars, envVars, bound_ip, monitor_pid, procVars>>

\* It ends: of the SIGTERM it got, or of a crash.
ServerEnds(p) ==
  /\ Alive(p)
  /\ server' = [server EXCEPT ![p] = Dead]
  /\ UNCHANGED <<markerVars, envVars, server_pid, bound_ip, monitor_pid,
                 procVars>>

\* A process id that no file and no process remembers.
FreePids == {p \in Pids : /\ ~Alive(p) /\ p # server_pid
                          /\ \A q \in Procs : victim[q] # p}

(***************************************************************************)
(* The monitor.                                                            *)
(***************************************************************************)
\* A step of its loop: a pending SIGTERM is taken before the next command.
InLoop(m, p) == pc[m] = p /\ ~term[m]

\* Its pid goes into monitor_pid and its trap is set.
MonitorBegins(m) ==
  /\ pc[m] = "spawned"
  /\ monitor_pid' = m
  /\ Goto(m, "eval")
  /\ UNCHANGED <<markerVars, envVars, server_pid, bound_ip, server, back, victim,
                 desired_ip, term, restarting>>

MonitorEvaluates(m) ==
  /\ InLoop(m, "eval")
  /\ desired_ip' = [desired_ip EXCEPT ![m] = Desired]
  /\ Goto(m, "decide")
  /\ UNCHANGED <<markerVars, envVars, runVars, back, victim, term, restarting>>

\* Variants: the ip file alone is believed; the pid file alone is.
IpFileNames(a) == bound_ip = a
PidFileNamesLive(a) == server_pid # None /\ Alive(server_pid)

\* Is the Dropbear of the pid file alive on the address the ip file names?
RunningOn(a) == server_pid # None /\ Alive(server_pid) /\ bound_ip = a

MonitorDecides(m) ==
  /\ InLoop(m, "decide")
  /\ IF desired_ip[m] = None
     THEN CallStop(m, "sleep")
     ELSE IF RunningOn(desired_ip[m])
          THEN Goto(m, "sleep") /\ UNCHANGED back
          ELSE CallStop(m, "start")
  /\ UNCHANGED <<markerVars, envVars, runVars, victim, desired_ip, term,
                 restarting>>

\* start_server: a missing host key is generated; Dropbear binds, or exits
\* because the address is taken or has left wlan0.
MonitorStarts(m) ==
  /\ InLoop(m, "start")
  /\ key' = TRUE
  /\ IF desired_ip[m] # address \/ \E p \in Pids : ListensOn(p, desired_ip[m])
     THEN UNCHANGED server
     ELSE /\ FreePids # {}
          /\ server' = [server EXCEPT ![CHOOSE p \in FreePids : TRUE] =
                          [state |-> "starting", ip |-> desired_ip[m]]]
  /\ Goto(m, "bound")
  /\ UNCHANGED <<enabled, disabled, overlapped, envVars, server_pid, bound_ip,
                 monitor_pid, back, victim, desired_ip, term, restarting>>

\* dropbearkey fails: the loop goes on.
KeyFails(m) ==
  /\ InLoop(m, "start")
  /\ ~key
  /\ Goto(m, "sleep")
  /\ UNCHANGED <<markerVars, envVars, runVars, back, victim, desired_ip, term,
                 restarting>>

\* echo "$address" > "$bound_ip", whatever became of Dropbear.
MonitorNotesAddress(m) ==
  /\ InLoop(m, "bound")
  /\ bound_ip' = desired_ip[m]
  /\ Goto(m, "sleep")
  /\ UNCHANGED <<markerVars, envVars, server_pid, monitor_pid, server, back,
                 victim, desired_ip, term, restarting>>

\* sleep 5 outlasts the start of Dropbear: the pid file is there by then.
MonitorWakes(m) ==
  /\ InLoop(m, "sleep")
  /\ \A p \in Pids : server[p].state # "starting"
  /\ Goto(m, "eval")
  /\ desired_ip' = [desired_ip EXCEPT ![m] = None]
  /\ UNCHANGED <<markerVars, envVars, runVars, back, victim, term, restarting>>

\* Variant: a signal in the middle of stop_server's wait does not end the wait.
TrapKeepsWaiting(m) ==
  /\ pc[m] \in LoopPoints
  /\ term[m]
  /\ term' = [term EXCEPT ![m] = FALSE]
  /\ desired_ip' = [desired_ip EXCEPT ![m] = None]
  /\ CallStop(m, "trap_remove")
  /\ UNCHANGED <<markerVars, envVars, runVars, victim, restarting>>

\* trap 'stop_server; rm -f "$monitor_pid"; exit 0' INT TERM EXIT.
MonitorTraps(m) ==
  /\ pc[m] \in LoopPoints
  /\ term[m]
  /\ term' = [term EXCEPT ![m] = FALSE]
  /\ desired_ip' = [desired_ip EXCEPT ![m] = None]
  /\ victim' = [victim EXCEPT ![m] = None]
  /\ CallStop(m, "trap_remove")
  /\ UNCHANGED <<markerVars, envVars, runVars, restarting>>

\* exit 0 in the trap runs the EXIT trap: everything once more.
TrapRemoves(m) ==
  /\ pc[m] = "trap_remove"
  /\ monitor_pid' = None
  /\ CallStop(m, "exit_remove")
  /\ UNCHANGED <<markerVars, envVars, server_pid, bound_ip, server, victim,
                 desired_ip, term, restarting>>

MonitorExits(m) ==
  /\ pc[m] = "exit_remove"
  /\ monitor_pid' = None
  /\ Goto(m, "none")
  /\ term' = [term EXCEPT ![m] = FALSE]
  /\ UNCHANGED <<markerVars, envVars, server_pid, bound_ip, server, back, victim,
                 desired_ip, restarting>>

MonitorStep(m) ==
  \/ MonitorBegins(m)
  \/ MonitorEvaluates(m)
  \/ MonitorDecides(m)
  \/ ~(term[m] /\ back[m] \in LoopPoints) /\ StopServer(m)
  \/ MonitorStarts(m)
  \/ KeyFails(m)
  \/ MonitorNotesAddress(m)
  \/ MonitorWakes(m)
  \/ MonitorTraps(m)
  \/ TrapRemoves(m)
  \/ MonitorExits(m)

(***************************************************************************)
(* The commands, each in a process q of its own: the user interface, a     *)
(* shell and init may all be at one.                                       *)
(***************************************************************************)
Command(q, c) ==
  /\ c \in Commands
  /\ pc[q] = "idle"
  /\ restarting' = [restarting EXCEPT ![q] = c = "restart"]
  /\ Goto(q, CASE c = "enable"  -> "on_1"
               [] c = "disable" -> "off_1"
               [] c = "toggle"  -> IF Configured THEN "off_1" ELSE "on_1"
               [] c = "start"   -> "start_1"
               [] OTHER         -> "stop_1")
  /\ UNCHANGED <<markerVars, envVars, runVars, back, victim, desired_ip, term>>

\* Two opposite commands have touched their markers, and neither has removed the
\* other's; some command still has one to remove.
Overlap  == \E q, r \in Clis : pc[q] = "on_2" /\ pc[r] = "off_2"
Removing == \E q \in Clis : pc[q] \in {"on_2", "off_2"}

NoteOverlap == overlapped' = (Overlap' \/ (overlapped /\ Removing'))

\* set_enabled: touch enabled, then rm disabled.
EnableTouches(q) ==
  /\ pc[q] = "on_1"
  /\ enabled' = TRUE
  /\ Goto(q, "on_2")
  /\ NoteOverlap
  /\ UNCHANGED <<disabled, key, envVars, runVars, back, victim, desired_ip, term,
                 restarting>>

EnableRemoves(q) ==
  /\ pc[q] = "on_2"
  /\ disabled' = FALSE
  /\ Goto(q, "idle")
  /\ NoteOverlap
  /\ UNCHANGED <<enabled, key, envVars, runVars, back, victim, desired_ip,
                 term, restarting>>

\* Variant: rm enabled comes first.
DisableRemovesFirst(q) ==
  /\ pc[q] = "off_1"
  /\ enabled' = FALSE
  /\ Goto(q, "off_2")
  /\ NoteOverlap
  /\ UNCHANGED <<disabled, key, envVars, runVars, back, victim, desired_ip,
                 term, restarting>>

\* set_disabled: touch disabled, then rm enabled; then stop_server.
DisableTouches(q) ==
  /\ pc[q] = "off_1"
  /\ disabled' = TRUE
  /\ Goto(q, "off_2")
  /\ NoteOverlap
  /\ UNCHANGED <<enabled, key, envVars, runVars, back, victim, desired_ip,
                 term, restarting>>

DisableRemoves(q) ==
  /\ pc[q] = "off_2"
  /\ enabled' = FALSE
  /\ CallStop(q, "idle")
  /\ NoteOverlap
  /\ UNCHANGED <<disabled, key, envVars, runVars, victim, desired_ip, term,
                 restarting>>

\* start: migrate_legacy_state looks for markers and a key ...
StartLooks(q) ==
  /\ pc[q] = "start_1"
  /\ Goto(q, IF ~enabled /\ ~disabled /\ key THEN "migrate" ELSE "start_2")
  /\ restarting' = [restarting EXCEPT ![q] = FALSE]
  /\ UNCHANGED <<markerVars, envVars, runVars, back, victim, desired_ip, term>>

\* ... and touches enabled; a touch that fails is passed over.
StartMigrates(q) ==
  /\ pc[q] = "migrate"
  /\ enabled' \in {enabled, TRUE}
  /\ Goto(q, "start_2")
  /\ UNCHANGED <<disabled, key, overlapped, envVars, runVars, back, victim, desired_ip,
                 term, restarting>>

\* Then a monitor, unless monitor_pid names one.
StartSpawns(q) ==
  /\ pc[q] = "start_2"
  /\ IF monitor_pid # None /\ MonitorAlive(monitor_pid)
     THEN Goto(q, "idle")
     ELSE \E m \in Monitors :
            /\ ~MonitorAlive(m)
            /\ pc' = [pc EXCEPT ![q] = "idle", ![m] = "spawned"]
  /\ UNCHANGED <<markerVars, envVars, runVars, back, victim, desired_ip, term,
                 restarting>>

\* stop: a SIGTERM for the monitor of monitor_pid, without waiting for it; or,
\* when there is none, stop_server here.
StopCommand(q) ==
  /\ pc[q] = "stop_1"
  /\ IF monitor_pid # None /\ MonitorAlive(monitor_pid)
     THEN /\ term' = [term EXCEPT ![monitor_pid] = pc[monitor_pid] \in LoopPoints]
          /\ Goto(q, IF restarting[q] THEN "start_1" ELSE "idle")
          /\ UNCHANGED back
     ELSE CallStop(q, "forget") /\ UNCHANGED term
  /\ UNCHANGED <<markerVars, envVars, runVars, victim, desired_ip, restarting>>

ForgetMonitor(q) ==
  /\ pc[q] = "forget"
  /\ monitor_pid' = None
  /\ Goto(q, IF restarting[q] THEN "start_1" ELSE "idle")
  /\ UNCHANGED <<markerVars, envVars, server_pid, bound_ip, server, back, victim,
                 desired_ip, term, restarting>>

\* A touch fails: return 1, and disable does not come to stop_server.
TouchFails(q) ==
  /\ pc[q] \in {"on_1", "off_1"}
  /\ Goto(q, "idle")
  /\ UNCHANGED <<markerVars, envVars, runVars, back, victim, desired_ip, term,
                 restarting>>

CliStep(q) ==
  \/ EnableTouches(q)
  \/ EnableRemoves(q)
  \/ DisableTouches(q)
  \/ DisableRemoves(q)
  \/ TouchFails(q)
  \/ StartLooks(q)
  \/ StartMigrates(q)
  \/ StartSpawns(q)
  \/ StopCommand(q)
  \/ ForgetMonitor(q)
  \/ StopServer(q)

(***************************************************************************)
(* The environment.                                                        *)
(***************************************************************************)
WifiChanges ==
  /\ address' \in Addresses \cup {None}
  /\ UNCHANGED <<markerVars, developerOff, card, runVars, procVars>>

DeveloperModeToggles ==
  /\ developerOff' = ~developerOff
  /\ UNCHANGED <<markerVars, card, address, runVars, procVars>>

CardToggles ==
  /\ card' = ~card
  /\ UNCHANGED <<markerVars, developerOff, address, runVars, procVars>>

\* Power is lost at any moment; /run is empty after it, /usr/data is not.
PowerCycle ==
  /\ address' = None
  /\ server_pid' = None /\ bound_ip' = None /\ monitor_pid' = None
  /\ server' = NoServers
  /\ pc' = BootPc
  /\ back' = [q \in Procs |-> "idle"]
  /\ victim' = [q \in Procs |-> None]
  /\ desired_ip' = [m \in Monitors |-> None]
  /\ term' = [m \in Monitors |-> FALSE]
  /\ restarting' = [q \in Clis |-> FALSE]
  /\ overlapped' = FALSE
  /\ UNCHANGED <<enabled, disabled, key, developerOff, card>>

Next ==
  \/ \E m \in Monitors : MonitorStep(m)
  \/ \E p \in Pids : ServerWritesPid(p) \/ ServerEnds(p)
  \/ \E q \in Clis : CliStep(q) \/ \E c \in Commands : Command(q, c)
  \/ WifiChanges
  \/ DeveloperModeToggles
  \/ CardToggles
  \/ PowerCycle

Spec == Init /\ [][Next]_vars

(***************************************************************************)
(* Processes that can run do: the monitor's sleep and stop_server's wait   *)
(* are bounded, and Dropbear writes its pid file once started.  dropbearkey*)
(* does not fail for ever.  Nothing is assumed of the user, the network or *)
(* the power.                                                              *)
(***************************************************************************)
Fairness ==
  /\ \A m \in Monitors : WF_vars(MonitorStep(m)) /\ SF_vars(MonitorStarts(m))
  /\ \A q \in Clis : WF_vars(CliStep(q))
  /\ \A p \in Pids : /\ WF_vars(ServerWritesPid(p))
                     /\ WF_vars(server[p].state = "dying" /\ ServerEnds(p))

FairSpec == Spec /\ Fairness

-------------------------------------------------------------------------------
(***************************************************************************)
(* Properties.                                                             *)
(***************************************************************************)
\* Types; a process waits in stop_server exactly while it has a victim, and
\* knows where to return to exactly while it is in stop_server.
TypeOK ==
  /\ {enabled, disabled, key, developerOff, card, overlapped} \subseteq BOOLEAN
  /\ restarting \in [Clis -> BOOLEAN]
  /\ address \in Addresses \cup {None}
  /\ server_pid \in Pids \cup {None}
  /\ bound_ip \in Addresses \cup {None}
  /\ monitor_pid \in Monitors \cup {None}
  /\ server \in [Pids -> [state : {"dead", "starting", "up", "dying"},
                         ip : Addresses \cup {None}]]
  /\ \A m \in Monitors : pc[m] \in {"none", "spawned"} \cup LoopPoints \cup TrapPoints
  /\ \A q \in Clis : pc[q] \in CliPoints /\ back[q] \in {"idle", "forget"}
  /\ \A q \in Procs : /\ victim[q] \in Pids \cup {None}
                       /\ (pc[q] = "stop_wait") = (victim[q] # None)
  /\ \A m \in Monitors : (pc[m] \in StopPoints) = (back[m] # "idle")
  /\ desired_ip \in [Monitors -> Addresses \cup {None}]
  /\ term \in [Monitors -> BOOLEAN]

\* The script's comment: "Images built before the dedicated toggle generated a
\* host key [...].  Treat that key as the legacy enabled state": there is no
\* marker only where the switch was never used, and a switch that has a marker
\* keeps one.  Two commands that overlap refute it.
MarkerNeverLost == [][enabled \/ disabled => enabled' \/ disabled']_vars

\* What is true of it: once the switch has a marker it keeps one, whatever step
\* the power is lost after and whatever other commands run (set_enabled and
\* set_disabled touch one before they remove the other).  Only an enable and a
\* disable between whose touches and removals neither had ended can lose both.
MarkersLostOnlyByOverlap ==
  [][enabled \/ disabled => enabled' \/ disabled' \/ overlapped]_vars

\* status and the monitor's rebind test believe the ip file: while the pid file
\* names a live Dropbear, the ip file, if there, names the address it is bound to.
BoundIpTruthful ==
  server_pid # None /\ Alive(server_pid) /\ bound_ip # None
    => server[server_pid].ip = bound_ip

\* README: "The five-second monitor stops or rebinds Dropbear when any of those
\* conditions changes".  While an address stays wanted, a Dropbear listens on it
\* again and again, though it crash.
Rebinds ==
  \A a \in Addresses :
    <>[](Desired = a) => []<>(\E p \in Pids : ListensOn(p, a))

\* The same, asked only of behaviours in which the commands come to an end: it
\* must not take another one to have the monitor back.  restart refutes it.
RebindsAtRest == <>[](\A q \in Clis : pc[q] = "idle") => Rebinds

\* README: "SSH listens only when all of these conditions are true".  Once
\* nothing else is wanted for ever, no Dropbear is left on another address, nor
\* on any when none is wanted.
ListensOnlyWhenAllowed ==
  \A d \in Addresses \cup {None} :
    <>[](Desired = d) => <>[](\A p \in Pids : Alive(p) => server[p].ip = d)

================================================================================
