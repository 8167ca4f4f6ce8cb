---------------------------- MODULE DaemonProofs ----------------------------
(***************************************************************************)
(* That Stop leaves no child behind (Daemon), for any number of restarts,  *)
(* boots and deaths.                                                       *)
(*                                                                         *)
(* Stop reads m.cmd while the monitor may be about to replace it, so the   *)
(* process it holds need not be the last one.  The proof rests on what the *)
(* cancelled context rules out: from then on the monitor can only fail to  *)
(* spawn, and a monitor between two children, or past the last, has none   *)
(* that runs.                                                              *)
(***************************************************************************)
EXTENDS Daemon, TLAPS

NoChild == \A n \in Spawns : proc[n] # "up"

\* A child that runs is the one m.cmd names, and the manager counts its children.
ChildInv ==
    /\ proc \in [Spawns -> {"none", "up", "gone"}]
    /\ \A n \in Spawns : proc[n] = "up" => n = cmd
    /\ restarts \in Nat /\ cmd \in Nat
    /\ mon \in {"off", "wait", "spawn", "discover", "closed"}
    /\ mon \in {"wait", "discover"} => cmd = restarts + 1 /\ restarts <= MaxRestarts
    /\ mon = "spawn" => cmd = restarts /\ 1 <= restarts /\ restarts <= MaxRestarts

\* The monitor knows of every child once it runs; before that Start does.
MonitorInv ==
    /\ mon \in {"spawn", "closed"} => NoChild
    /\ mon = "off" => /\ restarts = 0
                      /\ app \in {"discover", "health"} \/ NoChild
    /\ mon # "off" => url # External
    /\ app \in {"discover", "health"} => mon = "off" /\ cmd = 1
    /\ app = "down" => mon = "off" /\ NoChild

\* Once Stop was called no further child starts, and the process it waits for is the
\* last one unless the monitor has ended.
StopInv ==
    /\ app \in {"stop", "await", "await2", "returned"} => cancelled \/ mon = "off"
    /\ app = "await" => held = cmd \/ mon = "closed"
    /\ app = "returned" => NoChild

DaemonInv == ChildInv /\ MonitorInv /\ StopInv

\* No child, no monitor and no shutdown at first.
LEMMA DaemonInit == Init => DaemonInv
  BY DaemonAssumption DEF Init, DaemonInv, ChildInv, MonitorInv, StopInv, NoChild

\* The process ends.
LEMMA ForgetStep ==
    ASSUME Forget
    PROVE  DaemonInv'
  BY DaemonAssumption DEF Forget, DaemonInv, ChildInv, MonitorInv, StopInv, NoChild

\* Steps of the workers, the administrator and the world.
LEMMA ElsewhereStep ==
    ASSUME DaemonInv, UNCHANGED mgrVars
    PROVE  DaemonInv'
  BY DEF mgrVars, DaemonInv, ChildInv, MonitorInv, StopInv, NoChild

\* Start with its waits, the start of the workers, and the end of the process.
LEMMA StartSteps ==
    ASSUME DaemonInv, Manager
    PROVE  DaemonInv'
<1> USE DaemonAssumption DEF DaemonInv, ChildInv, MonitorInv, StopInv, NoChild, Spawns
<1>1. CASE Start
  <2>1. CASE ext  BY <1>1, <2>1 DEF Start
  <2>2. CASE ~ext /\ app' = "discover"  BY <1>1, <2>2 DEF Start
  <2>3. CASE ~ext /\ UNCHANGED <<app, proc, cmd, url>>  BY <1>1, <2>3 DEF Start
  <2> QED  BY <1>1, <2>1, <2>2, <2>3 DEF Start
<1>2. CASE waitForDiscovery
  <2>1. CASE Forget  BY <2>1, ForgetStep
  <2>2. CASE app' = "health"  BY <1>2, <2>1, <2>2 DEF waitForDiscovery, Forget
  <2> QED  BY <1>2, <2>1, <2>2 DEF waitForDiscovery
<1>3. CASE waitForHealth
  <2>1. CASE Forget  BY <2>1, ForgetStep
  <2>2. CASE app' = "boot"  BY <1>3, <2>2 DEF waitForHealth, Forget
  <2> QED  BY <1>3, <2>1, <2>2 DEF waitForHealth
<1>4. CASE StartWorkers \/ FirstCheck  BY <1>4 DEF StartWorkers, FirstCheck
<1>5. CASE Exit  BY <1>5, ForgetStep DEF Exit
<1> QED  BY <1>1, <1>2, <1>3, <1>4, <1>5 DEF Manager

\* The monitor goroutine, and the kill of its child when the context ends.
LEMMA MonitorSteps ==
    ASSUME DaemonInv, Monitor \/ ContextKills
    PROVE  DaemonInv'
<1> USE DaemonAssumption DEF DaemonInv, ChildInv, MonitorInv, StopInv, NoChild, Spawns
<1>1. CASE monitor  BY <1>1 DEF monitor
<1>2. CASE spawn
  <2>1. CASE Spawnable /\ mon' = "discover"  BY <1>2, <2>1 DEF spawn, Spawnable, SpawnFails
  <2>2. CASE SpawnFails  BY <1>2, <2>2 DEF spawn, SpawnFails
  <2> QED  BY <1>2, <2>1, <2>2 DEF spawn
<1>3. CASE Rediscover  BY <1>3 DEF Rediscover
<1>4. CASE ContextKills  BY <1>4 DEF ContextKills
<1> QED  BY <1>1, <1>2, <1>3, <1>4 DEF Monitor

\* Stop: what it reads, and its wait for the monitor or for the time-out.
LEMMA StopSteps ==
    ASSUME DaemonInv, Stop \/ Stopping
    PROVE  DaemonInv'
<1> USE DaemonAssumption DEF DaemonInv, ChildInv, MonitorInv, StopInv, NoChild, Spawns
<1>1. CASE Stop  BY <1>1 DEF Stop
<1>2. CASE StopRead  BY <1>2 DEF StopRead
<1>3. CASE StopDone  BY <1>3 DEF StopDone
<1>4. CASE StopTimeout  BY <1>4 DEF StopTimeout
<1> QED  BY <1>1, <1>2, <1>3, <1>4 DEF Stopping

\* DaemonInv is inductive.
LEMMA DaemonNext == DaemonInv /\ [Next]_vars => DaemonInv'
<1> SUFFICES ASSUME DaemonInv, [Next]_vars PROVE DaemonInv'  OBVIOUS
<1>1. CASE Crash  BY <1>1, ForgetStep DEF Crash
<1>2. CASE checkAntdHealth \/ diskCheck  BY <1>2, ElsewhereStep DEF checkAntdHealth, diskCheck
<1>3. ASSUME NEW c \in Checks, otherCheck(c)  PROVE DaemonInv'
  BY <1>3, ElsewhereStep DEF otherCheck
<1>4. ASSUME NEW k \in Flags, NEW v \in BOOLEAN, AdminUpdateSettings(k, v)  PROVE DaemonInv'
  BY <1>4, ElsewhereStep DEF AdminUpdateSettings
<1>5. CASE DaemonDies
  BY <1>5, DaemonAssumption
     DEF DaemonDies, DaemonInv, ChildInv, MonitorInv, StopInv, NoChild, Spawns
<1>6. CASE NetworkChanges \/ DiskChanges
  BY <1>6, ElsewhereStep DEF NetworkChanges, DiskChanges
<1>7. CASE UNCHANGED vars  BY <1>7, ElsewhereStep DEF vars
<1> QED
  BY <1>1, <1>2, <1>3, <1>4, <1>5, <1>6, <1>7, StartSteps, MonitorSteps, StopSteps DEF Next

\* The inductive invariant holds in every behaviour.
THEOREM DaemonInvariant == Spec => []DaemonInv
  BY DaemonInit, DaemonNext, PTL DEF Spec

\* When Stop has returned no child of the manager runs, whatever restart was under
\* way when it was called, for every number of restarts.
THEOREM StopStopsTheDaemon == Spec => []StopLeavesNoDaemon
<1>1. DaemonInv => StopLeavesNoDaemon  BY DEF DaemonInv, StopInv, StopLeavesNoDaemon, NoChild
<1> QED  BY <1>1, DaemonInvariant, PTL

=============================================================================
