------------------------------- MODULE Daemon -------------------------------
(***************************************************************************)
(* The network daemon antd and the gates in front of uploads: the manager   *)
(* that spawns, restarts and stops the daemon as a child process, the       *)
(* system monitor that probes it, the disk alert worker, and the two        *)
(* settings, antd_unavailable and uploads_paused, through which both        *)
(* workers make CreateUpload refuse requests.                               *)
(*                                                                          *)
(* internal/antd/manager.go, internal/worker/{system_monitor,               *)
(* disk_alert}.go, internal/services/settings.go, cmd/indelible/main.go.    *)
(***************************************************************************)
EXTENDS Integers

CONSTANTS
    MaxRestarts,   \* maxRestarts of the manager
    Threshold,     \* antdHealthCriticalThreshold
    Checks,        \* the other checks of the monitor (evm_rpc, wallet_balance, ...)
    External,      \* the address of a daemon that the manager did not spawn
    None,          \* no address yet
    MaxChanges,    \* bound on deaths of daemons and changes of network and disk
    MaxBoots,      \* bound on boots of the application
    MaxFaults      \* bound on failed reads and writes of a flag, on checks that cannot determine
                   \* the disk's usage, and on settings overwritten by an admin

ASSUME DaemonAssumption ==
    /\ MaxRestarts \in Nat /\ Threshold \in Nat \ {0}
    /\ MaxChanges \in Nat /\ MaxBoots \in Nat /\ MaxFaults \in Nat
    /\ None \notin Nat /\ External \notin Nat /\ External # None

Spawns == 1 .. (MaxRestarts + 1)

VARIABLES
    \* the application and the manager
    app,        \* down, discover, health (Start), boot, check (the workers start), up,
                \* stop, await, await2, returned (Stop)
    proc,       \* the processes spawned since the boot: none, up, gone
    cmd,        \* m.cmd, 0 before the first spawn
    mon,        \* the monitor goroutine: off, wait, spawn, discover, closed (m.done)
    restarts,
    cancelled,  \* the context of the children
    held,       \* the process that Stop holds
    url,        \* cfg.AntdURL, which the clients of the daemon use
    \* the world
    ext,        \* a daemon left by an earlier run, or run by someone else
    net,        \* does the daemon reach the network
    disk,       \* low, warn, full
    \* the monitors and what they keep
    soft,       \* antdSoftFailures
    alerts,     \* lastAlerts of the monitor, and lastAlertLevel of the disk worker as "disk"
    mem,        \* antdUnavailable and IsPaused, the copies in memory
    flag,       \* settings antd_unavailable and uploads_paused
    \* history and bounds
    stuck,      \* flags whose copy in memory an error or an admin's edit made wrong, until
                \* the next boot or the next transition that is written
    changes, boots, faults

mgrVars   == <<app, proc, cmd, mon, restarts, cancelled, held, url>>
worldVars == <<ext, net, disk>>
gateVars  == <<soft, alerts, mem, flag, stuck, faults>>
vars      == <<mgrVars, worldVars, gateVars, changes, boots>>

Flags   == {"antd_unavailable", "uploads_paused"}
AllChecks == Checks \cup {"antd_health", "disk"}

Init ==
    /\ app = "down" /\ proc = [n \in Spawns |-> "none"] /\ cmd = 0 /\ mon = "off" /\ restarts = 0
    /\ cancelled = FALSE /\ held = 0 /\ url = None
    /\ ext \in BOOLEAN /\ net = TRUE /\ disk = "low"
    /\ soft = 0 /\ alerts = [c \in AllChecks |-> "none"]
    /\ mem = [k \in Flags |-> FALSE] /\ flag = [k \in Flags |-> FALSE] /\ stuck = {}
    /\ changes = 0 /\ boots = 0 /\ faults = 0

\* What the process loses when it ends.
Forget ==
    /\ app' = "down" /\ proc' = [n \in Spawns |-> "none"] /\ cmd' = 0 /\ mon' = "off" /\ restarts' = 0
    /\ cancelled' = FALSE /\ held' = 0 /\ url' = None

-----------------------------------------------------------------------------
(* The two gates.                                                           *)

\* setAntdUnavailable and setPaused: only a transition is written, and the copy in
\* memory is set even when the write fails.
SetGate(k, v) ==
    /\ mem' = [mem EXCEPT ![k] = v]
    /\ IF mem[k] = v THEN UNCHANGED <<flag, stuck, faults>>
       ELSE \/ flag' = [flag EXCEPT ![k] = v] /\ stuck' = stuck \ {k} /\ UNCHANGED faults
            \/ /\ faults < MaxFaults /\ faults' = faults + 1
               /\ stuck' = stuck \cup {k} /\ UNCHANGED flag

fireAlert(c, level) == alerts' = [alerts EXCEPT ![c] = level]
clearAlert(c)       == alerts' = [alerts EXCEPT ![c] = "none"]

Reachable == IF url = External THEN ext ELSE url \in Spawns /\ proc[url] = "up"
Serving   == app = "up"

\* checkAntdHealth: a probe that succeeds, ...
ProbeOk ==
    /\ Reachable /\ net
    /\ soft' = 0 /\ SetGate("antd_unavailable", FALSE) /\ clearAlert("antd_health")

\* ... one that finds nobody at the address, ...
ProbeHardDown ==
    /\ ~Reachable
    /\ UNCHANGED soft /\ SetGate("antd_unavailable", TRUE) /\ fireAlert("antd_health", "critical")

\* ... and one that a daemon answers slowly or with 502 or 503, which is critical after a
\* streak (the counter is capped at the threshold).
ProbeSoft ==
    /\ Reachable /\ ~net
    /\ soft' = IF soft < Threshold THEN soft + 1 ELSE soft
    /\ IF soft' >= Threshold
       THEN SetGate("antd_unavailable", TRUE) /\ fireAlert("antd_health", "critical")
       ELSE UNCHANGED <<mem, flag, stuck, faults>> /\ fireAlert("antd_health", "warning")

checkAntdHealth ==
    /\ Serving /\ (ProbeOk \/ ProbeHardDown \/ ProbeSoft)
    /\ UNCHANGED <<mgrVars, worldVars, changes, boots>>

\* The other checks fire, clear, or have too little to go by and leave the alert standing.
otherCheck(c) ==
    /\ Serving /\ (fireAlert(c, "warning") \/ clearAlert(c))
    /\ UNCHANGED <<mgrVars, worldVars, soft, mem, flag, stuck, faults, changes, boots>>

\* DiskAlertWorker.check: nothing is done when the usage cannot be determined; uploads are
\* paused at the critical level only; the level that was last told to the webhooks is kept.
DiskLevel == CASE disk = "full" -> "critical" [] disk = "warn" -> "warning" [] OTHER -> "none"

check ==
    \/ faults < MaxFaults /\ faults' = faults + 1 /\ UNCHANGED <<mem, flag, stuck, alerts>>
    \/ SetGate("uploads_paused", disk = "full") /\ fireAlert("disk", DiskLevel)

diskCheck ==
    /\ Serving /\ check
    /\ UNCHANGED <<mgrVars, worldVars, soft, changes, boots>>

\* Mutant: the monitor starts from nothing.
MutMonitorStart == mem' = [k \in Flags |-> FALSE] /\ stuck' = {} /\ UNCHANGED <<flag, faults>>

\* SystemMonitor.Start and DiskAlertWorker.Start take their copies of the flags from the
\* database; a copy whose read fails stays false, whatever is stored.
MonitorStart ==
    \E lost \in SUBSET Flags :
        /\ mem' = [k \in Flags |-> k \notin lost /\ flag[k]]
        /\ stuck' = {k \in lost : flag[k]}
        /\ IF lost = {} THEN UNCHANGED faults ELSE faults < MaxFaults /\ faults' = faults + 1
        /\ UNCHANGED flag

\* AdminUpdateSettings and AdminImportSettings accept these keys too.
AdminUpdateSettings(k, v) ==
    /\ Serving /\ faults < MaxFaults /\ faults' = faults + 1
    /\ flag[k] # v /\ flag' = [flag EXCEPT ![k] = v] /\ stuck' = stuck \cup {k}
    /\ UNCHANGED <<mgrVars, worldVars, soft, alerts, mem, changes, boots>>

\* CreateUpload reads both flags from the database.
CreateUploadOpen == ~flag["antd_unavailable"] /\ ~flag["uploads_paused"]

-----------------------------------------------------------------------------
(* Manager.Start.                                                           *)

\* Start attaches to a daemon that answers, or spawns one; without a binary the
\* application exits.
Start ==
    /\ app = "down" /\ boots < MaxBoots /\ boots' = boots + 1
    /\ \/ /\ ext /\ app' = "boot" /\ url' = External
          /\ UNCHANGED <<proc, cmd>>
       \/ /\ ~ext /\ app' = "discover" /\ cmd' = 1 /\ proc' = [proc EXCEPT ![1] = "up"]
          /\ UNCHANGED url
       \/ ~ext /\ UNCHANGED <<app, proc, cmd, url>>
    /\ UNCHANGED <<mon, restarts, cancelled, held, worldVars, gateVars, changes>>

\* waitForDiscovery and waitForHealth; on failure the child is killed and the application exits.
waitForDiscovery ==
    /\ app = "discover"
    /\ \/ proc[cmd] = "up" /\ app' = "health" /\ UNCHANGED <<proc, cmd, mon, restarts, cancelled, held, url>>
       \/ Forget
    /\ UNCHANGED <<worldVars, gateVars, changes, boots>>

waitForHealth ==
    /\ app = "health"
    /\ \/ /\ proc[cmd] = "up" /\ app' = "boot" /\ mon' = "wait" /\ url' = cmd
          /\ UNCHANGED <<proc, cmd, restarts, cancelled, held>>
       \/ Forget
    /\ UNCHANGED <<worldVars, gateVars, changes, boots>>

\* The workers start once the daemon is there; the disk worker checks at once.
StartWorkers ==
    /\ app = "boot" /\ app' = "check" /\ soft' = 0 /\ alerts' = [c \in AllChecks |-> "none"]
    /\ MonitorStart
    /\ UNCHANGED <<proc, cmd, mon, restarts, cancelled, held, url, worldVars, changes, boots>>

FirstCheck ==
    /\ app = "check" /\ app' = "up" /\ check
    /\ UNCHANGED <<proc, cmd, mon, restarts, cancelled, held, url, worldVars, soft, changes, boots>>

-----------------------------------------------------------------------------
(* Manager.monitor.                                                         *)

\* cmd.Wait returns when the child is gone.
monitor ==
    /\ mon = "wait" /\ proc[cmd] = "gone"
    /\ IF cancelled \/ restarts >= MaxRestarts
       THEN mon' = "closed" /\ UNCHANGED restarts
       ELSE mon' = "spawn" /\ restarts' = restarts + 1
    /\ UNCHANGED <<app, proc, cmd, cancelled, held, url, worldVars, gateVars, changes, boots>>

\* Mutant: the child is not bound to the context.
MutSpawnable == TRUE

\* exec.CommandContext refuses to start a child of a cancelled context.
Spawnable == ~cancelled

\* m.cmd is replaced before the start is tried.
SpawnFails == mon' = "closed" /\ cmd' = cmd + 1 /\ UNCHANGED proc

spawn ==
    /\ mon = "spawn"
    /\ \/ /\ Spawnable /\ mon' = "discover"
          /\ cmd' = cmd + 1 /\ proc' = [proc EXCEPT ![cmd + 1] = "up"]
       \/ SpawnFails
    /\ UNCHANGED <<app, restarts, cancelled, held, url, worldVars, gateVars, changes, boots>>

\* Mutant: the address is waited for without a deadline.
MutRediscover ==
    /\ mon = "discover" /\ proc[cmd] = "up" /\ mon' = "wait"
    /\ UNCHANGED <<app, proc, cmd, restarts, cancelled, held, url, worldVars, gateVars, changes, boots>>

\* The new address goes to m.url, which nobody reads after the boot.  A child that
\* writes no address in time is killed and nobody restarts it.
Rediscover ==
    /\ mon = "discover"
    /\ \/ mon' = "wait" /\ UNCHANGED proc
       \/ mon' = "closed" /\ proc' = [proc EXCEPT ![cmd] = "gone"]
    /\ UNCHANGED <<app, cmd, restarts, cancelled, held, url, worldVars, gateVars, changes, boots>>

\* The goroutine of exec that kills the child of a cancelled context.
ContextKills ==
    /\ cancelled /\ \E n \in Spawns : proc[n] = "up" /\ proc' = [proc EXCEPT ![n] = "gone"]
    /\ UNCHANGED <<app, cmd, mon, restarts, cancelled, held, url, worldVars, gateVars, changes, boots>>

-----------------------------------------------------------------------------
(* Manager.Stop, at shutdown.                                               *)

\* cancel first, then read m.cmd; a manager that attached has neither.
Stop ==
    /\ app = "up" /\ app' = "stop"
    /\ cancelled' = (url # External)
    /\ UNCHANGED <<proc, cmd, mon, restarts, held, url, worldVars, gateVars, changes, boots>>

\* A child that never ran needs no stopping; another one is interrupted.
StopRead ==
    /\ app = "stop"
    /\ IF cmd = 0 \/ proc[cmd] = "none"
       THEN app' = "returned" /\ UNCHANGED held
       ELSE app' = "await" /\ held' = cmd
    /\ UNCHANGED <<proc, cmd, mon, restarts, cancelled, url, worldVars, gateVars, changes, boots>>

StopDone ==
    /\ app \in {"await", "await2"} /\ mon = "closed" /\ app' = "returned"
    /\ UNCHANGED <<proc, cmd, mon, restarts, cancelled, held, url, worldVars, gateVars, changes, boots>>

\* After stopTimeout: Kill of a child that was already waited for is an error, which
\* Stop returns; otherwise it waits for the monitor.
StopTimeout ==
    /\ app = "await" /\ mon # "closed"
    /\ IF held # cmd \/ mon = "spawn"
       THEN app' = "returned" /\ UNCHANGED proc
       ELSE app' = "await2" /\ proc' = [proc EXCEPT ![held] = "gone"]
    /\ UNCHANGED <<cmd, mon, restarts, cancelled, held, url, worldVars, gateVars, changes, boots>>

Exit ==
    /\ app = "returned" /\ Forget
    /\ UNCHANGED <<worldVars, gateVars, changes, boots>>

\* The process ends without Stop (a crash, or os.Exit when the listener fails); a child that
\* runs stays behind.
Crash ==
    /\ app # "down" /\ changes < MaxChanges /\ changes' = changes + 1
    /\ ext' = (ext \/ \E n \in Spawns : proc[n] = "up")
    /\ Forget
    /\ UNCHANGED <<net, disk, gateVars, boots>>

-----------------------------------------------------------------------------
(* The world.                                                               *)

Changes == changes < MaxChanges /\ changes' = changes + 1 /\ UNCHANGED <<gateVars, boots>>

DaemonDies ==
    /\ Changes /\ UNCHANGED <<app, cmd, mon, restarts, cancelled, held, url, net, disk>>
    /\ \/ ext /\ ext' = FALSE /\ UNCHANGED proc
       \/ /\ \E n \in Spawns : proc[n] = "up" /\ proc' = [proc EXCEPT ![n] = "gone"]
          /\ UNCHANGED ext

NetworkChanges == Changes /\ net' = ~net /\ UNCHANGED <<mgrVars, ext, disk>>

DiskChanges ==
    /\ Changes /\ UNCHANGED <<mgrVars, ext, net>>
    /\ disk' \in {"low", "warn", "full"} \ {disk}

-----------------------------------------------------------------------------
Manager == Start \/ waitForDiscovery \/ waitForHealth \/ StartWorkers \/ FirstCheck \/ Exit
Monitor == monitor \/ spawn \/ Rediscover
Stopping == StopRead \/ StopDone \/ StopTimeout

Next ==
    \/ Manager \/ Monitor \/ ContextKills \/ Stop \/ Stopping \/ Crash
    \/ checkAntdHealth \/ diskCheck \/ \E c \in Checks : otherCheck(c)
    \/ \E k \in Flags, v \in BOOLEAN : AdminUpdateSettings(k, v)
    \/ DaemonDies \/ NetworkChanges \/ DiskChanges

Spec == Init /\ [][Next]_vars

\* The goroutines are scheduled, timers fire and killed processes die.
FairSpec ==
    /\ Spec
    /\ WF_vars(Monitor) /\ WF_vars(ContextKills) /\ WF_vars(Stopping)
    /\ WF_vars(checkAntdHealth) /\ WF_vars(diskCheck)

-----------------------------------------------------------------------------
(* Properties.                                                              *)

\* When Stop has returned, with or without an error, no child runs, whatever restart
\* was under way when it was called (manager.go, Stop and monitor).
StopLeavesNoDaemon == app = "returned" => \A n \in Spawns : proc[n] # "up"

\* A Stop that was called returns: the monitor closes done on each of its ways out.
StopReturns == app \in {"stop", "await", "await2"} ~> app \notin {"stop", "await", "await2"}

Healthy == Serving /\ Reachable /\ net

\* The gates follow what they stand for.  In an instance that stays up, CreateUpload
\* is in the end refused while the daemon or the network stays away or the disk stays full,
\* and served again once each is back, across restarts that leave a stale flag behind;
\* only a failed write, a failed read of the flag at boot or an admin's edit may leave a
\* gate as it is, until the next boot or the next transition that is written.
GateFollows ==
    /\ <>[](Serving /\ ~Healthy /\ "antd_unavailable" \notin stuck) => <>[]flag["antd_unavailable"]
    /\ <>[](Healthy /\ "antd_unavailable" \notin stuck)
          => <>[](~flag["antd_unavailable"] /\ alerts["antd_health"] = "none")
    /\ <>[](Serving /\ disk = "full" /\ "uploads_paused" \notin stuck) => <>[]flag["uploads_paused"]
    /\ <>[](Serving /\ disk # "full" /\ "uploads_paused" \notin stuck) => <>[]~flag["uploads_paused"]

=============================================================================
