------------------------------ MODULE Service ------------------------------
(***************************************************************************)
(* The life of the process: booting, serving, reloading when the           *)
(* configuration file changes, and ending.  A Panel starts one Controller  *)
(* per node; a Controller starts, fetches its node, gets a certificate     *)
(* (module Certificates), and leaves periodic tasks behind.  Close stops   *)
(* the tasks' timers; it does not wait for what they are doing.            *)
(*                                                                         *)
(* One node per configuration, with CertMode dns, http or tls.  Of a       *)
(* Controller's tasks there are two: the node monitor, which may build a   *)
(* new inbound and obtain a certificate for it, and the certificate        *)
(* monitor.  The others start, fire and stop in the same way.              *)
(***************************************************************************)
EXTENDS Certificates, FiniteSets

CONSTANTS
    Gens,      \* bound: Controllers told apart, the replaced ones included
    MaxEdits,  \* bound: edits of the configuration file
    MaxEnds,   \* bound: crashes and signals
    MaxBusy    \* bound: certificate jobs that a task may find or start

ASSUME ServiceConstants ==
    /\ Gens \subseteq Nat
    /\ MaxEdits \in Nat
    /\ MaxEnds \in Nat
    /\ Jobs = Gens \X {"start", "node", "cert"}

Tasks == Gens \X {"node", "cert"}
StartJob(g) == <<g, "start">>

VARIABLES
    file, read,  \* the configuration file, and the last version viper read
    changed,     \* an event of the file watcher is waiting
    recent,      \* less than three seconds since lastTime
    main,        \* run, and the watcher's callback
    watcher,
    holder,      \* of Panel.access
    config,      \* p.panelConfig
    service,     \* p.Service
    task,        \* where each periodic task is
    on,          \* task.Periodic's running
    late,        \* history: tasks started after their Controller was closed
    discarded,   \* history: an event was discarded since the last reload
    ends         \* history: crashes and signals so far

fileVars  == <<file, read, changed>>
panelVars == <<main, watcher, holder, config, service>>
taskVars  == <<task, on, late>>
bookkeep  == <<recent, discarded, ends>>
vars      == <<fileVars, panelVars, taskVars, bookkeep, certVars>>

Up == main # "down"

Init ==
    /\ CertInit
    /\ file = 0 /\ read = 0 /\ changed = FALSE
    /\ recent = FALSE
    /\ main = "down" /\ watcher = "idle" /\ holder = "nobody"
    /\ config = 0 /\ service = {}
    /\ task = [k \in Tasks |-> "over"]
    /\ on = [k \in Tasks |-> FALSE]
    /\ late = {}
    /\ discarded = FALSE
    /\ ends = 0

-----------------------------------------------------------------------------
(* The environment.                                                        *)

\* A Controller that nothing of is left: its name can be used again.
Unused == {g \in Gens \ service :
              /\ \A k \in Tasks : k[1] = g => task[k] = "over"
              /\ Idle(StartJob(g))}

\* Bound: an edit finds a name for the Controller that will follow.
EditFile ==
    /\ file < MaxEdits
    /\ Unused # {}
    /\ file' = file + 1
    /\ changed' = Up
    /\ UNCHANGED <<read, panelVars, taskVars, bookkeep, certVars>>

Elapse ==
    /\ recent
    /\ main \notin {"toStart", "down"}
    /\ recent' = FALSE
    /\ UNCHANGED <<fileVars, panelVars, taskVars, discarded, ends, certVars>>

\* The end of the process takes everything along that is not a file.
Down ==
    /\ Cut
    /\ main' = "down" /\ watcher' = "idle" /\ holder' = "nobody"
    /\ service' = {}
    /\ task' = [k \in Tasks |-> "over"]
    /\ on' = [k \in Tasks |-> FALSE]
    /\ late' = {}
    /\ changed' = FALSE
    /\ recent' = FALSE
    /\ discarded' = FALSE
    /\ read' = file
    /\ config' = file
    /\ UNCHANGED file

Crash ==
    /\ Up
    /\ ends < MaxEnds
    /\ ends' = ends + 1
    /\ Down

\* getConfig, loadPanelConfig and panel.New; lastTime is set, and the
\* callback registered.
Boot ==
    /\ ~Up
    /\ read' = file
    /\ config' = file
    /\ recent' = TRUE
    /\ main' = "toStart"
    /\ UNCHANGED <<file, changed, watcher, holder, service, taskVars,
                   discarded, ends, certVars>>

-----------------------------------------------------------------------------
(* The Panel.  Start and Close hold its mutex.                             *)

\* Who is at a place of the program, and goes to another one.
IsAt(a, pc) == IF a = "main" THEN main = pc ELSE watcher = pc
Move(a, pc) == IF a = "main" THEN main' = pc /\ UNCHANGED watcher
                             ELSE watcher' = pc /\ UNCHANGED main

\* Start: loadCore, controller.New, and Controller.Start up to InboundBuilder.
BeginStart(a) ==
    /\ IsAt(a, "toStart")
    /\ holder = "nobody"
    /\ holder' = a
    /\ \E g \in Unused : /\ \A h \in Unused : g <= h
                         /\ service' = {g}
                         /\ Obtain(StartJob(g))
    /\ Move(a, "starting")
    /\ UNCHANGED <<fileVars, config, taskVars, bookkeep>>

\* The core, the panel's API or xray-core refuses: log.Panicf.
StartFails(a) ==
    /\ IsAt(a, "starting")
    /\ ends < MaxEnds
    /\ ends' = ends + 1
    /\ Down

\* No certificate: c.logger.Panic(err).
StartNoCert(a) ==
    /\ IsAt(a, "starting")
    /\ \E g \in service : Idle(StartJob(g)) /\ job[StartJob(g)].kind = "failed"
    /\ Down
    /\ UNCHANGED ends

\* Each task is started by a goroutine of its own.  A reload sets lastTime.
StartDone(a) ==
    /\ IsAt(a, "starting")
    /\ \E g \in service :
          /\ Idle(StartJob(g)) /\ job[StartJob(g)].kind = "done"
          /\ Become(StartJob(g), NoJob)
          /\ task' = [k \in Tasks |-> IF k[1] = g THEN "spawned" ELSE task[k]]
          /\ on' = [k \in Tasks |-> IF k[1] = g THEN FALSE ELSE on[k]]
          /\ late' = {k \in late : k[1] # g}
    /\ holder' = "nobody"
    /\ IF a = "main" THEN Move(a, "serving") /\ UNCHANGED <<recent, discarded>>
       ELSE Move(a, "idle") /\ recent' = TRUE /\ discarded' = FALSE
    /\ UNCHANGED <<fileVars, config, service, ends, files, due, history>>

\* Mutant of StopTasks: the timers are stopped, running is not reset.
StopTimers ==
    /\ task' = [k \in Tasks |-> IF k[1] \in service /\ task[k] = "armed"
                                THEN "over" ELSE task[k]]
    /\ UNCHANGED on

\* Periodic.Close of every task of every service.
StopTasks ==
    /\ task' = [k \in Tasks |-> IF k[1] \in service /\ task[k] = "armed"
                                THEN "over" ELSE task[k]]
    /\ on' = [k \in Tasks |-> IF k[1] \in service THEN FALSE ELSE on[k]]

\* Mutant of ClosePanel: the mutex is not taken.
CloseUnlocked(a) ==
    /\ IsAt(a, "toClose")
    /\ StopTasks
    /\ service' = {}
    /\ Move(a, IF a = "main" THEN "exit" ELSE "toLoad")
    /\ UNCHANGED <<fileVars, holder, config, late, bookkeep, certVars>>

\* Panel.Close, by the watcher or when run returns.
ClosePanel(a) ==
    /\ IsAt(a, "toClose")
    /\ holder = "nobody"
    /\ StopTasks
    /\ service' = {}
    /\ Move(a, IF a = "main" THEN "exit" ELSE "toLoad")
    /\ UNCHANGED <<fileVars, holder, config, late, bookkeep, certVars>>

-----------------------------------------------------------------------------
(* The file watcher.                                                       *)

\* Mutant of Reload: the Panel keeps its configuration.
ReloadOld ==
    /\ watcher = "toLoad"
    /\ watcher' = "toStart"
    /\ UNCHANGED <<fileVars, main, holder, config, service, taskVars,
                   bookkeep, certVars>>

\* loadPanelConfig and SetConfig.
Reload ==
    /\ watcher = "toLoad"
    /\ config' = read
    /\ watcher' = "toStart"
    /\ UNCHANGED <<fileVars, main, holder, service, taskVars, bookkeep,
                   certVars>>

\* viper reads the file again and calls back.
Changed ==
    /\ changed /\ watcher = "idle" /\ Up
    /\ changed' = FALSE
    /\ read' = file
    /\ IF recent THEN discarded' = TRUE /\ UNCHANGED watcher
                 ELSE watcher' = "toClose" /\ UNCHANGED discarded
    /\ UNCHANGED <<file, main, holder, config, service, taskVars, recent,
                   ends, certVars>>

\* A signal ends run, whose deferred Close comes first.
Signal ==
    /\ main = "serving"
    /\ ends < MaxEnds
    /\ ends' = ends + 1
    /\ main' = "toClose"
    /\ UNCHANGED <<fileVars, watcher, holder, config, service, taskVars,
                   recent, discarded, certVars>>

Exit == main = "exit" /\ Down /\ UNCHANGED ends

-----------------------------------------------------------------------------
(* The periodic tasks.  Their first execution does nothing.                *)

TaskStart(k) ==
    /\ task[k] = "spawned"
    /\ task' = [task EXCEPT ![k] = "armed"]
    /\ on' = [on EXCEPT ![k] = TRUE]
    /\ late' = IF k[1] \in service THEN late ELSE late \cup {k}
    /\ UNCHANGED <<fileVars, panelVars, bookkeep, certVars>>

\* certMonitor renews; nodeInfoMonitor builds a changed node's inbound, which
\* matters here when that needs a certificate first.
TaskFires(k) ==
    /\ task[k] = "armed"
    /\ on[k]
    /\ Cardinality({j \in Jobs : ~Idle(j)}) < MaxBusy
    /\ task' = [task EXCEPT ![k] = "running"]
    /\ IF k[2] = "cert" THEN Renew(k) ELSE ~CertFilesExist /\ Obtain(k)
    /\ UNCHANGED <<fileVars, panelVars, on, late, bookkeep>>

\* Execute has returned nil: the timer is set again unless closed.
TaskEnds(k) ==
    /\ task[k] = "running"
    /\ Idle(k)
    /\ task' = [task EXCEPT ![k] = IF on[k] THEN "armed" ELSE "over"]
    /\ Become(k, NoJob)
    /\ UNCHANGED <<fileVars, panelVars, on, late, bookkeep, files, due,
                   history>>

\* "server port must > 0" ends the node monitor's task.
TaskGivesUp(k) ==
    /\ task[k] = "armed"
    /\ on[k]
    /\ k[2] = "node"
    /\ task' = [task EXCEPT ![k] = "over"]
    /\ UNCHANGED <<fileVars, panelVars, on, late, bookkeep, certVars>>

-----------------------------------------------------------------------------
Certify == /\ \E j \in Jobs : JobWorks(j) \/ JobSucceeds(j) \/ JobFails(j)
           /\ UNCHANGED <<fileVars, panelVars, taskVars, bookkeep>>

Expire == Age /\ UNCHANGED <<fileVars, panelVars, taskVars, bookkeep>>

Actors == {"main", "watcher"}

Panel == \/ Boot \/ Reload \/ Changed \/ Exit
         \/ \E a \in Actors : BeginStart(a) \/ StartNoCert(a) \/ StartDone(a)
                              \/ ClosePanel(a)

Next ==
    \/ EditFile \/ Elapse \/ Crash \/ Signal \/ Expire
    \/ Panel
    \/ \E a \in Actors : StartFails(a)
    \/ \E k \in Tasks : TaskStart(k) \/ TaskFires(k) \/ TaskEnds(k)
                        \/ TaskGivesUp(k)
    \/ Certify

Spec == Init /\ [][Next]_vars

-----------------------------------------------------------------------------
(* Properties.                                                             *)

JobType == [pc : {"idle", "stat", "create", "createBytes", "load",
                  "register", "account", "accountBytes", "check", "acme",
                  "crt", "crtBytes", "key", "keyBytes"},
            kind : {"none", "obtain", "renew", "done", "failed"},
            key : KeyIds \cup {None}, reg : KeyIds \cup {None},
            cert : CertIds \cup {None}]

\* The types, and what the mutex is for: who starts the Panel has it alone,
\* and nobody takes the service away meanwhile.
TypeOK ==
    /\ accountKey \in KeyIds \cup {None, Torn}
    /\ account \in KeyIds \cup {None, Torn}
    /\ crt \in CertIds \cup {None, Torn}
    /\ key \in CertIds \cup {None, Torn}
    /\ due \in BOOLEAN
    /\ job \in [Jobs -> JobType]
    /\ met \subseteq Jobs
    /\ spoiled \in BOOLEAN /\ rekeyed \in BOOLEAN
    /\ file \in 0..MaxEdits /\ read \in 0..MaxEdits /\ config \in 0..MaxEdits
    /\ changed \in BOOLEAN /\ recent \in BOOLEAN /\ discarded \in BOOLEAN
    /\ main \in {"down", "toStart", "starting", "serving", "toClose", "exit"}
    /\ watcher \in {"idle", "toClose", "toLoad", "toStart", "starting"}
    /\ holder \in Actors \cup {"nobody"}
    /\ service \in SUBSET Gens
    /\ task \in [Tasks -> {"spawned", "armed", "running", "over"}]
    /\ on \in [Tasks -> BOOLEAN]
    /\ late \subseteq Tasks
    /\ ends \in 0..MaxEnds
    /\ \A a \in Actors : IsAt(a, "starting") <=> holder = a
    /\ holder # "nobody" => service # {}

\* With no save in progress, the certificate on disk and its private key
\* belong together, unless the last save was cut by the end of the process
\* (a signal is enough: Close does not wait) or met another save.
PairMatches ==
    Saving = {} /\ ~spoiled => crt = key /\ crt # Torn

\* The registration on disk is for the key on disk, unless a job replaced
\* the key another one had made at the same time.
AccountMatches ==
    account \in KeyIds /\ accountKey \in KeyIds /\ ~rekeyed =>
        account = accountKey

\* When the process serves and the watcher has nothing to do, the Panel runs
\* the file's configuration, unless an event was discarded since it started
\* or reloaded.
StaleOnlyIfDiscarded ==
    main = "serving" /\ watcher = "idle" /\ ~changed /\ config # file =>
        discarded

\* A task of a closed Controller never begins again, unless it was started
\* after Close.
ClosedStaysClosed ==
    [][\A k \in Tasks : task[k] = "armed" /\ task'[k] = "running" =>
          k[1] \in service \/ k \in late]_vars
=============================================================================
