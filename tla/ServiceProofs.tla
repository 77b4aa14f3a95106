---------------------------- MODULE ServiceProofs ----------------------------
(* The life of the process and its certificate files, for any number of      *)
(* nodes started, edits, crashes and jobs.                                    *)
EXTENDS Service, TLAPS

-----------------------------------------------------------------------------
(* The Panel and its tasks.                                                  *)

\* What the file watcher has read is what the Panel runs, or will run; what
\* it reads within three seconds is not, and discarded.
Configured ==
    /\ Up /\ ~changed => read = file
    /\ Up /\ watcher = "idle" => config = read \/ discarded
    /\ watcher \in {"toStart", "starting"} => config = read

\* The watcher does not reload before the Panel has started, and a Panel is
\* started when there is none.
Starting ==
    /\ watcher # "idle" => main \notin {"toStart", "down"}
    /\ main = "toStart" => recent
    /\ main \in {"toStart", "down"} => service = {}
    /\ watcher \in {"toLoad", "toStart"} => service = {} /\ main # "starting"
    /\ main = "starting" => holder = "main"
    /\ watcher = "starting" => holder = "watcher"

\* A task that may fire is one of the Panel's, or was started too late.
Armed ==
    /\ service \subseteq Gens
    /\ on \in [Tasks -> BOOLEAN]
    /\ task \in [Tasks -> {"spawned", "armed", "running", "over"}]
    /\ \A k \in Tasks : on[k] => k[1] \in service \/ k \in late

PanelInv == Configured /\ Starting /\ Armed

LEMMA PanelInvHolds == PanelInv /\ [Next]_vars => PanelInv'
  <1> SUFFICES ASSUME PanelInv, [Next]_vars PROVE PanelInv'
    OBVIOUS
  <1> USE DEF PanelInv, Up
  <1>s. ASSUME UNCHANGED <<panelVars, read, file, changed, recent, discarded>>
        PROVE  Configured' /\ Starting'
    BY <1>s DEF panelVars, Configured, Starting
  <1>t. ASSUME UNCHANGED <<on, task, late, service>> PROVE Armed'
    BY <1>t DEF Armed
  <1>1. CASE EditFile
    <2>1. Configured' /\ Starting'
      BY <1>1 DEF EditFile, panelVars, bookkeep, Configured, Starting
    <2> QED BY <1>1, <2>1, <1>t DEF EditFile, panelVars, taskVars
  <1>2. CASE Elapse
    <2>1. Configured' /\ Starting'
      BY <1>2 DEF Elapse, fileVars, panelVars, Configured, Starting
    <2> QED BY <1>2, <2>1, <1>t DEF Elapse, panelVars, taskVars
  <1>3. ASSUME Down PROVE PanelInv'
    BY <1>3 DEF Down, Configured, Starting, Armed
  <1>4. CASE Signal
    <2>1. Configured' /\ Starting'
      BY <1>4 DEF Signal, fileVars, Configured, Starting
    <2> QED BY <1>4, <2>1, <1>t DEF Signal, taskVars
  <1>5. CASE Boot
    <2>1. Configured' /\ Starting'
      <3>1. watcher = "idle" /\ service = {}
        BY <1>5 DEF Boot, Starting
      <3> QED BY <1>5, <3>1 DEF Boot, Configured, Starting
    <2> QED BY <1>5, <2>1, <1>t DEF Boot, taskVars
  <1>6. CASE Reload
    <2>1. Configured' /\ Starting'
      BY <1>6 DEF Reload, fileVars, bookkeep, Configured, Starting
    <2> QED BY <1>6, <2>1, <1>t DEF Reload, taskVars
  <1>7. CASE Changed
    <2>1. Configured' /\ Starting'
      BY <1>7 DEF Changed, Configured, Starting
    <2> QED BY <1>7, <2>1, <1>t DEF Changed, taskVars
  <1>8. ASSUME NEW a \in Actors, BeginStart(a) PROVE PanelInv'
    <2>1. IsAt(a, "toStart") /\ service = {}
      BY <1>8 DEF BeginStart, IsAt, Starting, Actors
    <2>2. Configured' /\ Starting'
      BY <1>8, <2>1 DEF BeginStart, IsAt, Move, Actors, fileVars, bookkeep, Configured,
            Starting
    <2>3. Armed'
      BY <1>8, <2>1 DEF BeginStart, Unused, taskVars, Armed
    <2> QED BY <2>2, <2>3
  <1>9. ASSUME NEW a \in Actors, StartDone(a) PROVE PanelInv'
    <2>1. Configured' /\ Starting'
      <3>1. CASE a = "main"
        BY <1>9, <3>1 DEF StartDone, IsAt, Move, fileVars, Configured, Starting
      <3>2. CASE a = "watcher"
        BY <1>9, <3>2 DEF StartDone, IsAt, Move, fileVars, Configured, Starting
      <3> QED BY <3>1, <3>2 DEF Actors
    <2>2. Armed'
      BY <1>9 DEF StartDone, Armed
    <2> QED BY <2>1, <2>2
  <1>10. ASSUME NEW a \in Actors, ClosePanel(a) PROVE PanelInv'
    <2>1. Configured' /\ Starting'
      BY <1>10 DEF ClosePanel, IsAt, Move, Actors, fileVars, bookkeep, Configured, Starting
    <2>2. Armed'
      BY <1>10 DEF ClosePanel, StopTasks, Armed
    <2> QED BY <2>1, <2>2
  <1>11. ASSUME NEW k \in Tasks, TaskStart(k) PROVE PanelInv'
    <2>1. Configured' /\ Starting'
      BY <1>11, <1>s DEF TaskStart, fileVars, bookkeep
    <2>2. Armed'
      BY <1>11 DEF TaskStart, panelVars, Armed
    <2> QED BY <2>1, <2>2
  <1>12. ASSUME NEW k \in Tasks, TaskFires(k) \/ TaskEnds(k) \/ TaskGivesUp(k)
         PROVE  PanelInv'
    <2>1. Configured' /\ Starting'
      BY <1>12, <1>s DEF TaskFires, TaskEnds, TaskGivesUp, fileVars, bookkeep
    <2>2. Armed'
      BY <1>12 DEF TaskFires, TaskEnds, TaskGivesUp, panelVars, Armed
    <2> QED BY <2>1, <2>2
  <1>13. CASE Certify \/ Expire \/ UNCHANGED vars
    <2>1. Configured' /\ Starting'
      BY <1>13, <1>s DEF Certify, Expire, vars, fileVars, bookkeep
    <2> QED BY <1>13, <2>1, <1>t DEF Certify, Expire, vars, taskVars, panelVars
  <1>14. CASE Crash \/ Exit \/ \E a \in Actors : StartFails(a) \/ StartNoCert(a)
    BY <1>3, <1>14 DEF Crash, Exit, StartFails, StartNoCert
  <1> QED BY <1>1, <1>2, <1>4, <1>5, <1>6, <1>7, <1>8, <1>9, <1>10, <1>11, <1>12,
             <1>13, <1>14 DEF Next, Panel

LEMMA PanelInvInit == Init => PanelInv
  BY DEF Init, PanelInv, Configured, Starting, Armed, Up

\* StaleOnlyIfDiscarded for any edits, crashes and signals: the Panel runs the
\* configuration file as it is, unless an event of the file watcher came
\* within three seconds of the start or of a reload (run in cmd/root.go).
THEOREM StaleOnlyIfDiscardedHolds == Spec => []StaleOnlyIfDiscarded
  <1>1. PanelInv => StaleOnlyIfDiscarded
    BY DEF PanelInv, Configured, StaleOnlyIfDiscarded, Up
  <1> QED BY <1>1, PanelInvInit, PanelInvHolds, PTL DEF Spec

\* ClosedStaysClosed for any number of Controllers: after Close a task fires
\* only if its goroutine started it later (Controller.Start and Close of
\* controller.go, Panel.Close of panel.go).
THEOREM ClosedStaysClosedHolds == Spec => ClosedStaysClosed
  <1> DEFINE Fires(k) == task[k] = "armed" /\ task'[k] = "running"
             Stays == \A k \in Tasks : Fires(k) => k[1] \in service \/ k \in late
  <1>1. PanelInv /\ [Next]_vars => [Stays]_vars
    <2> SUFFICES ASSUME PanelInv, Next, NEW k \in Tasks, Fires(k)
                 PROVE  on[k]
      BY DEF PanelInv, Armed
    <2>1. ~(task' = task)
      OBVIOUS
    <2>2. ~Down
      BY DEF Down
    <2>3. ~(EditFile \/ Elapse \/ Crash \/ Signal \/ Expire \/ Certify)
      BY <2>1, <2>2 DEF EditFile, Elapse, Crash, Signal, Expire, Certify, taskVars
    <2>4. ~(Boot \/ Reload \/ Changed \/ Exit)
      BY <2>1, <2>2 DEF Boot, Reload, Changed, Exit, taskVars
    <2>5. ASSUME NEW a \in Actors
          PROVE  ~(BeginStart(a) \/ StartNoCert(a) \/ StartDone(a) \/ ClosePanel(a)
                   \/ StartFails(a))
      BY <2>1, <2>2 DEF BeginStart, StartNoCert, StartDone, ClosePanel, StopTasks,
            StartFails, taskVars
    <2>6. PICK l \in Tasks : TaskStart(l) \/ TaskFires(l) \/ TaskEnds(l) \/ TaskGivesUp(l)
      BY <2>3, <2>4, <2>5 DEF Next, Panel
    <2>7. k = l /\ TaskFires(l)
      BY <2>6 DEF TaskStart, TaskFires, TaskEnds, TaskGivesUp, PanelInv, Armed
    <2> QED BY <2>7 DEF TaskFires
  <1> QED BY <1>1, PanelInvInit, PanelInvHolds, PTL DEF Spec, ClosedStaysClosed

-----------------------------------------------------------------------------
(* The files.  A job's record changes one step at a time; the end of the     *)
(* process takes all jobs along.                                             *)

CertNext == \/ \E j \in Jobs : Obtain(j) \/ Renew(j) \/ JobStep(j)
                               \/ (Idle(j) /\ Become(j, NoJob)
                                     /\ UNCHANGED <<files, due, history>>)
            \/ Age \/ Cut

LEMMA CertSteps == PanelInv /\ [Next]_vars => [CertNext]_certVars
  <1> SUFFICES ASSUME PanelInv, [Next]_vars PROVE [CertNext]_certVars
    OBVIOUS
  <1> USE DEF CertNext
  <1>j. /\ \A g \in Gens : StartJob(g) \in Jobs
        /\ Tasks \subseteq Jobs
    BY ServiceConstants DEF StartJob, Tasks
  <1>1. CASE EditFile \/ Elapse \/ Signal \/ Boot \/ Reload \/ Changed \/ UNCHANGED vars
    BY <1>1 DEF EditFile, Elapse, Signal, Boot, Reload, Changed, vars
  <1>2. CASE Crash \/ Exit \/ \E a \in Actors : StartFails(a) \/ StartNoCert(a)
    BY <1>2 DEF Crash, Exit, StartFails, StartNoCert, Down
  <1>3. CASE Certify \/ Expire
    BY <1>3 DEF Certify, Expire, JobStep
  <1>4. ASSUME NEW a \in Actors, BeginStart(a) PROVE CertNext
    BY <1>4, <1>j DEF BeginStart, Unused
  <1>5. ASSUME NEW a \in Actors, StartDone(a) PROVE CertNext
    BY <1>5, <1>j DEF StartDone, PanelInv, Armed
  <1>6. ASSUME NEW a \in Actors, ClosePanel(a) PROVE UNCHANGED certVars
    BY <1>6 DEF ClosePanel
  <1>7. ASSUME NEW k \in Tasks, TaskStart(k) \/ TaskGivesUp(k) PROVE UNCHANGED certVars
    BY <1>7 DEF TaskStart, TaskGivesUp
  <1>8. ASSUME NEW k \in Tasks, TaskFires(k) \/ TaskEnds(k) PROVE CertNext
    BY <1>8, <1>j DEF TaskFires, TaskEnds
  <1> QED BY <1>1, <1>2, <1>3, <1>4, <1>5, <1>6, <1>7, <1>8 DEF Next, Panel

CertTypes ==
    /\ account \in KeyIds \cup {None, Torn}
    /\ accountKey \in KeyIds \cup {None, Torn}
    /\ job \in [Jobs -> JobType]
    /\ \A j \in Jobs : job[j].pc \in {"crt", "crtBytes", "key", "keyBytes"} =>
          job[j].cert \in CertIds
    /\ \A j \in Jobs : job[j].pc = "createBytes" => job[j].key \in KeyIds

\* Who saves a pair undisturbed is the only one who saves, and has written its
\* certificate when it writes the private key.
PairInv ==
    /\ met \subseteq Saving
    /\ ~spoiled => met = {}
    /\ \A j \in Saving \ met : /\ Saving = {j}
                               /\ job[j].pc # "crtBytes" => crt = job[j].cert
    /\ PairMatches

\* The key of an account is made once: until it is on disk nobody has it but
\* the job that makes it, and then it is everybody's.
KeyInv ==
    ~rekeyed =>
      /\ accountKey \in KeyIds =>
            /\ account \in {None, Torn, accountKey}
            /\ \A j \in Jobs : job[j].key \in {None, accountKey}
                               /\ job[j].reg \in {None, accountKey}
      /\ accountKey \notin KeyIds =>
            /\ account = None
            /\ \A j \in Jobs :
                  /\ job[j].pc \notin {"load", "register", "account", "accountBytes",
                                       "check", "acme"}
                  /\ job[j].reg = None
                  /\ job[j].pc # "createBytes" => job[j].key = None
      /\ accountKey = None => \A j \in Jobs : job[j].pc # "createBytes"
      /\ accountKey = Torn =>
            \A i, j \in Jobs : job[i].pc = "createBytes" /\ job[j].pc = "createBytes"
                                  => i = j
      /\ AccountMatches

CertInv == CertTypes /\ PairInv /\ KeyInv

\* A job that neither saves a pair nor begins to.
LEMMA PairSame ==
    ASSUME CertTypes, PairInv, NEW j \in Jobs, NEW r,
           job' = [job EXCEPT ![j] = r],
           UNCHANGED <<crt, key, met, spoiled>>,
           job[j].pc \notin {"crtBytes", "key", "keyBytes"},
           r.pc \notin {"crtBytes", "key", "keyBytes"}
    PROVE  PairInv'
  <1>1. \A i \in Jobs : job'[i] = IF i = j THEN r ELSE job[i]
    BY DEF CertTypes
  <1>2. Saving' = Saving
    BY <1>1 DEF Saving
  <1>3. \A i \in Saving : job'[i] = job[i]
    BY <1>1 DEF Saving
  <1> QED BY <1>2, <1>3 DEF PairInv, PairMatches

\* A job that leaves the account alone, and gets no other key than its.
LEMMA KeySame ==
    ASSUME CertTypes, KeyInv, NEW j \in Jobs, NEW r,
           job' = [job EXCEPT ![j] = r],
           UNCHANGED <<accountKey, account, rekeyed>>,
           ~rekeyed /\ accountKey \in KeyIds =>
              r.key \in {None, accountKey} /\ r.reg \in {None, accountKey},
           ~rekeyed /\ accountKey \notin KeyIds =>
              /\ r.pc \notin {"createBytes", "load", "register", "account",
                              "accountBytes", "check", "acme"}
              /\ r.key = None /\ r.reg = None
    PROVE  KeyInv'
  <1>1. \A i \in Jobs : job'[i] = IF i = j THEN r ELSE job[i]
    BY DEF CertTypes
  <1>2. AccountMatches' <=> AccountMatches
    BY DEF AccountMatches
  <1> QED BY <1>1, <1>2, CertConstants DEF KeyInv

\* A step of setup or of the ACME server's: what the job becomes.
LEMMA QuietJob ==
    ASSUME CertInv, NEW j \in Jobs, NEW r \in JobType,
           job' = [job EXCEPT ![j] = r],
           UNCHANGED <<files, history>>,
           job[j].pc \notin {"crtBytes", "key", "keyBytes"},
           r.pc \notin {"crtBytes", "key", "keyBytes"},
           r.pc = "crt" => r.cert \in CertIds,
           r.pc # "createBytes",
           ~rekeyed /\ accountKey \in KeyIds =>
              r.key \in {None, accountKey} /\ r.reg \in {None, accountKey},
           ~rekeyed /\ accountKey \notin KeyIds =>
              /\ r.pc \notin {"load", "register", "account", "accountBytes",
                              "check", "acme"}
              /\ r.key = None /\ r.reg = None
    PROVE  CertInv'
  <1>1. CertTypes'
    BY DEF CertInv, CertTypes, files
  <1>2. PairInv' /\ KeyInv'
    BY PairSame, KeySame DEF CertInv, files, history
  <1> QED BY <1>1, <1>2 DEF CertInv

\* The steps that change none of the files.
LEMMA SetupInv ==
    ASSUME CertInv, NEW j \in Jobs,
           \/ Obtain(j) \/ Renew(j) \/ JobSucceeds(j) \/ JobFails(j)
           \/ Idle(j) /\ Become(j, NoJob) /\ UNCHANGED <<files, due, history>>
           \/ LoadKey(j) \/ LoadKeyFails(j) \/ KeyMissing(j)
           \/ LoadAccount(j) \/ LoadAccountFails(j)
           \/ NeedRenewal(j) \/ NoRenewal(j) \/ ReadFails(j)
    PROVE  CertInv'
  <1>t. CertTypes /\ KeyInv /\ job[j] \in JobType
    BY DEF CertInv, CertTypes
  <1>n. NoJob \in JobType /\ NoJob.pc = "idle" /\ NoJob.key = None /\ NoJob.reg = None
    BY DEF NoJob, JobType
  <1>o. ASSUME NEW kind \in {"none", "done", "failed"}, Over(j, kind),
               UNCHANGED <<files, history>>,
               job[j].pc \notin {"crtBytes", "key", "keyBytes"}
        PROVE  CertInv'
    <2> DEFINE r == [NoJob EXCEPT !.kind = kind]
    <2>1. r \in JobType /\ r.pc = "idle" /\ r.key = None /\ r.reg = None
      BY DEF NoJob, JobType
    <2>2. job' = [job EXCEPT ![j] = r]
      BY <1>o DEF Over, Become
    <2> HIDE DEF r
    <2> QED BY <1>o, <2>1, <2>2, QuietJob
  <1>b. ASSUME NEW kind \in {"obtain", "renew"}, Idle(j),
               Become(j, [NoJob EXCEPT !.pc = "stat", !.kind = kind]),
               UNCHANGED <<files, history>>
        PROVE  CertInv'
    <2> DEFINE r == [NoJob EXCEPT !.pc = "stat", !.kind = kind]
    <2>1. r \in JobType /\ r.pc = "stat" /\ r.key = None /\ r.reg = None
      BY DEF NoJob, JobType
    <2>2. job' = [job EXCEPT ![j] = r] /\ job[j].pc = "idle"
      BY <1>b DEF Become, Idle, At
    <2> HIDE DEF r
    <2> QED BY <1>b, <2>1, <2>2, QuietJob
  <1>1. CASE Obtain(j)
    BY <1>1, <1>o, <1>b DEF Obtain, Idle, At
  <1>2. CASE Renew(j)
    BY <1>2, <1>b DEF Renew
  <1>3. CASE Idle(j) /\ Become(j, NoJob) /\ UNCHANGED <<files, due, history>>
    BY <1>3, <1>n, QuietJob DEF Idle, At, Become
  <1>4. CASE JobFails(j) \/ LoadKeyFails(j) \/ LoadAccountFails(j) \/ NoRenewal(j)
             \/ ReadFails(j)
    BY <1>4, <1>o DEF JobFails, RegisterFails, IssueFails, LoadKeyFails,
          LoadAccountFails, NoRenewal, ReadFails, Fail, At
  <1>5. CASE Register(j)
    <2> DEFINE r == [job[j] EXCEPT !.pc = "account", !.reg = job[j].key]
    <2>1. /\ r \in JobType /\ r.pc = "account"
          /\ r.key = job[j].key /\ r.reg = job[j].key
      BY <1>t DEF JobType
    <2>2. job' = [job EXCEPT ![j] = r] /\ job[j].pc = "register"
             /\ UNCHANGED <<files, history>>
      BY <1>5 DEF Register, Become, At
    <2> HIDE DEF r
    <2> QED BY <2>1, <2>2, <1>t, QuietJob DEF KeyInv
  <1>6. CASE Issue(j)
    <2>1. PICK v \in CertIds :
             Become(j, [NoJob EXCEPT !.pc = "crt", !.kind = job[j].kind, !.cert = v])
      BY <1>6 DEF Issue
    <2> DEFINE r == [NoJob EXCEPT !.pc = "crt", !.kind = job[j].kind, !.cert = v]
    <2>2. /\ r \in JobType /\ r.pc = "crt" /\ r.cert = v
          /\ r.key = None /\ r.reg = None
      BY <1>t DEF NoJob, JobType
    <2>3. job' = [job EXCEPT ![j] = r] /\ job[j].pc = "acme"
             /\ UNCHANGED <<files, history>>
      BY <1>6, <2>1 DEF Issue, Become, At
    <2> HIDE DEF r
    <2> QED BY <2>2, <2>3, QuietJob
  <1>7. CASE LoadKey(j)
    <2> DEFINE r == [job[j] EXCEPT !.pc = "load", !.key = accountKey]
    <2>1. accountKey \in KeyIds /\ job[j].pc = "stat"
             /\ job' = [job EXCEPT ![j] = r] /\ UNCHANGED <<files, history>>
      BY <1>7 DEF LoadKey, Become, At
    <2>2. /\ r \in JobType /\ r.pc = "load"
          /\ r.key = accountKey /\ r.reg = job[j].reg
      BY <2>1, <1>t DEF JobType
    <2> HIDE DEF r
    <2> QED BY <2>1, <2>2, <1>t, QuietJob DEF KeyInv
  <1>8. CASE KeyMissing(j) \/ NeedRenewal(j)
    <2>1. PICK pc \in {"create", "acme"} :
             /\ Goto(j, pc) /\ UNCHANGED <<files, history>>
             /\ pc = "create" => job[j].pc = "stat"
             /\ pc = "acme" => job[j].pc = "check"
      BY <1>8 DEF KeyMissing, NeedRenewal, At
    <2> DEFINE r == [job[j] EXCEPT !.pc = pc]
    <2>2. r \in JobType /\ r.pc = pc /\ r.key = job[j].key /\ r.reg = job[j].reg
      BY <1>t DEF JobType
    <2>3. job' = [job EXCEPT ![j] = r]
      BY <2>1 DEF Goto, Become
    <2> HIDE DEF r
    <2> QED BY <2>1, <2>2, <2>3, <1>t, QuietJob DEF KeyInv
  <1>9. CASE LoadAccount(j)
    <2>1. PICK pc \in {"register", "acme", "check"} :
             Become(j, [job[j] EXCEPT !.reg = account, !.pc = pc])
      BY <1>9 DEF LoadAccount
    <2> DEFINE r == [job[j] EXCEPT !.reg = account, !.pc = pc]
    <2>2. /\ job' = [job EXCEPT ![j] = r] /\ job[j].pc = "load"
          /\ account # Torn /\ UNCHANGED <<files, history>>
      BY <2>1, <1>9 DEF LoadAccount, Become, At
    <2>3. r.pc = pc /\ r.key = job[j].key /\ r.reg = account
      BY <1>t DEF JobType
    <2>4. r \in JobType
      BY <1>t, <2>2 DEF JobType, CertTypes
    <2> HIDE DEF r
    <2> QED BY <2>2, <2>3, <2>4, <1>t, QuietJob DEF KeyInv
  <1> QED BY <1>1, <1>2, <1>3, <1>4, <1>5, <1>6, <1>7, <1>8, <1>9 DEF JobSucceeds

\* The account's files are written: the key, then the registration.
LEMMA AccountInv ==
    ASSUME CertInv, NEW j \in Jobs,
           CreateKey(j) \/ WriteKey(j) \/ SaveAccount(j) \/ WriteAccount(j)
    PROVE  CertInv'
  <1> USE CertConstants
  <1>t. CertTypes /\ PairInv /\ KeyInv /\ job[j] \in JobType
    BY DEF CertInv, CertTypes
  <1>w. ASSUME NEW r \in JobType, job' = [job EXCEPT ![j] = r],
               UNCHANGED <<crt, key, met, spoiled>>,
               job[j].pc \notin {"crtBytes", "key", "keyBytes"},
               r.pc \notin {"crt", "crtBytes", "key", "keyBytes"},
               r.pc = "createBytes" => r.key \in KeyIds,
               accountKey' \in KeyIds \cup {None, Torn},
               account' \in KeyIds \cup {None, Torn}
        PROVE  CertTypes' /\ PairInv' /\ \A i \in Jobs : job'[i] = IF i = j THEN r ELSE job[i]
    BY <1>w, <1>t, PairSame DEF CertTypes
  <1>1. CASE CreateKey(j)
    <2>1. PICK k \in KeyIds : Become(j, [job[j] EXCEPT !.pc = "createBytes", !.key = k])
      BY <1>1 DEF CreateKey
    <2> DEFINE r == [job[j] EXCEPT !.pc = "createBytes", !.key = k]
    <2>2. /\ job' = [job EXCEPT ![j] = r] /\ job[j].pc = "create"
          /\ accountKey' = Torn /\ rekeyed' = (rekeyed \/ accountKey # None)
          /\ UNCHANGED <<account, crt, key, met, spoiled>>
      BY <2>1, <1>1 DEF CreateKey, Become, At
    <2>3. r \in JobType /\ r.pc = "createBytes" /\ r.key = k /\ r.reg = job[j].reg
      BY <1>t DEF JobType
    <2> HIDE DEF r
    <2>4. CertTypes' /\ PairInv' /\ \A i \in Jobs : job'[i] = IF i = j THEN r ELSE job[i]
      BY <2>2, <2>3, <1>t, <1>w DEF CertTypes
    <2>5. KeyInv'
      <3> SUFFICES ASSUME ~rekeyed' PROVE KeyInv'
        BY DEF KeyInv
      <3>1. ~rekeyed /\ accountKey = None
        BY <2>2
      <3>2. account = None /\ \A i \in Jobs : job[i].pc # "createBytes"
        BY <3>1, <1>t DEF KeyInv
      <3> QED BY <2>2, <2>3, <2>4, <3>1, <3>2, <1>t DEF KeyInv, AccountMatches
    <2> QED BY <2>4, <2>5 DEF CertInv
  <1>2. CASE WriteKey(j)
    <2> DEFINE r == [job[j] EXCEPT !.pc = "load"]
    <2>1. /\ job' = [job EXCEPT ![j] = r] /\ job[j].pc = "createBytes"
          /\ accountKey' = job[j].key
          /\ UNCHANGED <<account, crt, key, met, spoiled, rekeyed>>
      BY <1>2 DEF WriteKey, Goto, Become, At, history
    <2>2. r \in JobType /\ r.pc = "load" /\ r.key = job[j].key /\ r.reg = job[j].reg
      BY <1>t DEF JobType
    <2>3. job[j].key \in KeyIds \cup {None}
      BY <1>t DEF JobType
    <2> HIDE DEF r
    <2>4. CertTypes' /\ PairInv' /\ \A i \in Jobs : job'[i] = IF i = j THEN r ELSE job[i]
      BY <2>1, <2>2, <2>3, <1>t, <1>w DEF CertTypes
    <2>5. KeyInv'
      <3> SUFFICES ASSUME ~rekeyed PROVE KeyInv'
        BY <2>1 DEF KeyInv
      <3>1. CASE accountKey \in KeyIds
        <4>1. job[j].key = accountKey
          BY <3>1, <2>1, <1>t DEF KeyInv, CertTypes
        <4> QED BY <2>1, <2>2, <2>4, <3>1, <4>1, <1>t DEF KeyInv, AccountMatches, CertTypes
      <3>2. CASE accountKey \notin KeyIds
        <4>1. /\ job[j].key \in KeyIds /\ account = None
              /\ \A i \in Jobs : job[i].reg = None
          BY <2>1, <3>2, <1>t DEF KeyInv, CertTypes
        <4>2. \A i \in Jobs \ {j} : job[i].key = None
          BY <2>1, <3>2, <1>t DEF KeyInv, CertTypes
        <4> QED BY <2>1, <2>2, <2>4, <4>1, <4>2 DEF KeyInv, AccountMatches
      <3> QED BY <3>1, <3>2
    <2> QED BY <2>4, <2>5 DEF CertInv
  <1>3. CASE SaveAccount(j) \/ WriteAccount(j)
    <2>1. PICK pc \in {"accountBytes", "acme"} :
             /\ job' = [job EXCEPT ![j] = [job[j] EXCEPT !.pc = pc]]
             /\ job[j].pc \in {"account", "accountBytes"}
             /\ account' \in {Torn, job[j].reg}
             /\ UNCHANGED <<accountKey, crt, key, met, spoiled, rekeyed>>
      BY <1>3 DEF SaveAccount, WriteAccount, Goto, Become, At, history
    <2> DEFINE r == [job[j] EXCEPT !.pc = pc]
    <2>2. r \in JobType /\ r.pc = pc /\ r.key = job[j].key /\ r.reg = job[j].reg
      BY <1>t DEF JobType
    <2>3. job[j].reg \in KeyIds \cup {None}
      BY <1>t DEF JobType
    <2>s. job' = [job EXCEPT ![j] = r]
      BY <2>1
    <2> HIDE DEF r
    <2>4. CertTypes' /\ PairInv' /\ \A i \in Jobs : job'[i] = IF i = j THEN r ELSE job[i]
      BY <2>1, <2>s, <2>2, <2>3, <1>t, <1>w DEF CertTypes
    <2>5. KeyInv'
      <3> SUFFICES ASSUME ~rekeyed PROVE KeyInv'
        BY <2>1 DEF KeyInv
      <3>1. accountKey \in KeyIds
        BY <2>1, <1>t DEF KeyInv
      <3> QED BY <2>1, <2>2, <2>4, <3>1, <1>t DEF KeyInv, AccountMatches
    <2> QED BY <2>4, <2>5 DEF CertInv
  <1> QED BY <1>1, <1>2, <1>3

\* A pair is saved.
LEMMA SaveInv ==
    ASSUME CertInv, NEW j \in Jobs,
           SaveCrt(j) \/ WriteCrt(j) \/ SaveKey(j) \/ WriteKeyFile(j)
    PROVE  CertInv'
  <1> USE CertConstants
  <1>t. CertTypes /\ PairInv /\ KeyInv /\ job[j] \in JobType
    BY DEF CertInv, CertTypes
  <1>p. /\ job[j].pc \in {"crt", "crtBytes", "key", "keyBytes"}
        /\ UNCHANGED <<account, accountKey, rekeyed>>
    BY DEF SaveCrt, WriteCrt, SaveKey, WriteKeyFile, At, history
  <1>g. ASSUME NEW pc \in {"crtBytes", "key", "keyBytes"}, Goto(j, pc)
        PROVE  /\ CertTypes' /\ KeyInv'
               /\ \A i \in Jobs : /\ job'[i].pc = IF i = j THEN pc ELSE job[i].pc
                                  /\ job'[i].cert = job[i].cert
    <2> DEFINE r == [job[j] EXCEPT !.pc = pc]
    <2>1. /\ r \in JobType /\ r.pc = pc /\ r.key = job[j].key
          /\ r.reg = job[j].reg /\ r.cert = job[j].cert
      BY <1>t DEF JobType
    <2>2. job' = [job EXCEPT ![j] = r]
      BY <1>g DEF Goto, Become
    <2> HIDE DEF r
    <2>3. CertTypes'
      BY <2>1, <2>2, <1>t, <1>p DEF CertTypes
    <2>4. KeyInv'
      <3>1. ~rekeyed /\ accountKey \notin KeyIds => job[j].key = None /\ job[j].reg = None
        BY <1>t, <1>p DEF KeyInv
      <3>2. ~rekeyed /\ accountKey \in KeyIds =>
              job[j].key \in {None, accountKey} /\ job[j].reg \in {None, accountKey}
        BY <1>t DEF KeyInv
      <3> QED BY <2>1, <2>2, <3>1, <3>2, <1>t, <1>p, KeySame
    <2> QED BY <2>1, <2>2, <2>3, <2>4, <1>t DEF CertTypes
  <1>1. CASE SaveCrt(j)
    <2>1. /\ Goto(j, "crtBytes") /\ job[j].pc = "crt"
          /\ met' = IF Saving = {} THEN met ELSE met \cup Saving \cup {j}
          /\ spoiled' = (spoiled \/ Saving # {})
      BY <1>1 DEF SaveCrt, At
    <2>2. Saving' = Saving \cup {j}
      BY <2>1, <1>g DEF Saving
    <2>3. PairInv'
      BY <2>1, <2>2, <1>g, <1>t DEF PairInv, PairMatches
    <2> QED BY <2>1, <2>3, <1>g DEF CertInv
  <1>2. CASE WriteCrt(j)
    <2>1. /\ Goto(j, "key") /\ job[j].pc = "crtBytes" /\ crt' = job[j].cert
          /\ UNCHANGED <<met, spoiled>>
      BY <1>2 DEF WriteCrt, At, history
    <2>2. Saving' = Saving /\ j \in Saving
      BY <2>1, <1>g DEF Saving
    <2>3. PairInv'
      BY <2>1, <2>2, <1>g, <1>t DEF PairInv, PairMatches, Saving
    <2> QED BY <2>1, <2>3, <1>g DEF CertInv
  <1>3. CASE SaveKey(j)
    <2>1. /\ Goto(j, "keyBytes") /\ job[j].pc = "key"
          /\ UNCHANGED <<crt, met, spoiled>>
      BY <1>3 DEF SaveKey, At, history
    <2>2. Saving' = Saving /\ j \in Saving
      BY <2>1, <1>g DEF Saving
    <2>3. PairInv'
      BY <2>1, <2>2, <1>g, <1>t DEF PairInv, PairMatches, Saving
    <2> QED BY <2>1, <2>3, <1>g DEF CertInv
  <1>4. CASE WriteKeyFile(j)
    <2> DEFINE r == [NoJob EXCEPT !.kind = "done"]
    <2>1. r \in JobType /\ r.pc = "idle" /\ r.key = None /\ r.reg = None
      BY DEF NoJob, JobType
    <2>2. /\ job' = [job EXCEPT ![j] = r] /\ job[j].pc = "keyBytes"
          /\ key' = job[j].cert /\ crt' = crt /\ met' = met \ {j}
          /\ spoiled' = (spoiled /\ j \in met)
      BY <1>4 DEF WriteKeyFile, Over, Become, At
    <2> HIDE DEF r
    <2>3. \A i \in Jobs : job'[i] = IF i = j THEN r ELSE job[i]
      BY <2>2, <1>t DEF CertTypes
    <2>4. CertTypes'
      BY <2>1, <2>2, <2>3, <1>t, <1>p DEF CertTypes
    <2>5. KeyInv'
      BY <2>1, <2>2, <1>t, <1>p, KeySame
    <2>6. Saving' = Saving \ {j} /\ j \in Saving
      BY <2>1, <2>2, <2>3 DEF Saving
    <2>7. job[j].cert \in CertIds
      BY <2>2, <1>t DEF CertTypes
    <2>8. CASE j \in met
      <3>1. spoiled /\ spoiled'
        BY <2>2, <2>8, <1>t DEF PairInv
      <3>2. met' \subseteq Saving' /\ Saving' \ met' = {}
        <4>1. ASSUME NEW i \in Saving, i # j, i \notin met PROVE FALSE
          BY <4>1, <2>6, <1>t DEF PairInv
        <4> QED BY <4>1, <2>2, <2>6, <1>t DEF PairInv
      <3>3. PairInv'
        BY <3>1, <3>2 DEF PairInv, PairMatches
      <3> QED BY <2>4, <2>5, <3>3 DEF CertInv
    <2>9. CASE j \notin met
      <3>1. Saving = {j} /\ crt = job[j].cert /\ met = {}
        BY <2>2, <2>6, <2>9, <1>t DEF PairInv
      <3> QED BY <2>2, <2>4, <2>5, <2>6, <2>7, <3>1 DEF PairInv, PairMatches, CertInv
    <2> QED BY <2>4, <2>5, <2>8, <2>9 DEF CertInv
  <1> QED BY <1>1, <1>2, <1>3, <1>4

LEMMA CertInvHolds == CertInv /\ [CertNext]_certVars => CertInv'
  <1> SUFFICES ASSUME CertInv, [CertNext]_certVars PROVE CertInv'
    OBVIOUS
  <1>1. CASE UNCHANGED certVars \/ Age
    BY <1>1 DEF certVars, files, history, Age, CertInv, CertTypes, PairInv, PairMatches,
          Saving, KeyInv, AccountMatches
  <1>2. CASE Cut
    <2>1. /\ job' = [i \in Jobs |-> NoJob] /\ met' = {}
          /\ spoiled' = (spoiled \/ Saving # {})
          /\ UNCHANGED <<account, accountKey, crt, key, rekeyed>>
      BY <1>2 DEF Cut, files
    <2>2. /\ NoJob \in JobType /\ NoJob.pc = "idle"
          /\ NoJob.key = None /\ NoJob.reg = None
      BY DEF NoJob, JobType
    <2> HIDE DEF NoJob
    <2>3. Saving' = {}
      BY <2>1, <2>2 DEF Saving
    <2>4. CertTypes'
      BY <2>1, <2>2 DEF CertInv, CertTypes
    <2>5. PairInv'
      BY <2>1, <2>3 DEF CertInv, PairInv, PairMatches
    <2>6. KeyInv'
      BY <2>1, <2>2 DEF CertInv, KeyInv, AccountMatches
    <2> QED BY <2>4, <2>5, <2>6 DEF CertInv
  <1>3. ASSUME NEW j \in Jobs,
               \/ Obtain(j) \/ Renew(j) \/ JobStep(j)
               \/ Idle(j) /\ Become(j, NoJob) /\ UNCHANGED <<files, due, history>>
        PROVE  CertInv'
    BY <1>3, SetupInv, AccountInv, SaveInv DEF JobStep, JobWorks
  <1> QED BY <1>1, <1>2, <1>3 DEF CertNext

LEMMA CertInvInit == Init => CertInv
  <1> SUFFICES ASSUME Init PROVE CertInv
    OBVIOUS
  <1> USE CertConstants DEF Init, CertInit
  <1>1. NoJob \in JobType /\ NoJob.pc = "idle" /\ NoJob.key = None /\ NoJob.reg = None
    BY DEF NoJob, JobType
  <1>2. CertTypes
    BY <1>1 DEF CertTypes
  <1>3. PairInv
    BY <1>1 DEF PairInv, PairMatches, Saving
  <1>4. KeyInv
    BY <1>1 DEF KeyInv, AccountMatches
  <1> QED BY <1>2, <1>3, <1>4 DEF CertInv

\* PairMatches for any number of nodes that share the directory: whatever jobs
\* obtain and renew at once, and wherever the process ends, a certificate
\* without its private key is on disk only after a save that was cut, or that
\* met another one (SaveResource of certs_storage.go).
THEOREM PairMatchesHolds == Spec => []PairMatches
  <1>1. CertInv => PairMatches
    BY DEF CertInv, PairInv
  <1> QED BY <1>1, PanelInvInit, PanelInvHolds, CertInvInit, CertInvHolds, CertSteps,
             PTL DEF Spec

\* AccountMatches, likewise: a registration for another key than the one on
\* disk is there only after a job replaced the key that another had made
\* (GetPrivateKey and Save of accounts_storage.go).
THEOREM AccountMatchesHolds == Spec => []AccountMatches
  <1>1. CertInv => AccountMatches
    BY DEF CertInv, KeyInv, AccountMatches
  <1> QED BY <1>1, PanelInvInit, PanelInvHolds, CertInvInit, CertInvHolds, CertSteps,
             PTL DEF Spec
-----------------------------------------------------------------------------
(* Types, and the mutex of the Panel.                                      *)

\* Who starts the Panel holds its mutex, and what is started stays.
PanelTypes ==
    /\ file \in 0..MaxEdits /\ read \in 0..MaxEdits /\ config \in 0..MaxEdits
    /\ changed \in BOOLEAN /\ recent \in BOOLEAN /\ discarded \in BOOLEAN
    /\ main \in {"down", "toStart", "starting", "serving", "toClose", "exit"}
    /\ watcher \in {"idle", "toClose", "toLoad", "toStart", "starting"}
    /\ holder \in {"main", "watcher", "nobody"}
    /\ late \subseteq Tasks
    /\ ends \in 0..MaxEnds
    /\ main = "starting" <=> holder = "main"
    /\ watcher = "starting" <=> holder = "watcher"
    /\ holder # "nobody" => service # {}

LEMMA PanelTypesInit == Init => PanelTypes
  <1> SUFFICES ASSUME Init PROVE PanelTypes
    OBVIOUS
  <1>1. 0 \in 0..MaxEdits /\ 0 \in 0..MaxEnds
    BY ServiceConstants
  <1>2. late \subseteq Tasks
    BY DEF Init
  <1> QED
    BY <1>1, <1>2 DEF Init, PanelTypes

LEMMA PanelTypesHold == PanelInv /\ PanelTypes /\ [Next]_vars => PanelTypes'
  <1> SUFFICES ASSUME PanelInv, PanelTypes, [Next]_vars PROVE PanelTypes'
    OBVIOUS
  <1> USE ServiceConstants DEF PanelTypes
  <1>1. CASE EditFile
    BY <1>1 DEF EditFile, panelVars, taskVars, bookkeep, Up
  <1>2. CASE Elapse
    BY <1>2 DEF Elapse, fileVars, panelVars, taskVars
  <1>3. ASSUME Down, ends' \in 0..MaxEnds PROVE PanelTypes'
    BY <1>3 DEF Down
  <1>4. CASE Crash \/ \E a \in Actors : StartFails(a)
    BY <1>3, <1>4 DEF Crash, StartFails
  <1>5. CASE Exit \/ \E a \in Actors : StartNoCert(a)
    BY <1>3, <1>5 DEF Exit, StartNoCert
  <1>6. CASE Signal
    BY <1>6 DEF Signal, fileVars, taskVars
  <1>7. CASE Boot
    BY <1>7 DEF Boot, taskVars, Up
  <1>8. CASE Reload
    BY <1>8 DEF Reload, fileVars, taskVars, bookkeep
  <1>9. CASE Changed
    BY <1>9 DEF Changed, taskVars
  <1>10. ASSUME NEW a \in Actors, BeginStart(a) PROVE PanelTypes'
    BY <1>10 DEF BeginStart, IsAt, Move, Actors, fileVars, taskVars, bookkeep
  <1>11. ASSUME NEW a \in Actors, StartDone(a) PROVE PanelTypes'
    BY <1>11 DEF StartDone, IsAt, Move, Actors, fileVars
  <1>12. ASSUME NEW a \in Actors, ClosePanel(a) PROVE PanelTypes'
    BY <1>12 DEF ClosePanel, StopTasks, IsAt, Move, Actors, fileVars, bookkeep
  <1>13. ASSUME NEW k \in Tasks, TaskStart(k) PROVE PanelTypes'
    BY <1>13 DEF TaskStart, fileVars, panelVars, bookkeep
  <1>14. ASSUME NEW k \in Tasks, TaskFires(k) \/ TaskEnds(k) \/ TaskGivesUp(k)
         PROVE  PanelTypes'
    BY <1>14 DEF TaskFires, TaskEnds, TaskGivesUp, fileVars, panelVars, bookkeep
  <1>15. CASE Certify \/ Expire \/ UNCHANGED vars
    BY <1>15 DEF Certify, Expire, vars, fileVars, panelVars, taskVars, bookkeep
  <1> QED
    BY <1>1, <1>2, <1>4, <1>5, <1>6, <1>7, <1>8, <1>9, <1>10, <1>11, <1>12, <1>13,
       <1>14, <1>15 DEF Next, Panel

FileTypes ==
    /\ crt \in CertIds \cup {None, Torn} /\ key \in CertIds \cup {None, Torn}
    /\ due \in BOOLEAN /\ spoiled \in BOOLEAN /\ rekeyed \in BOOLEAN

LEMMA FileTypesHold == CertInv /\ FileTypes /\ [CertNext]_certVars => FileTypes'
  <1> SUFFICES ASSUME CertInv, FileTypes, [CertNext]_certVars PROVE FileTypes'
    OBVIOUS
  <1> USE DEF FileTypes
  <1>1. CASE UNCHANGED certVars \/ Age \/ Cut
    BY <1>1 DEF certVars, files, history, Age, Cut
  <1>2. ASSUME NEW j \in Jobs, CreateKey(j) PROVE FileTypes'
    BY <1>2 DEF CreateKey
  <1>3. ASSUME NEW j \in Jobs, WriteKey(j) \/ SaveAccount(j) \/ WriteAccount(j)
        PROVE  FileTypes'
    BY <1>3 DEF WriteKey, SaveAccount, WriteAccount, history
  <1>4. ASSUME NEW j \in Jobs, SaveCrt(j) PROVE FileTypes'
    BY <1>4 DEF SaveCrt
  <1>5. ASSUME NEW j \in Jobs, WriteCrt(j) \/ WriteKeyFile(j) PROVE FileTypes'
    <2>1. job[j].cert \in CertIds
      BY <1>5 DEF WriteCrt, WriteKeyFile, At, CertInv, CertTypes
    <2> QED BY <1>5, <2>1 DEF WriteCrt, WriteKeyFile, history
  <1>6. ASSUME NEW j \in Jobs, SaveKey(j) PROVE FileTypes'
    BY <1>6 DEF SaveKey, history
  <1>7. ASSUME NEW j \in Jobs, UNCHANGED <<files, due, history>> PROVE FileTypes'
    BY <1>7 DEF files, history
  <1>8. ASSUME NEW j \in Jobs,
               \/ Obtain(j) \/ Renew(j) \/ JobSucceeds(j) \/ JobFails(j)
               \/ LoadKey(j) \/ LoadKeyFails(j) \/ KeyMissing(j)
               \/ LoadAccount(j) \/ LoadAccountFails(j)
               \/ NeedRenewal(j) \/ NoRenewal(j) \/ ReadFails(j)
        PROVE  UNCHANGED <<files, due, history>>
    BY <1>8 DEF Obtain, Renew, JobSucceeds, JobFails, Register, Issue, RegisterFails,
          IssueFails, LoadKey, LoadKeyFails, KeyMissing, LoadAccount, LoadAccountFails,
          NeedRenewal, NoRenewal, ReadFails, Fail
  <1> QED
    BY <1>1, <1>2, <1>3, <1>4, <1>5, <1>6, <1>7, <1>8 DEF CertNext, JobStep, JobWorks

\* Types of the Panel, its tasks and the files, and what Panel.access is for:
\* who starts the Panel has it alone, and nobody takes the service away
\* meanwhile (Start and Close of panel.go).
THEOREM TypeCorrect == Spec => []TypeOK
  <1>1. Init => FileTypes
    BY DEF Init, CertInit, FileTypes
  <1>2. PanelInv /\ PanelTypes /\ CertInv /\ FileTypes => TypeOK
    <2> SUFFICES ASSUME PanelInv, PanelTypes, CertInv, FileTypes PROVE TypeOK
      OBVIOUS
    <2>1. met \subseteq Jobs
      BY DEF CertInv, PairInv, Saving
    <2>2. \A a \in Actors : IsAt(a, "starting") <=> holder = a
      BY DEF PanelTypes, Actors, IsAt
    <2>3. holder \in Actors \cup {"nobody"}
      BY DEF PanelTypes, Actors
    <2> QED
      BY <2>1, <2>2, <2>3
         DEF TypeOK, PanelInv, Armed, PanelTypes, CertInv, CertTypes, FileTypes
  <1> QED
    BY <1>1, <1>2, PanelInvInit, PanelInvHolds, PanelTypesInit, PanelTypesHold,
       CertInvInit, CertInvHolds, CertSteps, FileTypesHold, PTL DEF Spec
=============================================================================
