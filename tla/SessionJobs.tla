----------------------------- MODULE SessionJobs ----------------------------
(* The life of projects, conversation jobs and per-project editing locks in *)
(* the web server: sida/session_jobs.py with the parts of sida/editing.py,  *)
(* sida/workspace.py, sida/project.py and sida/talks.py it leans on.        *)
(*                                                                          *)
(* Request threads run the HTTP handlers; every job runs in a thread of its *)
(* own.  A handler first finds the project's folder and only then takes a   *)
(* lock, so the folder may be gone, or be another project of the same name, *)
(* when the lock is granted.  A section under SessionJobs._guard that waits *)
(* for nothing else is one step.                                            *)
EXTENDS Integers, FiniteSets

CONSTANTS
    Projects,      \* project names, each a path under the projects folder
    Requests,      \* HTTP request threads
    None,          \* no job, no approval
    Free,          \* the value of a lock nobody holds
    MaxFinished,   \* MAX_FINISHED_JOBS
    MaxJobs,       \* bound: jobs ever started
    MaxLives,      \* bound: how often each name is created
    MaxEvents      \* bound: events of one job

ASSUME ConstantsAssumption ==
    /\ MaxFinished \in Nat /\ MaxJobs \in Nat
    /\ MaxLives \in Nat /\ MaxEvents \in Nat
    /\ None \notin Nat
    /\ Free \notin Requests \cup Nat
    /\ Requests \cap Nat = {}

JobIds  == 1..MaxJobs        \* uuid4 names, in the order the jobs were started
Threads == Requests \cup JobIds

VARIABLES
    folder,    \* "absent", "project", or "ghost": a folder without brief.md
    life,      \* which project of that name this is (0: none yet)
    started,   \* how many jobs were started
    job,       \* job -> [project, life, stage, events, held, lock]
    registry,  \* SessionJobs._jobs: the ids a client can ask for
    active,    \* SessionJobs._active
    guard,     \* SessionJobs._guard
    locks,     \* how often the name's editing lock was dropped: its identity
    owner,     \* <<name, lock>> -> the thread inside that lock
    pending,   \* EditingService._pending: the life the approval was made from
    pc, mine,  \* where each request is, and what it has found so far
    polled     \* what the polling client has seen of each job

vars == <<folder, life, started, job, registry, active, guard, locks, owner,
          pending, pc, mine, polled>>

Gens   == 0..MaxLives
Stages == {"unborn", "registered", "stranded", "opening", "working", "waiting",
           "holding", "leaving", "left", "over"}
Steps  == {"idle", "start", "delete", "forget", "new_talk", "info", "propose",
           "propose_wait", "opening", "model"}

Init ==
    /\ folder   = [p \in Projects |-> "absent"]
    /\ life     = [p \in Projects |-> 0]
    /\ started  = 0
    /\ job      = [j \in JobIds |-> [project |-> None, life |-> 0, stage |-> "unborn",
                                     events |-> 0, held |-> FALSE, lock |-> 0]]
    /\ registry = {}
    /\ active   = [p \in Projects |-> None]
    /\ guard    = Free
    /\ locks    = [p \in Projects |-> 0]
    /\ owner    = [l \in Projects \X Gens |-> Free]
    /\ pending  = [p \in Projects |-> None]
    /\ pc       = [r \in Requests |-> "idle"]
    /\ mine     = [r \in Requests |-> [project |-> None, lock |-> 0, life |-> 0]]
    /\ polled   = [j \in JobIds |-> [events |-> 0, over |-> FALSE]]
----------------------------------------------------------------------------
Goto(r, step) == pc' = [pc EXCEPT ![r] = step]

\* The request answers its client and forgets what it found.
Return(r) ==
    /\ Goto(r, "idle")
    /\ mine' = [mine EXCEPT ![r] = [project |-> None, lock |-> 0, life |-> 0]]

Finished(ids) == {j \in ids : job[j].stage = "over"}

\* Mutant of Pruned: the oldest jobs go, finished or not.
PrunedByAge(ids) == {j \in ids : Cardinality({k \in ids : k > j}) < MaxFinished}

\* _prune: only the newest finished jobs stay; running ones always do.
Pruned(ids) ==
    {j \in ids : job[j].stage = "over"
                    => Cardinality({k \in Finished(ids) : k > j}) < MaxFinished}

----------------------------------------------------------------------------
(* Projects come and go.                                                    *)

\* POST /api/projects for a name nobody uses.  A ghost's name is refused, a
\* project's name opens that project: neither changes anything here.
CreateProject(p) ==
    /\ folder[p] = "absent"
    /\ life[p] < MaxLives
    /\ folder' = [folder EXCEPT ![p] = "project"]
    /\ life'   = [life EXCEPT ![p] = @ + 1]
    /\ UNCHANGED <<started, job, registry, active, guard, locks, owner, pending,
                   pc, mine, polled>>

\* Every handler begins by finding the project's folder.
Find(r, p, step) ==
    /\ pc[r] = "idle"
    /\ folder[p] = "project"
    /\ mine' = [mine EXCEPT ![r].project = p]
    /\ Goto(r, step)
    /\ UNCHANGED <<folder, life, started, job, registry, active, guard, locks,
                   owner, pending, polled>>

\* Mutant of DeleteFolder: a job may be running.
DeleteAnyway(r) ==
    LET p == mine[r].project
    IN  /\ pc[r] = "delete"
        /\ folder' = [folder EXCEPT ![p] = "absent"]
        /\ Goto(r, "forget")
        /\ UNCHANGED <<life, started, job, registry, active, guard, locks, owner,
                       pending, mine, polled>>

\* 409 while a job is active.  workspace.delete_project finds the folder again
\* before it removes it; the names of the project's jobs go with it.
DeleteFolder(r) ==
    LET p == mine[r].project
    IN  /\ pc[r] = "delete"
        /\ guard = Free
        /\ IF active[p] # None \/ folder[p] # "project"
             THEN Return(r) /\ UNCHANGED <<folder, registry>>
             ELSE /\ folder'   = [folder EXCEPT ![p] = "absent"]
                  /\ registry' = {j \in registry : job[j].project # p}
                  /\ Goto(r, "forget")
                  /\ UNCHANGED mine
        /\ UNCHANGED <<life, started, job, active, guard, locks, owner, pending,
                       polled>>

\* EditingService.forget, after the guard was released: the next request for
\* this path makes a new lock, whoever still holds the old one.
Forget(r) ==
    LET p == mine[r].project
    IN  /\ pc[r] = "forget"
        /\ pending' = [pending EXCEPT ![p] = None]
        /\ locks'   = [locks EXCEPT ![p] = @ + 1]
        /\ Return(r)
        /\ UNCHANGED <<folder, life, started, job, registry, active, guard, owner,
                       polled>>

\* POST /talks: the talks folder is made with its parents.
NewTalk(r) ==
    LET p == mine[r].project
    IN  /\ pc[r] = "new_talk"
        /\ guard = Free
        /\ folder' = [folder EXCEPT ![p] = IF @ = "absent" THEN "ghost" ELSE @]
        /\ Return(r)
        /\ UNCHANGED <<life, started, job, registry, active, guard, locks, owner,
                       pending, polled>>

\* PATCH /info: no job may be active, and none can start while the guard is
\* kept until the project's editing lock is free.
InfoGuard(r) ==
    LET p == mine[r].project
    IN  /\ pc[r] = "info"
        /\ guard = Free
        /\ IF active[p] # None
             THEN Return(r) /\ UNCHANGED guard
             ELSE /\ guard' = r
                  /\ mine'  = [mine EXCEPT ![r].lock = locks[p]]
                  /\ UNCHANGED pc
        /\ UNCHANGED <<folder, life, started, job, registry, active, locks, owner,
                       pending, polled>>

\* brief.md is patched under the editing lock and both locks are given back.
UpdateInfo(r) ==
    /\ pc[r] = "info" /\ guard = r
    /\ owner[<<mine[r].project, mine[r].lock>>] = Free
    /\ guard' = Free
    /\ Return(r)
    /\ UNCHANGED <<folder, life, started, job, registry, active, locks, owner,
                   pending, polled>>

----------------------------------------------------------------------------
(* Asking for a state proposal over HTTP.                                   *)

\* setdefault on _locks under EditingService._guard.
LookUpLock(r) ==
    /\ pc[r] = "propose"
    /\ mine' = [mine EXCEPT ![r].lock = locks[mine[r].project]]
    /\ Goto(r, "propose_wait")
    /\ UNCHANGED <<folder, life, started, job, registry, active, guard, locks,
                   owner, pending, polled>>

\* Inside the lock: an expert's output must be there, the earlier approval goes.
EnterLock(r) ==
    LET p == mine[r].project
        l == <<p, mine[r].lock>>
    IN  /\ pc[r] = "propose_wait"
        /\ owner[l] = Free
        /\ IF folder[p] = "project"
             THEN /\ owner'   = [owner EXCEPT ![l] = r]
                  /\ pending' = [pending EXCEPT ![p] = None]
                  /\ Goto(r, "opening")
                  /\ UNCHANGED mine
             ELSE Return(r) /\ UNCHANGED <<owner, pending>>
        /\ UNCHANGED <<folder, life, started, job, registry, active, guard, locks,
                       polled>>

LeaveLock(r) == owner' = [owner EXCEPT ![<<mine[r].project, mine[r].lock>>] = Free]

\* build_session: load_project looks for brief.md, then makes the modules
\* folder with its parents and reads the brief.  A folder that has gone is seen
\* by the first, or made again by the second before the third fails.
OpenForProposal(r) ==
    LET p == mine[r].project
    IN  /\ pc[r] = "opening"
        /\ IF folder[p] = "project"
             THEN /\ mine' = [mine EXCEPT ![r].life = life[p]]
                  /\ Goto(r, "model")
                  /\ UNCHANGED <<folder, owner>>
             ELSE /\ Return(r) /\ LeaveLock(r)
                  /\ \/ folder[p] = "absent" /\ folder' = [folder EXCEPT ![p] = "ghost"]
                     \/ UNCHANGED folder
        /\ UNCHANGED <<life, started, job, registry, active, guard, locks, pending,
                       polled>>

\* Mutant of KeepProposal: the approval is kept under the jobs' guard.
KeepUnderGuard(r) ==
    /\ pc[r] = "model"
    /\ guard = Free
    /\ LeaveLock(r)
    /\ \/ pending' = [pending EXCEPT ![mine[r].project] = mine[r].life]
       \/ UNCHANGED pending
    /\ Return(r)
    /\ UNCHANGED <<folder, life, started, job, registry, active, guard, locks,
                   polled>>

\* The model call ends, with a proposal or without one.
KeepProposal(r) ==
    /\ pc[r] = "model"
    /\ LeaveLock(r)
    /\ \/ pending' = [pending EXCEPT ![mine[r].project] = mine[r].life]
       \/ UNCHANGED pending
    /\ Return(r)
    /\ UNCHANGED <<folder, life, started, job, registry, active, guard, locks,
                   polled>>

----------------------------------------------------------------------------
(* Jobs.                                                                    *)

\* _start under the guard: 409 when the project has a job already.
StartJob(r) ==
    LET p == mine[r].project
        j == started + 1
    IN  /\ pc[r] = "start"
        /\ guard = Free
        /\ IF active[p] # None
             THEN UNCHANGED <<started, job, registry, active>>
             ELSE /\ started < MaxJobs             \* bound
                  /\ started'  = j
                  /\ job'      = [job EXCEPT ![j].project = p,
                                             ![j].stage   = "registered"]
                  /\ active'   = [active EXCEPT ![p] = j]
                  /\ registry' = Pruned(registry \cup {j})
        /\ Return(r)
        /\ UNCHANGED <<folder, life, guard, locks, owner, pending, polled>>

\* The job's thread starts and comes to its try block; or it cannot be started,
\* or its observer cannot be made of the configuration: both are before the try,
\* so that nothing will ever end this job.
RunThread(j) ==
    /\ job[j].stage = "registered"
    /\ \E next \in {"opening", "stranded"} : job' = [job EXCEPT ![j].stage = next]
    /\ UNCHANGED <<folder, life, started, registry, active, guard, locks, owner,
                   pending, pc, mine, polled>>

\* _open: the project may have gone between the find and the start.
OpenJob(j) ==
    /\ job[j].stage = "opening"
    /\ IF folder[job[j].project] = "project"
         THEN job' = [job EXCEPT ![j].stage = "working",
                                 ![j].life  = life[job[j].project]]
         ELSE job' = [job EXCEPT ![j].stage = "leaving"]
    /\ UNCHANGED <<folder, life, started, registry, active, guard, locks, owner,
                   pending, pc, mine, polled>>

AddEvent(j) ==
    /\ job[j].stage = "working"
    /\ job[j].events < MaxEvents
    /\ job' = [job EXCEPT ![j].events = @ + 1]
    /\ UNCHANGED <<folder, life, started, registry, active, guard, locks, owner,
                   pending, pc, mine, polled>>

\* "state_proposed" in ask mode: the emitter looks the editing lock up and the
\* job can do nothing else until it has it.
AskForLock(j) ==
    /\ job[j].stage = "working" /\ ~job[j].held
    /\ job[j].events < MaxEvents
    /\ job' = [job EXCEPT ![j].stage = "waiting", ![j].lock = locks[job[j].project]]
    /\ UNCHANGED <<folder, life, started, registry, active, guard, locks, owner,
                   pending, pc, mine, polled>>

\* Inside the lock the approval is kept; the event that shows it comes after.
HoldApproval(j) ==
    LET p == job[j].project
    IN  /\ job[j].stage = "waiting"
        /\ owner[<<p, job[j].lock>>] = Free
        /\ pending' = [pending EXCEPT ![p] = job[j].life]
        /\ job'     = [job EXCEPT ![j].held = TRUE, ![j].stage = "holding",
                                  ![j].lock = 0]
        /\ UNCHANGED <<folder, life, started, registry, active, guard, locks, owner,
                       pc, mine, polled>>

ShowApproval(j) ==
    /\ job[j].stage = "holding"
    /\ job' = [job EXCEPT ![j].events = @ + 1, ![j].stage = "working"]
    /\ UNCHANGED <<folder, life, started, registry, active, guard, locks, owner,
                   pending, pc, mine, polled>>

\* Mutant of EndWork: the job is over before its project is free.
EndAtOnce(j) ==
    /\ job[j].stage = "working"
    /\ job' = [job EXCEPT ![j].stage = "over"]
    /\ UNCHANGED <<folder, life, started, registry, active, guard, locks, owner,
                   pending, pc, mine, polled>>

\* The work is done or has failed: any exception ends it here.
EndWork(j) ==
    /\ job[j].stage = "working"
    /\ job' = [job EXCEPT ![j].stage = "leaving"]
    /\ UNCHANGED <<folder, life, started, registry, active, guard, locks, owner,
                   pending, pc, mine, polled>>

\* The finally block: first the project is free again, then the job is over.
LeaveActive(j) ==
    LET p == job[j].project
    IN  /\ job[j].stage = "leaving"
        /\ guard = Free
        /\ active' = [active EXCEPT ![p] = IF @ = j THEN None ELSE @]
        /\ job'    = [job EXCEPT ![j].stage = "left"]
        /\ UNCHANGED <<folder, life, started, registry, guard, locks, owner,
                       pending, pc, mine, polled>>

FinishJob(j) ==
    /\ job[j].stage = "left"
    /\ job' = [job EXCEPT ![j].stage = "over"]
    /\ UNCHANGED <<folder, life, started, registry, active, guard, locks, owner,
                   pending, pc, mine, polled>>

\* GET /session/jobs/{id}?after=n by the client that started the job: it gets
\* the events after the ones it has, and the status.
Poll(j) ==
    /\ j \in registry
    /\ folder[job[j].project] = "project"
    /\ polled' = [polled EXCEPT ![j] = [events |-> job[j].events,
                                        over   |-> job[j].stage = "over"]]
    /\ UNCHANGED <<folder, life, started, job, registry, active, guard, locks,
                   owner, pending, pc, mine>>

----------------------------------------------------------------------------
Work(j) ==
    \/ RunThread(j) \/ OpenJob(j) \/ AddEvent(j) \/ AskForLock(j) \/ HoldApproval(j)
    \/ ShowApproval(j) \/ EndWork(j) \/ LeaveActive(j) \/ FinishJob(j)

Continue(r) ==
    \/ DeleteFolder(r) \/ Forget(r) \/ NewTalk(r) \/ InfoGuard(r) \/ UpdateInfo(r)
    \/ LookUpLock(r) \/ EnterLock(r) \/ OpenForProposal(r) \/ KeepProposal(r)
    \/ StartJob(r)

Begin(r) ==
    \E p \in Projects, step \in {"start", "delete", "new_talk", "info", "propose"} :
        Find(r, p, step)

Next ==
    \/ \E p \in Projects : CreateProject(p)
    \/ \E r \in Requests : Begin(r) \/ Continue(r)
    \/ \E j \in JobIds : Work(j) \/ Poll(j)

Spec == Init /\ [][Next]_vars

\* Job threads run, and a request that has begun goes on: its model call has a
\* timeout (sida/providers.py).
FairSpec ==
    /\ Spec
    /\ \A r \in Requests : WF_vars(Continue(r))
    /\ \A j \in JobIds : WF_vars(Work(j))

----------------------------------------------------------------------------
Jobs   == [project: Projects \cup {None}, life: Gens, stage: Stages, events: Nat,
           held: BOOLEAN, lock: Nat]
Claims == [project: Projects \cup {None}, lock: Nat, life: Gens]

TypeOK ==
    /\ folder \in [Projects -> {"absent", "project", "ghost"}]
    /\ life \in [Projects -> Gens]
    /\ started \in 0..MaxJobs
    /\ job \in [JobIds -> Jobs]
    /\ registry \subseteq JobIds
    /\ active \in [Projects -> JobIds \cup {None}]
    /\ guard \in Requests \cup {Free}
    /\ locks \in [Projects -> Nat]
    /\ owner \in [Projects \X Gens -> Requests \cup {Free}]
    /\ pending \in [Projects -> Gens \cup {None}]
    /\ pc \in [Requests -> Steps]
    /\ mine \in [Requests -> Claims]
    /\ polled \in [JobIds -> [events: Nat, over: BOOLEAN]]

Unfinished == {"registered", "stranded", "opening", "working", "waiting", "holding",
               "leaving"}

\* A project has at most one unfinished job, and it is the one its clients are
\* refused for and can ask about: pruning and deleting never take it away.
OneJobPerProject ==
    \A j \in JobIds : job[j].stage \in Unfinished =>
        active[job[j].project] = j /\ j \in registry

\* The registry of jobs: its shape, and one unfinished job per project that clients can reach.
JobsInv == TypeOK /\ OneJobPerProject

\* The project a job opened stays the same project on disk while it works: no
\* delete, and no re-creation under the same name, happens under it.  Nor does
\* a brief edit meet a running job of its project, although it may wait long
\* for the editing lock (update_project_info's docstring).
JobKeepsFolder ==
    /\ \A j \in JobIds : job[j].stage \in {"working", "waiting", "holding"} =>
          /\ folder[job[j].project] = "project"
          /\ life[job[j].project] = job[j].life
    /\ \A r \in Requests : guard = r => active[mine[r].project] = None

\* A client that is told its job is over has been given all of its events, and
\* its next message is not refused because of that job.
OverMeansFree ==
    \A j \in JobIds : polled[j].over =>
        /\ polled[j].events = job[j].events
        /\ active[job[j].project] # j

\* Clients begin nothing new; what they have begun goes on.
NoNewRequests == <>[][\A r \in Requests : pc[r] = "idle" => pc'[r] = "idle"]_vars

\* Nobody keeps the guard or an editing lock, and every job that has come to its
\* try block is over and out of its project's way.  A stranded job never is: its
\* project stays busy until the server restarts.
AtRest ==
    /\ guard = Free
    /\ \A l \in Projects \X Gens : owner[l] = Free
    /\ \A j \in JobIds : job[j].stage \in {"unborn", "stranded", "over"}
    /\ \A p \in Projects : active[p] # None => job[active[p]].stage = "stranded"

\* A brief edit waits for the editing lock with the guard in its hand, a
\* proposal keeps that lock across its model call, a job's emitter waits for the
\* lock and its end for the guard: they never wait for each other in a circle,
\* and once clients begin nothing new everything comes to rest, whatever became
\* of the jobs' folders (session_jobs.py:336: "a bug must still end the job").
JobsEnd == NoNewRequests => <>[]AtRest
=============================================================================
