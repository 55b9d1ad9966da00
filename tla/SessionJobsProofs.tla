------------------------- MODULE SessionJobsProofs --------------------------
(* Theorems about SessionJobs for any projects, requests and limits: the    *)
(* registry's invariant is inductive, and what it promises follows.         *)
EXTENDS SessionJobs, TLAPS

\* A handler past its first step has found a project, and only the handler of
\* a brief edit keeps the guard from one step to the next.
HandlersInv ==
    /\ \A r \in Requests : pc[r] # "idle" => mine[r].project \in Projects
    /\ \A r \in Requests : guard = r => pc[r] = "info"

\* Jobs are born in order; one that has left its project's slot is not in it,
\* and a client is told that a job is over only when it is.
BornInv ==
    /\ \A j \in JobIds : j > started => job[j].stage = "unborn"
    /\ \A j \in JobIds : job[j].stage # "unborn" => job[j].project \in Projects
    /\ \A j \in JobIds : job[j].stage \in {"left", "over"} =>
           active[job[j].project] # j
    /\ \A j \in JobIds : polled[j].over =>
           job[j].stage = "over" /\ polled[j].events = job[j].events

IInv == TypeOK /\ HandlersInv /\ BornInv /\ OneJobPerProject /\ JobKeepsFolder

\* What a handler may have come for.
Begins == {"start", "delete", "new_talk", "info", "propose"}

\* A handler that goes on, and one that answers.
LEMMA HandlerTypes ==
    ASSUME TypeOK, NEW r \in Requests
    PROVE  /\ \A next \in Steps : Goto(r, next) => pc' \in [Requests -> Steps]
           /\ Return(r) => pc' \in [Requests -> Steps] /\ mine' \in [Requests -> Claims]
           /\ mine[r].life \in Gens
<1>1. [project |-> None, lock |-> 0, life |-> 0] \in Claims
  BY ConstantsAssumption DEF Claims, Gens
<1>2. "idle" \in Steps
  BY DEF Steps
<1>3. \A next \in Steps : Goto(r, next) => pc' \in [Requests -> Steps]
  BY DEF Goto, TypeOK
<1>4. Return(r) => mine' \in [Requests -> Claims]
  BY <1>1 DEF Return, TypeOK
<1>5. mine[r] \in Claims
  BY DEF TypeOK
<1>6. QED BY <1>2, <1>3, <1>4, <1>5 DEF Return, Claims

\* What a handler has found, by parts.
LEMMA ClaimTypes ==
    ASSUME TypeOK, NEW r \in Requests, NEW p \in Projects
    PROVE  /\ [mine EXCEPT ![r].project = p] \in [Requests -> Claims]
           /\ [mine EXCEPT ![r].lock = locks[p]] \in [Requests -> Claims]
           /\ [mine EXCEPT ![r].life = life[p]] \in [Requests -> Claims]
<1>1. mine \in [Requests -> Claims] /\ locks[p] \in Nat /\ life[p] \in Gens
  BY DEF TypeOK
<1>2. \A m \in Claims : /\ [m EXCEPT !.project = p] \in Claims
                        /\ [m EXCEPT !.lock = locks[p]] \in Claims
                        /\ [m EXCEPT !.life = life[p]] \in Claims
  BY <1>1 DEF Claims
<1>3. QED BY <1>1, <1>2

\* A job's first record.
LEMMA JobBorn ==
    ASSUME TypeOK, NEW j \in JobIds, NEW p \in Projects
    PROVE  [job EXCEPT ![j].project = p, ![j].stage = "registered"] \in [JobIds -> Jobs]
<1>1. job \in [JobIds -> Jobs] /\ "registered" \in Stages
  BY DEF TypeOK, Stages
<1>2. QED BY <1>1 DEF Jobs

\* The types of all variables, through every step.
LEMMA TypeNext == TypeOK /\ HandlersInv /\ BornInv /\ [Next]_vars => TypeOK'
<1> SUFFICES ASSUME TypeOK, HandlersInv, BornInv, [Next]_vars PROVE TypeOK'
    OBVIOUS
<1>1. ASSUME NEW p \in Projects, CreateProject(p) PROVE TypeOK'
  <2>1. life' \in [Projects -> Gens]
    BY <1>1, ConstantsAssumption DEF CreateProject, Gens, TypeOK
  <2>2. QED BY <1>1, <2>1 DEF CreateProject, TypeOK
<1>2. ASSUME NEW r \in Requests, NEW p \in Projects, NEW todo \in Begins,
             Find(r, p, todo)
      PROVE  TypeOK'
  <2>1. mine' \in [Requests -> Claims]
    BY <1>2, ClaimTypes DEF Find
  <2>2. pc' \in [Requests -> Steps]
    BY <1>2, HandlerTypes DEF Find, Steps, Begins
  <2>3. QED BY <1>2, <2>1, <2>2 DEF Find, TypeOK
<1>3. ASSUME NEW r \in Requests, DeleteFolder(r) PROVE TypeOK'
  <2>1. CASE active[mine[r].project] # None \/ folder[mine[r].project] # "project"
    <3>1. pc' \in [Requests -> Steps]
      BY <1>3, <2>1, HandlerTypes DEF DeleteFolder
    <3>2. mine' \in [Requests -> Claims]
      BY <1>3, <2>1, HandlerTypes DEF DeleteFolder
    <3>3. QED BY <1>3, <3>1, <3>2 DEF DeleteFolder, TypeOK
  <2>2. CASE ~(active[mine[r].project] # None \/ folder[mine[r].project] # "project")
    <3>1. pc' \in [Requests -> Steps]
      BY <1>3, HandlerTypes DEF DeleteFolder, Steps
    <3>2. QED BY <1>3, <2>2, <3>1 DEF DeleteFolder, TypeOK
  <2>3. QED BY <2>1, <2>2
<1>4. ASSUME NEW r \in Requests, Forget(r) PROVE TypeOK'
  <2>1. mine[r].project \in Projects
    BY <1>4 DEF Forget, HandlersInv
  <2>2. pc' \in [Requests -> Steps]
    BY <1>4, HandlerTypes DEF Forget
  <2>3. mine' \in [Requests -> Claims]
    BY <1>4, HandlerTypes DEF Forget
  <2>4. QED BY <1>4, <2>1, <2>2, <2>3 DEF Forget, TypeOK
<1>5. ASSUME NEW r \in Requests, NewTalk(r) PROVE TypeOK'
  <2>1. pc' \in [Requests -> Steps]
    BY <1>5, HandlerTypes DEF NewTalk
  <2>2. mine' \in [Requests -> Claims]
    BY <1>5, HandlerTypes DEF NewTalk
  <2>3. QED BY <1>5, <2>1, <2>2 DEF NewTalk, TypeOK
<1>6. ASSUME NEW r \in Requests, InfoGuard(r) PROVE TypeOK'
  <2>1. mine[r].project \in Projects
    BY <1>6 DEF InfoGuard, HandlersInv
  <2>2. CASE active[mine[r].project] # None
    <3>1. pc' \in [Requests -> Steps]
      BY <1>6, <2>2, HandlerTypes DEF InfoGuard
    <3>2. mine' \in [Requests -> Claims]
      BY <1>6, <2>2, HandlerTypes DEF InfoGuard
    <3>3. QED BY <1>6, <3>1, <3>2 DEF InfoGuard, TypeOK
  <2>3. CASE ~(active[mine[r].project] # None)
    <3>1. mine' \in [Requests -> Claims]
      <4>1. mine' = [mine EXCEPT ![r].lock = locks[mine[r].project]]
        BY <1>6, <2>3 DEF InfoGuard
      <4>2. QED BY <4>1, <2>1, ClaimTypes
    <3>2. QED BY <1>6, <2>3, <3>1 DEF InfoGuard, TypeOK
  <2>4. QED BY <2>2, <2>3
<1>7. ASSUME NEW r \in Requests, UpdateInfo(r) PROVE TypeOK'
  <2>1. pc' \in [Requests -> Steps]
    BY <1>7, HandlerTypes DEF UpdateInfo
  <2>2. mine' \in [Requests -> Claims]
    BY <1>7, HandlerTypes DEF UpdateInfo
  <2>3. QED BY <1>7, <2>1, <2>2 DEF UpdateInfo, TypeOK
<1>8. ASSUME NEW r \in Requests, LookUpLock(r) PROVE TypeOK'
  <2>1. mine[r].project \in Projects
    BY <1>8 DEF LookUpLock, HandlersInv
  <2>2. mine' \in [Requests -> Claims]
    BY <1>8, <2>1, ClaimTypes DEF LookUpLock
  <2>3. pc' \in [Requests -> Steps]
    BY <1>8, HandlerTypes DEF LookUpLock, Steps
  <2>4. QED BY <1>8, <2>2, <2>3 DEF LookUpLock, TypeOK
<1>9. ASSUME NEW r \in Requests, EnterLock(r) PROVE TypeOK'
  <2>1. CASE folder[mine[r].project] = "project"
    <3>1. pc' \in [Requests -> Steps]
      BY <1>9, HandlerTypes DEF EnterLock, Steps
    <3>2. QED BY <1>9, <2>1, <3>1 DEF EnterLock, TypeOK
  <2>2. CASE ~(folder[mine[r].project] = "project")
    <3>1. pc' \in [Requests -> Steps]
      BY <1>9, <2>2, HandlerTypes DEF EnterLock
    <3>2. mine' \in [Requests -> Claims]
      BY <1>9, <2>2, HandlerTypes DEF EnterLock
    <3>3. QED BY <1>9, <3>1, <3>2 DEF EnterLock, TypeOK
  <2>3. QED BY <2>1, <2>2
<1>10. ASSUME NEW r \in Requests, OpenForProposal(r) PROVE TypeOK'
  <2>1. mine[r].project \in Projects
    BY <1>10 DEF OpenForProposal, HandlersInv
  <2>2. CASE folder[mine[r].project] = "project"
    <3>1. mine' \in [Requests -> Claims]
      <4>1. mine' = [mine EXCEPT ![r].life = life[mine[r].project]]
        BY <1>10, <2>2 DEF OpenForProposal
      <4>2. QED BY <4>1, <2>1, ClaimTypes
    <3>2. pc' \in [Requests -> Steps]
      BY <1>10, HandlerTypes DEF OpenForProposal, Steps
    <3>3. QED BY <1>10, <2>2, <3>1, <3>2 DEF OpenForProposal, TypeOK
  <2>3. CASE ~(folder[mine[r].project] = "project")
    <3>1. owner' \in [Projects \X Gens -> Requests \cup {Free}]
      BY <1>10 DEF OpenForProposal, LeaveLock, TypeOK
    <3>2. pc' \in [Requests -> Steps]
      BY <1>10, <2>3, HandlerTypes DEF OpenForProposal
    <3>3. mine' \in [Requests -> Claims]
      BY <1>10, <2>3, HandlerTypes DEF OpenForProposal
    <3>4. QED BY <1>10, <3>1, <3>2, <3>3 DEF OpenForProposal, TypeOK
  <2>4. QED BY <2>2, <2>3
<1>11. ASSUME NEW r \in Requests, KeepProposal(r) PROVE TypeOK'
  <2>1. owner' \in [Projects \X Gens -> Requests \cup {Free}]
    BY <1>11 DEF KeepProposal, LeaveLock, TypeOK
  <2>2. pending' \in [Projects -> Gens \cup {None}]
    BY <1>11, HandlerTypes DEF KeepProposal, TypeOK
  <2>3. pc' \in [Requests -> Steps]
    BY <1>11, HandlerTypes DEF KeepProposal
  <2>4. mine' \in [Requests -> Claims]
    BY <1>11, HandlerTypes DEF KeepProposal
  <2>5. QED BY <1>11, <2>1, <2>2, <2>3, <2>4 DEF KeepProposal, TypeOK
<1>12. ASSUME NEW r \in Requests, StartJob(r) PROVE TypeOK'
  <2>1. mine[r].project \in Projects
    BY <1>12 DEF StartJob, HandlersInv
  <2>2. CASE active[mine[r].project] # None
    <3>1. pc' \in [Requests -> Steps]
      BY <1>12, HandlerTypes DEF StartJob
    <3>2. mine' \in [Requests -> Claims]
      BY <1>12, HandlerTypes DEF StartJob
    <3>3. QED BY <1>12, <2>2, <3>1, <3>2 DEF StartJob, TypeOK
  <2>3. CASE ~(active[mine[r].project] # None)
    <3>1. started + 1 \in JobIds
      BY <1>12, <2>3, ConstantsAssumption DEF StartJob, TypeOK, JobIds
    <3>2. started' \in 0..MaxJobs
      BY <1>12, ConstantsAssumption DEF StartJob, TypeOK
    <3>3. job' \in [JobIds -> Jobs]
      <4>1. job' = [job EXCEPT ![started + 1].project = mine[r].project,
                               ![started + 1].stage = "registered"]
        BY <1>12, <2>3 DEF StartJob
      <4>2. QED BY <4>1, <3>1, <2>1, JobBorn
    <3>4. active' \in [Projects -> JobIds \cup {None}]
      BY <1>12, <3>1 DEF StartJob, TypeOK
    <3>5. registry' \in SUBSET JobIds
      BY <1>12, <3>1 DEF StartJob, Pruned, TypeOK
    <3>6. pc' \in [Requests -> Steps]
      BY <1>12, HandlerTypes DEF StartJob
    <3>7. mine' \in [Requests -> Claims]
      BY <1>12, HandlerTypes DEF StartJob
    <3>8. QED BY <1>12, <3>2, <3>3, <3>4, <3>5, <3>6, <3>7 DEF StartJob, TypeOK
  <2>4. QED BY <2>2, <2>3
<1>13. ASSUME NEW j \in JobIds, OpenJob(j) PROVE TypeOK'
  <2>1. job \in [JobIds -> Jobs] /\ job[j].project \in Projects
    BY <1>13 DEF OpenJob, TypeOK, BornInv
  <2>2. life[job[j].project] \in Gens /\ {"working", "leaving"} \subseteq Stages
    BY <2>1 DEF TypeOK, Stages
  <2>3. CASE folder[job[j].project] = "project"
    <3>1. job' = [job EXCEPT ![j].stage = "working",
                             ![j].life  = life[job[j].project]]
      BY <1>13, <2>3 DEF OpenJob
    <3>2. job' \in [JobIds -> Jobs]
      BY <3>1, <2>1, <2>2 DEF Jobs
    <3>3. QED BY <1>13, <3>2 DEF OpenJob, TypeOK
  <2>4. CASE folder[job[j].project] # "project"
    <3>1. job' = [job EXCEPT ![j].stage = "leaving"]
      BY <1>13, <2>4 DEF OpenJob
    <3>2. job' \in [JobIds -> Jobs]
      BY <3>1, <2>1, <2>2 DEF Jobs
    <3>3. QED BY <1>13, <3>2 DEF OpenJob, TypeOK
  <2>5. QED BY <2>3, <2>4
<1>14. ASSUME NEW j \in JobIds, AddEvent(j) PROVE TypeOK'
  <2>1. job \in [JobIds -> Jobs]
    BY DEF TypeOK
  <2>2. job' \in [JobIds -> Jobs]
    BY <1>14, <2>1 DEF AddEvent, Jobs
  <2>3. QED BY <1>14, <2>2 DEF AddEvent, TypeOK
<1>15. ASSUME NEW j \in JobIds, HoldApproval(j) PROVE TypeOK'
  <2>1. job \in [JobIds -> Jobs]
    BY DEF TypeOK
  <2>2. job' \in [JobIds -> Jobs]
    BY <1>15, <2>1 DEF HoldApproval, Jobs, Stages
  <2>3. pending' \in [Projects -> Gens \cup {None}]
    BY <1>15 DEF HoldApproval, Jobs, TypeOK
  <2>4. QED BY <1>15, <2>2, <2>3 DEF HoldApproval, TypeOK
<1>16. ASSUME NEW j \in JobIds, ShowApproval(j) PROVE TypeOK'
  <2>1. job \in [JobIds -> Jobs]
    BY DEF TypeOK
  <2>2. job' \in [JobIds -> Jobs]
    BY <1>16, <2>1 DEF ShowApproval, Jobs, Stages
  <2>3. QED BY <1>16, <2>2 DEF ShowApproval, TypeOK
<1>17. ASSUME NEW j \in JobIds, EndWork(j) PROVE TypeOK'
  <2>1. job \in [JobIds -> Jobs]
    BY DEF TypeOK
  <2>2. job' \in [JobIds -> Jobs]
    BY <1>17, <2>1 DEF EndWork, Jobs, Stages
  <2>3. QED BY <1>17, <2>2 DEF EndWork, TypeOK
<1>18. ASSUME NEW j \in JobIds, LeaveActive(j) PROVE TypeOK'
  <2>1. job \in [JobIds -> Jobs]
    BY DEF TypeOK
  <2>2. job' \in [JobIds -> Jobs]
    BY <1>18, <2>1 DEF LeaveActive, Jobs, Stages
  <2>3. QED BY <1>18, <2>2 DEF LeaveActive, TypeOK
<1>19. ASSUME NEW j \in JobIds, FinishJob(j) PROVE TypeOK'
  <2>1. job \in [JobIds -> Jobs]
    BY DEF TypeOK
  <2>2. job' \in [JobIds -> Jobs]
    BY <1>19, <2>1 DEF FinishJob, Jobs, Stages
  <2>3. QED BY <1>19, <2>2 DEF FinishJob, TypeOK
<1>20. ASSUME NEW j \in JobIds, Poll(j) PROVE TypeOK'
  <2>1. polled' \in [JobIds -> [events: Nat, over: BOOLEAN]]
    BY <1>20 DEF Poll, Jobs, TypeOK
  <2>2. QED BY <1>20, <2>1 DEF Poll, TypeOK
<1>21. CASE UNCHANGED vars
  BY <1>21 DEF vars, TypeOK
<1>22. ASSUME NEW j \in JobIds, RunThread(j) PROVE TypeOK'
  <2>1. job \in [JobIds -> Jobs] /\ job[j].project \in Projects
    BY <1>22 DEF TypeOK, BornInv, RunThread
  <2>2. job' \in [JobIds -> Jobs]
    BY <1>22, <2>1 DEF RunThread, Jobs, Stages
  <2>3. QED BY <1>22, <2>2 DEF RunThread, TypeOK
<1>23. ASSUME NEW j \in JobIds, AskForLock(j) PROVE TypeOK'
  <2>1. job \in [JobIds -> Jobs] /\ job[j].project \in Projects
    BY <1>23 DEF TypeOK, BornInv, AskForLock
  <2>2. job' \in [JobIds -> Jobs]
    <3>1. locks[job[j].project] \in Nat
      BY <2>1 DEF TypeOK
    <3>2. "waiting" \in Stages
      BY DEF Stages
    <3>3. job' = [job EXCEPT ![j].stage = "waiting", ![j].lock = locks[job[j].project]]
      BY <1>23 DEF AskForLock
    <3>4. QED BY <2>1, <3>1, <3>2, <3>3 DEF Jobs
  <2>3. QED BY <1>23, <2>2 DEF AskForLock, TypeOK
<1>24. QED
  BY <1>1, <1>2, <1>3, <1>4, <1>5, <1>6, <1>7, <1>8, <1>9, <1>10, <1>11, <1>12,
     <1>13, <1>14, <1>15, <1>16, <1>17, <1>18, <1>19, <1>20, <1>21, <1>22, <1>23
     DEF Next, Begin, Begins, Continue, Work

\* Who has found what, and who keeps the guard.
LEMMA HandlersNext == TypeOK /\ HandlersInv /\ [Next]_vars => HandlersInv'
<1> SUFFICES ASSUME TypeOK, HandlersInv, [Next]_vars PROVE HandlersInv'
    OBVIOUS
<1>1. ASSUME NEW p \in Projects, CreateProject(p) PROVE HandlersInv'
  BY <1>1 DEF CreateProject, HandlersInv
<1>2. ASSUME NEW r \in Requests, NEW p \in Projects, NEW todo \in Begins,
             Find(r, p, todo)
      PROVE  HandlersInv'
  BY <1>2 DEF Find, Goto, HandlersInv, TypeOK, Claims
<1>3. ASSUME NEW r \in Requests, DeleteFolder(r) PROVE HandlersInv'
  BY <1>3 DEF DeleteFolder, Goto, Return, HandlersInv, TypeOK
<1>4. ASSUME NEW r \in Requests, Forget(r) PROVE HandlersInv'
  BY <1>4 DEF Forget, Goto, Return, HandlersInv, TypeOK
<1>5. ASSUME NEW r \in Requests, NewTalk(r) PROVE HandlersInv'
  BY <1>5 DEF NewTalk, Goto, Return, HandlersInv, TypeOK
<1>6. ASSUME NEW r \in Requests, InfoGuard(r) PROVE HandlersInv'
  <2>1. mine \in [Requests -> Claims] /\ pc \in [Requests -> Steps]
    BY DEF TypeOK
  <2>2. CASE active[mine[r].project] # None
    <3>1. Return(r) /\ guard' = Free
      BY <1>6, <2>2 DEF InfoGuard
    <3>2. \A q \in Requests : guard' # q
      BY <3>1, ConstantsAssumption
    <3>3. \A q \in Requests : pc'[q] # "idle" => mine'[q].project \in Projects
      BY <3>1, <2>1 DEF Return, Goto, HandlersInv
    <3>4. QED BY <3>2, <3>3 DEF HandlersInv
  <2>3. CASE active[mine[r].project] = None
    <3>1. /\ guard' = r /\ pc' = pc
          /\ mine' = [mine EXCEPT ![r].lock = locks[mine[r].project]]
      BY <1>6, <2>3 DEF InfoGuard
    <3>2. pc[r] = "info"
      BY <1>6 DEF InfoGuard
    <3>3. QED BY <3>1, <3>2 DEF HandlersInv
  <2>4. QED BY <2>2, <2>3
<1>7. ASSUME NEW r \in Requests, UpdateInfo(r) PROVE HandlersInv'
  <2>1. mine \in [Requests -> Claims] /\ pc \in [Requests -> Steps]
    BY DEF TypeOK
  <2>2. \A q \in Requests : guard' # q
    BY <1>7, ConstantsAssumption DEF UpdateInfo
  <2>3. \A q \in Requests : pc'[q] # "idle" => mine'[q].project \in Projects
    BY <1>7, <2>1 DEF UpdateInfo, Return, Goto, HandlersInv
  <2>4. QED BY <2>2, <2>3 DEF HandlersInv
<1>8. ASSUME NEW r \in Requests, LookUpLock(r) PROVE HandlersInv'
  BY <1>8 DEF LookUpLock, Goto, HandlersInv, TypeOK, Claims
<1>9. ASSUME NEW r \in Requests, EnterLock(r) PROVE HandlersInv'
  BY <1>9 DEF EnterLock, Goto, Return, HandlersInv, TypeOK
<1>10. ASSUME NEW r \in Requests, OpenForProposal(r) PROVE HandlersInv'
  <2>1. mine \in [Requests -> Claims] /\ pc \in [Requests -> Steps]
    BY DEF TypeOK
  <2>2. guard' = guard /\ pc[r] = "opening"
    BY <1>10 DEF OpenForProposal
  <2>3. CASE folder[mine[r].project] = "project"
    <3>1. /\ pc' = [pc EXCEPT ![r] = "model"]
          /\ mine' = [mine EXCEPT ![r].life = life[mine[r].project]]
      BY <1>10, <2>3 DEF OpenForProposal, Goto
    <3>2. QED BY <3>1, <2>2 DEF HandlersInv
  <2>4. CASE folder[mine[r].project] # "project"
    <3>1. Return(r)
      BY <1>10, <2>4 DEF OpenForProposal
    <3>2. QED BY <3>1, <2>1, <2>2 DEF HandlersInv, Return, Goto
  <2>5. QED BY <2>3, <2>4
<1>11. ASSUME NEW r \in Requests, KeepProposal(r) PROVE HandlersInv'
  BY <1>11 DEF KeepProposal, Goto, Return, HandlersInv, TypeOK
<1>12. ASSUME NEW r \in Requests, StartJob(r) PROVE HandlersInv'
  BY <1>12 DEF StartJob, Goto, Return, HandlersInv, TypeOK
<1>13. ASSUME NEW j \in JobIds, OpenJob(j) PROVE HandlersInv'
  BY <1>13 DEF OpenJob, HandlersInv
<1>14. ASSUME NEW j \in JobIds, AddEvent(j) PROVE HandlersInv'
  BY <1>14 DEF AddEvent, HandlersInv
<1>15. ASSUME NEW j \in JobIds, HoldApproval(j) PROVE HandlersInv'
  BY <1>15 DEF HoldApproval, HandlersInv
<1>16. ASSUME NEW j \in JobIds, ShowApproval(j) PROVE HandlersInv'
  BY <1>16 DEF ShowApproval, HandlersInv
<1>17. ASSUME NEW j \in JobIds, EndWork(j) PROVE HandlersInv'
  BY <1>17 DEF EndWork, HandlersInv
<1>18. ASSUME NEW j \in JobIds, LeaveActive(j) PROVE HandlersInv'
  BY <1>18 DEF LeaveActive, HandlersInv
<1>19. ASSUME NEW j \in JobIds, FinishJob(j) PROVE HandlersInv'
  BY <1>19 DEF FinishJob, HandlersInv
<1>20. ASSUME NEW j \in JobIds, Poll(j) PROVE HandlersInv'
  BY <1>20 DEF Poll, HandlersInv
<1>21. CASE UNCHANGED vars
  BY <1>21 DEF vars, HandlersInv
<1>22. ASSUME NEW j \in JobIds, RunThread(j) PROVE HandlersInv'
  BY <1>22 DEF RunThread, HandlersInv
<1>23. ASSUME NEW j \in JobIds, AskForLock(j) PROVE HandlersInv'
  BY <1>23 DEF AskForLock, HandlersInv
<1>24. QED
  BY <1>1, <1>2, <1>3, <1>4, <1>5, <1>6, <1>7, <1>8, <1>9, <1>10, <1>11, <1>12,
     <1>13, <1>14, <1>15, <1>16, <1>17, <1>18, <1>19, <1>20, <1>21, <1>22, <1>23
     DEF Next, Begin, Begins, Continue, Work

\* The jobs' stages, slots and polls.
LEMMA BornNext == TypeOK /\ HandlersInv /\ BornInv /\ [Next]_vars => BornInv'
<1> SUFFICES ASSUME TypeOK, HandlersInv, BornInv, [Next]_vars PROVE BornInv'
    OBVIOUS
<1>1. ASSUME NEW p \in Projects, CreateProject(p) PROVE BornInv'
  BY <1>1 DEF CreateProject, BornInv
<1>2. ASSUME NEW r \in Requests, NEW p \in Projects, NEW todo \in Begins,
             Find(r, p, todo)
      PROVE  BornInv'
  BY <1>2 DEF Find, BornInv
<1>3. ASSUME NEW r \in Requests, DeleteFolder(r) PROVE BornInv'
  BY <1>3 DEF DeleteFolder, BornInv
<1>4. ASSUME NEW r \in Requests, Forget(r) PROVE BornInv'
  BY <1>4 DEF Forget, BornInv
<1>5. ASSUME NEW r \in Requests, NewTalk(r) PROVE BornInv'
  BY <1>5 DEF NewTalk, BornInv
<1>6. ASSUME NEW r \in Requests, InfoGuard(r) PROVE BornInv'
  BY <1>6 DEF InfoGuard, BornInv
<1>7. ASSUME NEW r \in Requests, UpdateInfo(r) PROVE BornInv'
  BY <1>7 DEF UpdateInfo, BornInv
<1>8. ASSUME NEW r \in Requests, LookUpLock(r) PROVE BornInv'
  BY <1>8 DEF LookUpLock, BornInv
<1>9. ASSUME NEW r \in Requests, EnterLock(r) PROVE BornInv'
  BY <1>9 DEF EnterLock, BornInv
<1>10. ASSUME NEW r \in Requests, OpenForProposal(r) PROVE BornInv'
  BY <1>10 DEF OpenForProposal, BornInv
<1>11. ASSUME NEW r \in Requests, KeepProposal(r) PROVE BornInv'
  BY <1>11 DEF KeepProposal, BornInv
<1>12. ASSUME NEW r \in Requests, StartJob(r) PROVE BornInv'
  <2>1. job \in [JobIds -> Jobs] /\ mine[r].project \in Projects
    BY <1>12 DEF StartJob, TypeOK, HandlersInv
  <2>2. CASE active[mine[r].project] # None
    BY <1>12, <2>2 DEF StartJob, BornInv
  <2>3. CASE active[mine[r].project] = None
    <3> DEFINE n == started + 1
    <3>1. n \in JobIds /\ n > started /\ started' = n /\ polled' = polled
      BY <1>12, <2>3, ConstantsAssumption DEF StartJob, TypeOK, JobIds
    <3>2. /\ job' = [job EXCEPT ![n].project = mine[r].project,
                                ![n].stage   = "registered"]
          /\ active' = [active EXCEPT ![mine[r].project] = n]
      BY <1>12, <2>3 DEF StartJob
    <3>3. /\ job'[n].stage = "registered" /\ job'[n].project = mine[r].project
          /\ \A k \in JobIds : k # n => job'[k] = job[k]
      BY <3>1, <3>2, <2>1 DEF Jobs
    <3>4. job[n].stage = "unborn"
      BY <3>1 DEF BornInv
    <3>5. \A k \in JobIds : k > started' => k # n /\ k > started
      BY <3>1 DEF JobIds, TypeOK
    <3>6. \A k \in JobIds : k > started' => job'[k].stage = "unborn"
      BY <3>3, <3>5 DEF BornInv
    <3>7. \A k \in JobIds : job'[k].stage # "unborn" => job'[k].project \in Projects
      BY <3>3, <2>1 DEF BornInv
    <3>8. \A k \in JobIds : job'[k].stage \in {"left", "over"} =>
            active'[job'[k].project] # k
      BY <3>2, <3>3, <2>1 DEF BornInv, TypeOK
    <3>9. \A k \in JobIds : polled'[k].over =>
            job'[k].stage = "over" /\ polled'[k].events = job'[k].events
      BY <3>1, <3>3, <3>4 DEF BornInv
    <3>10. QED BY <3>6, <3>7, <3>8, <3>9 DEF BornInv
  <2>4. QED BY <2>2, <2>3
<1>13. ASSUME NEW j \in JobIds, OpenJob(j) PROVE BornInv'
  <2>1. job \in [JobIds -> Jobs]
    BY DEF TypeOK
  <2>2. PICK s \in {"working", "leaving"} :
          /\ job'[j].stage = s /\ job'[j].project = job[j].project
          /\ \A k \in JobIds : k # j => job'[k] = job[k]
    BY <1>13, <2>1 DEF OpenJob, Jobs
  <2>3. /\ job[j].stage = "opening" /\ started' = started
        /\ active' = active /\ polled' = polled
    BY <1>13 DEF OpenJob
  <2>4. QED BY <2>2, <2>3 DEF BornInv
<1>14. ASSUME NEW j \in JobIds, AddEvent(j) PROVE BornInv'
  BY <1>14 DEF AddEvent, BornInv, TypeOK, Jobs
<1>15. ASSUME NEW j \in JobIds, HoldApproval(j) PROVE BornInv'
  BY <1>15 DEF HoldApproval, BornInv, TypeOK, Jobs
<1>16. ASSUME NEW j \in JobIds, ShowApproval(j) PROVE BornInv'
  BY <1>16 DEF ShowApproval, BornInv, TypeOK, Jobs
<1>17. ASSUME NEW j \in JobIds, EndWork(j) PROVE BornInv'
  BY <1>17 DEF EndWork, BornInv, TypeOK, Jobs
<1>18. ASSUME NEW j \in JobIds, LeaveActive(j) PROVE BornInv'
  <2>1. job \in [JobIds -> Jobs] /\ active \in [Projects -> JobIds \cup {None}]
    BY DEF TypeOK
  <2>2. /\ job[j].stage = "leaving" /\ started' = started /\ polled' = polled
        /\ job' = [job EXCEPT ![j].stage = "left"]
    BY <1>18 DEF LeaveActive
  <2>3. /\ job'[j].stage = "left" /\ job'[j].project = job[j].project
        /\ \A k \in JobIds : k # j => job'[k] = job[k]
    BY <2>1, <2>2 DEF Jobs
  <2>4. job[j].project \in Projects
    BY <2>2 DEF BornInv
  <2>5. /\ active'[job[j].project] # j
        /\ \A p \in Projects : active'[p] = active[p] \/ active'[p] = None
    BY <1>18, <2>1, <2>4, ConstantsAssumption DEF LeaveActive, JobIds
  <2>6. \A k \in JobIds : job'[k].stage \in {"left", "over"} =>
          active'[job'[k].project] # k
    <3>1. \A k \in JobIds : None # k
      BY ConstantsAssumption DEF JobIds
    <3>2. QED BY <2>3, <2>5, <3>1 DEF BornInv
  <2>7. QED BY <2>2, <2>6 DEF BornInv
<1>19. ASSUME NEW j \in JobIds, FinishJob(j) PROVE BornInv'
  BY <1>19 DEF FinishJob, BornInv, TypeOK, Jobs
<1>20. ASSUME NEW j \in JobIds, Poll(j) PROVE BornInv'
  BY <1>20 DEF Poll, BornInv, TypeOK
<1>21. CASE UNCHANGED vars
  BY <1>21 DEF vars, BornInv
<1>22. ASSUME NEW j \in JobIds, RunThread(j) PROVE BornInv'
  BY <1>22 DEF RunThread, BornInv, TypeOK, Jobs
<1>23. ASSUME NEW j \in JobIds, AskForLock(j) PROVE BornInv'
  BY <1>23 DEF AskForLock, BornInv, TypeOK, Jobs
<1>24. QED
  BY <1>1, <1>2, <1>3, <1>4, <1>5, <1>6, <1>7, <1>8, <1>9, <1>10, <1>11, <1>12,
     <1>13, <1>14, <1>15, <1>16, <1>17, <1>18, <1>19, <1>20, <1>21, <1>22, <1>23
     DEF Next, Begin, Begins, Continue, Work

\* One unfinished job per project, within reach of its clients.
LEMMA OneJobNext ==
    TypeOK /\ HandlersInv /\ BornInv /\ OneJobPerProject /\ [Next]_vars
      => OneJobPerProject'
<1> SUFFICES ASSUME TypeOK, HandlersInv, BornInv, OneJobPerProject, [Next]_vars
             PROVE  OneJobPerProject'
    OBVIOUS
<1>1. ASSUME NEW p \in Projects, CreateProject(p) PROVE OneJobPerProject'
  BY <1>1 DEF CreateProject, OneJobPerProject
<1>2. ASSUME NEW r \in Requests, NEW p \in Projects, NEW todo \in Begins,
             Find(r, p, todo)
      PROVE  OneJobPerProject'
  BY <1>2 DEF Find, OneJobPerProject
<1>3. ASSUME NEW r \in Requests, DeleteFolder(r) PROVE OneJobPerProject'
  <2>1. job' = job /\ active' = active
    BY <1>3 DEF DeleteFolder
  <2>2. CASE registry' = registry
    BY <2>1, <2>2 DEF OneJobPerProject
  <2>3. CASE registry' # registry
    <3>1. /\ active[mine[r].project] = None
          /\ registry' = {k \in registry : job[k].project # mine[r].project}
      BY <1>3, <2>3 DEF DeleteFolder
    <3>2. \A k \in JobIds : None # k
      BY ConstantsAssumption DEF JobIds
    <3>3. QED BY <2>1, <3>1, <3>2 DEF OneJobPerProject, Unfinished
  <2>4. QED BY <2>2, <2>3
<1>4. ASSUME NEW r \in Requests, Forget(r) PROVE OneJobPerProject'
  BY <1>4 DEF Forget, OneJobPerProject
<1>5. ASSUME NEW r \in Requests, NewTalk(r) PROVE OneJobPerProject'
  BY <1>5 DEF NewTalk, OneJobPerProject
<1>6. ASSUME NEW r \in Requests, InfoGuard(r) PROVE OneJobPerProject'
  BY <1>6 DEF InfoGuard, OneJobPerProject
<1>7. ASSUME NEW r \in Requests, UpdateInfo(r) PROVE OneJobPerProject'
  BY <1>7 DEF UpdateInfo, OneJobPerProject
<1>8. ASSUME NEW r \in Requests, LookUpLock(r) PROVE OneJobPerProject'
  BY <1>8 DEF LookUpLock, OneJobPerProject
<1>9. ASSUME NEW r \in Requests, EnterLock(r) PROVE OneJobPerProject'
  BY <1>9 DEF EnterLock, OneJobPerProject
<1>10. ASSUME NEW r \in Requests, OpenForProposal(r) PROVE OneJobPerProject'
  BY <1>10 DEF OpenForProposal, OneJobPerProject
<1>11. ASSUME NEW r \in Requests, KeepProposal(r) PROVE OneJobPerProject'
  BY <1>11 DEF KeepProposal, OneJobPerProject
<1>12. ASSUME NEW r \in Requests, StartJob(r) PROVE OneJobPerProject'
  <2>1. job \in [JobIds -> Jobs]
    BY DEF TypeOK
  <2>2. CASE active[mine[r].project] # None
    BY <1>12, <2>2 DEF StartJob, OneJobPerProject
  <2>3. CASE active[mine[r].project] = None
    <3> DEFINE n == started + 1
               p == mine[r].project
    <3>1. n \in JobIds /\ n > started
      BY <1>12, <2>3, ConstantsAssumption DEF StartJob, TypeOK, JobIds
    <3>2. /\ job' = [job EXCEPT ![n].project = p, ![n].stage   = "registered"]
          /\ active' = [active EXCEPT ![p] = n]
          /\ registry' = Pruned(registry \cup {n})
      BY <1>12, <2>3 DEF StartJob
    <3>3. p \in Projects
      BY <1>12 DEF StartJob, HandlersInv
    <3>4. /\ job'[n].stage = "registered" /\ job'[n].project = p
          /\ \A k \in JobIds : k # n => job'[k] = job[k]
      BY <3>1, <3>2, <2>1 DEF Jobs
    <3>5. job[n].stage = "unborn"
      BY <3>1 DEF BornInv
    <3>6. \A k \in JobIds : job[k].stage \in Unfinished => job[k].project # p /\ k # n
      <4>1. \A k \in JobIds : None # k
        BY ConstantsAssumption DEF JobIds
      <4>2. QED BY <2>3, <3>5, <4>1 DEF OneJobPerProject, Unfinished
    <3>7. n \in registry'
      BY <3>2, <3>5 DEF Pruned
    <3>8. \A k \in registry : job[k].stage # "over" => k \in registry'
      BY <3>2 DEF Pruned
    <3>9. \A k \in JobIds : k # n /\ job'[k].stage \in Unfinished =>
            active'[job'[k].project] = k /\ k \in registry'
      <4>1. SUFFICES ASSUME NEW k \in JobIds, k # n, job'[k].stage \in Unfinished
                     PROVE  active'[job'[k].project] = k /\ k \in registry'
        OBVIOUS
      <4>2. job'[k] = job[k] /\ job[k].project # p
        BY <3>4, <3>6, <4>1
      <4>3. active[job[k].project] = k /\ k \in registry /\ job[k].stage # "over"
        BY <4>1, <4>2 DEF OneJobPerProject, Unfinished
      <4>4. job[k].project \in Projects
        BY <4>1, <4>2 DEF BornInv, Unfinished
      <4>5. QED BY <4>2, <4>3, <4>4, <3>2, <3>8 DEF TypeOK
    <3>10. active'[job'[n].project] = n
      BY <3>2, <3>3, <3>4 DEF TypeOK
    <3>11. QED BY <3>7, <3>9, <3>10 DEF OneJobPerProject
  <2>4. QED BY <2>2, <2>3
<1>13. ASSUME NEW j \in JobIds, OpenJob(j) PROVE OneJobPerProject'
  <2>1. job \in [JobIds -> Jobs]
    BY DEF TypeOK
  <2>2. /\ job'[j].project = job[j].project
        /\ \A k \in JobIds : k # j => job'[k] = job[k]
    BY <1>13, <2>1 DEF OpenJob, Jobs
  <2>3. /\ job[j].stage = "opening" /\ registry' = registry /\ active' = active
    BY <1>13 DEF OpenJob
  <2>4. QED BY <2>2, <2>3 DEF OneJobPerProject, Unfinished
<1>14. ASSUME NEW j \in JobIds, AddEvent(j) PROVE OneJobPerProject'
  BY <1>14 DEF AddEvent, OneJobPerProject, TypeOK, Jobs
<1>15. ASSUME NEW j \in JobIds, HoldApproval(j) PROVE OneJobPerProject'
  BY <1>15 DEF HoldApproval, OneJobPerProject, Unfinished, TypeOK, Jobs
<1>16. ASSUME NEW j \in JobIds, ShowApproval(j) PROVE OneJobPerProject'
  BY <1>16 DEF ShowApproval, OneJobPerProject, Unfinished, TypeOK, Jobs
<1>17. ASSUME NEW j \in JobIds, EndWork(j) PROVE OneJobPerProject'
  BY <1>17 DEF EndWork, OneJobPerProject, Unfinished, TypeOK, Jobs
<1>18. ASSUME NEW j \in JobIds, LeaveActive(j) PROVE OneJobPerProject'
  BY <1>18 DEF LeaveActive, OneJobPerProject, Unfinished, TypeOK, Jobs
<1>19. ASSUME NEW j \in JobIds, FinishJob(j) PROVE OneJobPerProject'
  BY <1>19 DEF FinishJob, OneJobPerProject, Unfinished, TypeOK, Jobs
<1>20. ASSUME NEW j \in JobIds, Poll(j) PROVE OneJobPerProject'
  BY <1>20 DEF Poll, OneJobPerProject
<1>21. CASE UNCHANGED vars
  BY <1>21 DEF vars, OneJobPerProject
<1>22. ASSUME NEW j \in JobIds, RunThread(j) PROVE OneJobPerProject'
  BY <1>22 DEF RunThread, OneJobPerProject, Unfinished, TypeOK, Jobs
<1>23. ASSUME NEW j \in JobIds, AskForLock(j) PROVE OneJobPerProject'
  BY <1>23 DEF AskForLock, OneJobPerProject, Unfinished, TypeOK, Jobs
<1>24. QED
  BY <1>1, <1>2, <1>3, <1>4, <1>5, <1>6, <1>7, <1>8, <1>9, <1>10, <1>11, <1>12,
     <1>13, <1>14, <1>15, <1>16, <1>17, <1>18, <1>19, <1>20, <1>21, <1>22, <1>23
     DEF Next, Begin, Begins, Continue, Work

\* No delete, creation or brief edit under a job.
LEMMA FolderNext ==
    /\ TypeOK /\ HandlersInv /\ BornInv /\ OneJobPerProject
    /\ JobKeepsFolder /\ [Next]_vars
    => JobKeepsFolder'
<1> SUFFICES ASSUME TypeOK, HandlersInv, BornInv, OneJobPerProject,
                    JobKeepsFolder, [Next]_vars
             PROVE  JobKeepsFolder'
    OBVIOUS
<1>1. ASSUME NEW p \in Projects, CreateProject(p) PROVE JobKeepsFolder'
  BY <1>1 DEF CreateProject, JobKeepsFolder, TypeOK
<1>2. ASSUME NEW r \in Requests, NEW p \in Projects, NEW todo \in Begins,
             Find(r, p, todo)
      PROVE  JobKeepsFolder'
  BY <1>2 DEF Find, JobKeepsFolder, HandlersInv, TypeOK, Claims
<1>3. ASSUME NEW r \in Requests, DeleteFolder(r) PROVE JobKeepsFolder'
  <2>1. job' = job /\ active' = active /\ life' = life /\ guard' = guard /\ guard = Free
    BY <1>3 DEF DeleteFolder
  <2>2. \A q \in Requests : guard' # q
    BY <2>1, ConstantsAssumption
  <2>3. CASE folder' = folder
    BY <2>1, <2>2, <2>3 DEF JobKeepsFolder
  <2>4. CASE folder' # folder
    <3>1. /\ active[mine[r].project] = None
          /\ folder' = [folder EXCEPT ![mine[r].project] = "absent"]
      BY <1>3, <2>4 DEF DeleteFolder
    <3>2. \A k \in JobIds : job[k].stage \in {"working", "waiting", "holding"} =>
            job[k].project # mine[r].project
      <4>1. \A k \in JobIds : None # k
        BY ConstantsAssumption DEF JobIds
      <4>2. QED BY <3>1, <4>1 DEF OneJobPerProject, Unfinished
    <3>3. \A p \in Projects : p # mine[r].project => folder'[p] = folder[p]
      BY <3>1 DEF TypeOK
    <3>4. \A k \in JobIds : job[k].stage \in {"working", "waiting", "holding"} =>
            job[k].project \in Projects
      BY DEF BornInv
    <3>5. QED BY <2>1, <2>2, <3>2, <3>3, <3>4 DEF JobKeepsFolder
  <2>5. QED BY <2>3, <2>4
<1>4. ASSUME NEW r \in Requests, Forget(r) PROVE JobKeepsFolder'
  BY <1>4 DEF Forget, Return, JobKeepsFolder, HandlersInv, TypeOK
<1>5. ASSUME NEW r \in Requests, NewTalk(r) PROVE JobKeepsFolder'
  BY <1>5 DEF NewTalk, Return, JobKeepsFolder, HandlersInv, TypeOK
<1>6. ASSUME NEW r \in Requests, InfoGuard(r) PROVE JobKeepsFolder'
  BY <1>6 DEF InfoGuard, Return, JobKeepsFolder, TypeOK, Claims
<1>7. ASSUME NEW r \in Requests, UpdateInfo(r) PROVE JobKeepsFolder'
  <2>1. job' = job /\ life' = life /\ folder' = folder /\ guard' = Free
    BY <1>7 DEF UpdateInfo
  <2>2. \A q \in Requests : guard' # q
    BY <2>1, ConstantsAssumption
  <2>3. QED BY <2>1, <2>2 DEF JobKeepsFolder
<1>8. ASSUME NEW r \in Requests, LookUpLock(r) PROVE JobKeepsFolder'
  BY <1>8 DEF LookUpLock, JobKeepsFolder, TypeOK, Claims
<1>9. ASSUME NEW r \in Requests, EnterLock(r) PROVE JobKeepsFolder'
  BY <1>9 DEF EnterLock, Return, JobKeepsFolder, HandlersInv, TypeOK
<1>10. ASSUME NEW r \in Requests, OpenForProposal(r) PROVE JobKeepsFolder'
  <2>1. /\ job' = job /\ life' = life /\ guard' = guard /\ active' = active
        /\ pc[r] = "opening"
    BY <1>10 DEF OpenForProposal
  <2>2. \A p \in Projects : folder[p] = "project" => folder'[p] = "project"
    BY <1>10 DEF OpenForProposal, TypeOK
  <2>3. \A k \in JobIds : job[k].stage \in {"working", "waiting", "holding"} =>
          job[k].project \in Projects
    BY DEF BornInv
  <2>4. guard # r
    BY <2>1 DEF HandlersInv
  <2>5. \A q \in Requests : q # r => mine'[q] = mine[q]
    BY <1>10 DEF OpenForProposal, Return, TypeOK
  <2>6. QED BY <2>1, <2>2, <2>3, <2>4, <2>5 DEF JobKeepsFolder
<1>11. ASSUME NEW r \in Requests, KeepProposal(r) PROVE JobKeepsFolder'
  BY <1>11 DEF KeepProposal, Return, JobKeepsFolder, HandlersInv, TypeOK
<1>12. ASSUME NEW r \in Requests, StartJob(r) PROVE JobKeepsFolder'
  <2>1. job \in [JobIds -> Jobs] /\ folder' = folder /\ life' = life
    BY <1>12 DEF StartJob, TypeOK
  <2>2. \A q \in Requests : guard' # q
    BY <1>12, ConstantsAssumption DEF StartJob
  <2>3. \A k \in JobIds : job'[k].stage \in {"working", "waiting", "holding"} => job'[k] = job[k]
    BY <1>12, <2>1 DEF StartJob, Jobs
  <2>4. QED BY <2>1, <2>2, <2>3 DEF JobKeepsFolder
<1>13. ASSUME NEW j \in JobIds, OpenJob(j) PROVE JobKeepsFolder'
  <2>1. job \in [JobIds -> Jobs]
    BY DEF TypeOK
  <2>2. /\ folder' = folder /\ life' = life /\ guard' = guard /\ active' = active
        /\ mine' = mine
    BY <1>13 DEF OpenJob
  <2>3. \A k \in JobIds : k # j => job'[k] = job[k]
    BY <1>13, <2>1 DEF OpenJob
  <2>4. job'[j].stage = "working" =>
          /\ job'[j].project = job[j].project
          /\ folder[job[j].project] = "project"
          /\ job'[j].life = life[job[j].project]
    BY <1>13, <2>1 DEF OpenJob, Jobs
  <2>5. job'[j].stage \notin {"waiting", "holding"}
    BY <1>13, <2>1 DEF OpenJob, Jobs
  <2>6. QED BY <2>2, <2>3, <2>4, <2>5 DEF JobKeepsFolder
<1>14. ASSUME NEW j \in JobIds, AddEvent(j) PROVE JobKeepsFolder'
  BY <1>14 DEF AddEvent, JobKeepsFolder, TypeOK, Jobs
<1>15. ASSUME NEW j \in JobIds, HoldApproval(j) PROVE JobKeepsFolder'
  BY <1>15 DEF HoldApproval, JobKeepsFolder, TypeOK, Jobs
<1>16. ASSUME NEW j \in JobIds, ShowApproval(j) PROVE JobKeepsFolder'
  BY <1>16 DEF ShowApproval, JobKeepsFolder, TypeOK, Jobs
<1>17. ASSUME NEW j \in JobIds, EndWork(j) PROVE JobKeepsFolder'
  BY <1>17 DEF EndWork, JobKeepsFolder, TypeOK, Jobs
<1>18. ASSUME NEW j \in JobIds, LeaveActive(j) PROVE JobKeepsFolder'
  BY <1>18 DEF LeaveActive, JobKeepsFolder, TypeOK, Jobs
<1>19. ASSUME NEW j \in JobIds, FinishJob(j) PROVE JobKeepsFolder'
  BY <1>19 DEF FinishJob, JobKeepsFolder, TypeOK, Jobs
<1>20. ASSUME NEW j \in JobIds, Poll(j) PROVE JobKeepsFolder'
  BY <1>20 DEF Poll, JobKeepsFolder
<1>21. CASE UNCHANGED vars
  BY <1>21 DEF vars, JobKeepsFolder
<1>22. ASSUME NEW j \in JobIds, RunThread(j) PROVE JobKeepsFolder'
  BY <1>22 DEF RunThread, JobKeepsFolder, TypeOK, Jobs
<1>23. ASSUME NEW j \in JobIds, AskForLock(j) PROVE JobKeepsFolder'
  BY <1>23 DEF AskForLock, JobKeepsFolder, TypeOK, Jobs
<1>24. QED
  BY <1>1, <1>2, <1>3, <1>4, <1>5, <1>6, <1>7, <1>8, <1>9, <1>10, <1>11, <1>12,
     <1>13, <1>14, <1>15, <1>16, <1>17, <1>18, <1>19, <1>20, <1>21, <1>22, <1>23
     DEF Next, Begin, Begins, Continue, Work

LEMMA RegistryInit == Init => IInv
<1> SUFFICES ASSUME Init PROVE IInv
    OBVIOUS
<1>1. TypeOK
  <2>1. /\ folder \in [Projects -> {"absent", "project", "ghost"}]
        /\ life \in [Projects -> Gens] /\ started \in 0..MaxJobs
    BY ConstantsAssumption DEF Init, Gens
  <2>2. job \in [JobIds -> Jobs]
    BY ConstantsAssumption DEF Init, Jobs, Gens, Stages
  <2>3. /\ registry \subseteq JobIds /\ active \in [Projects -> JobIds \cup {None}]
        /\ guard \in Requests \cup {Free} /\ locks \in [Projects -> Nat]
        /\ owner \in [Projects \X Gens -> Requests \cup {Free}]
        /\ pending \in [Projects -> Gens \cup {None}]
    BY DEF Init
  <2>4. pc \in [Requests -> Steps] /\ mine \in [Requests -> Claims]
    BY ConstantsAssumption DEF Init, Steps, Claims, Gens
  <2>5. polled \in [JobIds -> [events: Nat, over: BOOLEAN]]
    BY DEF Init
  <2>6. QED BY <2>1, <2>2, <2>3, <2>4, <2>5 DEF TypeOK
<1>2. \A j \in JobIds : job[j].stage = "unborn" /\ ~polled[j].over
  BY DEF Init
<1>3. \A r \in Requests : pc[r] = "idle" /\ guard # r
  BY ConstantsAssumption DEF Init
<1>4. QED BY <1>1, <1>2, <1>3 DEF IInv, HandlersInv, BornInv, OneJobPerProject,
   Unfinished, JobKeepsFolder

\* In every reachable state the registry's invariant holds: types, who keeps
\* the guard, the order of births and ends, and the two promises below.
THEOREM RegistryInvariant == Spec => []IInv
<1>1. IInv /\ [Next]_vars => IInv'
  BY TypeNext, HandlersNext, BornNext, OneJobNext, FolderNext DEF IInv
<1>2. QED BY RegistryInit, <1>1, PTL DEF Spec

\* Pruning, deleting and starting never leave a project with two unfinished
\* jobs, nor with one that its clients cannot ask about.
THEOREM JobsInvHolds == Spec => []JobsInv
<1>1. IInv => JobsInv
  BY DEF IInv, JobsInv
<1>2. QED BY RegistryInvariant, <1>1, PTL

\* The project a job opened is on disk, the same one, while the job works, and
\* no brief edit begins under it.
THEOREM JobKeepsFolderHolds == Spec => []JobKeepsFolder
<1>1. IInv => JobKeepsFolder
  BY DEF IInv
<1>2. QED BY RegistryInvariant, <1>1, PTL

\* A client told that its job is over has all of its events, and its project
\* is free of that job.
THEOREM OverMeansFreeHolds == Spec => []OverMeansFree
<1>1. IInv => OverMeansFree
  BY DEF IInv, BornInv, OverMeansFree
<1>2. QED BY RegistryInvariant, <1>1, PTL
=============================================================================
