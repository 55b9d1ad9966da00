------------------------- MODULE ProjectFolderProofs --------------------------
(* Theorems about ProjectFolder for any threads, talk numbers, lives,        *)
(* messages, saves and faults: the guard of the jobs alone keeps the talks'  *)
(* numbers, a refused delete and the running job's files apart, although a   *)
(* creator and an open take no lock and every write may be the last.         *)
EXTENDS ProjectFolder, WellFoundedInduction, TLAPS

Making   == {"mkdir", "make_brief", "make_transcript", "make_state",
             "make_history", "make_session", "made"}
Opening  == {"open", "open_modules", "open_transcript", "open_state", "migrate",
             "migrate_write", "open_session", "opened"}
Held     == {"unlink", "unmark", "rmtree"}
Steps    == {"idle", "new_talk", "delete_talk", "start", "delete"}
            \cup Making \cup Opening \cup Held
States   == [edit : 0..MaxEdits, rows : BOOLEAN]
Counts   == 0..MaxMessages \cup {NoFile}
Errands  == [talk : Talks, seen : States, kept : Counts]

\* Where each thread may be and what it carries.
TypesInv ==
    /\ TypeOK
    /\ pc \in [Threads -> Steps]
    /\ own \in [Threads -> Errands]
    /\ given \in [Talks -> Nat]

\* The guard is held by the thread that deletes, and no job runs meanwhile.
GuardInv ==
    /\ \A t \in Threads : pc[t] \in Held <=> guard = t
    /\ guard # Free => active = None

\* What an open has found or made by the time it is at this step.
FoundAt(step) ==
    /\ step # "open" => dir /\ "brief" \in parts
    /\ step \in {"open_state", "migrate", "migrate_write", "open_session", "opened"} =>
          "transcript" \in parts
    /\ step \in {"migrate", "migrate_write", "open_session", "opened"} => "state" \in parts
    /\ step = "opened" => "session" \in parts

\* Nothing is taken from the job that runs.
JobInv == \A t \in Threads : active = t => pc[t] \in Opening /\ FoundAt(pc[t])

\* A delete of talk k that left its tombstone and may still take it back.
Undoable(k, kept) ==
    /\ dir /\ k \in tombs
    /\ k # MainTalk => file[k] # NoFile
    /\ ~torn => k \notin gone
    /\ kept = NoFile \/ (file[k] # NoFile /\ file[k] >= kept) \/ wiped

\* From its tombstone to its answer, a delete of a talk can be taken back.
DeleteInv ==
    \A t \in Threads : pc[t] \in {"unlink", "unmark"} => Undoable(own[t].talk, own[t].kept)

\* Every number given out still shows on the disk.
NumbersInv ==
    ~torn =>
      /\ gone \subseteq tombs
      /\ \A k \in Talks : /\ given[k] <= 1
                          /\ given[k] # 0 => /\ k # MainTalk
                                             /\ file[k] # NoFile \/ k \in tombs

\* The inductive invariant.
FolderInv == TypesInv /\ GuardInv /\ JobInv /\ DeleteInv /\ NumbersInv
----------------------------------------------------------------------------
\* The steps a handler goes to once it has found the project.
Finding == {"new_talk", "delete", "delete_talk", "start"}

\* The first talk has a number.
LEMMA MainIsATalk == MainTalk \in Talks
  BY FolderAssumption DEF MainTalk, Talks

\* The largest of some talks' numbers exists.
LEMMA MaxOfTalks ==
  ASSUME NEW S \in SUBSET Talks, S # {}
  PROVE  Max(S) \in S /\ \A k \in S : Max(S) >= k
<1> DEFINE Below == {MaxTalks - k : k \in S}
<1>1. Below \subseteq Nat /\ Below # {}
  <2>1. \A k \in S : MaxTalks - k \in Nat
    BY FolderAssumption DEF Talks
  <2>2. PICK k \in S : TRUE
    OBVIOUS
  <2>3. MaxTalks - k \in Below
    OBVIOUS
  <2> QED BY <2>1, <2>3
<1>2. PICK x \in Below : \A y \in Below : ~ (<<y, x>> \in OpToRel(<, Nat))
  <2> HIDE DEF Below
  <2> QED BY <1>1, NatLessThanWellFounded, WFMin
<1>3. PICK m \in S : x = MaxTalks - m
  BY <1>2
<1>4. ASSUME NEW k \in S PROVE m >= k
  <2>1. MaxTalks - k \in Below
    OBVIOUS
  <2>2. ~ (MaxTalks - k < x)
    BY <1>1, <1>2, <2>1 DEF OpToRel
  <2> QED BY <1>3, <2>2, FolderAssumption DEF Talks
<1> QED BY <1>4 DEF Max

\* new_talk gives a number that no listed or deleted talk has.
LEMMA NewNumber ==
  ASSUME TypesInv, NEW n, n = Max({MainTalk} \cup Listed \cup tombs) + 1, ~ (n > MaxTalks)
  PROVE  n \in Talks /\ n \notin {MainTalk} \cup Listed \cup tombs
<1> DEFINE S == {MainTalk} \cup Listed \cup tombs
<1>1. S \in SUBSET Talks /\ S # {}
  BY MainIsATalk DEF Listed, TypesInv, TypeOK
<1>2. Max(S) \in S /\ \A k \in S : Max(S) >= k
  BY <1>1, MaxOfTalks
<1>3. n = Max(S) + 1
  OBVIOUS
<1>4. S \subseteq 1..MaxTalks
  BY <1>1 DEF Talks
<1> HIDE DEF S
<1>5. PICK m \in S : m = Max(S)
  BY <1>2
<1>6. \A k \in S : m >= k
  BY <1>2, <1>5
<1>7. n = m + 1 /\ m \in 1..MaxTalks
  BY <1>3, <1>4, <1>5
<1>8. n \in 1..MaxTalks
  BY <1>7, FolderAssumption
<1>9. n \notin S
  BY <1>6, <1>7
<1> QED BY <1>8, <1>9 DEF Talks, S

\* A blank state and one that got its rows are states.
LEMMA RowsTyped == Blank \in States /\ \A s \in States : [s EXCEPT !.rows = TRUE] \in States
<1>1. Blank \in States
  BY FolderAssumption DEF Blank, States
<1>2. ASSUME NEW s \in States PROVE [s EXCEPT !.rows = TRUE] \in States
  BY DEF States
<1> QED BY <1>1, <1>2

\* What may be written into a talk's file.
LEMMA CountsTyped ==
  0 \in Counts /\ 1 \in Counts /\ NoFile \in Counts
  /\ \A n \in Counts : n # NoFile /\ n < MaxMessages => n + 1 \in Counts
  BY FolderAssumption DEF Counts

\* Each way a step changes a thread's errand.
LEMMA OwnTyped ==
  ASSUME own \in [Threads -> Errands], NEW t \in Threads
  PROVE  /\ [own EXCEPT ![t] = NoTalk] \in [Threads -> Errands]
         /\ \A s \in States : [own EXCEPT ![t].seen = s] \in [Threads -> Errands]
         /\ \A k \in Talks : [own EXCEPT ![t].talk = k] \in [Threads -> Errands]
         /\ \A n \in Counts : [own EXCEPT ![t].kept = n] \in [Threads -> Errands]
<1>1. NoTalk \in Errands
  BY MainIsATalk, FolderAssumption DEF Errands, NoTalk, Blank, States, Counts
<1>2. ASSUME NEW s \in States PROVE [own EXCEPT ![t].seen = s] \in [Threads -> Errands]
  BY DEF Errands
<1>3. ASSUME NEW k \in Talks PROVE [own EXCEPT ![t].talk = k] \in [Threads -> Errands]
  BY DEF Errands
<1>4. ASSUME NEW n \in Counts PROVE [own EXCEPT ![t].kept = n] \in [Threads -> Errands]
  BY DEF Errands
<1> QED BY <1>1, <1>2, <1>3, <1>4

\* A write changes the errand only by what was read.
LEMMA WriteErrands ==
  ASSUME TypesInv, NEW t \in Threads, NEW part, NEW step, Write(t, part, step)
  PROVE  own' \in [Threads -> Errands]
<1> USE DEF TypesInv
<1>1. CASE dir
  BY <1>1, OwnTyped, RowsTyped DEF Write
<1>2. CASE ~dir
  BY <1>2, OwnTyped DEF Write, Return
<1> QED BY <1>1, <1>2

\* A write of a part keeps the types if the state it leaves is one.
LEMMA WriteTypes ==
  ASSUME TypesInv, NEW t \in Threads, NEW part \in Parts, NEW step \in Steps,
         Write(t, part, step), state' \in States
  PROVE  TypesInv'
<1> USE DEF TypesInv, TypeOK, Write, Goto, Return, story, told
<1>1. own' \in [Threads -> Errands] /\ \A u \in Threads : own'[u].talk \in Talks
  BY WriteErrands DEF Errands
<1>2. dir' \in BOOLEAN /\ parts' \subseteq Parts
  OBVIOUS
<1>3. file' \in [Talks -> Counts] /\ tombs' \subseteq Talks
  BY DEF Counts
<1>4. guard' \in Threads \cup {Free} /\ active' \in Threads \cup {None}
  OBVIOUS
<1>5. pc' \in [Threads -> Steps]
  BY DEF Steps
<1> QED BY <1>1, <1>2, <1>3, <1>4, <1>5 DEF States, Counts

\* Every errand stays typed: the talk it is for, what it has read.
LEMMA ErrandsNext == ASSUME FolderInv, Next PROVE own' \in [Threads -> Errands]
<1> USE FolderAssumption DEF Return, disk, FolderInv, TypesInv, TypeOK
<1>b. \A t \in Threads : own[t].talk \in Talks /\ own[t].seen \in States
  BY DEF Errands
<1> USE <1>b, OwnTyped, RowsTyped, CountsTyped, MainIsATalk
<1>1. ASSUME NEW t \in Threads, Create(t) PROVE own' \in [Threads -> Errands]
  <2>1. CASE BeginCreate(t)
    BY <2>1 DEF BeginCreate
  <2>2. CASE MakeFolder(t)
    BY <2>2 DEF MakeFolder
  <2>3. CASE MakeBrief(t)
    BY <2>3, WriteErrands DEF MakeBrief
  <2>4. CASE MakeTranscript(t)
    BY <2>4, WriteErrands DEF MakeTranscript
  <2>5. CASE MakeState(t)
    BY <2>5, WriteErrands DEF MakeState
  <2>6. CASE MakeHistory(t)
    BY <2>6 DEF MakeHistory
  <2>7. CASE MakeSession(t)
    BY <2>7, WriteErrands DEF MakeSession
  <2>8. CASE Made(t)
    BY <2>8 DEF Made
  <2> QED BY <1>1, <2>1, <2>2, <2>3, <2>4, <2>5, <2>6, <2>7, <2>8 DEF Create
<1>2. ASSUME NEW t \in Threads, Open(t) PROVE own' \in [Threads -> Errands]
  <2>1. CASE BeginOpen(t)
    BY <2>1 DEF BeginOpen
  <2>2. CASE OpenFolder(t)
    BY <2>2 DEF OpenFolder
  <2>3. CASE OpenModules(t)
    BY <2>3 DEF OpenModules
  <2>4. CASE OpenTranscript(t)
    BY <2>4, WriteErrands DEF OpenTranscript
  <2>5. CASE OpenState(t)
    BY <2>5, WriteErrands DEF OpenState
  <2>6. CASE MigrateRead(t)
    <3>1. own' = own \/ own' = [own EXCEPT ![t].seen = state]
      BY <2>6 DEF MigrateRead
    <3>2. state \in States
      BY DEF States
    <3> QED BY <3>1, <3>2
  <2>7. CASE MigrateWrite(t)
    BY <2>7, WriteErrands DEF MigrateWrite
  <2>8. CASE OpenSession(t)
    BY <2>8, WriteErrands DEF OpenSession
  <2>9. CASE Opened(t)
    BY <2>9 DEF Opened
  <2> QED BY <1>2, <2>1, <2>2, <2>3, <2>4, <2>5, <2>6, <2>7, <2>8, <2>9 DEF Open
<1>3. ASSUME NEW t \in Threads, Guarded(t) PROVE own' \in [Threads -> Errands]
  <2>1. ASSUME NEW step \in Finding, NEW k \in Talks, Find(t, step, k)
        PROVE  own' \in [Threads -> Errands]
    BY <2>1 DEF Find, Finding
  <2>2. CASE NewTalk(t)
    BY <2>2 DEF NewTalk
  <2>3. CASE MarkTalk(t)
    <3>1. \A k \in Talks : file[k] \in Counts
      BY DEF Counts
    <3>2. PICK n \in Counts : n = file[own[t].talk]
      BY <3>1
    <3>3. own' = [own EXCEPT ![t] = NoTalk] \/ own' = [own EXCEPT ![t].kept = n]
      BY <2>3, <3>2 DEF MarkTalk
    <3> QED BY <3>3
  <2>4. CASE UnlinkTalk(t)
    BY <2>4 DEF UnlinkTalk
  <2>5. CASE UnlinkFails(t)
    BY <2>5 DEF UnlinkFails
  <2>6. CASE Unmark(t)
    BY <2>6 DEF Unmark
  <2>7. CASE StartJob(t)
    BY <2>7 DEF StartJob
  <2>8. CASE SaveTalk(t)
    BY <2>8 DEF SaveTalk
  <2>9. CASE TakeForDelete(t)
    BY <2>9 DEF TakeForDelete
  <2>10. CASE RemoveOne(t)
    BY <2>10 DEF RemoveOne
  <2>11. CASE RemoveFolder(t)
    BY <2>11 DEF RemoveFolder
  <2> QED BY <1>3, <2>1, <2>2, <2>3, <2>4, <2>5, <2>6, <2>7, <2>8, <2>9, <2>10, <2>11,
              MainIsATalk DEF Guarded, Finding
<1>4. ASSUME NEW t \in Threads, WriteFails(t) PROVE own' \in [Threads -> Errands]
  BY <1>4 DEF WriteFails, Writing, Fault
<1>5. CASE SaveState
  BY <1>5 DEF SaveState, IsProject
<1>6. CASE Restart
  BY <1>6 DEF Restart, Fault
<1> QED BY <1>1, <1>2, <1>3, <1>4, <1>5, <1>6 DEF Next

\* Every step keeps the types.
LEMMA TypesNext == ASSUME FolderInv, Next PROVE TypesInv'
<1> USE FolderAssumption DEF Goto, Return, MakeDir, disk, told, story,
           FolderInv, TypesInv, TypeOK, Steps, Making, Opening, Held
<1>a. own' \in [Threads -> Errands] /\ \A t \in Threads : own'[t].talk \in Talks
  BY ErrandsNext DEF Errands
<1>b. \A t \in Threads : own[t].talk \in Talks /\ own[t].seen \in States
  BY DEF Errands
<1> USE <1>a, <1>b, RowsTyped, CountsTyped, MainIsATalk
<1>1. ASSUME NEW t \in Threads, Create(t) PROVE TypesInv'
  <2>1. CASE BeginCreate(t)
    BY <2>1 DEF BeginCreate
  <2>2. CASE MakeFolder(t)
    <3>1. dir' \in BOOLEAN /\ parts' \subseteq Parts /\ state' \in States
      BY <2>2 DEF MakeFolder, States
    <3>2. file' \in [Talks -> Counts] /\ tombs' \subseteq Talks
      BY <2>2 DEF MakeFolder, Counts
    <3>3. guard' \in Threads \cup {Free} /\ active' \in Threads \cup {None}
      BY <2>2 DEF MakeFolder
    <3>4. life' \in 0..MaxLives /\ gone' \subseteq Talks /\ given' \in [Talks -> Nat]
      BY <2>2 DEF MakeFolder
    <3>5. pc' \in [Threads -> Steps]
      BY <2>2 DEF MakeFolder
    <3> QED BY <3>1, <3>2, <3>3, <3>4, <3>5 DEF States, Counts
  <2>3. CASE MakeBrief(t)
    <3>1. state' \in States
      BY <2>3 DEF MakeBrief, States
    <3> QED BY <2>3, <3>1, WriteTypes DEF MakeBrief, Parts
  <2>4. CASE MakeTranscript(t)
    <3>1. state' \in States
      BY <2>4 DEF MakeTranscript, States
    <3> QED BY <2>4, <3>1, WriteTypes DEF MakeTranscript, Parts
  <2>5. CASE MakeState(t)
    <3>1. state' \in States
      BY <2>5 DEF MakeState, States
    <3> QED BY <2>5, <3>1, WriteTypes DEF MakeState, Parts
  <2>6. CASE MakeHistory(t)
    <3>1. dir' \in BOOLEAN /\ parts' \subseteq Parts /\ state' \in States
      BY <2>6 DEF MakeHistory, States
    <3>2. file' \in [Talks -> Counts] /\ tombs' \subseteq Talks
      BY <2>6 DEF MakeHistory, Counts
    <3>3. guard' \in Threads \cup {Free} /\ active' \in Threads \cup {None}
      BY <2>6 DEF MakeHistory
    <3>4. life' \in 0..MaxLives /\ gone' \subseteq Talks /\ given' \in [Talks -> Nat]
      BY <2>6 DEF MakeHistory
    <3>5. pc' \in [Threads -> Steps]
      BY <2>6 DEF MakeHistory
    <3> QED BY <3>1, <3>2, <3>3, <3>4, <3>5 DEF States, Counts
  <2>7. CASE MakeSession(t)
    <3>1. state' \in States
      BY <2>7 DEF MakeSession, States
    <3> QED BY <2>7, <3>1, WriteTypes DEF MakeSession, Parts
  <2>8. CASE Made(t)
    BY <2>8 DEF Made
  <2> QED BY <1>1, <2>1, <2>2, <2>3, <2>4, <2>5, <2>6, <2>7, <2>8 DEF Create
<1>2. ASSUME NEW t \in Threads, Open(t) PROVE TypesInv'
  <2>1. CASE BeginOpen(t)
    BY <2>1 DEF BeginOpen
  <2>2. CASE OpenFolder(t)
    BY <2>2 DEF OpenFolder
  <2>3. CASE OpenModules(t)
    BY <2>3 DEF OpenModules
  <2>4. CASE OpenTranscript(t)
    <3>1. state' \in States
      BY <2>4 DEF OpenTranscript, States
    <3> QED BY <2>4, <3>1, WriteTypes DEF OpenTranscript, Parts
  <2>5. CASE OpenState(t)
    <3>1. state' \in States
      BY <2>5 DEF OpenState, States
    <3> QED BY <2>5, <3>1, WriteTypes DEF OpenState, Parts
  <2>6. CASE MigrateRead(t)
    BY <2>6 DEF MigrateRead
  <2>7. CASE MigrateWrite(t)
    <3>1. state' \in States
      BY <2>7 DEF MigrateWrite, States
    <3> QED BY <2>7, <3>1, WriteTypes DEF MigrateWrite, Parts
  <2>8. CASE OpenSession(t)
    <3>1. state' \in States
      BY <2>8 DEF OpenSession, States
    <3> QED BY <2>8, <3>1, WriteTypes DEF OpenSession, Parts
  <2>9. CASE Opened(t)
    BY <2>9 DEF Opened
  <2> QED BY <1>2, <2>1, <2>2, <2>3, <2>4, <2>5, <2>6, <2>7, <2>8, <2>9 DEF Open
<1>3. ASSUME NEW t \in Threads, Guarded(t) PROVE TypesInv'
  <2>1. ASSUME NEW step \in Finding, NEW k \in Talks, Find(t, step, k)
        PROVE  TypesInv'
    BY <2>1 DEF Find, Finding
  <2>2. CASE NewTalk(t)
    <3> DEFINE n == Max({MainTalk} \cup Listed \cup tombs) + 1
    <3>1. n > MaxTalks \/ n \in Talks
      BY NewNumber
    <3>2. \/ UNCHANGED <<file, given>>
          \/ n \in Talks /\ file' = [file EXCEPT ![n] = 0] /\ given' = [given EXCEPT ![n] = @ + 1]
      BY <2>2, <3>1 DEF NewTalk
    <3> HIDE DEF n
    <3>3. file' \in [Talks -> Counts] /\ given' \in [Talks -> Nat]
      BY <3>2 DEF Counts
    <3>4. dir' \in BOOLEAN /\ active' \in Threads \cup {None} /\ pc' \in [Threads -> Steps]
      BY <2>2 DEF NewTalk
    <3> QED BY <2>2, <3>3, <3>4 DEF NewTalk, States, Counts
  <2>3. CASE MarkTalk(t)
    <3>1. dir' \in BOOLEAN /\ parts' \subseteq Parts /\ state' \in States
      BY <2>3 DEF MarkTalk, States
    <3>2. file' \in [Talks -> Counts] /\ tombs' \subseteq Talks
      BY <2>3 DEF MarkTalk, Counts
    <3>3. guard' \in Threads \cup {Free} /\ active' \in Threads \cup {None}
      BY <2>3 DEF MarkTalk
    <3>4. life' \in 0..MaxLives /\ gone' \subseteq Talks /\ given' \in [Talks -> Nat]
      BY <2>3 DEF MarkTalk
    <3>5. pc' \in [Threads -> Steps]
      BY <2>3 DEF MarkTalk
    <3> QED BY <3>1, <3>2, <3>3, <3>4, <3>5 DEF States, Counts
  <2>4. CASE UnlinkTalk(t)
    BY <2>4 DEF UnlinkTalk
  <2>5. CASE UnlinkFails(t)
    BY <2>5 DEF UnlinkFails
  <2>6. CASE Unmark(t)
    BY <2>6 DEF Unmark
  <2>7. CASE StartJob(t)
    BY <2>7 DEF StartJob
  <2>8. CASE SaveTalk(t)
    BY <2>8 DEF SaveTalk
  <2>9. CASE TakeForDelete(t)
    BY <2>9 DEF TakeForDelete
  <2>10. CASE RemoveOne(t)
    BY <2>10 DEF RemoveOne
  <2>11. CASE RemoveFolder(t)
    BY <2>11 DEF RemoveFolder
  <2> QED BY <1>3, <2>1, <2>2, <2>3, <2>4, <2>5, <2>6, <2>7, <2>8, <2>9, <2>10, <2>11,
              MainIsATalk DEF Guarded, Finding
<1>4. ASSUME NEW t \in Threads, WriteFails(t) PROVE TypesInv'
  BY <1>4 DEF WriteFails, Writing, Fault
<1>5. CASE SaveState
  BY <1>5 DEF SaveState, IsProject
<1>6. CASE Restart
  BY <1>6 DEF Restart, Fault
<1> QED BY <1>1, <1>2, <1>3, <1>4, <1>5, <1>6 DEF Next

\* The guard changes hands only where a delete begins or ends; jobs begin
\* only when it is free, and a delete takes it only when no job runs.
LEMMA GuardNext == ASSUME FolderInv, Next PROVE GuardInv'
<1> USE FolderAssumption DEF Goto, Return, Write, FolderInv, TypesInv, TypeOK, GuardInv,
           Steps, Making, Opening, Held
<1>1. ASSUME NEW t \in Threads, Create(t) PROVE GuardInv'
  <2>1. CASE BeginCreate(t)
    BY <2>1 DEF BeginCreate
  <2>2. CASE MakeFolder(t)
    BY <2>2 DEF MakeFolder
  <2>3. CASE MakeBrief(t)
    BY <2>3 DEF MakeBrief
  <2>4. CASE MakeTranscript(t)
    BY <2>4 DEF MakeTranscript
  <2>5. CASE MakeState(t)
    BY <2>5 DEF MakeState
  <2>6. CASE MakeHistory(t)
    BY <2>6 DEF MakeHistory
  <2>7. CASE MakeSession(t)
    BY <2>7 DEF MakeSession
  <2>8. CASE Made(t)
    BY <2>8 DEF Made
  <2> QED BY <1>1, <2>1, <2>2, <2>3, <2>4, <2>5, <2>6, <2>7, <2>8 DEF Create
<1>2. ASSUME NEW t \in Threads, Open(t) PROVE GuardInv'
  <2>1. CASE BeginOpen(t)
    BY <2>1 DEF BeginOpen
  <2>2. CASE OpenFolder(t)
    BY <2>2 DEF OpenFolder
  <2>3. CASE OpenModules(t)
    BY <2>3 DEF OpenModules
  <2>4. CASE OpenTranscript(t)
    BY <2>4 DEF OpenTranscript
  <2>5. CASE OpenState(t)
    BY <2>5 DEF OpenState
  <2>6. CASE MigrateRead(t)
    BY <2>6 DEF MigrateRead
  <2>7. CASE MigrateWrite(t)
    BY <2>7 DEF MigrateWrite
  <2>8. CASE OpenSession(t)
    BY <2>8 DEF OpenSession
  <2>9. CASE Opened(t)
    BY <2>9 DEF Opened
  <2> QED BY <1>2, <2>1, <2>2, <2>3, <2>4, <2>5, <2>6, <2>7, <2>8, <2>9 DEF Open
<1>3. ASSUME NEW t \in Threads, Guarded(t) PROVE GuardInv'
  <2>1. ASSUME NEW step \in Finding, NEW k \in Talks, Find(t, step, k)
        PROVE  GuardInv'
    BY <2>1 DEF Find, Finding
  <2>2. CASE NewTalk(t)
    BY <2>2 DEF NewTalk
  <2>3. CASE MarkTalk(t)
    BY <2>3 DEF MarkTalk
  <2>4. CASE UnlinkTalk(t)
    BY <2>4 DEF UnlinkTalk
  <2>5. CASE UnlinkFails(t)
    BY <2>5 DEF UnlinkFails
  <2>6. CASE Unmark(t)
    BY <2>6 DEF Unmark
  <2>7. CASE StartJob(t)
    BY <2>7 DEF StartJob
  <2>8. CASE SaveTalk(t)
    BY <2>8 DEF SaveTalk
  <2>9. CASE TakeForDelete(t)
    BY <2>9 DEF TakeForDelete
  <2>10. CASE RemoveOne(t)
    BY <2>10 DEF RemoveOne
  <2>11. CASE RemoveFolder(t)
    BY <2>11 DEF RemoveFolder
  <2> QED BY <1>3, <2>1, <2>2, <2>3, <2>4, <2>5, <2>6, <2>7, <2>8, <2>9, <2>10, <2>11,
              MainIsATalk DEF Guarded, Finding
<1>4. ASSUME NEW t \in Threads, WriteFails(t) PROVE GuardInv'
  BY <1>4 DEF WriteFails, Writing, Fault
<1>5. CASE SaveState
  BY <1>5 DEF SaveState, IsProject
<1>6. CASE Restart
  BY <1>6 DEF Restart, Fault
<1> QED BY <1>1, <1>2, <1>3, <1>4, <1>5, <1>6 DEF Next

\* A job goes from step to step only with what it found or made, and only the
\* holder of the guard takes a part away.
LEMMA JobNext == ASSUME FolderInv, Next PROVE JobInv'
<1> USE FolderAssumption DEF Goto, Return, Write, MakeDir, disk, FolderInv, TypesInv, TypeOK,
           GuardInv, JobInv, FoundAt, IsProject, Steps, Making, Opening, Held
<1>1. ASSUME NEW t \in Threads, Create(t) PROVE JobInv'
  <2>1. CASE BeginCreate(t)
    BY <2>1 DEF BeginCreate
  <2>2. CASE MakeFolder(t)
    BY <2>2 DEF MakeFolder
  <2>3. CASE MakeBrief(t)
    BY <2>3 DEF MakeBrief
  <2>4. CASE MakeTranscript(t)
    BY <2>4 DEF MakeTranscript
  <2>5. CASE MakeState(t)
    BY <2>5 DEF MakeState
  <2>6. CASE MakeHistory(t)
    BY <2>6 DEF MakeHistory
  <2>7. CASE MakeSession(t)
    BY <2>7 DEF MakeSession
  <2>8. CASE Made(t)
    BY <2>8 DEF Made
  <2> QED BY <1>1, <2>1, <2>2, <2>3, <2>4, <2>5, <2>6, <2>7, <2>8 DEF Create
<1>2. ASSUME NEW t \in Threads, Open(t) PROVE JobInv'
  <2>1. CASE BeginOpen(t)
    BY <2>1 DEF BeginOpen
  <2>2. CASE OpenFolder(t)
    BY <2>2 DEF OpenFolder
  <2>3. CASE OpenModules(t)
    BY <2>3 DEF OpenModules
  <2>4. CASE OpenTranscript(t)
    BY <2>4 DEF OpenTranscript
  <2>5. CASE OpenState(t)
    BY <2>5 DEF OpenState
  <2>6. CASE MigrateRead(t)
    BY <2>6 DEF MigrateRead
  <2>7. CASE MigrateWrite(t)
    BY <2>7 DEF MigrateWrite
  <2>8. CASE OpenSession(t)
    BY <2>8 DEF OpenSession
  <2>9. CASE Opened(t)
    BY <2>9 DEF Opened
  <2> QED BY <1>2, <2>1, <2>2, <2>3, <2>4, <2>5, <2>6, <2>7, <2>8, <2>9 DEF Open
<1>3. ASSUME NEW t \in Threads, Guarded(t) PROVE JobInv'
  <2>1. ASSUME NEW step \in Finding, NEW k \in Talks, Find(t, step, k)
        PROVE  JobInv'
    BY <2>1 DEF Find, Finding
  <2>2. CASE NewTalk(t)
    BY <2>2 DEF NewTalk
  <2>3. CASE MarkTalk(t)
    BY <2>3 DEF MarkTalk
  <2>4. CASE UnlinkTalk(t)
    BY <2>4 DEF UnlinkTalk
  <2>5. CASE UnlinkFails(t)
    BY <2>5 DEF UnlinkFails
  <2>6. CASE Unmark(t)
    BY <2>6 DEF Unmark
  <2>7. CASE StartJob(t)
    BY <2>7 DEF StartJob
  <2>8. CASE SaveTalk(t)
    BY <2>8 DEF SaveTalk
  <2>9. CASE TakeForDelete(t)
    BY <2>9 DEF TakeForDelete
  <2>10. CASE RemoveOne(t)
    BY <2>10 DEF RemoveOne
  <2>11. CASE RemoveFolder(t)
    BY <2>11 DEF RemoveFolder
  <2> QED BY <1>3, <2>1, <2>2, <2>3, <2>4, <2>5, <2>6, <2>7, <2>8, <2>9, <2>10, <2>11,
              MainIsATalk DEF Guarded, Finding
<1>4. ASSUME NEW t \in Threads, WriteFails(t) PROVE JobInv'
  BY <1>4 DEF WriteFails, Writing, Fault
<1>5. CASE SaveState
  BY <1>5 DEF SaveState, IsProject
<1>6. CASE Restart
  BY <1>6 DEF Restart, Fault
<1> QED BY <1>1, <1>2, <1>3, <1>4, <1>5, <1>6 DEF Next

\* While a delete holds the guard no job saves its talk; a creator may, but
\* what it replaces is written down.
LEMMA DeleteNext == ASSUME FolderInv, Next PROVE DeleteInv'
<1> USE FolderAssumption DEF Goto, Return, Write, MakeDir, disk, told, story,
           FolderInv, TypesInv, TypeOK, GuardInv, JobInv, NumbersInv, DeleteInv,
           Undoable, Listed, MainTalk, Counts, Steps, Making, Opening, Held
<1>1. ASSUME NEW t \in Threads, Create(t) PROVE DeleteInv'
  <2>1. CASE BeginCreate(t)
    BY <2>1 DEF BeginCreate
  <2>2. CASE MakeFolder(t)
    BY <2>2 DEF MakeFolder
  <2>3. CASE MakeBrief(t)
    BY <2>3 DEF MakeBrief
  <2>4. CASE MakeTranscript(t)
    BY <2>4 DEF MakeTranscript
  <2>5. CASE MakeState(t)
    BY <2>5 DEF MakeState
  <2>6. CASE MakeHistory(t)
    BY <2>6 DEF MakeHistory
  <2>7. CASE MakeSession(t)
    BY <2>7 DEF MakeSession
  <2>8. CASE Made(t)
    BY <2>8 DEF Made
  <2> QED BY <1>1, <2>1, <2>2, <2>3, <2>4, <2>5, <2>6, <2>7, <2>8 DEF Create
<1>2. ASSUME NEW t \in Threads, Open(t) PROVE DeleteInv'
  <2>1. CASE BeginOpen(t)
    BY <2>1 DEF BeginOpen
  <2>2. CASE OpenFolder(t)
    BY <2>2 DEF OpenFolder
  <2>3. CASE OpenModules(t)
    BY <2>3 DEF OpenModules
  <2>4. CASE OpenTranscript(t)
    BY <2>4 DEF OpenTranscript
  <2>5. CASE OpenState(t)
    BY <2>5 DEF OpenState
  <2>6. CASE MigrateRead(t)
    BY <2>6 DEF MigrateRead
  <2>7. CASE MigrateWrite(t)
    BY <2>7 DEF MigrateWrite
  <2>8. CASE OpenSession(t)
    BY <2>8 DEF OpenSession
  <2>9. CASE Opened(t)
    BY <2>9 DEF Opened
  <2> QED BY <1>2, <2>1, <2>2, <2>3, <2>4, <2>5, <2>6, <2>7, <2>8, <2>9 DEF Open
<1>3. ASSUME NEW t \in Threads, Guarded(t) PROVE DeleteInv'
  <2>1. ASSUME NEW step \in Finding, NEW k \in Talks, Find(t, step, k)
        PROVE  DeleteInv'
    BY <2>1 DEF Find, Finding
  <2>2. CASE NewTalk(t)
    BY <2>2 DEF NewTalk
  <2>3. CASE MarkTalk(t)
    <3>1. CASE guard' = Free
      BY <2>3, <3>1 DEF MarkTalk
    <3>2. CASE guard' # Free
      <4> DEFINE k == own[t].talk
      <4>1. k \in Listed /\ guard' = t /\ dir' /\ tombs' = tombs \cup {k}
            /\ own' = [own EXCEPT ![t].kept = file[k]] /\ pc' = [pc EXCEPT ![t] = "unlink"]
            /\ UNCHANGED <<file, gone, torn, wiped>>
        BY <2>3, <3>2 DEF MarkTalk
      <4>2. k \in Talks /\ own'[t].talk = k /\ own'[t].kept = file[k]
        BY <4>1 DEF Errands
      <4> HIDE DEF k
      <4>3. Undoable(own[t].talk, own[t].kept)'
        BY <4>1, <4>2
      <4>4. \A u \in Threads : pc'[u] \in {"unlink", "unmark"} => u = t
        BY <2>3, <3>2 DEF MarkTalk
      <4> QED BY <4>2, <4>3, <4>4
    <3> QED BY <3>1, <3>2
  <2>4. CASE UnlinkTalk(t)
    BY <2>4 DEF UnlinkTalk
  <2>5. CASE UnlinkFails(t)
    BY <2>5 DEF UnlinkFails
  <2>6. CASE Unmark(t)
    BY <2>6 DEF Unmark
  <2>7. CASE StartJob(t)
    BY <2>7 DEF StartJob
  <2>8. CASE SaveTalk(t)
    BY <2>8 DEF SaveTalk
  <2>9. CASE TakeForDelete(t)
    BY <2>9 DEF TakeForDelete
  <2>10. CASE RemoveOne(t)
    BY <2>10 DEF RemoveOne
  <2>11. CASE RemoveFolder(t)
    BY <2>11 DEF RemoveFolder
  <2> QED BY <1>3, <2>1, <2>2, <2>3, <2>4, <2>5, <2>6, <2>7, <2>8, <2>9, <2>10, <2>11,
              MainIsATalk DEF Guarded, Finding
<1>4. ASSUME NEW t \in Threads, WriteFails(t) PROVE DeleteInv'
  BY <1>4 DEF WriteFails, Writing, Fault
<1>5. CASE SaveState
  BY <1>5 DEF SaveState, IsProject
<1>6. CASE Restart
  BY <1>6 DEF Restart, Fault
<1> QED BY <1>1, <1>2, <1>3, <1>4, <1>5, <1>6 DEF Next

\* A number is given out past every number that shows; the file of a talk
\* goes only when its tombstone stands.
LEMMA NumbersNext == ASSUME FolderInv, Next PROVE NumbersInv'
<1> USE FolderAssumption DEF Goto, Return, Write, MakeDir, disk, told, story,
           FolderInv, TypesInv, TypeOK, GuardInv, JobInv, DeleteInv, Undoable,
           NumbersInv, Listed, MainTalk, Counts, Steps, Making, Opening, Held
<1>1. ASSUME NEW t \in Threads, Create(t) PROVE NumbersInv'
  <2>1. CASE BeginCreate(t)
    BY <2>1 DEF BeginCreate
  <2>2. CASE MakeFolder(t)
    BY <2>2 DEF MakeFolder
  <2>3. CASE MakeBrief(t)
    BY <2>3 DEF MakeBrief
  <2>4. CASE MakeTranscript(t)
    BY <2>4 DEF MakeTranscript
  <2>5. CASE MakeState(t)
    BY <2>5 DEF MakeState
  <2>6. CASE MakeHistory(t)
    BY <2>6 DEF MakeHistory
  <2>7. CASE MakeSession(t)
    BY <2>7 DEF MakeSession
  <2>8. CASE Made(t)
    BY <2>8 DEF Made
  <2> QED BY <1>1, <2>1, <2>2, <2>3, <2>4, <2>5, <2>6, <2>7, <2>8 DEF Create
<1>2. ASSUME NEW t \in Threads, Open(t) PROVE NumbersInv'
  <2>1. CASE BeginOpen(t)
    BY <2>1 DEF BeginOpen
  <2>2. CASE OpenFolder(t)
    BY <2>2 DEF OpenFolder
  <2>3. CASE OpenModules(t)
    BY <2>3 DEF OpenModules
  <2>4. CASE OpenTranscript(t)
    BY <2>4 DEF OpenTranscript
  <2>5. CASE OpenState(t)
    BY <2>5 DEF OpenState
  <2>6. CASE MigrateRead(t)
    BY <2>6 DEF MigrateRead
  <2>7. CASE MigrateWrite(t)
    BY <2>7 DEF MigrateWrite
  <2>8. CASE OpenSession(t)
    BY <2>8 DEF OpenSession
  <2>9. CASE Opened(t)
    BY <2>9 DEF Opened
  <2> QED BY <1>2, <2>1, <2>2, <2>3, <2>4, <2>5, <2>6, <2>7, <2>8, <2>9 DEF Open
<1>3. ASSUME NEW t \in Threads, Guarded(t) PROVE NumbersInv'
  <2>1. ASSUME NEW step \in Finding, NEW k \in Talks, Find(t, step, k)
        PROVE  NumbersInv'
    BY <2>1 DEF Find, Finding
  <2>2. CASE NewTalk(t)
    <3> DEFINE n == Max({MainTalk} \cup Listed \cup tombs) + 1
    <3>1. CASE n > MaxTalks
      BY <2>2, <3>1 DEF NewTalk
    <3>2. CASE ~ (n > MaxTalks)
      <4>1. n \in Talks /\ n \notin {MainTalk} \cup Listed \cup tombs
        BY <3>2, NewNumber
      <4>2. file' = [file EXCEPT ![n] = 0] /\ given' = [given EXCEPT ![n] = @ + 1]
            /\ UNCHANGED <<tombs, gone, torn>>
        BY <2>2, <3>2 DEF NewTalk
      <4> HIDE DEF n
      <4>3. ~torn => given[n] = 0
        BY <4>1
      <4> QED BY <4>1, <4>2, <4>3
    <3> QED BY <3>1, <3>2
  <2>3. CASE MarkTalk(t)
    BY <2>3 DEF MarkTalk
  <2>4. CASE UnlinkTalk(t)
    BY <2>4 DEF UnlinkTalk
  <2>5. CASE UnlinkFails(t)
    BY <2>5 DEF UnlinkFails
  <2>6. CASE Unmark(t)
    BY <2>6 DEF Unmark
  <2>7. CASE StartJob(t)
    BY <2>7 DEF StartJob
  <2>8. CASE SaveTalk(t)
    BY <2>8 DEF SaveTalk
  <2>9. CASE TakeForDelete(t)
    BY <2>9 DEF TakeForDelete
  <2>10. CASE RemoveOne(t)
    BY <2>10 DEF RemoveOne
  <2>11. CASE RemoveFolder(t)
    BY <2>11 DEF RemoveFolder
  <2> QED BY <1>3, <2>1, <2>2, <2>3, <2>4, <2>5, <2>6, <2>7, <2>8, <2>9, <2>10, <2>11,
              MainIsATalk DEF Guarded, Finding
<1>4. ASSUME NEW t \in Threads, WriteFails(t) PROVE NumbersInv'
  BY <1>4 DEF WriteFails, Writing, Fault
<1>5. CASE SaveState
  BY <1>5 DEF SaveState, IsProject
<1>6. CASE Restart
  BY <1>6 DEF Restart, Fault
<1> QED BY <1>1, <1>2, <1>3, <1>4, <1>5, <1>6 DEF Next
----------------------------------------------------------------------------
\* Init and Next keep FolderInv, for any threads and any bounds.
THEOREM FolderInvariant == Spec => []FolderInv
<1>1. Init => FolderInv
  <2> SUFFICES ASSUME Init PROVE FolderInv
    OBVIOUS
  <2> USE FolderAssumption DEF Init
  <2>1. TypesInv
    <3>1. own \in [Threads -> Errands] /\ \A t \in Threads : own[t].talk \in Talks
      BY MainIsATalk, RowsTyped, CountsTyped DEF NoTalk, Errands
    <3>2. state \in States /\ file \in [Talks -> Counts]
      BY RowsTyped, CountsTyped
    <3>3. pc \in [Threads -> Steps] /\ given \in [Talks -> Nat] /\ life \in 0..MaxLives
      BY DEF Steps
    <3> QED BY <3>1, <3>2, <3>3 DEF TypesInv, TypeOK, States, Counts
  <2>2. GuardInv /\ JobInv /\ DeleteInv
    BY DEF GuardInv, JobInv, DeleteInv, Held
  <2>3. NumbersInv
    BY DEF NumbersInv
  <2> QED BY <2>1, <2>2, <2>3 DEF FolderInv
<1>2. FolderInv /\ [Next]_vars => FolderInv'
  <2> SUFFICES ASSUME FolderInv, [Next]_vars PROVE FolderInv'
    OBVIOUS
  <2>1. CASE Next
    BY <2>1, TypesNext, GuardNext, JobNext, DeleteNext, NumbersNext DEF FolderInv
  <2>2. CASE UNCHANGED vars
    <3> USE <2>2 DEF vars, disk, story, told, FolderInv
    <3>1. TypesInv'
      BY DEF TypesInv, TypeOK
    <3>2. GuardInv' /\ JobInv'
      BY DEF GuardInv, JobInv, FoundAt
    <3>3. DeleteInv' /\ NumbersInv'
      BY DEF DeleteInv, Undoable, NumbersInv
    <3> QED BY <3>1, <3>2, <3>3
  <2> QED BY <2>1, <2>2
<1> QED BY <1>1, <1>2, PTL DEF Spec

\* talks.py: a number once used stays used.  A talk whose delete was answered
\* with success is not listed and no number is given out twice, as long as no
\* removal of the project has begun to take the tombstones.
THEOREM NumberMeansOneTalkHolds == Spec => []NumberMeansOneTalk
<1>1. FolderInv => NumberMeansOneTalk
  BY DEF FolderInv, TypesInv, NumbersInv, NumberMeansOneTalk, Listed
<1> QED BY <1>1, FolderInvariant, PTL

\* load_project, delete_project: a job that begins its work finds every part
\* of the project, whatever other threads, failures and restarts did before.
THEOREM WorkFindsAllHolds == Spec => []WorkFindsAll
<1>1. FolderInv => WorkFindsAll
  BY DEF FolderInv, JobInv, FoundAt, WorkFindsAll, Parts
<1> QED BY <1>1, FolderInvariant, PTL

\* delete_talk: a refused delete shows the conversation again with all it had
\* when the delete began, unless a creator replaced it.
THEOREM RefusedDeleteKeepsTalkHolds == Spec => RefusedDeleteKeepsTalk
<1> DEFINE Kept ==
      \A t \in Threads :
         LET k == own[t].talk
         IN  pc[t] = "unmark" /\ pc'[t] = "idle" /\ tombs' # tombs =>
               /\ k \in Listed'
               /\ \/ own[t].kept = NoFile
                  \/ file[k] # NoFile /\ file'[k] >= own[t].kept
                  \/ wiped
<1>1. FolderInv /\ [Next]_vars => Kept
  <2> SUFFICES ASSUME FolderInv, [Next]_vars, NEW t \in Threads,
                      pc[t] = "unmark", pc'[t] = "idle", tombs' # tombs
               PROVE  /\ own[t].talk \in Listed'
                      /\ \/ own[t].kept = NoFile
                         \/ file[own[t].talk] # NoFile /\ file'[own[t].talk] >= own[t].kept
                         \/ wiped
    OBVIOUS
  <2>1. PICK u \in Threads : MarkTalk(u) \/ Unmark(u) \/ RemoveOne(u)
    <3> USE DEF disk
    <3>1. ASSUME NEW u \in Threads, Create(u) PROVE UNCHANGED tombs
      BY <3>1 DEF Create, BeginCreate, MakeFolder, MakeBrief, MakeTranscript, MakeState,
              MakeHistory, MakeSession, Made, Write
    <3>2. ASSUME NEW u \in Threads, Open(u) PROVE UNCHANGED tombs
      BY <3>2 DEF Open, BeginOpen, OpenFolder, OpenModules, OpenTranscript, OpenState,
              MigrateRead, MigrateWrite, OpenSession, Opened, Write
    <3>3. ASSUME NEW u \in Threads, Guarded(u)
          PROVE  UNCHANGED tombs \/ MarkTalk(u) \/ Unmark(u) \/ RemoveOne(u)
      BY <3>3 DEF Guarded, Find, NewTalk, UnlinkTalk, UnlinkFails, StartJob, SaveTalk,
              TakeForDelete, RemoveFolder
    <3>4. SaveState \/ Restart => UNCHANGED tombs
      BY DEF SaveState, Restart
    <3>5. \A u \in Threads : WriteFails(u) => UNCHANGED tombs
      BY DEF WriteFails
    <3> QED BY <3>1, <3>2, <3>3, <3>4, <3>5 DEF Next, vars
  <2>2. Unmark(t)
    BY <2>1 DEF FolderInv, TypesInv, MarkTalk, Unmark, RemoveOne, Goto, Return
  <2>3. Undoable(own[t].talk, own[t].kept) /\ own[t].talk \in Talks
    BY DEF FolderInv, DeleteInv, TypesInv, TypeOK
  <2> QED BY <2>2, <2>3 DEF Unmark, Undoable, Listed
<1> QED BY <1>1, FolderInvariant, PTL DEF Spec, RefusedDeleteKeepsTalk
=============================================================================
