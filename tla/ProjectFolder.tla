---------------------------- MODULE ProjectFolder ---------------------------
(* The files of one project name, as sida/project.py, sida/workspace.py,    *)
(* sida/talks.py and sida/migrate.py write them one by one: a project is    *)
(* made, opened, repaired, migrated, talked in and removed by threads that  *)
(* may stop at any write, fail at any write, or find the folder gone.       *)
(*                                                                          *)
(* A thread is a request or the job it started.  Only deletes, new talks    *)
(* and the start of a job take SessionJobs._guard; making and opening a     *)
(* project takes no lock at all.                                            *)
EXTENDS Integers, FiniteSets, FiniteSetsExt

CONSTANTS
    Threads,      \* requests, or the jobs they become
    None,         \* no job
    Free,         \* the guard is free
    NoFile,       \* a talk without a file
    MaxTalks,     \* the last talk number (9999 in talks.py)
    MaxLives,     \* bound: how often the name is created
    MaxMessages,  \* bound: messages of one talk
    MaxEdits,     \* bound: saves of project_state.md by clients
    MaxFaults     \* bound: restarts and refused writes

ASSUME FolderAssumption ==
    /\ MaxTalks \in Nat \ {0} /\ MaxLives \in Nat
    /\ MaxMessages \in Nat \ {0} /\ MaxEdits \in Nat /\ MaxFaults \in Nat
    /\ None \notin Threads /\ Free \notin Threads /\ NoFile \notin Nat

Talks    == 1..MaxTalks
MainTalk == 1                  \* "01", kept in history.json
Parts    == {"brief", "transcript", "state", "session"}

VARIABLES
    dir,     \* the folder exists
    parts,   \* which of Parts are in it
    state,   \* project_state.md: the save it carries, a row for each expert?
    file,    \* talk -> how many messages its file holds
    tombs,   \* talks/.deleted: numbers never to be used again
    guard,   \* who holds SessionJobs._guard
    active,  \* the project's job in SessionJobs._active
    pc, own, \* where each thread is, its talk and what it has read
    life,    \* history: how often the name was created
    faults,  \* history: how many restarts and refused writes there were
    given,   \* history: how often this project gave out each talk number
    gone,    \* history: talks whose delete was answered with success
    torn,    \* history: a removal of this project has taken something
    wiped    \* history: a creator's empty history replaced a conversation

disk  == <<dir, parts, state, file, tombs>>
told  == <<life, given, gone, torn, wiped>>
story == <<told, faults>>
vars  == <<disk, guard, active, pc, own, story>>

Blank  == [edit |-> 0, rows |-> TRUE]
NoTalk == [talk |-> MainTalk, seen |-> Blank, kept |-> NoFile]

Init ==
    /\ dir = FALSE /\ parts = {} /\ state = Blank
    /\ file = [k \in Talks |-> NoFile] /\ tombs = {}
    /\ guard = Free /\ active = None
    /\ pc = [t \in Threads |-> "idle"] /\ own = [t \in Threads |-> NoTalk]
    /\ life = 0 /\ faults = 0 /\ given = [k \in Talks |-> 0] /\ gone = {} /\ torn = FALSE
    /\ wiped = FALSE
----------------------------------------------------------------------------
\* is_project_dir
IsProject == dir /\ "brief" \in parts

\* talk_ids: the first talk needs no file; deleted ones are not listed.
Listed == ({MainTalk} \cup {k \in Talks : file[k] # NoFile}) \ tombs

Goto(t, step) == pc' = [pc EXCEPT ![t] = step]

\* The request is answered, or the job ends and leaves _active.
Return(t) ==
    /\ Goto(t, "idle")
    /\ own' = [own EXCEPT ![t] = NoTalk]
    /\ active' = IF active = t THEN None ELSE active

Fault == faults < MaxFaults /\ faults' = faults + 1

\* A write whose folder is gone fails in atomic_write_text.
Write(t, part, next) ==
    /\ IF dir THEN /\ parts' = parts \cup {part}
                   /\ own' = [own EXCEPT ![t].seen = Blank]
                   /\ Goto(t, next) /\ UNCHANGED active
              ELSE Return(t) /\ UNCHANGED parts
    /\ UNCHANGED <<dir, file, tombs, guard, story>>

\* A folder is made with its parents, here or where it was removed.
MakeDir == dir' = TRUE

----------------------------------------------------------------------------
(* create_project, create_sample_project: a name in use is opened.          *)

BeginCreate(t) ==
    /\ pc[t] = "idle"
    /\ Goto(t, IF dir THEN "open" ELSE "mkdir")
    /\ UNCHANGED <<disk, guard, active, own, story>>

\* mkdir(exist_ok=False): the second of two creators is refused.  The folder
\* of the modules is made at once and is not told apart.
MakeFolder(t) ==
    /\ pc[t] = "mkdir"
    /\ IF dir
         THEN Return(t) /\ UNCHANGED <<dir, story>>
         ELSE /\ life < MaxLives /\ UNCHANGED faults
              /\ MakeDir
              /\ life' = life + 1
              /\ given' = [k \in Talks |-> 0] /\ gone' = {} /\ torn' = FALSE
              /\ wiped' = FALSE
              /\ Goto(t, "make_brief") /\ UNCHANGED <<own, active>>
    /\ UNCHANGED <<parts, state, file, tombs, guard>>

MakeBrief(t) ==
    /\ pc[t] = "make_brief"
    /\ Write(t, "brief", "make_transcript") /\ UNCHANGED state

MakeTranscript(t) ==
    /\ pc[t] = "make_transcript"
    /\ Write(t, "transcript", "make_state") /\ UNCHANGED state

\* Project.init_state: only when there is none.
MakeState(t) ==
    /\ pc[t] = "make_state"
    /\ Write(t, "state", "make_history")
    /\ state' = IF dir /\ "state" \notin parts THEN Blank ELSE state

\* save_history([]) makes its folder; a project made from a brief file has
\* no history yet and goes on.
MakeHistory(t) ==
    /\ pc[t] = "make_history"
    /\ \/ /\ MakeDir /\ file' = [file EXCEPT ![MainTalk] = 0]
          /\ wiped' = (wiped \/ file[MainTalk] \notin {0, NoFile})
       \/ UNCHANGED <<dir, file, wiped>>
    /\ Goto(t, "make_session")
    /\ UNCHANGED <<parts, state, tombs, guard, active, own, life, given, gone, torn, faults>>

MakeSession(t) ==
    /\ pc[t] = "make_session"
    /\ Write(t, "session", "made") /\ UNCHANGED state

Made(t) ==
    /\ pc[t] = "made"
    /\ Return(t) /\ UNCHANGED <<disk, guard, story>>

Create(t) ==
    \/ BeginCreate(t) \/ MakeFolder(t) \/ MakeBrief(t)
    \/ MakeTranscript(t) \/ MakeState(t) \/ MakeHistory(t) \/ MakeSession(t)
    \/ Made(t)
----------------------------------------------------------------------------
(* load_project: whatever is missing is made, then the state is migrated.   *)

\* A handler that opens the project outside any job (the site screen).
BeginOpen(t) ==
    /\ pc[t] = "idle" /\ IsProject
    /\ Goto(t, "open")
    /\ UNCHANGED <<disk, guard, active, own, story>>

OpenFolder(t) ==
    /\ pc[t] = "open"
    /\ IF IsProject THEN Goto(t, "open_modules") /\ UNCHANGED <<own, active>>
                    ELSE Return(t)
    /\ UNCHANGED <<disk, guard, story>>

OpenModules(t) ==
    /\ pc[t] = "open_modules"
    /\ MakeDir
    /\ Goto(t, "open_transcript")
    /\ UNCHANGED <<parts, state, file, tombs, guard, active, own, story>>

OpenTranscript(t) ==
    /\ pc[t] = "open_transcript"
    /\ Write(t, "transcript", "open_state") /\ UNCHANGED state

OpenState(t) ==
    /\ pc[t] = "open_state"
    /\ Write(t, "state", "migrate")
    /\ state' = IF dir /\ "state" \notin parts THEN Blank ELSE state

\* migrate_project reads the state and rewrites it if an expert has no row.
MigrateRead(t) ==
    /\ pc[t] = "migrate"
    /\ IF state.rows \/ "state" \notin parts
         THEN Goto(t, "open_session") /\ UNCHANGED own
         ELSE Goto(t, "migrate_write") /\ own' = [own EXCEPT ![t].seen = state]
    /\ UNCHANGED <<disk, guard, active, story>>

\* ensure_module_status_rows adds the rows and keeps the rest of what was read.
MigrateWrite(t) ==
    /\ pc[t] = "migrate_write"
    /\ Write(t, "state", "open_session")
    /\ state' = IF dir THEN [own[t].seen EXCEPT !.rows = TRUE] ELSE state

OpenSession(t) ==
    /\ pc[t] = "open_session"
    /\ Write(t, "session", "opened") /\ UNCHANGED state

\* A request has what it needs of the project.
Opened(t) ==
    /\ pc[t] = "opened" /\ active # t
    /\ Return(t) /\ UNCHANGED <<disk, guard, story>>

Open(t) ==
    \/ BeginOpen(t) \/ OpenFolder(t) \/ OpenModules(t) \/ OpenTranscript(t)
    \/ OpenState(t) \/ MigrateRead(t) \/ MigrateWrite(t) \/ OpenSession(t)
    \/ Opened(t)

\* A client saves project_state.md, with all rows of its table or without.
SaveState ==
    /\ IsProject /\ "state" \in parts
    /\ state.edit < MaxEdits
    /\ \E rows \in BOOLEAN : state' = [edit |-> state.edit + 1, rows |-> rows]
    /\ UNCHANGED <<dir, parts, file, tombs, guard, active, pc, own, story>>
----------------------------------------------------------------------------
(* What the jobs' guard orders.  Each handler finds the project first.      *)

Find(t, step, k) ==
    /\ pc[t] = "idle" /\ IsProject
    /\ own' = [own EXCEPT ![t].talk = k]
    /\ Goto(t, step)
    /\ UNCHANGED <<disk, guard, active, story>>

\* talks.new_talk, all under the guard: the number after every one used.
NewTalk(t) ==
    LET n == Max({MainTalk} \cup Listed \cup tombs) + 1
    IN  /\ pc[t] = "new_talk" /\ guard = Free
        /\ IF n > MaxTalks
             THEN UNCHANGED <<dir, file, given>>
             ELSE /\ MakeDir
                  /\ file'  = [file EXCEPT ![n] = 0]
                  /\ given' = [given EXCEPT ![n] = @ + 1]
        /\ Return(t)
        /\ UNCHANGED <<parts, state, tombs, guard, life, gone, torn, wiped, faults>>

\* Mutant of MarkTalk: no tombstone is left.
MarkNothing(t) ==
    /\ pc[t] = "delete_talk" /\ guard = Free
    /\ active = None /\ own[t].talk \in Listed
    /\ guard' = t
    /\ own' = [own EXCEPT ![t].kept = file[own[t].talk]]
    /\ Goto(t, "unlink")
    /\ UNCHANGED <<disk, active, story>>

\* delete_talk: refused while a job runs; the tombstone comes first.
MarkTalk(t) ==
    /\ pc[t] = "delete_talk" /\ guard = Free
    /\ IF active # None \/ own[t].talk \notin Listed
         THEN Return(t) /\ UNCHANGED <<dir, tombs, guard>>
         ELSE /\ guard' = t /\ MakeDir
              /\ tombs' = tombs \cup {own[t].talk}
              /\ own' = [own EXCEPT ![t].kept = file[own[t].talk]]
              /\ Goto(t, "unlink") /\ UNCHANGED active
    /\ UNCHANGED <<parts, state, file, story>>

UnlinkTalk(t) ==
    /\ pc[t] = "unlink"
    /\ file' = [file EXCEPT ![own[t].talk] = NoFile]
    /\ gone' = gone \cup {own[t].talk}
    /\ guard' = Free /\ Return(t)
    /\ UNCHANGED <<dir, parts, state, tombs, life, given, torn, wiped, faults>>

\* Mutant of UnlinkFails: the file is emptied before it is removed.
UnlinkEmpties(t) ==
    /\ pc[t] = "unlink"
    /\ file' = [file EXCEPT ![own[t].talk] = IF @ = NoFile THEN @ ELSE 0]
    /\ Fault
    /\ Goto(t, "unmark")
    /\ UNCHANGED <<dir, parts, state, tombs, guard, active, own, told>>

UnlinkFails(t) ==
    /\ pc[t] = "unlink"
    /\ Fault
    /\ Goto(t, "unmark")
    /\ UNCHANGED <<disk, guard, active, own, told>>

\* The conversation that could not be removed is shown again.
Unmark(t) ==
    /\ pc[t] = "unmark"
    /\ tombs' = tombs \ {own[t].talk}
    /\ guard' = Free /\ Return(t)
    /\ UNCHANGED <<dir, parts, state, file, story>>

\* A job starts: message jobs check their talk again, expert jobs have none
\* and note their run in the first talk, deleted or not.
StartJob(t) ==
    /\ pc[t] = "start" /\ guard = Free
    /\ \E asked \in BOOLEAN :
         IF active # None \/ (asked /\ own[t].talk \notin Listed)
           THEN Return(t)
           ELSE /\ active' = t
                /\ own' = [own EXCEPT ![t].talk = IF asked THEN @ ELSE MainTalk]
                /\ Goto(t, "open")
    /\ UNCHANGED <<disk, guard, story>>

\* Project.save_history at the end of an exchange or of a run; a talk that
\* cannot grow within the bound stays as it is.
SaveTalk(t) ==
    LET k == own[t].talk
    IN  /\ pc[t] = "opened" /\ active = t
        /\ MakeDir
        /\ file' = [file EXCEPT ![k] = IF @ = NoFile THEN 1
                                       ELSE IF @ < MaxMessages THEN @ + 1 ELSE @]
        /\ Return(t)
        /\ UNCHANGED <<parts, state, tombs, guard, story>>

\* Mutant of TakeForDelete: a job may be running.
TakeAnyway(t) ==
    /\ pc[t] = "delete" /\ guard = Free
    /\ IF IsProject THEN guard' = t /\ Goto(t, "rmtree") /\ UNCHANGED <<own, active>>
                    ELSE Return(t) /\ UNCHANGED guard
    /\ UNCHANGED <<disk, story>>

\* delete_project holds the guard while the folder goes.
TakeForDelete(t) ==
    /\ pc[t] = "delete" /\ guard = Free
    /\ IF active = None /\ IsProject
         THEN guard' = t /\ Goto(t, "rmtree") /\ UNCHANGED <<own, active>>
         ELSE Return(t) /\ UNCHANGED guard
    /\ UNCHANGED <<disk, story>>

\* rmtree removes one thing after the other, in no order worth relying on.
RemoveOne(t) ==
    /\ pc[t] = "rmtree"
    /\ \/ /\ \E p \in parts : parts' = parts \ {p}
          /\ UNCHANGED <<dir, file, tombs>>
       \/ /\ \E k \in Talks : file[k] # NoFile /\ file' = [file EXCEPT ![k] = NoFile]
          /\ UNCHANGED <<dir, parts, tombs>>
       \/ /\ \E k \in tombs : tombs' = tombs \ {k}
          /\ UNCHANGED <<dir, parts, file>>
    /\ torn' = TRUE
    /\ UNCHANGED <<state, guard, active, pc, own, life, given, gone, wiped, faults>>

RemoveFolder(t) ==
    /\ pc[t] = "rmtree"
    /\ parts = {} /\ tombs = {} /\ \A k \in Talks : file[k] = NoFile
    /\ dir' = FALSE
    /\ guard' = Free /\ Return(t)
    /\ UNCHANGED <<parts, state, file, tombs, story>>

Guarded(t) ==
    \/ \E step \in {"new_talk", "delete"} : Find(t, step, MainTalk)
    \/ \E step \in {"delete_talk", "start"}, k \in Talks : Find(t, step, k)
    \/ NewTalk(t) \/ MarkTalk(t) \/ UnlinkTalk(t) \/ UnlinkFails(t) \/ Unmark(t)
    \/ StartJob(t) \/ SaveTalk(t)
    \/ TakeForDelete(t) \/ RemoveOne(t) \/ RemoveFolder(t)
----------------------------------------------------------------------------
(* Failure and restart.                                                     *)

Writing == {"mkdir", "make_brief", "make_transcript", "make_state",
            "make_history", "make_session", "open_modules", "open_transcript",
            "open_state", "migrate_write", "open_session", "new_talk",
            "delete_talk", "unmark", "opened", "rmtree"}

\* A file system that refuses: the exception ends the request or the job and
\* gives back the guard; what was written or removed so far stays so.
WriteFails(t) ==
    /\ pc[t] \in Writing
    /\ pc[t] \in {"new_talk", "delete_talk"} => guard = Free
    /\ guard' = IF guard = t THEN Free ELSE guard
    /\ Fault /\ Return(t)
    /\ UNCHANGED <<disk, told>>

\* The server stops and starts again.  A removal it was in stays half-done.
Restart ==
    /\ Fault
    /\ guard' = Free /\ active' = None
    /\ pc' = [t \in Threads |-> "idle"] /\ own' = [t \in Threads |-> NoTalk]
    /\ UNCHANGED <<disk, told>>

Next ==
    \/ \E t \in Threads : Create(t) \/ Open(t) \/ Guarded(t) \/ WriteFails(t)
    \/ SaveState
    \/ Restart

Spec == Init /\ [][Next]_vars
----------------------------------------------------------------------------
(* Properties.                                                              *)

TypeOK ==
    /\ dir \in BOOLEAN /\ parts \subseteq Parts
    /\ state \in [edit : 0..MaxEdits, rows : BOOLEAN]
    /\ file \in [Talks -> 0..MaxMessages \cup {NoFile}] /\ tombs \subseteq Talks
    /\ guard \in Threads \cup {Free} /\ active \in Threads \cup {None}
    /\ life \in 0..MaxLives /\ gone \subseteq Talks
    /\ \A t \in Threads : own[t].talk \in Talks

\* A talk's number means one talk (test_talks.py: ids are not reused): no
\* number is given out twice and no talk whose delete was answered with
\* success is listed again, through failed deletes, restarts and expert jobs
\* that write the first talk's file anew -- until a removal of the whole
\* project begins, which takes the tombstones when it comes to them.
NumberMeansOneTalk ==
    /\ TypeOK
    /\ ~torn => /\ \A k \in Talks : given[k] <= 1
                /\ gone \cap Listed = {}

\* A job that begins its work finds a whole project -- brief, state, modules,
\* transcript and session -- wherever a creation, an earlier open or a
\* removal was cut short, and whatever other threads do to the folder.
WorkFindsAll ==
    \A t \in Threads : pc[t] = "opened" /\ active = t => dir /\ Parts \subseteq parts

\* "Keep the original conversation visible on failure": a delete that the file
\* system refused and that was answered so leaves the talk on the list, with
\* its file if it had one and no fewer messages -- but for a creator that
\* wrote its empty history over the first talk meanwhile.
RefusedDeleteKeepsTalk ==
    [][\A t \in Threads :
         LET k == own[t].talk
         IN  pc[t] = "unmark" /\ pc'[t] = "idle" /\ tombs' # tombs =>
               /\ k \in Listed'
               /\ \/ own[t].kept = NoFile
                  \/ file[k] # NoFile /\ file'[k] >= own[t].kept
                  \/ wiped]_vars
=============================================================================
