--------------------------- MODULE StateApproval ---------------------------
(* The shared documents of one project and the approval desk in front of    *)
(* them: sida/editing.py, sida/project_documents.py, sida/state_revisions.py*)
(* and the project_state.md part of sida/engine.py and                      *)
(* sida/state_updater.py.                                                   *)
(*                                                                          *)
(* Request threads (FastAPI's thread pool) read and save brief.md and       *)
(* project_state.md, ask for a state proposal, apply it or skip it, all     *)
(* under the project's lock.  The job thread runs experts without that lock:*)
(* it rewrites module outputs and then, as Mode says, does nothing ("off"), *)
(* leaves a proposal for the designer ("ask") or applies it itself ("auto").*)
(* Whoever opens the project -- a job without the lock, a request for a     *)
(* proposal with it -- runs sida/migrate.py first, which may rewrite        *)
(* project_state.md and makes no backup.                                    *)
(* Every file read and every atomic file write is a step of its own.        *)
EXTENDS Integers, FiniteSets

CONSTANTS
    Agents,        \* the experts whose outputs the state can reflect
    Designer,      \* the author of an edit that no expert made
    Requests,      \* HTTP request threads, one per client
    Job,           \* the one conversation job of the project
    Free,          \* the lock's value when nobody holds it
    None,          \* no pending approval; no backup file
    Texts,         \* what a document's Markdown body can say
    InitText,      \* the body a new project starts with
    Synced,        \* a body with the rows of the configured experts
    Mode,          \* state_update.mode of the configuration
    MaxVersion,    \* bound: how many outputs each expert writes
    MaxProposals   \* bound: how many proposals the models make

ASSUME ConstantsAssumption ==
    /\ Designer \notin Agents
    /\ Job \notin Requests
    /\ Free \notin Requests \cup {Job}
    /\ InitText \in Texts /\ Synced \in [Texts -> Texts]
    /\ Mode \in {"ask", "auto", "off"}
    /\ MaxVersion \in Nat
    /\ MaxProposals \in Nat

Threads  == Requests \cup {Job}
Kinds    == {"brief", "state"}
Versions == 0..MaxVersion                 \* 0: the expert has no output yet
Records  == [Agents -> Versions]          \* the sida-module-revisions comment
Document == [text: Texts, reflected: Records]

(* A change somebody wants to make to a document: a designer's save (id 0)  *)
(* or a StateProposal, with everything its model call was given; old is the *)
(* text its writer has read for the backup.                                 *)
Edit == [id: 0..MaxProposals, author: Agents \cup {Designer}, kind: Kinds,
         base: Document, brief: Document, output: Versions, new: Document,
         old: Document]

Steps == {"idle", "compare", "open", "migrate", "ready", "read_state",
          "read_inputs", "model", "hold", "check", "check_brief", "reread",
          "backup", "write", "pop"}

NoRecords == [a \in Agents |-> 0]
Blank     == [text |-> InitText, reflected |-> NoRecords]
NoEdit    == [id |-> 0, author |-> Designer, kind |-> "state", base |-> Blank,
              brief |-> Blank, output |-> 0, new |-> Blank, old |-> Blank]

ASSUME NoneAssumption == None \notin Edit \cup Document

VARIABLES
    docs,      \* brief.md and project_state.md
    prev,      \* brief.prev.md and project_state.prev.md
    modules,   \* the version of each expert's output file
    lock,      \* EditingService._locks[path]
    pending,   \* EditingService._pending[path]
    live,      \* proposals that are still their session's pending_state
    pc, op,    \* where each thread is, and the edit it is working on
    shown,     \* the document each client's editor has open
    issued,    \* how many proposals were made (uuid4: never the same twice)
    accepted,  \* history: <<expert, version>> pairs accepted into the state
    closed,    \* history: proposals that were applied, skipped or replaced
    since      \* history: what project_state.md has been since a request last
               \* saved or applied one: more than one version when the job's
               \* thread or a migration wrote it in between

vars == <<docs, prev, modules, lock, pending, live, pc, op, shown, issued,
          accepted, closed, since>>

files == <<docs, since>>

Init ==
    /\ docs     = [k \in Kinds |-> Blank]
    /\ prev     = [k \in Kinds |-> None]
    /\ modules  = NoRecords
    /\ lock     = Free
    /\ pending  = None
    /\ live     = {}
    /\ pc       = [t \in Threads |-> "idle"]
    /\ op       = [t \in Threads |-> NoEdit]
    /\ shown    = [r \in Requests |-> [kind |-> "state", doc |-> Blank]]
    /\ issued   = 0
    /\ accepted = {}
    /\ closed   = {}
    /\ since    = {Blank}
----------------------------------------------------------------------------
(* Helpers.                                                                 *)

\* Mutant of Preserve: the records the client sent back are kept.
PreserveClient(edited, previous) == edited

\* The body the designer typed, with the records the file already has: what
\* the client sent in the records' place is not used.
Preserve(edited, previous) == [edited EXCEPT !.reflected = previous.reflected]

\* The state as it reads once version v of a's output is recorded in it.
Record(doc, a, v) == [doc EXCEPT !.reflected[a] = v]

\* What a model call makes of base: a new body, and a new record unless the
\* answer carried nothing about the module.
Proposed(base, a, v, text, empty) ==
    LET body == [base EXCEPT !.text = text]
    IN  IF empty THEN body ELSE Record(body, a, v)

\* The experts whose current output the Conductor is told is not in the state.
FreshModules ==
    {a \in Agents : modules[a] # 0 /\ docs["state"].reflected[a] # modules[a]}

PendingIds == IF pending = None THEN {} ELSE {pending.id}

Goto(t, step) == pc' = [pc EXCEPT ![t] = step]

Acquire(r) == lock = Free /\ lock' = r

\* Where a thread rests: a job that has opened the project goes on to its next
\* expert, or is over.
Rest(t) == IF t = Job /\ pc[t] # "migrate" THEN "ready" ELSE "idle"

\* The end of a request or of an expert's turn: the "with lock" block is left.
Finish(t) ==
    /\ Goto(t, Rest(t))
    /\ op'   = [op EXCEPT ![t] = NoEdit]
    /\ lock' = IF lock = t THEN Free ELSE lock

----------------------------------------------------------------------------
(* Reading and saving a document.                                           *)

ReadDocument(r, k) ==
    /\ pc[r] = "idle"
    /\ lock = Free
    /\ shown' = [shown EXCEPT ![r] = [kind |-> k, doc |-> docs[k]]]
    /\ UNCHANGED <<files, prev, modules, lock, pending, live, pc, op, issued,
                   accepted, closed>>

\* A client sends the document it has open back with another body, and with
\* records of its own when it likes.
SaveDocument(r, text, records) ==
    /\ pc[r] = "idle"
    /\ Acquire(r)
    /\ op' = [op EXCEPT ![r] =
                 [NoEdit EXCEPT !.kind = shown[r].kind, !.base = shown[r].doc,
                                !.new = [text |-> text, reflected |-> records]]]
    /\ Goto(r, "compare")
    /\ UNCHANGED <<files, prev, modules, pending, live, shown, issued, accepted,
                   closed>>

\* Mutant of CompareRevision: whatever the file is by now.
CompareNothing(r) ==
    LET edited == Preserve(op[r].new, docs[op[r].kind])
    IN  /\ pc[r] = "compare"
        /\ op' = [op EXCEPT ![r].new = edited, ![r].old = docs[op[r].kind]]
        /\ Goto(r, "backup")
        /\ UNCHANGED <<files, prev, modules, lock, pending, live, shown, issued,
                       accepted, closed>>

\* 409 when the file is no longer the revision the client was shown; nothing
\* is written when nothing would change.
CompareRevision(r) ==
    LET k      == op[r].kind
        edited == Preserve(op[r].new, docs[k])
    IN  /\ pc[r] = "compare"
        /\ IF docs[k] = op[r].base /\ edited # docs[k]
             THEN /\ op' = [op EXCEPT ![r].new = edited, ![r].old = docs[k]]
                  /\ Goto(r, "backup")
                  /\ UNCHANGED lock
             ELSE Finish(r)
        /\ UNCHANGED <<files, prev, modules, pending, live, shown, issued,
                       accepted, closed>>

----------------------------------------------------------------------------
(* Making a proposal.                                                       *)

\* POST state-proposals: the earlier proposal goes, whatever comes of this one.
ProposeState(r, a) ==
    /\ pc[r] = "idle"
    /\ Acquire(r)
    /\ modules[a] # 0
    /\ pending' = None
    /\ closed'  = closed \cup PendingIds
    /\ op' = [op EXCEPT ![r].author = a]
    /\ Goto(r, "open")
    /\ UNCHANGED <<files, prev, modules, live, shown, issued, accepted>>

\* migrate_project has read the state: it writes nothing when every configured
\* expert has its row; and whoever opened the project goes on.
Migrating(t) ==
    IF Synced[docs["state"].text] = docs["state"].text
      THEN Goto(t, IF t = Job THEN "ready" ELSE "read_state") /\ UNCHANGED op
      ELSE Goto(t, "migrate") /\ op' = [op EXCEPT ![t].base = docs["state"]]

\* build_session in a request for a proposal, which holds the lock.
OpenProject(r) ==
    /\ pc[r] = "open"
    /\ Migrating(r)
    /\ UNCHANGED <<files, prev, modules, lock, pending, live, shown, issued,
                   accepted, closed>>

\* build_session at the start of a job, which does not; or the job ends there.
OpenJob ==
    /\ pc[Job] \in {"idle", "ready"}
    /\ Migrating(Job) \/ (Goto(Job, "idle") /\ UNCHANGED op)
    /\ UNCHANGED <<files, prev, modules, lock, pending, live, shown, issued,
                   accepted, closed>>

\* What was read is written back with the rows it lacks, over whatever the
\* file is by now.
MigrateWrite(t) ==
    LET synced == [op[t].base EXCEPT !.text = Synced[op[t].base.text]]
    IN  /\ pc[t] = "migrate"
        /\ docs'  = [docs EXCEPT !["state"] = synced]
        /\ since' = since \cup {synced}
        /\ op'    = [op EXCEPT ![t].base = Blank]
        /\ Goto(t, IF t = Job THEN "ready" ELSE "read_state")
        /\ UNCHANGED <<prev, modules, lock, pending, live, shown, issued,
                       accepted, closed>>

\* The job thread saves a new output of expert a and turns to the state.
RunModule(a) ==
    /\ pc[Job] = "ready"
    /\ modules[a] < MaxVersion
    /\ modules' = [modules EXCEPT ![a] = @ + 1]
    /\ IF Mode = "off"
         THEN UNCHANGED <<pc, op>>
         ELSE /\ op' = [op EXCEPT ![Job].author = a]
              /\ Goto(Job, "read_state")
    /\ UNCHANGED <<files, prev, lock, pending, live, shown, issued, accepted,
                   closed>>

ReadState(t) ==
    /\ pc[t] = "read_state"
    /\ op' = [op EXCEPT ![t].base = docs["state"]]
    /\ Goto(t, "read_inputs")
    /\ UNCHANGED <<files, prev, modules, lock, pending, live, shown, issued,
                   accepted, closed>>

ReadInputs(t) ==
    /\ pc[t] = "read_inputs"
    /\ op' = [op EXCEPT ![t].output = modules[op[t].author],
                        ![t].brief  = docs["brief"]]
    /\ Goto(t, "model")
    /\ UNCHANGED <<files, prev, modules, lock, pending, live, shown, issued,
                   accepted, closed>>

\* The model call fails, or its patch changes neither the body nor a record.
NoProposal(t) ==
    /\ pc[t] = "model"
    /\ Finish(t)
    /\ UNCHANGED <<files, prev, modules, pending, live, shown, issued, accepted,
                   closed>>

\* The model answers.  A request keeps the proposal for the designer at once,
\* still holding the lock; the job thread goes on without it.
ModelAnswers(t, text, empty) ==
    LET e == [op[t] EXCEPT !.id  = issued + 1,
                           !.new = Proposed(op[t].base, op[t].author,
                                            op[t].output, text, empty)]
    IN  /\ pc[t] = "model"
        /\ issued < MaxProposals
        /\ e.new # e.base
        /\ issued' = issued + 1
        /\ live'   = live \cup {e.id}
        /\ IF t = Job
             THEN /\ op' = [op EXCEPT ![t] = e]
                  /\ Goto(t, IF Mode = "auto" THEN "check" ELSE "hold")
                  /\ UNCHANGED <<lock, pending>>
             ELSE /\ pending' = e
                  /\ Finish(t)
        /\ UNCHANGED <<files, prev, modules, shown, accepted, closed>>

\* Mutant of Hold: the job thread does not wait for the lock.
HoldUnlocked ==
    /\ pc[Job] = "hold"
    /\ pending' = op[Job]
    /\ closed'  = closed \cup PendingIds
    /\ Finish(Job)
    /\ UNCHANGED <<files, prev, modules, live, shown, issued, accepted>>

\* The job thread's "state_proposed" event leaves its proposal at the desk.
Hold ==
    /\ pc[Job] = "hold"
    /\ lock = Free
    /\ pending' = op[Job]
    /\ closed'  = closed \cup PendingIds
    /\ Finish(Job)
    /\ UNCHANGED <<files, prev, modules, live, shown, issued, accepted>>

----------------------------------------------------------------------------
(* Answering a proposal.                                                    *)

\* Any other id than the one kept is refused and changes nothing.
ApplyState(r, id) ==
    /\ pc[r] = "idle"
    /\ Acquire(r)
    /\ pending # None /\ pending.id = id /\ id \in live
    /\ op' = [op EXCEPT ![r] = pending]
    /\ Goto(r, "check")
    /\ UNCHANGED <<files, prev, modules, pending, live, shown, issued, accepted,
                   closed>>

DiscardState(r, id) ==
    /\ pc[r] = "idle"
    /\ lock = Free
    /\ pending # None /\ pending.id = id /\ id \in live
    /\ pending' = None
    /\ live'    = live \ {id}
    /\ closed'  = closed \cup {id}
    /\ UNCHANGED <<files, prev, modules, lock, pc, op, shown, issued, accepted>>

\* 409 when an input is no longer what the model was given.  The output is
\* read here; comparing it last, as the code does, decides the same.
CheckState(t) ==
    /\ pc[t] = "check"
    /\ IF docs["state"] = op[t].base /\ modules[op[t].author] = op[t].output
         THEN Goto(t, "check_brief") /\ UNCHANGED <<op, lock>>
         ELSE Finish(t)
    /\ UNCHANGED <<files, prev, modules, pending, live, shown, issued, accepted,
                   closed>>

\* Mutant of CheckBrief: an edited brief does not matter.
CheckNoBrief(t) ==
    /\ pc[t] = "check_brief"
    /\ Goto(t, "reread")
    /\ UNCHANGED <<files, prev, modules, lock, pending, live, op, shown, issued,
                   accepted, closed>>

CheckBrief(t) ==
    /\ pc[t] = "check_brief"
    /\ IF docs["brief"] = op[t].brief
         THEN Goto(t, "reread") /\ UNCHANGED <<op, lock>>
         ELSE Finish(t)
    /\ UNCHANGED <<files, prev, modules, pending, live, shown, issued, accepted,
                   closed>>

----------------------------------------------------------------------------
(* Writing a document: the backup, then the file.                           *)

\* A save backs up the text it compared; write_state reads the file again.
Reread(t) ==
    /\ pc[t] = "reread"
    /\ op' = [op EXCEPT ![t].old = docs["state"]]
    /\ Goto(t, "backup")
    /\ UNCHANGED <<files, prev, modules, lock, pending, live, shown, issued,
                   accepted, closed>>

\* Mutant of WriteBackup: the text about to be written is backed up.
BackupNew(t) ==
    /\ pc[t] = "backup"
    /\ prev' = [prev EXCEPT ![op[t].kind] = op[t].new]
    /\ Goto(t, "write")
    /\ UNCHANGED <<files, modules, lock, pending, live, op, shown, issued,
                   accepted, closed>>

WriteBackup(t) ==
    /\ pc[t] = "backup"
    /\ prev' = [prev EXCEPT ![op[t].kind] = op[t].old]
    /\ Goto(t, "write")
    /\ UNCHANGED <<files, modules, lock, pending, live, op, shown, issued,
                   accepted, closed>>

WriteSaved(r) ==
    /\ pc[r] = "write" /\ op[r].id = 0
    /\ docs'  = [docs EXCEPT ![op[r].kind] = op[r].new]
    /\ since' = IF op[r].kind = "state" THEN {op[r].new} ELSE since
    /\ shown' = [shown EXCEPT ![r] = [kind |-> op[r].kind, doc |-> op[r].new]]
    /\ Finish(r)
    /\ UNCHANGED <<prev, modules, pending, live, issued, accepted, closed>>

WriteProposed(t) ==
    /\ pc[t] = "write" /\ op[t].id # 0
    /\ docs'     = [docs EXCEPT !["state"] = op[t].new]
    /\ since'    = (IF t = Job THEN since ELSE {}) \cup {op[t].new}
    /\ live'     = live \ {op[t].id}
    /\ closed'   = closed \cup {op[t].id}
    /\ accepted' = accepted \cup {<<op[t].author, op[t].output>>}
    /\ IF t = Job THEN Finish(t) ELSE Goto(t, "pop") /\ UNCHANGED <<op, lock>>
    /\ UNCHANGED <<prev, modules, pending, shown, issued>>

\* Mutant of PopApproval: the applied approval stays at the desk.
PopNothing(r) ==
    /\ pc[r] = "pop"
    /\ Finish(r)
    /\ UNCHANGED <<files, prev, modules, pending, live, shown, issued, accepted,
                   closed>>

\* The applied approval leaves the desk and the client gets the new state.
PopApproval(r) ==
    /\ pc[r] = "pop"
    /\ pending' = None
    /\ shown'   = [shown EXCEPT ![r] = [kind |-> "state", doc |-> docs["state"]]]
    /\ Finish(r)
    /\ UNCHANGED <<files, prev, modules, live, issued, accepted, closed>>

\* Mutants of WriteFails: the lock is kept after the error; or the thread
\* starts its check again, as often as the write fails.
WriteFailsLocked(t) ==
    /\ pc[t] \in {"backup", "write"}
    /\ Goto(t, "idle")
    /\ op' = [op EXCEPT ![t] = NoEdit]
    /\ UNCHANGED <<files, prev, modules, lock, pending, live, shown, issued,
                   accepted, closed>>

WriteRetries(t) ==
    /\ pc[t] \in {"backup", "write"}
    /\ Goto(t, IF op[t].id = 0 THEN "compare" ELSE "check")
    /\ UNCHANGED <<files, prev, modules, lock, pending, live, op, shown, issued,
                   accepted, closed>>

\* atomic_write_text raises SidaError and leaves the old file as it was: the
\* save, the approval or the open ends there.
WriteFails(t) ==
    /\ pc[t] \in {"migrate", "backup", "write"}
    /\ Finish(t)
    /\ UNCHANGED <<files, prev, modules, pending, live, shown, issued, accepted,
                   closed>>

\* The server stops at any point and starts again; clients keep their pages.
Restart ==
    /\ lock'    = Free
    /\ pending' = None
    /\ live'    = {}
    /\ pc'      = [t \in Threads |-> "idle"]
    /\ op'      = [t \in Threads |-> NoEdit]
    /\ closed'  = 1..issued
    /\ UNCHANGED <<files, prev, modules, shown, issued, accepted>>

----------------------------------------------------------------------------
\* A thread going on with what it has begun.
Continue(t) ==
    \/ t \in Requests /\ (CompareRevision(t) \/ WriteSaved(t) \/ PopApproval(t)
                           \/ OpenProject(t))
    \/ t = Job /\ Hold
    \/ MigrateWrite(t) \/ ReadState(t) \/ ReadInputs(t) \/ NoProposal(t)
    \/ \E text \in Texts, empty \in BOOLEAN : ModelAnswers(t, text, empty)
    \/ CheckState(t) \/ CheckBrief(t) \/ Reread(t)
    \/ WriteBackup(t) \/ WriteProposed(t) \/ WriteFails(t)

\* A client's new request.
Begin(r) ==
    \/ \E k \in Kinds : ReadDocument(r, k)
    \/ \E text \in Texts, records \in Records : SaveDocument(r, text, records)
    \/ \E a \in Agents : ProposeState(r, a)
    \/ \E id \in 1..issued : ApplyState(r, id) \/ DiscardState(r, id)

Next ==
    \/ \E r \in Requests : Begin(r)
    \/ OpenJob \/ \E a \in Agents : RunModule(a)
    \/ \E t \in Threads : Continue(t)
    \/ Restart

Spec == Init /\ [][Next]_vars

\* Requests come or do not come, and the server need not restart.  A thread
\* that has begun goes on: file calls return and every model call has a
\* timeout (sida/providers.py).
FairSpec == Spec /\ \A t \in Threads : WF_vars(Continue(t))

----------------------------------------------------------------------------
TypeOK ==
    /\ docs \in [Kinds -> Document]
    /\ prev \in [Kinds -> Document \cup {None}]
    /\ modules \in Records
    /\ lock \in Threads \cup {Free}
    /\ pending \in Edit \cup {None}
    /\ live \subseteq 1..issued
    /\ pc \in [Threads -> Steps]
    /\ op \in [Threads -> Edit]
    /\ shown \in [Requests -> [kind: Kinds, doc: Document]]
    /\ issued \in 0..MaxProposals
    /\ accepted \subseteq Agents \X Versions
    /\ closed \subseteq 1..issued
    /\ since \subseteq Document

\* What document k has been since a request last saved or applied one.
Window(k) == IF k = "state" THEN since ELSE {docs["brief"]}

\* A request's save or approval of document k: the designer's own writing.
DesignerWrites(r, k) ==
    /\ pc[r] = "write" /\ pc'[r] # "write"
    /\ op[r].kind = k /\ docs'[k] # docs[k]

\* No designer's write goes over another's that its author was not shown: a
\* save was made from a version the document has had since the last of them,
\* an approval from such a state and from the very brief there is
\* (EditingService "serialize writes"; docs/state-editing.md: 409 when an
\* input changed).  What may come in between is the program's own writing
\* without the lock: a job's migration, or its own approval in "auto" mode.
NoStaleWrite ==
    [][\A r \in Requests, k \in Kinds :
         DesignerWrites(r, k) =>
             /\ op[r].base \in Window(k)
             /\ op[r].id # 0 => op[r].brief = docs["brief"]]_vars

\* The backup that a designer's write leaves is of the version it replaces, or
\* of one that only the program's own writing took from under it; and no
\* backup is ever of an older version, whichever write fails after it -- such
\* a failure leaves the current version as its own backup.
BackupKeepsPrevious ==
    [][\A k \in Kinds :
         /\ prev'[k] # prev[k] => prev'[k] \in Window(k)
         /\ (\E r \in Requests : DesignerWrites(r, k)) => prev[k] \in Window(k)]_vars

\* An output that no accepted proposal was made from is shown to the Conductor
\* as not yet in the state, whoever edits what in between.
FreshUntilAccepted ==
    \A a \in Agents : modules[a] # 0 /\ <<a, modules[a]>> \notin accepted
                         => a \in FreshModules

\* A proposal that was applied, skipped or replaced is never applied again.
ClosedStaysClosed ==
    \A t \in Threads :
        op[t].id # 0 /\ pc[t] \in {"check", "check_brief", "reread", "backup", "write"}
            => op[t].id \notin closed

\* The approval a client is shown can still be answered, except in the moment
\* between its write and its removal.
PendingCanBeAnswered ==
    pending # None =>
        \/ pending.id \in live \ closed
        \/ \E r \in Requests : lock = r /\ pc[r] = "pop"

----------------------------------------------------------------------------
(* The inductive invariant behind the safety properties, one named part per *)
(* idea.  StateApprovalProofs proves that every step keeps it.              *)

Applying == {"check", "check_brief", "reread", "backup", "write"}

\* A request that has begun is the lock's holder, the job thread never is;
\* and the job thread takes only the steps its mode has.
LockInv ==
    /\ \A r \in Requests : (pc[r] # "idle") <=> (lock = r)
    /\ \A r \in Requests : pc[r] \notin {"hold", "ready"}
    /\ lock # Job
    /\ pc[Job] \in {"idle", "migrate", "ready", "read_state", "read_inputs", "model"}
                  \cup (IF Mode = "auto" THEN Applying ELSE {"hold"})

\* A request opens the project for a proposal; and what a proposal is made in.
Opening == {"open", "migrate"}
Making  == {"read_state", "read_inputs", "model"}

\* What the edit e of thread t is while t is at this step.
EditAt(t, step, e) ==
    /\ step \in {"idle", "ready", "compare", "open", "migrate"} \cup Making => e.id = 0
    /\ step \in {"idle", "ready", "migrate"} => e.kind = "state"
    /\ step \notin {"backup", "write", "pop"} => e.old = Blank
    /\ step \in {"hold", "check", "check_brief", "reread", "pop"} => e.id # 0
    /\ t = Job /\ step \in {"backup", "write"} => e.id # 0
    /\ e.id # 0 \/ step \in Making \/ (t # Job /\ step \in Opening)
          => e.kind = "state" /\ e.author \in Agents

EditInv == \A t \in Threads : EditAt(t, pc[t], op[t])

\* The two are one proposal, whatever has been read for its backup.
SameProposal(e, f) ==
    /\ e.id = f.id /\ e.author = f.author /\ e.output = f.output
    /\ e.base = f.base /\ e.brief = f.brief /\ e.new = f.new

\* A proposal has one place at a time: with the job thread, or at the desk,
\* where the request applying it works on a copy.
ProposalInv ==
    /\ pending # None =>
          /\ pending.id # 0 /\ pending.kind = "state" /\ pending.author \in Agents
          /\ pending.old = Blank
    /\ pending # None /\ pending.id \notin live \ closed =>
          \E r \in Requests : lock = r /\ pc[r] = "pop"
    /\ PendingIds \cup {op[t].id : t \in Threads} \subseteq 0..issued
    /\ op[Job].id # 0 => op[Job].id \in live \ (closed \cup PendingIds)
    /\ \A r \in Requests : pc[r] \in Applying \cup {"pop"} /\ op[r].id # 0 =>
          /\ pending # None /\ SameProposal(pending, op[r])
          /\ pc[r] # "pop" => op[r].id \in live \ closed

\* What a request has compared is of the document's window still, and a brief
\* still stands: the job's thread writes the state only.  Outside "auto" mode
\* nobody else makes backups.
ComparedInv ==
    /\ docs["state"] \in since
    /\ \A r \in Requests :
          /\ pc[r] \in {"check_brief", "reread", "backup", "write"} =>
                op[r].base \in Window(op[r].kind)
          /\ pc[r] \in {"reread", "backup", "write"} /\ op[r].id # 0 =>
                op[r].brief = docs["brief"]
          /\ pc[r] \in {"backup", "write"} => op[r].old \in Window(op[r].kind)
          /\ Mode # "auto" /\ pc[r] = "write" => prev[op[r].kind] = op[r].old

\* Every version that some document records is in S.
RecordsIn(doc, S) ==
    \A a \in Agents : doc.reflected[a] # 0 => <<a, doc.reflected[a]>> \in S

EditRecords(e) == RecordsIn(e.new, accepted \cup {<<e.author, e.output>>})

\* Records are of accepted outputs, in the files and in everything on its way
\* into a file.
RecordsInv ==
    /\ \A k \in Kinds : RecordsIn(docs[k], accepted)
    /\ \A t \in Threads :
          /\ pc[t] \in {"migrate", "read_inputs", "model"} =>
                RecordsIn(op[t].base, accepted)
          /\ op[t].id = 0 /\ pc[t] \in {"backup", "write"}
                => RecordsIn(op[t].new, accepted)
          /\ op[t].id # 0 => EditRecords(op[t])
    /\ pending # None => EditRecords(pending)

\* What a client saves is what its editor has open, with the records of that;
\* what a model call makes is of an output that exists, and takes over no
\* record but that one; and a request that makes a proposal has cleared the desk.
MadeInv ==
    /\ \A r \in Requests :
          /\ op[r].id = 0 /\ pc[r] \in {"compare", "backup", "write"} =>
                op[r].kind = shown[r].kind /\ op[r].base = shown[r].doc
          /\ op[r].id = 0 /\ pc[r] \in {"backup", "write"} =>
                op[r].new.reflected = op[r].base.reflected
          /\ pc[r] \in Opening \cup Making => pending = None /\ modules[op[r].author] # 0
    /\ \A t \in Threads :
          /\ pc[t] \in Making => modules[op[t].author] # 0
          /\ pc[t] = "model" \/ (t = Job /\ op[t].id # 0) =>
                op[t].output \in 1..modules[op[t].author]
    /\ op[Job].id # 0 =>
          op[Job].new.reflected \in
              {op[Job].base.reflected,
               [op[Job].base.reflected EXCEPT ![op[Job].author] = op[Job].output]}

DeskInv ==
    TypeOK /\ LockInv /\ EditInv /\ ProposalInv /\ ComparedInv /\ RecordsInv /\ MadeInv

----------------------------------------------------------------------------
(* The contract.                                                            *)

\* The detailed desk keeps an approval for one more moment after its write.
BeingPopped == \E r \in Requests : pc[r] = "pop"

Offered == IF BeingPopped THEN None ELSE pending

Contract == INSTANCE ApprovalContract WITH offer <- Offered, spent <- closed

\* The threads, locks, re-reads, backups and migrations add up to the contract: outside
\* "auto" mode every behaviour of the desk is one of ApprovalContract.
KeepsContract == Contract!Spec

----------------------------------------------------------------------------
\* A thread that has the project's lock gives it back: no request of the
\* project waits for ever, although the lock is kept across model calls.  And
\* a job's open and an expert's turn in "auto" mode end, however busy the
\* clients keep the lock: they wait for no approval and for no request.
LockIsGivenBack ==
    /\ \A t \in Threads : (lock = t) ~> (lock # t)
    /\ (pc[Job] \notin {"idle", "ready"}) ~> (pc[Job] \in {"idle", "ready"})
=============================================================================
