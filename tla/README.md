# Sida in TLA+

Sida is a local web application for architects: a conversation with a *Conductor*
model that runs *expert* models, whose outputs are files of a project folder; a
shared `project_state.md` that the designer approves changes to; a *drawing
table* of papers; and a queue of usage records. The server is one Python process.
FastAPI answers each request in a thread of a pool, every conversation runs as a
*job* in a thread of its own, and a background thread sends usage records.
Everything is kept in plain files, written atomically one at a time
(`sida/storage.py`); nothing spans two files.

These modules model what can go wrong in that arrangement: threads that meet in
a lock or miss each other, model calls that last minutes and may fail, files that
are written one by one, a server that stops at any moment, limits that are
counted in several places.

## 1. The system's parts

| Part (source) | State | Operations | Talks to | What is hard | What makes it correct |
|---|---|---|---|---|---|
| Approval of state changes (`editing.py`, `project_documents.py`, `state_revisions.py`, `document_api.py`) | `brief.md`, `project_state.md` and their `.prev.md`; per project a lock and one pending approval; a proposal is also its session's `pending_state` | read, save, propose, hold, apply, discard, forget | jobs (`hold`), engine (`propose_state`, `apply_state`), the web clients | lock held across a model call; job thread writes without it in `auto`; every open may rewrite the state without it; two-step approval; backup then file | no designer's write goes over another's its author was not shown; one live approval, always answerable, never reused; backup is of what a designer's write replaces; honest reflection records |
| State updater (`state_updater.py`) | none | read a model's answer, apply it to the state file, tell the card what changes | the above | model answers anything, designers write anything | an approval does what its card says and no more |
| Conversation jobs (`session_jobs.py`, `session_api.py`) | registry of jobs, the active job of each project, a guard | start (opening, message, expert, chat), poll, prune, end, edit info, delete project | engine, editing, telemetry | check-then-lock on folders, guard taken around other locks, an emitter that waits for a lock kept across a model call, pruning, exceptions before and in the job's `try` | one job per project; it keeps its folder; over means free; everything comes to rest |
| Conductor exchange and expert runs (`engine.py`, `conductor.py`, `expert_chat.py`, `worker.py`) | the session: history in memory and file, outputs, transcript | one exchange, reads, paper proposals, expert run, state step, notes | providers, board, editing through events | nested loops with separate limits; failure at every call; notes written after outputs | bounded work; chain stops at a waiting proposal and at held experts; history agrees with what ran |
| Projects, talks (`workspace.py`, `project.py`, `talks.py`, `migrate.py`) | folders and files | create, open (which repairs and migrates), rename, delete; talks with tombstones | everything | several files per operation, a crash or a refused write between any two, no lock while a project is made or opened | jobs work in whole projects; a talk's number means one talk; a refused delete keeps the talk |
| Drawing table (`board.py`, `board_api.py`) | `board.json`, photo files, one lock | papers, photos, AI section, idea board, hidden buildings | engine (proposals, expert results), the browser | three places a paper can be, two kinds of storage, clearing by age, trimming | one paper per id, photo has its file, links keep their paper, nothing of the designer's is lost |
| Drawing table in the browser (`webui/app`) | undo history, the last board read | gestures, undo and redo as inverse requests | the API | inverse edits against a changed board | undo restores or changes nothing |
| Usage records (`telemetry.py`, `collector/app.py`) | `queue.jsonl`, the switch, the collector's table | record, trim, switch, flush | the network, settings | batch on the network while the file changes; lost answers | each record stored at most once and in order, lost only for a stated reason |
| ChatGPT sign-in (`chatgpt_auth.py`, `chatgpt_api.py`) | tokens in a file, sign-ins in progress, one lock | start and finish a sign-in, sign out, give a token, refresh it | the sign-in server, providers, the settings screen | a refresh on the network while others sign in and out; a lost answer leaves the server ahead; a second callback | signed out stays signed out; no refresh token is used twice by Sida's own making |
| Model calls (`providers.py`, `runtime.py`, `ollama_boot.py`) | which models refused tools | one call with its retries; tools, text, recovery and correction calls; the start of a local Ollama | servers, sign-in | retries of retries; every server fails in its own way | a bounded number of requests; every call ends |
| Context and budgets (`conductor_context.py`, `worker.py`, `conductor.py`) | none | cut the history, share the input budget, order the messages | engine | boundaries; a correction call that nothing is trimmed for | an expert's prompt keeps the context, shares are fair, no saved output is kept from the next model |
| Site and regulation experts (`experts/site`, `experts/regulation`) | `site_facts.json` of each project; the last search's problem | look parcels up, attach ordinance and limits, check and remove uses, hide and pick articles, write the facts block, search laws | six public services, jobs | read, minutes of network, write, without a lock; any call may fail; choices kept by an ordinance's name | the parts of a saved site belong together; choices stay with the ordinance; what is unknown is said; warnings are of one's own search |
| Settings (`settings.py`, `config.py`) | `config.local.yaml`, `.env` | save a patch, save a key | everything that reads the configuration | read, change, write without a lock | (section 7) |
| Site surroundings, Rhino, model base, export, console | child processes, drawings | geometry, conversions | external programs and services | external | not modelled, section 7 |

## 2. The modules

| Module | Models | Role |
|---|---|---|
| `StateApproval` | the documents of one project, the desk and the threads at it, migration on open included; every file access and every atomic write a step | core |
| `ApprovalContract` | the promise of `docs/state-editing.md`: atomic saves and approvals, the program's upkeep of the state's rows, no threads, locks, backups or sessions | abstract specification |
| `MCStateApproval` | instances | TLC |
| `StateApprovalProofs` | the inductive invariant, the properties of the desk, the refinement of `ApprovalContract`, and what a card tells | TLAPS |
| `SessionJobs` | projects by name, requests that find and then lock, job threads, editing locks by identity | core |
| `MCSessionJobs` | instances, symmetry | TLC |
| `SessionJobsProofs` | the registry's inductive invariant and three theorems | TLAPS |
| `ConductorTurn` | one job from its start to its end, over all answers and failures | core |
| `ConductorTurnProofs` | its inductive invariant and what follows, the inputs of its models | TLAPS |
| `TelemetryQueue` | recorders, the switch, the sender and the collector | core |
| `TelemetryQueueProofs` | its inductive invariant and three theorems | TLAPS |
| `DrawingTable`, `MCDrawingTable` | the board, the photo files and time | core |
| `DrawingTableProofs` | its inductive invariant and four theorems | TLAPS |
| `ProjectFolder`, `MCProjectFolder` | the files of one project name, each written alone, by threads that stop, fail and meet; talks and their tombstones; migration on open | core |
| `ProjectFolderProofs` | its inductive invariant and three theorems | TLAPS |
| `ChatGptSignIn` | the stored sign-in, its lock, and the sign-in server as far as Sida sees it | component of `ModelCalls` |
| `ModelCalls`, `MCModelCalls` | a job's model calls over `ChatGptSignIn`: providers, retries, tools and text, corrections, Ollama's start | composition |
| `ModelCallsProofs` | the inductive invariant of the stored sign-in under all those calls, the account of requests, and three theorems | TLAPS |
| `PublicData` | what the public services answer and how each client of them takes a failure | component of `SiteFacts` |
| `SiteFacts`, `MCSiteFacts` | `site_facts.json` between lookups, uses and choices that overlap, what the experts are told of it, and the law search | composition |
| `SiteFactsProofs` | its inductive invariant and four theorems | TLAPS |
| `InputBudget` | the budget of an expert's inputs, the cutting of outputs, the slicing of a talk, the Conductor's messages: functions of their arguments | pure |
| `MCConductorTurn` | `ConductorTurn` with `InputBudget`: what of its outputs a job's models are sent | TLC |
| `StatePatch` | reading a model's answer, patching `project_state.md`, the approval card: functions | pure |
| `MCProposals` | `StateApproval` with `StatePatch`: what a proposal on the desk does | TLC |

`StateApproval` and `SessionJobs` overlap where the real parts do: the first
looks inside the editing lock of one project that exists, the second at the
locks' identities while projects come and go and sees an edit only as being
inside. `ConductorTurn` refines what a job does between `OpenJob` and `EndWork`
of `SessionJobs`, and its `SettleState` is the job thread of `StateApproval`.
`ProjectFolder` looks inside the folder that `SessionJobs` calls a project or a
ghost; of the jobs it keeps the guard and who is active. `ModelCalls` is inside
one call of `ConductorTurn`, `InputBudget` before it; `StatePatch` is between the
answer and the proposal of `StateApproval`.

How the state corresponds to the code:

* `StateApproval`: `docs`/`prev` are the files, a document being its body and the
  record comment (`sida-module-revisions`); revisions (hashes) are compared as
  contents, which assumes no collision. `lock` and `pending` are the entries of
  `EditingService` for the project, `live` the sessions whose `pending_state`
  is their proposal, `pc`/`op` the threads. The lock is an `RLock`; no handler
  re-enters it in a way the model would show. `shown` is what a client's editor
  holds. Whoever opens the project, a job without the lock (`OpenJob`) or a request
  for a proposal with it (`OpenProject`), runs `migrate_project`: it reads the state,
  and when `Synced` gives another body than it read, `MigrateWrite` writes that with
  the records it read, over whatever the file is by then and with no backup.
  `accepted`, `closed` and `since` are history variables that no guard reads;
  `since` is every version of the state since a designer last wrote it.
* `SessionJobs`: `folder` is `project` when `brief.md` is there, `ghost` when only
  other things are; `life` counts the projects of a name; `locks[p]` is which
  lock object the name has now, `owner` who is inside each. A job is `registered`
  when the request has started it, `stranded` when its thread failed before the
  `try` of `_work`, `opening`, `working`, `waiting` for the editing lock that its
  emitter needs, `holding` it, `leaving` and `over`.
* `ConductorTurn`: `turn` is the locals of `conductor_turn`, `ran` the outputs
  saved, `memory`/`file` the history in memory and on disk, reduced to whether
  they hold the message, a reply and the notes of how many runs.
* `TelemetryQueue`: records are numbered in the order they were made.
* `ProjectFolder`: `parts` are the files by name, `state` what the state file says
  as far as a client's save or a migration changes it, `file` a talk's number of
  messages, `own` what a thread has read and means to write. `given`, `gone`,
  `torn` and `wiped` are history.
* `ChatGptSignIn`: a sign-in is its number; a session knows its sign-in, its
  client id and how often its refresh token was turned over; `alive` is what the
  server still accepts. `ModelCalls` adds to each thread the kind of provider,
  the mode of its call, its attempts (of the round and, in a second round without
  thinking, of the one before it) and its calls.
* `SiteFacts`: `file` is `site_facts.json` with, for every part, what it was made of
  (`of`), so that parts of two sites can be told apart; an answer of a service is
  one of the kinds its client distinguishes. What the land-use rows of a parcel can
  give is in constants: a statutory zone (`Zoning`), a zone code (`Coded`), a zone
  in the characteristics (`Recorded`). An ordinance has a body and a name (`Title`)
  that two bodies may share, as their names carry no province; its articles on
  districts are `Local`, and `Within` says which parcels lie in one. `picked` and
  `alone` are history.
* `InputBudget`: a text is its length and the length of its Handoff section. An
  expert without `inputs` is given whatever the session holds (`legacy`); the one
  correction that `run_worker_agent` sends when headers are missing is the same
  prompt with the whole answer and a notice (`CorrectionPrompt`).
* `StatePatch`: a state file is its fields, its rows and its sections in order;
  texts say something, nothing, or are a template's list of options.
* `DrawingTable`: papers are id, kind, file, expert and origin. `files` maps a
  photo file to its age. A removal is written to the board first (`DeletePaper`) and
  its file touched after (`DeleteTouches`); `removed` is recorded with the board's
  write, and a server that stops between the two leaves it marked `stopped`.
  `removed`, `made` and `meant` are history.

Each module's action comments name what they stand for; `PROJECT.json` maps each
definition to the lines. Operators marked "mutant" are the mistakes the
properties are tested with; no specification uses them.

## 3. The runs

Every configuration switches the deadlock check off: in all of these systems the
bounds on counters (versions, proposals, jobs, records) end a behaviour, and a
finished conversation or an idle server is a legitimate end. That nothing gets
stuck before is the subject of the liveness properties.

### Runs that pass

| Run | Bounds | Question |
|---|---|---|
| `approval_clients` | 2 clients, 1 expert, 2 texts, 1 version, 1 proposal | Do saves, approvals, the job thread and migrations respect each other, and is the desk an implementation of its contract? |
| `approval_replace` | 1 client, 2 versions, 2 proposals; files of 2 experts and 2 sections with caps 1 and 2, answers of up to 3 lines | Can an old proposal come back, is an output hidden from the Conductor, is the backup of what a designer's write replaced, does the card tell what an approval does? |
| `approval_auto` | 1 client, mode `auto`, fair threads | Is the lock given back and does an expert's turn end where the job applies its own proposals? |
| `jobs` | 2 requests, 2 jobs, a name used twice, no finished job remembered, fair threads | Do jobs, deletes, info edits and polls exclude each other as they should, and does everything come to rest when clients begin nothing new? |
| `turn` | 2 experts, one held; 3 runs, 2 reads, 3 papers: the code's own limits. Lengths scaled down: notice 4, margin 14, up to 3 outputs, 6 messages | Is a message's work bounded, the chain stopped, the history truthful, do saved outputs reach the next model, are inputs cut as they should? |
| `telemetry` | 5 records, one malformed, queue of 3, batches of 2, one switch | Is anything doubled, reordered, stuck, or lost without a stated reason? |
| `table` | 2 ids and the site, AI section of 1, 2 ideas of 1 link, a day of 1 tick | Are papers kept apart and kept, have photos their files, do links keep their papers? |
| `folder` | 2 threads, 2 talk numbers, one life of the name (`MaxLives`), 1 message, 1 edit, 1 fault | Do jobs find whole projects, is a number one talk, does a refused delete keep its talk? |
| `calls` | a request thread and a job, 2 sign-ins, 1 expiry, ChatGPT and Ollama, 2 attempts | Can an old account come back, does Sida end its own sign-in, are requests bounded, does every call end? |
| `site` | 2 requests and a job, 3 parcels of 3 bodies, one renumbered, one without a statutory zone, two bodies with one ordinance name, 3 requests or runs, at most 1 of them a run, 1 failure | Do the parts of a saved site belong together, do choices stay with the ordinance, are experts told what is unknown, is a warning one's own? |

Why the bounds are enough: two clients, two proposals and two versions give each
of the races described in section 1 with one more party than it needs; texts
matter only as equal or different; a project name used twice is what tells the
project found from the project there now; a queue two batches long with one
malformed record has every relation of head, batch and trim; a table with the
site and two photos, one of them held, has every overlap of use and clearing.
Two sign-ins are the old and the new account, and one expiry makes every token
of either due once. ChatGPT and Ollama are the providers with something of their
own to do (a token, a start); the two with an API key take the same steps with
fewer, and two attempts give a first and a last one in each of two rounds. Two parcels of
two bodies are the least that can be mixed, and a third is one whose body's
ordinance has the first's name; three requests are a lookup, a choice and a lookup
elsewhere, and a run, which leaves the file alone, has two beside it; one failure
may be of any service at any moment. The functions of `InputBudget` are compared at lengths on both sides
of each of their cuts (the notice, a third of it, the margin), those of
`StatePatch` at answers above and below the caps.
What more parties could add to the safety of these systems is covered by the proofs
of section 5.

Symmetry (`Interchangeable`) is used only in runs without liveness properties and
only over model values that the module treats alike.

### Runs that find a disagreement

Each checks one statement of a comment, docstring or document; the counterexample
is a short behaviour of the code.

| Run | Statement | What happens |
|---|---|---|
| `turn_unsent` | without `after_run` the message was not recorded | the second call of the first exchange fails after the first was stored |
| `site_choices` | a site looked up again keeps what the designer hid | the ordinance cannot be read this time; the file is saved without it, and the choices with it |

### Other behaviours the models have

Met while modelling and left in the models, because the code has them; no run
lists a property about them.

* A request that found a project's folder before a delete makes `talks/` or
  `modules/` again (`NewTalk`, `OpenForProposal`: folder `ghost`), and the name
  can then not be used. `workspace.delete_project` says it removes everything.
* `EditingService.forget` does not wait for a proposal at its model call, which is
  then kept for the next project of the name (`KeepProposal` after `Forget`).
* The three papers the Conductor may put in the AI section are counted per
  exchange and start again after each expert run (`NewTurn` in `NoteRun`), while
  `MAX_PAPERS_PER_TURN` is documented per message.
* The first run of an opening may be a held expert: `Skipped` asks for an earlier
  run only.
* A run that breaks with an exception leaves `running_agent` set (`Breaks`).
* A recorder that looked at the settings before sending was switched off still
  queues its record after the queue was cleared (`AppendRecord`).
* `place_paper` does not count, so the table may exceed `MAX_PAPERS`
  (`PlacePaper`).
* An expert's next result, or a trim of the AI section, takes a linked paper away
  and the designer's link with it (`ExpertResult`, `Load`).
* In `auto` mode check and write are not under the lock: a designer's save
  between them is overwritten (`engine.py:716`), though changed inputs are said
  to mean `DocumentConflict`. `NoStaleWrite` is about the designers' own writes and
  does not forbid it.
* A job's open migrates the state without the lock and without a backup: a
  designer's save between its read and its write is lost, and a designer's write may
  go over the migration's (`MigrateWrite`, `migrate.py:168-177`). `NoStaleWrite`,
  `BackupKeepsPrevious` and the contract allow for the program's own writing and
  say what still holds beside it.
* A job whose thread cannot be started, or whose observer cannot be made
  (`session_jobs.py:282`, `:322`), is before the `try` of `_work` and stays active:
  its project is refused every message until the server restarts (`stranded`).
* `SessionJobs.delete_project` forgets the editing lock after it gave the guard
  back, and so may drop the lock of a project just made under the same name: two
  editors at a time (`session_jobs.py:309`).
* A queue trimmed while its head is on the network loses as many records more,
  as the batch is dropped by its length (`telemetry.py:335`).
* A photo that leaves together with the idea that held it is cleared by the next
  upload, without its day (`board.py:553`). So is one whose removal the server
  stopped in, between the board's write and the touch of its file
  (`board.py:259-262`), though `docs/board-api.md` gives a removed photo a day.
* An upload whose board cannot be written leaves its file, since `atomic_write_text`
  raises `SidaError` and the handler waits for `OSError` (`AddPhotoFails`).
* `ProjectFolder`: the creator of a project writes its empty history last and may
  overwrite a conversation begun meanwhile (`wiped`). A creation cut short between
  `mkdir` and the brief leaves a folder that blocks its name. Jobs of experts write
  the first talk even when it was deleted. `talk_ids` lists "01" of a folder that is
  gone, so that `delete_talk` can make a ghost. Migration on open reads the state,
  and a client's save before its write is lost (`migrate.py:146`).
* `ChatGptSignIn`: a refresh whose answer was lost is tried again with a token the
  server may have replaced already, which ends the sign-in (`ended`).
* `SiteFacts`: `set_option` and `check_use` of one screen and `refresh` of another
  each write the whole file, and the earlier one is lost. If the list of regions
  cannot be read, a parcel of a merged province silently has no rows
  (`_other_numbering`), though failures are said to be recorded. An expert reads the
  file three times and may be told of two sites. Two searches that overlap share
  `_last_problem`. Ordinances are compared by name only and names carry no province,
  so that choices pass between bodies that share one, such as the two 고성군
  (`site_facts.py:137-141`).
* `StatePatch`: an answer that cannot be read still sets the expert's row to `done`
  and empties its takeaway. An answer with a status only is not recorded as
  reflected. Without a Module Status table the row is lost. A heading that stands
  twice in a file is patched at its first place and shown from its last; the
  property is about files without one. A proposal whose only difference is the
  date has an empty card.
* `InputBudget`: a cut whose share is smaller than the notice itself is longer than
  its share; the margin covers it (`MarginHolds` counts such cuts). The correction
  call sends the answer on top of inputs that were trimmed without it and leaves no
  room for the new answer (`worker.py:386-405`); `OverrunIsBounded` says by how much.
  What the Conductor is sent besides the history has no limit at all. Without a
  state file the Conductor is not told that older turns were left out.

## 4. Fairness

* `StateApproval`, `SessionJobs`: weak fairness of each thread's next step once
  its request or job has begun (`Continue`, `Work`): the operating system runs
  runnable threads and every provider call has a timeout
  (`providers.py`), so a model call ends. No fairness for beginning a request
  nor, in `SessionJobs`, for a lock being won against others: `JobsEnd` supposes
  only that clients begin nothing new from some time on (`NoNewRequests`), which
  leaves every request that waits for a lock, keeps one or keeps the guard to go
  on. A deadlock among them would violate it: its mutant lets a proposal be kept
  under the guard. A `stranded` job is exempt by name.
* `ConductorTurn`: weak fairness of the one thread.
* `ModelCalls`: strong fairness of each thread's next step once it is in the middle
  of something: every request has a timeout and every wait a deadline, and the lock
  of the sign-in is held only for file accesses and for one refresh of at most 30
  seconds, so that a thread waiting for it has its turn. Nothing is assumed of the
  servers but that a request ends.
* `TelemetryQueue`: the sender loops for ever (`start_flusher`); strong fairness
  says that the server is not restarted before every read and the network not
  down at every post. Without it a record may wait for ever, rightly.

## 5. What is proved

`StateApprovalProofs` proves, for any number of experts, clients, texts,
versions and proposals, from the assumptions on the constants named in
`StateApproval` (`ConstantsAssumption`: experts, threads and the lock's free
value are told apart; `NoneAssumption`: the empty approval is no approval):

* `DeskInvariant`: `Spec => []DeskInv`, in every mode;
* `NoStaleWriteHolds`, `FreshUntilAcceptedHolds`, `ClosedStaysClosedHolds`,
  `PendingCanBeAnsweredHolds` in every mode;
* `BackupKeepsPreviousHolds`, outside `auto` mode (in `auto` the job makes backups
  beside a request's);
* `KeepsContractHolds`, outside `auto` mode: the desk with its threads, lock,
  re-reads and backups implements `ApprovalContract`.

The argument. None of the properties is inductive: that a write replaces what
its author saw depends on who may move between the comparison and the write.
`DeskInv` adds this. `LockInv`: a request past the first step of an edit is the
holder of the lock, and the job thread never is. `EditInv`: what the edit of a
thread looks like at each step, among others that a proposal's new document is
its base with another body and at most one new record, of the output it was made
from. `ProposalInv`: ids are used once, a pending proposal is live unless its
application is past the write, and a closed id is neither. `ComparedInv`: what a
request has compared is among the versions the state has had since a designer last
wrote it, because of the designers only the holder of the lock writes and a job or a
migration adds to those versions; the brief, which no job writes, still is what was
compared; and the text read for the backup is one of these versions. `RecordsInv`:
every record in a document, in a proposal or about to be written was accepted, or is
the one record its own approval adds. Each conjunct is preserved by every action (one
lemma per conjunct, one step per action), and the theorems follow from the invariant
and one step, by `PTL`.

The refinement maps the contract's offer to the pending proposal, except while a
request is between taking it and its answer (`Offered`), and the spent ids to
`closed`. A migration's write is the contract's `Upkeep`. The steps need one more part
of `DeskInv`: `MadeInv` says what a proposal under way was made from (an output that the author has, a base that was shown, no
other proposal meanwhile), so that keeping it is an offer of the contract. Most
steps of a thread are stutters of the contract; a write, a keeping, a discard and a
refusal are its actions.

`DeskInv` is checked by TLC in `approval_clients` first.

Of `StatePatch` it proves, from `PatchAssumption` (caps are positive, the other
headings are not in `SECTION_CAPS`):

* `EveryCardTells`: `Told` for every file with any rows, fields and sections and
  for every answer, readable or not; and from it `CardTellsAllHolds`.

The argument. The three loops (over a list's items, over an answer's sections, over
a patch's) are recursive functions; `LoopRuns` says that a loop whose every turn
stays in a set has values, and `Counting` is the induction over its turns. What each
loop keeps: a list says nothing twice (`AddItem`); a patch has no heading twice and
only sections within their caps (`ReadOne`); a file has, after n turns, the first n
sections of the patch as the first of their headings, no new heading twice, and no
other section changed (`PatchReplaces`). So replacing them again replaces each by
itself. Where no heading stands twice, the lines of a file are what `_state_parts`
reads of it (`LinesAreItems`), and a heading outside the caps reads the same before
and after, which is why the added and removed lines account for the whole file
(`CardTells`).

`ConductorTurnProofs` proves, for any experts, any set of held ones and any
limits, from `ConstantsAssumption` of `ConductorTurn` (held experts are experts,
`None` is none, one run at least is allowed):

* `TurnInvariant`: `Spec => []TurnInv`;
* `BoundedWorkHolds`, `HeldNeverChainedHolds`, `MessageKeptHolds`,
  `RunsAreToldHolds`, `RevisedMeansRanHolds`, `ProposalEndsRunsHolds`.

and of `InputBudget`, from `BudgetAssumption` (lengths are natural numbers, the notice
has its two line ends):

* `EveryInputFits`: `FitsContext`, `SharesAreFair` and `OverrunIsBounded` for every
  run of a local model with any number of outputs of any lengths, any answer and any
  notice, and `HistoryIsRecent` for every talk and window;
* `OutputsReachModelsHolds`, in every job.

The argument. The loops of `conductor_turn` and `converse` share no counter, so
`WorkInv` keeps the account: at the start of an exchange the calls made are at
most one exchange's worth per run, within it the reads and papers counted are
added, and at a run there is room for it. `ChainInv` says where a proposal can
be waiting (never at a run) and that an expert about to run after another is not
held. `HistoryInv` says at which steps the file knows of all runs, and that
memory and file agree between steps. `ChatInv` places the one run of a chat or
of the designer's command. `TurnInv` is the conjunction; TLC agrees with it over
the bounds of run `turn`.

For the inputs, `SharedSoFar` is what every turn of the loop of `fit_worker_inputs`
keeps: what is left and what was kept whole make the room, and no block kept is
longer than an equal share of what is left. At its end (`LimitsShare`) the blocks cut
have one share, which no other limit exceeds, and less is over than there are of
them. A cut block is at most its share, or a notice longer than it when the share is
small (`ClipLength`), and a sum grows by no more than its numbers do (`SumGrows`), so
the whole is within the budget but for the notices that `TooSmall` counts. For the
knowledge `TooSmall` compares what is left of it with the whole budget, since its
notice alone can be longer than that, whatever the length was before; the proof for
all lengths is what showed that this is the condition. A talk cut at a designer's
message is proved an end of itself by comparing positions (`SliceIs`, `EndOfBoth`).

`SessionJobsProofs` proves, for any projects, requests and limits, from
`ConstantsAssumption` of `SessionJobs`:

* `RegistryInvariant`: `Spec => []IInv`;
* `JobsInvHolds`, `JobKeepsFolderHolds`, `OverMeansFreeHolds`.

The argument. One job per project depends on who can have found the project's slot
free. `HandlersInv` says that only a brief edit keeps the guard from one step to
the next, so that every other look at the registry and the change made after it are
one step, and that a handler past its first step has found a project. `BornInv` says
that jobs are numbered in the order they are born, that a job which left its
project's slot is not in it again, and that a client was told "over" only of a job
that is, with all its events. With these a start finds a job number nobody has
used, a delete meets no job that works, and pruning takes only finished ones.

`ModelCallsProofs` proves, for any threads, providers, attempts and numbers of
sign-ins, from `SignInAssumption` of `ChatGptSignIn` (the lock's free value is no
thread):

* `SessionInvariant`: `Spec => []SessionInv`;
* `SessionIsCurrentHolds`, `EndsForAReasonHolds`.

The argument. That a dropped session never comes back depends on what the threads
still carry. `SignInsInv` says that a sign-in under way (at its thread or waiting
for its callback) has a number nobody else has, that was never in the file and was
never dropped. `HoldersInv` says that a thread that refreshes holds the lock and the
session which is in the file, so that what it saves replaces that session and no
other, and that a thread which revokes has a session that left the file.
`HonouredInv` says that the server honours the session in the file unless it ended it
or an answer was lost; a refusal then has one of these reasons, and no step of
another thread takes the session away while the lock is held. The steps that only
call models are one lemma (`QuietSteps`): they carry no sign-in and no session.

`RequestsAreBoundedHolds`, from `CallsAssumption` besides: a bound on the attempts of
one request says nothing of the calls, which follow each other in five modes.
`AccountInv` says how many calls each mode can have behind it, that a thread has no
attempt behind it before its first request, and that only a provider with tools is
ever in the mode with tools; how many requests of a first round lie behind a second,
which only a thinking model's failure starts; `NumbersInv` keeps the numbers of sign-ins and of
replaced tokens in their ranges.

`SiteFactsProofs` proves, for any sites, uses, threads and failures, from
`SiteAssumption` and `DataAssumption` (a site's parcels are different ones):

* `SiteInvariant`: `Spec => []SiteInv`;
* `PartsAgreeHolds`, `ChoicesAreOfThisOrdinanceHolds`, `SaysWhatIsUnknownHolds`,
  `WarnsOfItsOwnProblemHolds`.

The argument. No lock protects `site_facts.json`, so that it agrees with itself depends on
what every thread carries through its minutes of network. `CopiesInv` says that the
file is whole (its parts are of its zones, its choices of its ordinance), that a
thread which changes one part carries a whole copy, and that a lookup carries
parcels of one site and choices picked while an ordinance of the name it carries was
on file, all other parts being replaced before it writes. Whoever writes last then writes a whole file.
`SearchInv` says that a search which no other overlapped is the only one under way.

`ProjectFolderProofs` proves, for any threads, talk numbers, lives, messages and
faults, from `FolderAssumption` (at least one talk and one message are allowed):

* `FolderInvariant`: `Spec => []FolderInv`;
* `NumberMeansOneTalkHolds`, `WorkFindsAllHolds`, `RefusedDeleteKeepsTalkHolds`.

The argument. Creators and opens take no lock, deletes and jobs share a guard.
`GuardInv` says that no job runs while a delete holds the guard; `JobInv` what the
running job's open has found or made at each of its steps, none of which anybody but
a delete takes away; `DeleteInv` that a delete between its tombstone and its answer
can still take it back; `NumbersInv` that every number given out shows as a file or
a tombstone, which is what `talk_ids` looks at.

`TelemetryQueueProofs` proves, for any recorders, capacity, batch size and numbers of
records and switches, from `ConstantsAssumption` of `TelemetryQueue`:

* `QueueInvariant`: `Spec => []QInv`;
* `StoredInOrderHolds`, `QueueIsNewestHolds`, `KeptWhileThereIsRoomHolds`.

The argument. The batch is dropped by its length after the queue may have been
trimmed or cleared, so the order of what is stored is not the queue's alone to keep.
`QueueInv` says that the queue is an unbroken run ending at the last record made
(`QueueIsNewest` is this run and its bound),
`BatchInv` that the batch is a run no later than what waits, `RowsInv` that no
record older than a stored one is still to be stored, unless stored itself: storing
a batch, with the repeated ones left out, then only appends. `RoomInv` adds that
while there is room the batch is the head of the queue. What `store` makes of a
batch is a recursive function; its unfolding is proved by induction over its length.

`DrawingTableProofs` proves, for any ids, experts and limits, from `TableConstants`
and `NoneIsNothing` (a day has a tick, the AI section a place; no paper and no operation is none):

* `TableInvariant`: `Spec => []TableInv`;
* `OnePaperPerIdHolds`, `PhotosHaveFilesHolds`, `LinksKeepTheirPaperHolds`,
  `DesignerKeepsPapersHolds`.

The argument. `Apart` says that papers on the table, in the AI section and in ideas
have different ids; an operation that moves a paper takes it out before it puts it in
(`TakenOff`, `OutOfTray`, `OutOfIdeas`), so its id is free again. `Linked` says that a
link of the saved board is to its own paper exactly when a paper with its id is
there: reading the board drops the links to ids nobody has, and saving it marks those
whose paper the operation took (`Loaded`, `SavedIs`). `FilesInv` compares ages: a
removed photo's file is no older than its removal, so clearing by age cannot take it
within the day, although the board is written first and the file touched after: while
a removal is between the two the lock keeps the clearing out, and one the server
stopped in is marked so and promised nothing. `BusyInv` is what the second write of an upload or a removal
relies on. What the replacing of an expert's earlier result leaves of the AI section
is proved by induction over its length.

The parts of every inductive invariant were checked by TLC before they were proved.

Only model-checked:

* all liveness properties (`LockIsGivenBack`, `JobsEnd`, `TurnEnds`,
  `EveryRecordLeaves`, `CallEnds`), because TLAPS does not handle `ENABLED` and so
  proves nothing from fairness.

Every invariant and every action property of the passing runs is stated by a theorem.

## 6. Plan

In the order of what matters most; the first seven are built.

1. `StateApproval`, `ApprovalContract`, `StateApprovalProofs`
2. `SessionJobs`
3. `ConductorTurn`, `ConductorTurnProofs`
4. `TelemetryQueue`, `DrawingTable`
5. `ProjectFolder`; `ChatGptSignIn` and `ModelCalls`; `PublicData` and `SiteFacts`
6. `InputBudget`, `StatePatch`
7. The proofs about the rest: `SessionJobsProofs`, `ModelCallsProofs`,
   `SiteFactsProofs`, `ProjectFolderProofs`, `TelemetryQueueProofs`,
   `DrawingTableProofs`, the refinement of `ApprovalContract`, and the functions of
   `InputBudget` and `StatePatch`.
8. `TableHistory` over `DrawingTable`: undo and redo in the browser as inverse
   requests, against the AI section and a second window.
9. Saving settings: two requests that read, change and write the same file.

The runs stay few, one per question: a module to come takes the place of a run
that finds a disagreement, whose behaviour then joins the list in section 3.

## 7. What is not modelled, and why

* Texts, prompts, the parsing of action blocks and headings, geometry, figures,
  exports and translations: data that no property here distinguishes. This leaves
  out `context3d.py` and the model base (geometry of maps, terrain and buildings),
  `board_export.py` (the board as DXF and 3dm), `i18n.py`, `briefs.py` and
  `console.py` (wording).
* The servers behind the providers, the public services and Ollama: external. What
  Sida does with each kind of answer and failure is modelled, what they compute is
  not. The Rhino expert drives an external program over a child process; a failure
  of it is a failed run of `ConductorTurn`.
* The browser (`webui/app`): rendering and gestures; its undo history over the API
  is in the plan.
* Settings other than the switch of usage records: the files are read, changed and
  written without a lock and not atomically, so that two saves at once lose one and
  a reader may find half a file. Nothing here relies on more than the switch.
* The note a lookup of a site leaves in the talk's history, and which passages of a
  law are picked.
* The operating system's file writes: `atomic_write_text` writes a temporary
  file and renames it, so a file is its old or its new content. The telemetry
  queue is written in place; a crash in the middle of that write is left out.
* Hash collisions of revisions and repeated `uuid4` ids.
* Two server processes on one projects folder: the locks are per process and the
  application is started once per machine.
* The contents of `hidden` and `pins` of the drawing table, and the positions of
  papers: the last request wins, field by field.
