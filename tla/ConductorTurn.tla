---------------------------- MODULE ConductorTurn ---------------------------
(* What one conversation job does after SessionJobs started it: the         *)
(* Conductor's exchange with its reads, papers and expert runs              *)
(* (sida/engine.py), an expert the designer ran, or a chat with one expert  *)
(* (sida/expert_chat.py).                                                   *)
(*                                                                          *)
(* The job is alone in its project, so it is one thread; what makes it hard *)
(* is that the models may answer anything, any call may fail, and any file  *)
(* may refuse to be written.  A behaviour is one job from its start to its  *)
(* end; "file" is what the next job, or the server after a crash, will read.*)
EXTENDS Integers, Sequences

CONSTANTS
    Experts,       \* expert ids
    Held,          \* the experts with tier: held
    None,          \* no expert
    Limit,         \* conductor.max_expert_runs
    MaxReads,      \* MAX_READS_PER_TURN
    MaxPapers      \* MAX_PAPERS_PER_TURN

ASSUME ConstantsAssumption ==
    /\ Held \subseteq Experts /\ None \notin Experts
    /\ Limit \in Nat \ {0}
    /\ MaxReads \in Nat /\ MaxPapers \in Nat

VARIABLES
    kind,      \* Job.kind
    mode,      \* state_update.mode
    step,      \* where the job is
    turn,      \* the running conductor_turn: [reads, papers, tool, after]
    expert,    \* the expert to run or just run
    ran,       \* the experts whose output this job has saved, in order
    waiting,   \* state_pending: a proposal of this job waits for the designer
    memory,    \* Session.history, as far as this job added to it
    file,      \* the same of the talk's history file
    chat,      \* what this job added to the expert's chat file
    calls,     \* history: Conductor calls
    running,   \* Job.running_agent
    error      \* "none", "model" (a provider's error) or "broken" (any other)

vars == <<kind, mode, step, turn, expert, ran, waiting, memory, file, chat,
          calls, running, error>>

ByConductor == {"opening", "message"}
Kinds == ByConductor \cup {"expert", "expert_chat"}
Modes == {"off", "ask", "auto"}
Steps == {"ask", "chat", "run", "work", "settle", "note", "revised", "over"}
Notes == [message: BOOLEAN, reply: BOOLEAN, told: Nat]  \* told: runs noted
Turns == [reads: Nat, papers: Nat, tool: BOOLEAN, after: BOOLEAN]
Chat  == [message: BOOLEAN, reply: BOOLEAN, revised: BOOLEAN]

NewTurn(after, tool) ==
    [reads |-> 0, papers |-> 0, tool |-> tool, after |-> after]

\* tool: the Conductor is a cloud model and the project has a readable board.
Init ==
    /\ kind \in Kinds /\ mode \in Modes
    /\ step = CASE kind \in ByConductor -> "ask"
                [] kind = "expert"      -> "run"
                [] kind = "expert_chat" -> "chat"
    /\ \E tool \in BOOLEAN : turn = NewTurn(FALSE, tool)
    /\ expert \in IF kind \in ByConductor THEN {None} ELSE Experts
    /\ ran = <<>> /\ waiting = FALSE
    /\ memory = [message |-> FALSE, reply |-> FALSE, told |-> 0]
    /\ file = memory
    /\ chat = [message |-> FALSE, reply |-> FALSE, revised |-> FALSE]
    /\ calls = 0
    /\ running = None /\ error = "none"
----------------------------------------------------------------------------
(* The Conductor's exchange.  The designer's message and the reply are      *)
(* stored together, once the call has succeeded.                            *)

Save(notes) == memory' = notes /\ file' = notes

\* Mutant of AskConductor: the message is stored before the call.
AskKeepingMessage(failed) ==
    /\ step = "ask"
    /\ calls' = calls + 1
    /\ Save([memory EXCEPT !.message = (kind = "message"), !.reply = @ \/ ~failed])

\* ask_conductor, its recovery call included, and the save of the history.
AskConductor(failed) ==
    /\ step = "ask"
    /\ calls' = calls + 1
    /\ IF failed
         THEN UNCHANGED <<memory, file>>
         ELSE Save([memory EXCEPT !.message = (kind = "message"), !.reply = TRUE])

\* converse reports only an error of its first exchange.
ConductorFails ==
    /\ AskConductor(TRUE)
    /\ step'  = "over"
    /\ error' = IF turn.after THEN error ELSE "model"
    /\ UNCHANGED <<kind, mode, turn, expert, ran, waiting, chat, running>>

\* No action, "exit", or an expert nobody knows.
ConductorAnswers ==
    /\ AskConductor(FALSE)
    /\ step' = "over"
    /\ UNCHANGED <<kind, mode, turn, expert, ran, waiting, chat, running,
                   error>>

\* Mutant of ConductorReads: papers of the table are read without counting.
ConductorReadsFreely(board, found) ==
    /\ AskConductor(FALSE)
    /\ turn' = [turn EXCEPT !.reads = IF board THEN @ ELSE @ + 1]
    /\ step' = IF turn'.reads > MaxReads \/ ~found \/ (board /\ ~turn.tool)
                 THEN "over" ELSE "ask"
    /\ UNCHANGED <<kind, mode, expert, ran, waiting, chat, running, error>>

\* A module file or a paper of the table, shown in the next call.
ConductorReads(board, found) ==
    /\ AskConductor(FALSE)
    /\ turn' = [turn EXCEPT !.reads = @ + 1]
    /\ step' = IF turn'.reads > MaxReads \/ ~found \/ (board /\ ~turn.tool)
                 THEN "over" ELSE "ask"
    /\ UNCHANGED <<kind, mode, expert, ran, waiting, chat, running, error>>

\* The paper is put in the AI section, or refused for a reason the next call
\* is told.
ConductorProposesPaper ==
    LET allowed == turn.tool /\ turn.papers < MaxPapers
    IN  /\ AskConductor(FALSE)
        /\ turn' = [turn EXCEPT !.papers = @ + 1]
        /\ step' = IF allowed THEN "ask" ELSE "over"
        /\ UNCHANGED <<kind, mode, expert, ran, waiting, chat, running, error>>

\* Mutants of Skipped: a waiting proposal does not matter; held experts are
\* experts like the others.
SkippedWaitingOrNot(e) == Len(ran) >= Limit \/ (ran # <<>> /\ e \in Held)
SkippedHeldOrNot(e)    == Len(ran) >= Limit \/ waiting

Skipped(e) == Len(ran) >= Limit \/ waiting \/ (ran # <<>> /\ e \in Held)

\* needed: a domain's run_needs asks the designer for something first.
ConductorRuns(e, needed) ==
    /\ AskConductor(FALSE)
    /\ IF Skipped(e) \/ needed
         THEN step' = "over" /\ UNCHANGED expert
         ELSE step' = "run" /\ expert' = e
    /\ UNCHANGED <<kind, mode, turn, ran, waiting, chat, running, error>>

----------------------------------------------------------------------------
(* A chat with one expert.                                                  *)

ChatFails ==
    /\ step = "chat"
    /\ step'  = "over"
    /\ error' = "model"
    /\ UNCHANGED <<kind, mode, turn, expert, ran, waiting, memory, file, chat,
                   calls, running>>

ChatAnswers(revise) ==
    /\ step = "chat"
    /\ chat' = [chat EXCEPT !.message = TRUE, !.reply = TRUE]
    /\ step' = IF revise THEN "run" ELSE "over"
    /\ UNCHANGED <<kind, mode, turn, expert, ran, waiting, memory, file, calls,
                   running, error>>

ChatRevised ==
    /\ step = "revised"
    /\ chat' = [chat EXCEPT !.revised = TRUE]
    /\ step' = "over"
    /\ UNCHANGED <<kind, mode, turn, expert, ran, waiting, memory, file, calls,
                   running, error>>

----------------------------------------------------------------------------
(* Running an expert, settling the state, and the note in the history.      *)

StartModule ==
    /\ step = "run"
    /\ running' = expert
    /\ step'    = "work"
    /\ UNCHANGED <<kind, mode, turn, expert, ran, waiting, memory, file, chat,
                   calls, error>>

\* Mutants of WorkerFails: the run is tried again; a failed revision is noted
\* in the chat.
WorkerRetries ==
    /\ step = "work"
    /\ running' = None
    /\ step'    = "run"
    /\ UNCHANGED <<kind, mode, turn, expert, ran, waiting, memory, file, chat,
                   calls, error>>

WorkerFailsNoted ==
    /\ step = "work"
    /\ running' = None
    /\ step'    = IF kind = "expert_chat" THEN "revised" ELSE "over"
    /\ error'   = IF kind \in ByConductor THEN error ELSE "model"
    /\ UNCHANGED <<kind, mode, turn, expert, ran, waiting, memory, file, chat,
                   calls>>

\* "module_failed": nothing is saved, and the Conductor's chain stops here.
WorkerFails ==
    /\ step = "work"
    /\ running' = None
    /\ step'    = "over"
    /\ error'   = IF kind \in ByConductor THEN error ELSE "model"
    /\ UNCHANGED <<kind, mode, turn, expert, ran, waiting, memory, file, chat,
                   calls>>

\* The earlier output is archived, the new one saved: "module_saved".
SaveModule ==
    /\ step = "work"
    /\ ran'     = Append(ran, expert)
    /\ running' = None
    /\ step'    = "settle"
    /\ UNCHANGED <<kind, mode, turn, expert, waiting, memory, file, chat,
                   calls, error>>

\* settle_state; "ask" leaves a proposal for the designer.
SettleState(outcome) ==
    /\ step = "settle"
    /\ outcome \in IF mode = "off" THEN {"off"}
                   ELSE {"failed", "unchanged"} \cup
                        (IF mode = "ask" THEN {"proposed"} ELSE {"applied", "conflict"})
    /\ waiting' = (outcome = "proposed")
    /\ step'    = "note"
    /\ UNCHANGED <<kind, mode, turn, expert, ran, memory, file, chat, calls,
                   running, error>>

\* Mutant of NoteRun: the note is not persisted.
NoteInMemory ==
    /\ step = "note"
    /\ memory' = [memory EXCEPT !.told = Len(ran)]
    /\ step' = IF kind \in ByConductor THEN "ask"
               ELSE IF kind = "expert_chat" THEN "revised" ELSE "over"
    /\ turn' = NewTurn(kind \in ByConductor, turn.tool)
    /\ UNCHANGED <<kind, mode, expert, ran, waiting, file, chat, calls, running,
                   error>>

\* record_action_run, then the Conductor is shown the result; or
\* record_command_run.  The board is read again for the new exchange.
NoteRun ==
    /\ step = "note"
    /\ Save([memory EXCEPT !.told = Len(ran)])
    /\ IF kind \in ByConductor
         THEN step' = "ask" /\ \E tool \in BOOLEAN : turn' = NewTurn(TRUE, tool)
         ELSE /\ step' = IF kind = "expert_chat" THEN "revised" ELSE "over"
              /\ UNCHANGED turn
    /\ UNCHANGED <<kind, mode, expert, ran, waiting, chat, calls, running,
                   error>>

\* A file that cannot be written, or a bug: _work catches any exception.
Breaks ==
    /\ step # "over"
    /\ step'  = "over"
    /\ error' = "broken"
    /\ UNCHANGED <<kind, mode, turn, expert, ran, waiting, memory, file, chat,
                   calls, running>>

----------------------------------------------------------------------------
Next ==
    \/ ConductorFails \/ ConductorAnswers
    \/ \E board, found \in BOOLEAN : ConductorReads(board, found)
    \/ ConductorProposesPaper
    \/ \E e \in Experts, needed \in BOOLEAN : ConductorRuns(e, needed)
    \/ ChatFails \/ ChatRevised
    \/ \E revise \in BOOLEAN : ChatAnswers(revise)
    \/ StartModule \/ WorkerFails \/ SaveModule
    \/ \E outcome \in {"off", "failed", "unchanged", "proposed", "applied", "conflict"} :
          SettleState(outcome)
    \/ NoteRun \/ Breaks

Spec == Init /\ [][Next]_vars

\* The job's thread runs and every model call has a timeout.
FairSpec == Spec /\ WF_vars(Next)

----------------------------------------------------------------------------
TypeOK ==
    /\ kind \in Kinds /\ mode \in Modes /\ step \in Steps
    /\ turn \in Turns
    /\ expert \in Experts \cup {None}
    /\ ran \in Seq(Experts)
    /\ waiting \in BOOLEAN
    /\ memory \in Notes /\ file \in Notes /\ chat \in Chat
    /\ calls \in Nat
    /\ running \in Experts \cup {None}
    /\ error \in {"none", "model", "broken"}

\* The most calls one exchange can take: its last one reads, proposes or runs
\* nothing more.
PerTurn == 1 + MaxReads + MaxPapers

\* One message, whatever the models answer, costs a bounded number of Conductor
\* calls and expert runs: the loops of conductor_turn and converse share no
\* budget, so it takes both of them to exceed this.
BoundedWork == TypeOK /\ Len(ran) <= Limit /\ calls <= (Limit + 1) * PerTurn

\* A proposal that waits for the designer ends the chain: no later run of the
\* same job saves an output, so none can replace the proposal.
ProposalEndsRuns == [][ran' # ran => ~waiting]_vars

\* After a run the Conductor cannot go on to a held expert.
HeldNeverChained == \A i \in 2..Len(ran) : ran[i] \notin Held

\* The talk's file never holds a message without a reply to it, and a job that
\* ends without an error has kept the message and everything it remembers.
MessageKept ==
    /\ file.message => file.reply
    /\ step = "over" /\ error = "none" =>
          /\ file = memory
          /\ kind = "message" => file.message

\* Before the Conductor is asked again, and when the job ends, every output it
\* saved is noted in the file, unless an exception cut it short.
RunsAreTold == step \in {"ask", "over"} /\ error # "broken" => file.told = Len(ran)

\* A chat says its expert's output was rewritten only when it was, and then the
\* Conductor's history says so too.
RevisedMeansRan == chat.revised => ran = <<expert>> /\ file.told = 1 /\ chat.reply

\* What holds of the chain at each step; with these parts the properties above
\* are inductive (ConductorTurnProofs).

\* The budget left: one exchange's calls for every run and the exchange under way.
WorkInv ==
    /\ Len(ran) <= Limit
    /\ step = "ask" => /\ turn.reads <= MaxReads /\ turn.papers <= MaxPapers
                       /\ calls <= Len(ran) * PerTurn + turn.reads + turn.papers
    /\ step \in {"run", "work"} => Len(ran) < Limit /\ calls <= (Len(ran) + 1) * PerTurn
    /\ step \in {"chat", "settle", "note", "revised"} => calls <= Len(ran) * PerTurn
    /\ step = "over" => calls <= (Limit + 1) * PerTurn

\* Who may be run next.
ChainInv ==
    /\ waiting => step \in {"note", "ask", "revised", "over"}
    /\ step \in {"run", "work"} /\ ran # <<>> => expert \notin Held

\* What the history knows at each step.
HistoryInv ==
    /\ memory = file
    /\ step \in {"ask", "chat", "run", "work", "revised"} => file.told = Len(ran)
    /\ kind = "message" /\ (turn.after \/ step \notin {"ask", "over"}) => file.message
    /\ step # "over" => error = "none"

\* A chat's one run.
ChatInv ==
    /\ step \notin {"ask", "over"} => expert \in Experts
    /\ kind # "expert_chat" => step \notin {"chat", "revised"}
    /\ step \in {"chat", "run", "work"} /\ kind \notin ByConductor => ran = <<>>
    /\ step \in {"settle", "note", "revised"} /\ kind \notin ByConductor => ran = <<expert>>
    /\ kind = "expert_chat" /\ step \in {"run", "work", "settle", "note", "revised"} => chat.reply
    /\ step = "ask" => kind \in ByConductor
    /\ chat.revised => step = "over"

TurnInv ==
    /\ BoundedWork /\ HeldNeverChained /\ MessageKept /\ RunsAreTold /\ RevisedMeansRan
    /\ WorkInv /\ ChainInv /\ HistoryInv /\ ChatInv

\* The job ends, whatever the models answer.
TurnEnds == <>(step = "over")

\* docs/session-api.md on conductor_error without after_run: this message was
\* not recorded, send it again.
ErrorMeansUnsent == error = "model" /\ kind = "message" => ~file.message
=============================================================================
