----------------------------- MODULE InputBudget ----------------------------
(* What of a project a model is sent: an expert's inputs, trimmed to the    *)
(* context of a local model (sida/worker.py), and the history and outputs   *)
(* the Conductor is shown (sida/conductor_context.py, sida/conductor.py).   *)
(*                                                                          *)
(* A text is its length and the length of the "## Handoff" section it ends  *)
(* with.  White space that a cut strips is not counted, so that a length is *)
(* an upper bound.  All of it is a function of its arguments.               *)
EXTENDS Integers, Sequences, FiniteSets, FiniteSetsExt, SequencesExt

CONSTANTS
    MarkLen,     \* TRIM_MARK's length (52 in the code)
    Margin,      \* BUDGET_MARGIN_CHARS (400 in the code)
    Outputs,     \* the experts with an output
    Lengths,     \* lengths of a text
    Contexts,    \* tokens of a local model's context
    MaxBlocks,   \* bound: outputs an expert is given
    MaxHistory   \* bound: messages of a talk

ASSUME BudgetAssumption ==
    /\ MarkLen \in Nat /\ MarkLen >= 2 /\ Margin \in Nat
    /\ Lengths \subseteq Nat /\ Contexts \subseteq Nat
    /\ MaxBlocks \in Nat /\ MaxHistory \in Nat

NoLimit == -1

\* The sum of a sequence, and the length of texts one after the other.
SumOf(numbers) ==
    LET upto[n \in 0..Len(numbers)] == IF n = 0 THEN 0 ELSE upto[n - 1] + numbers[n]
    IN  upto[Len(numbers)]
Total(texts) == SumOf([i \in DOMAIN texts |-> texts[i].len])
----------------------------------------------------------------------------
(* An expert's inputs.                                                      *)

\* select_input_blocks: the outputs the expert declares (inputs, where "all" is
\* every expert's) are given, the other ones named.  A legacy expert declares
\* none: it is given whatever the session holds, its own output too, and no names.
SelectInputs(agent, legacy, wanted, done) ==
    IF legacy THEN [blocks |-> done, others |-> {}]
    ELSE [blocks |-> (done \ {agent}) \cap wanted, others |-> done \ ({agent} \cup wanted)]

\* worker_input_budget: 1.5 characters a token; cloud models have no limit.
Room(run) == (3 * (run.ctx - run.max_tokens)) \div 2
WorkerBudget(run) ==
    IF ~run.local \/ run.ctx = 0 THEN NoLimit
    ELSE Max({0, Room(run) - run.fixed - Margin})

\* Mutant of ClipBlock: the notice is not counted.
ClipUncounted(b, limit) ==
    IF b.len <= limit THEN b
    ELSE LET tail == Min({b.tail, limit \div 3})
         IN  [len |-> limit + MarkLen, tail |-> tail]

\* clip_block: the start of an output, a notice, and of its Handoff at most a
\* third of the limit.
ClipBlock(b, limit) ==
    IF b.len <= limit THEN b
    ELSE LET tail == Min({b.tail, limit \div 3})
             head == Max({0, limit - tail - MarkLen})
         IN  [len |-> head + MarkLen + tail, tail |-> tail]

\* A turn of the loop over pending: the shortest block left is kept whole while
\* it fits an equal share of what is left; the first that does not ends the loop.
NextFit(blocks, at) ==
    LET shortest == CHOOSE i \in at.pending : \A j \in at.pending : blocks[i].len <= blocks[j].len
        share    == at.left \div Cardinality(at.pending)
    IN  IF at.pending = {} \/ blocks[shortest].len > share THEN at
        ELSE [left |-> at.left - blocks[shortest].len, pending |-> at.pending \ {shortest}]

\* What is left at the end of the loop is shared by the blocks still pending.
Limits(blocks, room) ==
    LET loop[n \in 0..Len(blocks)] ==
            IF n = 0 THEN [left |-> room, pending |-> DOMAIN blocks] ELSE NextFit(blocks, loop[n - 1])
        end == loop[Len(blocks)]
    IN  [i \in DOMAIN blocks |->
            IF i \in end.pending THEN end.left \div Cardinality(end.pending) ELSE blocks[i].len]

\* fit_worker_inputs: knowledge has half at most when there are outputs, and
\* all of the budget is theirs that it leaves.
FitInputs(blocks, knowledge, budget) ==
    LET cap    == IF blocks = <<>> THEN budget ELSE budget \div 2
        known  == IF knowledge > cap THEN Max({0, cap - MarkLen}) + MarkLen - 2 ELSE knowledge
        room   == Max({0, budget - known})
        limits == Limits(blocks, room)
        cut    == {i \in DOMAIN blocks : blocks[i].len > limits[i]}
    IN  IF Total(blocks) + knowledge <= budget
          THEN [blocks |-> blocks, knowledge |-> knowledge, cut |-> {}, room |-> room]
          ELSE [blocks |-> [i \in DOMAIN blocks |-> ClipBlock(blocks[i], limits[i])],
                knowledge |-> known, cut |-> cut, room |-> room]

\* run_worker_agent: without a budget nothing is trimmed.
InputsOf(run) ==
    IF WorkerBudget(run) = NoLimit
      THEN [blocks |-> run.blocks, knowledge |-> run.knowledge, cut |-> {}, room |-> 0]
      ELSE FitInputs(run.blocks, run.knowledge, WorkerBudget(run))

\* build_worker_prompt: outputs with an empty line between them, or "(none
\* yet)", and the knowledge on lines of its own when there is some.
Separators(blocks, knowledge) ==
    (IF blocks = <<>> THEN 10 ELSE 2 * (Len(blocks) - 1)) + (IF knowledge = 0 THEN 0 ELSE 2)
WorkerPrompt(run, blocks, knowledge) ==
    run.fixed + Total(blocks) + knowledge + Separators(blocks, knowledge)

\* run_worker_agent: when headers are missing the prompt is sent once more, with
\* the whole answer and a notice that names them; nothing is trimmed for that.
CorrectionPrompt(run, sent, answer, notice) ==
    WorkerPrompt(run, sent.blocks, sent.knowledge) + answer + notice
----------------------------------------------------------------------------
(* What the Conductor is shown.                                             *)

\* slice_history: the last messages of the window, from a designer's message on.
SliceHistory(history, window) ==
    LET raw == Len(history) - window + 1
        users == {i \in Max({1, raw})..Len(history) : history[i] = "user"}
        start == IF users = {} THEN raw ELSE Min(users)
    IN  IF window = 0 \/ Len(history) <= window
          THEN [messages |-> history, truncated |-> FALSE]
          ELSE [messages |-> SubSeq(history, start, Len(history)), truncated |-> TRUE]

\* build_module_snapshot: every completed output is listed, the ones the state
\* does not reflect are given in full.
ModuleSnapshot(done, fresh) == [listed |-> done, full |-> done \cap fresh]

\* prepare_conductor_context: without a state the outputs themselves.
ConductorContext(has_state, prefer_state, done, fresh) ==
    IF has_state /\ prefer_state THEN ModuleSnapshot(done, fresh)
    ELSE [listed |-> done, full |-> done]

\* build_conductor_messages: in this order; the state's message says so when
\* older turns are left out, and without a state nothing does.
ConductorMessages(has_state, table, slice) ==
    <<"system", "brief">>
        \o (IF ~has_state THEN <<>> ELSE IF slice.truncated THEN <<"partial">> ELSE <<"state">>)
        \o <<"modules">>
        \o (IF table THEN <<"table">> ELSE <<>>) \o slice.messages
----------------------------------------------------------------------------
(* Properties over bounded inputs.                                          *)

SomeTexts == {b \in [len : Lengths, tail : Lengths] : b.tail <= b.len}
SomeRuns ==
    [local : BOOLEAN, ctx : Contexts, max_tokens : {1}, fixed : Lengths \ {0},
     knowledge : Lengths, blocks : BoundedSeq(SomeTexts, MaxBlocks)]

\* The cut outputs whose share is too small for the notice and a third of it,
\* and knowledge whose notice is longer than the whole budget.
TooSmall(run, sent) ==
    Cardinality({i \in sent.cut : 2 * Limits(run.blocks, sent.room)[i] < 3 * MarkLen})
        + IF sent.knowledge <= WorkerBudget(run) THEN 0 ELSE 1

\* Whether the fixed parts and the margin fit the context, and the margin holds
\* the notices of the pieces whose share is too small for one.
MarginHolds(run, sent) ==
    /\ run.fixed + Margin <= Room(run)
    /\ MarkLen * TooSmall(run, sent) + Separators(run.blocks, run.knowledge) <= Margin

\* An expert's prompt leaves max_tokens of the context for the answer while the
\* margin holds the notices; and what fits is left alone.
FitsContext(run, sent) ==
    /\ MarginHolds(run, sent) => WorkerPrompt(run, sent.blocks, sent.knowledge) <= Room(run)
    /\ Total(run.blocks) + run.knowledge <= WorkerBudget(run)
          => sent.blocks = run.blocks /\ sent.knowledge = run.knowledge

\* The correction leaves no room for the new answer: an answer of max_tokens
\* fills what the prompt left, and the notice comes on top.  It runs over by no
\* more than that.
OverrunIsBounded(run, sent, answer, notice) ==
    MarginHolds(run, sent) /\ 2 * answer <= 3 * run.max_tokens
        => 2 * CorrectionPrompt(run, sent, answer, notice) <= 3 * run.ctx + 2 * notice

\* The shares are the fair ones: no output has more than one that was cut, and
\* less is left over than there are outputs cut; a cut output keeps of its
\* Handoff what a third of its share can hold.
SharesAreFair(run, sent) ==
    LET limits == Limits(run.blocks, sent.room)
        used == SumOf(limits)
    IN  sent.cut # {} =>
          /\ \A i \in sent.cut, j \in DOMAIN limits : limits[j] <= limits[i]
          /\ used <= sent.room /\ sent.room - used < Cardinality(sent.cut)
          /\ \A i \in sent.cut :
                 sent.blocks[i].tail = Min({run.blocks[i].tail, limits[i] \div 3})

\* A history cut short is its own end, as much of it as the window can hold
\* from a designer's message on -- or, without one, the whole window -- and a
\* Conductor with a state to go by is told of the cut.
HistoryIsRecent(history, window, slice) ==
    LET n == Len(slice.messages)
        left == Len(history) - n
    IN  /\ slice.messages = SubSeq(history, left + 1, Len(history))
        /\ \A table \in BOOLEAN :
             LET messages == ConductorMessages(TRUE, table, slice)
             IN  /\ SubSeq(messages, Len(messages) - n + 1, Len(messages)) = slice.messages
                 /\ Contains(messages, "partial") <=> left > 0
        /\ slice.truncated <=> left > 0
        /\ slice.truncated =>
             /\ n \in 1..window
             /\ \/ n = window
                \/ /\ history[left + 1] = "user"
                   /\ \A i \in (Len(history) - window + 1)..left : history[i] # "user"

\* Of the outputs there are, none is kept from the Conductor but by the state
\* reflecting it, and an expert is given or told of every other expert's.
ConductorSees(done) ==
    \A reflected \in SUBSET done : \A has_state, prefer \in BOOLEAN :
        LET seen == ConductorContext(has_state, prefer, done, done \ reflected)
        IN  seen.listed = done /\ done \ reflected \subseteq seen.full
ExpertSees(agent, done) ==
    \A wanted \in SUBSET Outputs, legacy \in BOOLEAN :
        LET inputs == SelectInputs(agent, legacy, wanted, done)
        IN  /\ inputs.blocks \cup inputs.others \cup ({agent} \cap done) = done
            /\ inputs.blocks \cap inputs.others = {}

\* What of an expert's inputs a local model's context cannot hold is cut in fair
\* shares, so that the prompt leaves room for the answer and the one correction
\* overruns by no more than the answer and its notice; a talk's history is cut at
\* an exchange.  What the Conductor is sent besides the history has no limit: the
\* brief, the state, the outputs and the table go to it whole
\* (conductor.py:285-364).
InputsFit ==
    /\ \A run \in SomeRuns : run.local /\ run.ctx # 0 =>
         LET sent == InputsOf(run)
         IN  /\ FitsContext(run, sent) /\ SharesAreFair(run, sent)
             /\ \A answer, notice \in Lengths : OverrunIsBounded(run, sent, answer, notice)
    /\ \A history \in BoundedSeq({"user", "assistant"}, MaxHistory), window \in 0..MaxHistory :
         HistoryIsRecent(history, window, SliceHistory(history, window))
=============================================================================
