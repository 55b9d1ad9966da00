------------------------- MODULE ConductorTurnProofs ------------------------
(* Theorems about ConductorTurn for any experts and any limits: TurnInv is  *)
(* inductive, and what a job promises follows from it.  Then about          *)
(* InputBudget, for outputs and talks of any number and length: an expert's *)
(* prompt fits a local model's context, and no saved output is kept back.   *)
EXTENDS MCConductorTurn, FiniteSetTheorems, SequenceTheorems, WellFoundedInduction, TLAPS

\* Multiples of one exchange's calls, as the limits compare them.
LEMMA Multiples ==
    /\ PerTurn \in Nat
    /\ PerTurn >= 1 + MaxReads + MaxPapers
    /\ \A n \in Nat : n * PerTurn \in Nat /\ (n + 1) * PerTurn = n * PerTurn + PerTurn
    /\ \A n \in Nat : n <= Limit => n * PerTurn <= Limit * PerTurn
<1>1. PerTurn \in Nat /\ PerTurn >= 1 + MaxReads + MaxPapers
  BY ConstantsAssumption DEF PerTurn
<1>2. \A p \in Nat, n \in Nat : n * p \in Nat /\ (n + 1) * p = n * p + p
  OBVIOUS
<1>3. \A p \in Nat, m \in Nat, n \in Nat : n <= m => n * p <= m * p
  OBVIOUS
<1>4. QED BY <1>1, <1>2, <1>3, ConstantsAssumption

\* An exchange's start, and what a call of it leaves in the history.
LEMMA CallTypes ==
    ASSUME TypeOK, NEW failed \in BOOLEAN, AskConductor(failed)
    PROVE  /\ calls' = calls + 1 /\ calls' \in Nat
           /\ memory' \in Notes /\ file' \in Notes
           /\ step = "ask"
<1>1. CASE failed
  BY <1>1 DEF TypeOK, AskConductor
<1>2. CASE ~failed
  <2> DEFINE asked == (kind = "message")
             m == [memory EXCEPT !.message = asked, !.reply = TRUE]
  <2>1. asked \in BOOLEAN /\ memory \in Notes
    BY DEF TypeOK
  <2> HIDE DEF asked
  <2>2. m \in Notes
    BY <2>1 DEF Notes
  <2>3. memory' = m /\ file' = m
    BY <1>2 DEF AskConductor, Save, asked
  <2>4. QED BY <2>2, <2>3 DEF TypeOK, AskConductor
<1>3. QED BY <1>1, <1>2

\* The locals of an exchange, new and counted further.
LEMMA TurnTypes ==
    /\ \A after, tool \in BOOLEAN : NewTurn(after, tool) \in Turns
    /\ \A t \in Turns : /\ [t EXCEPT !.reads = @ + 1] \in Turns
                        /\ [t EXCEPT !.papers = @ + 1] \in Turns
BY DEF NewTurn, Turns

LEMMA TypeInit == Init => TypeOK
<1> SUFFICES ASSUME Init PROVE TypeOK
    OBVIOUS
<1>1. turn \in Turns
  BY TurnTypes DEF Init
<1>2. memory \in Notes /\ file \in Notes /\ chat \in Chat
  BY DEF Init, Notes, Chat
<1>3. step \in Steps
  BY DEF Init, Steps, Kinds, ByConductor
<1>4. expert \in Experts \cup {None}
  BY DEF Init
<1>5. ran \in Seq(Experts) /\ calls \in Nat
  BY DEF Init
<1>6. kind \in Kinds /\ mode \in Modes /\ waiting \in BOOLEAN
  BY DEF Init
<1>7. running \in Experts \cup {None} /\ error \in {"none", "model", "broken"}
  BY DEF Init
<1>8. QED BY <1>1, <1>2, <1>3, <1>4, <1>5, <1>6, <1>7 DEF TypeOK

\* The types of all variables, through every step.
LEMMA TypeNext == TypeOK /\ ChatInv /\ [Next]_vars => TypeOK'
<1> SUFFICES ASSUME TypeOK, ChatInv, [Next]_vars PROVE TypeOK'
    OBVIOUS
<1>a. CASE ConductorFails
  BY <1>a, CallTypes DEF ConductorFails, TypeOK, Steps
<1>b. CASE ConductorAnswers
  BY <1>b, CallTypes DEF ConductorAnswers, TypeOK, Steps
<1>c. ASSUME NEW board \in BOOLEAN, NEW found \in BOOLEAN, ConductorReads(board, found)
      PROVE  TypeOK'
  <2>1. AskConductor(FALSE)
    BY <1>c DEF ConductorReads
  <2>2. QED BY <1>c, <2>1, CallTypes, TurnTypes DEF ConductorReads, TypeOK, Steps
<1>d. CASE ConductorProposesPaper
  <2>1. AskConductor(FALSE)
    BY <1>d DEF ConductorProposesPaper
  <2>2. QED BY <1>d, <2>1, CallTypes, TurnTypes DEF ConductorProposesPaper, TypeOK, Steps
<1>e. ASSUME NEW e \in Experts, NEW needed \in BOOLEAN, ConductorRuns(e, needed)
      PROVE  TypeOK'
  <2>1. AskConductor(FALSE)
    BY <1>e DEF ConductorRuns
  <2>2. QED BY <1>e, <2>1, CallTypes DEF ConductorRuns, TypeOK, Steps
<1>f. ASSUME NEW revise \in BOOLEAN, ChatAnswers(revise) PROVE TypeOK'
  BY <1>f DEF ChatAnswers, TypeOK, Steps, Chat
<1>g. CASE ChatFails \/ ChatRevised \/ StartModule \/ WorkerFails
  BY <1>g DEF ChatFails, ChatRevised, StartModule, WorkerFails, TypeOK, Steps, Chat
<1>h. CASE SaveModule
  <2>1. expert \in Experts
    BY <1>h DEF SaveModule, ChatInv, TypeOK
  <2>2. QED BY <1>h, <2>1 DEF SaveModule, TypeOK, Steps
<1>i. ASSUME NEW outcome, SettleState(outcome) PROVE TypeOK'
  BY <1>i DEF SettleState, TypeOK, Steps
<1>j. CASE NoteRun
  <2>1. memory' \in Notes /\ file' \in Notes
    BY <1>j DEF NoteRun, Save, TypeOK, Notes
  <2>2. turn' \in Turns
    BY <1>j, TurnTypes DEF NoteRun, TypeOK
  <2>3. QED BY <1>j, <2>1, <2>2 DEF NoteRun, TypeOK, Steps
<1>k. CASE Breaks
  BY <1>k DEF Breaks, TypeOK, Steps
<1>l. CASE UNCHANGED vars
  BY <1>l DEF vars, TypeOK
<1>m. QED
  BY <1>a, <1>b, <1>c, <1>d, <1>e, <1>f, <1>g, <1>h, <1>i, <1>j, <1>k, <1>l DEF Next

----------------------------------------------------------------------------
(* The work one message costs.                                              *)

LEMMA WorkInit == Init => WorkInv
<1> SUFFICES ASSUME Init PROVE WorkInv
    OBVIOUS
<1>1. Len(ran) = 0 /\ calls = 0
  BY DEF Init
<1>2. 0 * PerTurn = 0 /\ (0 + 1) * PerTurn \in Nat
  BY Multiples
<1>3. turn.reads = 0 /\ turn.papers = 0
  BY DEF Init, NewTurn
<1>4. step \in {"ask", "run", "chat"}
  BY DEF Init, Kinds, ByConductor
<1>5. QED BY <1>1, <1>2, <1>3, <1>4, ConstantsAssumption DEF WorkInv

\* In every step of a job the calls made stay below the promised bound.
LEMMA WorkBounded == TypeOK /\ WorkInv => BoundedWork
<1> SUFFICES ASSUME TypeOK, WorkInv PROVE BoundedWork
    OBVIOUS
<1>1. Len(ran) \in Nat /\ Len(ran) <= Limit
  BY DEF TypeOK, WorkInv
<1> DEFINE n == Len(ran) * PerTurn
           m == Limit * PerTurn
<1>2. n \in Nat /\ m \in Nat /\ n <= m /\ (Len(ran) + 1) * PerTurn = n + PerTurn
      /\ (Limit + 1) * PerTurn = m + PerTurn
  BY <1>1, Multiples, ConstantsAssumption
<1> HIDE DEF n, m
<1>3. \/ step = "over" /\ calls <= (Limit + 1) * PerTurn
      \/ calls <= n \/ calls <= n + PerTurn
      \/ calls <= n + MaxReads + MaxPapers
  <2>1. CASE step = "ask"
    BY <2>1, <1>2, ConstantsAssumption DEF TypeOK, Turns, WorkInv, n
  <2>2. CASE step \in {"run", "work"}
    BY <2>2, <1>2 DEF WorkInv
  <2>3. CASE step \in {"chat", "settle", "note", "revised", "over"}
    BY <2>3 DEF WorkInv, n
  <2>4. QED BY <2>1, <2>2, <2>3 DEF TypeOK, Steps
<1>4. calls <= (Limit + 1) * PerTurn
  BY <1>2, <1>3, Multiples, ConstantsAssumption DEF TypeOK
<1>5. QED BY <1>1, <1>4 DEF BoundedWork

\* A call of the Conductor within an exchange, whatever it leads to.
LEMMA CallCounted ==
    ASSUME TypeOK, WorkInv, NEW failed \in BOOLEAN, AskConductor(failed)
    PROVE  /\ turn.reads \in Nat /\ turn.papers \in Nat
           /\ turn.reads <= MaxReads /\ turn.papers <= MaxPapers
           /\ calls' \in Nat /\ calls' <= Len(ran) * PerTurn + turn.reads + turn.papers + 1
           /\ calls' <= (Len(ran) + 1) * PerTurn
           /\ calls' <= (Limit + 1) * PerTurn
<1>1. /\ turn.reads \in Nat /\ turn.papers \in Nat
      /\ turn.reads <= MaxReads /\ turn.papers <= MaxPapers
      /\ calls' = calls + 1 /\ calls \in Nat
      /\ calls <= Len(ran) * PerTurn + turn.reads + turn.papers
  BY CallTypes DEF WorkInv, TypeOK, Turns
<1>2. Len(ran) \in Nat /\ Len(ran) <= Limit
  BY DEF TypeOK, WorkInv
<1> DEFINE n == Len(ran) * PerTurn
           m == Limit * PerTurn
<1>3. n \in Nat /\ m \in Nat /\ n <= m /\ (Len(ran) + 1) * PerTurn = n + PerTurn
      /\ (Limit + 1) * PerTurn = m + PerTurn
  BY <1>2, Multiples, ConstantsAssumption
<1>4. calls <= n + turn.reads + turn.papers
  BY <1>1
<1> HIDE DEF n, m
<1>5. calls' <= n + turn.reads + turn.papers + 1 /\ calls' <= n + PerTurn
      /\ calls' <= m + PerTurn /\ calls' \in Nat
  BY <1>1, <1>3, <1>4, Multiples, ConstantsAssumption
<1>6. QED BY <1>1, <1>3, <1>5 DEF n

LEMMA WorkNext == TypeOK /\ ChatInv /\ WorkInv /\ [Next]_vars => WorkInv'
<1> SUFFICES ASSUME TypeOK, ChatInv, WorkInv, [Next]_vars PROVE WorkInv'
    OBVIOUS
<1>0. /\ Len(ran) \in Nat /\ Len(ran) <= Limit /\ calls \in Nat
      /\ calls <= (Limit + 1) * PerTurn
  BY WorkBounded DEF TypeOK, WorkInv, BoundedWork
<1>a. CASE ConductorFails
  <2>1. AskConductor(TRUE)
    BY <1>a DEF ConductorFails
  <2>2. QED BY <1>0, <1>a, <2>1, CallCounted DEF ConductorFails, WorkInv
<1>b. CASE ConductorAnswers
  <2>1. AskConductor(FALSE)
    BY <1>b DEF ConductorAnswers
  <2>2. QED BY <1>0, <1>b, <2>1, CallCounted DEF ConductorAnswers, WorkInv
<1>c. ASSUME NEW board \in BOOLEAN, NEW found \in BOOLEAN, ConductorReads(board, found)
      PROVE  WorkInv'
  <2>1. AskConductor(FALSE)
    BY <1>c DEF ConductorReads
  <2>2. turn'.reads = turn.reads + 1 /\ turn'.papers = turn.papers
    <3>1. turn \in Turns /\ turn' = [turn EXCEPT !.reads = @ + 1]
      BY <1>c DEF ConductorReads, TypeOK
    <3>2. QED BY <3>1 DEF Turns
  <2>3. step' \in {"ask", "over"} /\ (step' = "ask" => turn'.reads <= MaxReads)
    <3>0. turn.reads \in Nat
      BY <2>1, CallCounted
    <3>1. turn'.reads \in Nat
      BY <2>2, <3>0
    <3>2. step' \in {"ask", "over"} /\ (turn'.reads > MaxReads => step' = "over")
      BY <1>c DEF ConductorReads
    <3>3. QED BY <3>1, <3>2, ConstantsAssumption
  <2>4. ran' = ran
    BY <1>c DEF ConductorReads
  <2> DEFINE n == Len(ran) * PerTurn
  <2>5. n \in Nat
    BY <1>0, Multiples
  <2>6. calls' <= n + turn'.reads + turn'.papers
    <3>1. calls' <= n + turn.reads + turn.papers + 1 /\ turn.reads \in Nat
          /\ turn.papers \in Nat /\ calls' \in Nat
      BY <2>1, CallCounted
    <3> HIDE DEF n
    <3>2. QED BY <2>2, <2>5, <3>1
  <2>7. QED BY <1>0, <2>1, <2>2, <2>3, <2>4, <2>6, CallCounted DEF WorkInv
<1>d. CASE ConductorProposesPaper
  <2>1. AskConductor(FALSE)
    BY <1>d DEF ConductorProposesPaper
  <2>2. turn'.papers = turn.papers + 1 /\ turn'.reads = turn.reads
    <3>1. turn \in Turns /\ turn' = [turn EXCEPT !.papers = @ + 1]
      BY <1>d DEF ConductorProposesPaper, TypeOK
    <3>2. QED BY <3>1 DEF Turns
  <2>3. step' \in {"ask", "over"} /\ (step' = "ask" => turn'.papers <= MaxPapers)
    <3>1. turn.papers \in Nat
      BY <2>1, CallCounted
    <3>2. step' \in {"ask", "over"} /\ (~(turn.papers < MaxPapers) => step' = "over")
      BY <1>d DEF ConductorProposesPaper
    <3>3. QED BY <2>2, <3>1, <3>2, ConstantsAssumption
  <2>4. ran' = ran
    BY <1>d DEF ConductorProposesPaper
  <2> DEFINE n == Len(ran) * PerTurn
  <2>5. n \in Nat
    BY <1>0, Multiples
  <2>6. calls' <= n + turn'.reads + turn'.papers
    <3>1. calls' <= n + turn.reads + turn.papers + 1 /\ turn.reads \in Nat
          /\ turn.papers \in Nat /\ calls' \in Nat
      BY <2>1, CallCounted
    <3> HIDE DEF n
    <3>2. QED BY <2>2, <2>5, <3>1
  <2>7. QED BY <1>0, <2>1, <2>2, <2>3, <2>4, <2>6, CallCounted DEF WorkInv
<1>e. ASSUME NEW e \in Experts, NEW needed \in BOOLEAN, ConductorRuns(e, needed)
      PROVE  WorkInv'
  <2>1. AskConductor(FALSE) /\ ran' = ran
    BY <1>e DEF ConductorRuns
  <2>2. step' = "over" \/ (step' = "run" /\ Len(ran) < Limit)
    BY <1>0, <1>e, ConstantsAssumption DEF ConductorRuns, Skipped
  <2>3. QED BY <1>0, <2>1, <2>2, CallCounted DEF WorkInv
<1>f. ASSUME NEW revise \in BOOLEAN, ChatAnswers(revise) PROVE WorkInv'
  <2>1. ran = <<>> /\ calls <= Len(ran) * PerTurn
    BY <1>f DEF ChatAnswers, ChatInv, WorkInv, ByConductor
  <2>2. Len(ran) = 0 /\ Len(ran) < Limit
    BY <2>1, ConstantsAssumption
  <2>3. calls <= (Len(ran) + 1) * PerTurn
    BY <1>0, <2>1, <2>2, Multiples
  <2>4. QED BY <1>0, <1>f, <2>2, <2>3 DEF ChatAnswers, WorkInv
<1>g. CASE ChatFails \/ ChatRevised \/ WorkerFails \/ Breaks
  BY <1>0, <1>g DEF ChatFails, ChatRevised, WorkerFails, Breaks, WorkInv
<1>h. CASE StartModule
  BY <1>h DEF StartModule, WorkInv
<1>i. CASE SaveModule
  <2>1. Len(ran') = Len(ran) + 1 /\ Len(ran) < Limit
    BY <1>i DEF SaveModule, WorkInv, TypeOK
  <2>2. Len(ran') <= Limit
    BY <1>0, <2>1, ConstantsAssumption
  <2>3. calls' <= Len(ran') * PerTurn
    BY <1>i, <2>1 DEF SaveModule, WorkInv
  <2>4. QED BY <1>i, <2>2, <2>3 DEF SaveModule, WorkInv
<1>j. ASSUME NEW outcome, SettleState(outcome) PROVE WorkInv'
  BY <1>j DEF SettleState, WorkInv
<1>k. CASE NoteRun
  <2>1. calls' = calls /\ ran' = ran /\ calls <= Len(ran) * PerTurn
    BY <1>k DEF NoteRun, WorkInv
  <2>2. CASE kind \in ByConductor
    <3>1. step' = "ask" /\ turn'.reads = 0 /\ turn'.papers = 0
      BY <1>k, <2>2 DEF NoteRun, NewTurn
    <3> DEFINE n == Len(ran) * PerTurn
    <3>2. n \in Nat /\ calls <= n
      BY <1>0, <2>1, Multiples
    <3>3. calls' <= n + turn'.reads + turn'.papers
      <4> HIDE DEF n
      <4>1. QED BY <1>0, <2>1, <3>1, <3>2
    <3>4. QED BY <1>0, <2>1, <3>1, <3>3, ConstantsAssumption DEF WorkInv
  <2>3. CASE kind \notin ByConductor
    <3>1. step' \in {"revised", "over"}
      BY <1>k, <2>3 DEF NoteRun
    <3>2. QED BY <1>0, <2>1, <3>1 DEF WorkInv
  <2>4. QED BY <2>2, <2>3
<1>l. CASE UNCHANGED vars
  BY <1>l DEF vars, WorkInv
<1>m. QED
  BY <1>a, <1>b, <1>c, <1>d, <1>e, <1>f, <1>g, <1>h, <1>i, <1>j, <1>k, <1>l DEF Next

----------------------------------------------------------------------------
(* Where a chat and a run by the designer are.                              *)

LEMMA ChatInit == Init => ChatInv
BY DEF Init, ChatInv, Kinds, ByConductor

LEMMA ChatNext == TypeOK /\ ChatInv /\ [Next]_vars => ChatInv'
<1> SUFFICES ASSUME TypeOK, ChatInv, [Next]_vars PROVE ChatInv'
    OBVIOUS
<1> USE DEF ChatInv, ByConductor
<1>a. CASE ConductorFails
  BY <1>a DEF ConductorFails, AskConductor
<1>b. CASE ConductorAnswers
  BY <1>b DEF ConductorAnswers, AskConductor
<1>c. ASSUME NEW board \in BOOLEAN, NEW found \in BOOLEAN, ConductorReads(board, found)
      PROVE  ChatInv'
  BY <1>c DEF ConductorReads, AskConductor
<1>d. CASE ConductorProposesPaper
  BY <1>d DEF ConductorProposesPaper, AskConductor
<1>e. ASSUME NEW e \in Experts, NEW needed \in BOOLEAN, ConductorRuns(e, needed)
      PROVE  ChatInv'
  BY <1>e DEF ConductorRuns, AskConductor
<1>f. ASSUME NEW revise \in BOOLEAN, ChatAnswers(revise) PROVE ChatInv'
  BY <1>f DEF ChatAnswers, TypeOK, Chat
<1>g. CASE ChatFails \/ WorkerFails \/ Breaks \/ StartModule
  BY <1>g DEF ChatFails, WorkerFails, Breaks, StartModule
<1>h. CASE ChatRevised
  BY <1>h DEF ChatRevised, TypeOK, Chat
<1>i. CASE SaveModule
  <2>1. ran' = Append(ran, expert)
    BY <1>i DEF SaveModule
  <2>2. Append(<<>>, expert) = <<expert>>
    OBVIOUS
  <2>3. ran = <<>> => ran' = <<expert>>
    BY <2>1, <2>2
  <2>4. QED BY <1>i, <2>3 DEF SaveModule
<1>j. ASSUME NEW outcome, SettleState(outcome) PROVE ChatInv'
  BY <1>j DEF SettleState
<1>k. CASE NoteRun
  <2>1. CASE kind \in ByConductor
    BY <1>k, <2>1 DEF NoteRun
  <2>2. CASE kind \notin ByConductor
    BY <1>k, <2>2 DEF NoteRun
  <2>3. QED BY <2>1, <2>2
<1>l. CASE UNCHANGED vars
  BY <1>l DEF vars
<1>m. QED
  BY <1>a, <1>b, <1>c, <1>d, <1>e, <1>f, <1>g, <1>h, <1>i, <1>j, <1>k, <1>l DEF Next

----------------------------------------------------------------------------
(* Who may be run next.                                                     *)

LEMMA ChainInit == Init => ChainInv /\ HeldNeverChained
BY DEF Init, ChainInv, HeldNeverChained

\* The Conductor chooses only experts it may, and each that has run was chosen so.
LEMMA ChainNext ==
    TypeOK /\ ChatInv /\ ChainInv /\ HeldNeverChained /\ [Next]_vars
        => ChainInv' /\ HeldNeverChained'
<1> SUFFICES ASSUME TypeOK, ChatInv, ChainInv, HeldNeverChained, [Next]_vars
             PROVE  ChainInv' /\ HeldNeverChained'
    OBVIOUS
<1> USE DEF ChainInv
<1>a. CASE ConductorFails \/ ConductorAnswers \/ ConductorProposesPaper
  BY <1>a DEF ConductorFails, ConductorAnswers, ConductorProposesPaper, AskConductor,
     HeldNeverChained
<1>c. ASSUME NEW board \in BOOLEAN, NEW found \in BOOLEAN, ConductorReads(board, found)
      PROVE  ChainInv' /\ HeldNeverChained'
  BY <1>c DEF ConductorReads, AskConductor, HeldNeverChained
<1>e. ASSUME NEW e \in Experts, NEW needed \in BOOLEAN, ConductorRuns(e, needed)
      PROVE  ChainInv' /\ HeldNeverChained'
  BY <1>e DEF ConductorRuns, Skipped, AskConductor, HeldNeverChained
<1>f. ASSUME NEW revise \in BOOLEAN, ChatAnswers(revise)
      PROVE  ChainInv' /\ HeldNeverChained'
  BY <1>f DEF ChatAnswers, ChatInv, ByConductor, HeldNeverChained
<1>g. CASE ChatFails \/ ChatRevised \/ WorkerFails \/ Breaks \/ StartModule
  BY <1>g DEF ChatFails, ChatRevised, WorkerFails, Breaks, StartModule, HeldNeverChained
<1>i. CASE SaveModule
  <2>1. expert \in Experts /\ ran \in Seq(Experts)
    BY <1>i DEF SaveModule, ChatInv, TypeOK
  <2>2. /\ Len(ran') = Len(ran) + 1 /\ ran'[Len(ran) + 1] = expert
        /\ \A k \in 1..Len(ran) : ran'[k] = ran[k]
    BY <1>i, <2>1 DEF SaveModule
  <2>3. ASSUME NEW k \in 2..Len(ran') PROVE ran'[k] \notin Held
    <3>1. CASE k \in 2..Len(ran)
      BY <2>2, <3>1 DEF HeldNeverChained
    <3>2. CASE k = Len(ran) + 1
      <4>1. ran # <<>>
        BY <2>1, <3>2
      <4>2. QED BY <1>i, <2>2, <3>2, <4>1 DEF SaveModule
    <3>3. QED BY <2>1, <2>2, <3>1, <3>2
  <2>4. ~waiting
    BY <1>i DEF SaveModule
  <2>5. QED BY <1>i, <2>3, <2>4 DEF SaveModule, HeldNeverChained
<1>j. ASSUME NEW outcome, SettleState(outcome) PROVE ChainInv' /\ HeldNeverChained'
  BY <1>j DEF SettleState, HeldNeverChained
<1>k. CASE NoteRun
  <2>1. step' \in {"ask", "revised", "over"} /\ waiting' = waiting /\ ran' = ran
    BY <1>k DEF NoteRun
  <2>2. QED BY <2>1 DEF HeldNeverChained
<1>l. CASE UNCHANGED vars
  BY <1>l DEF vars, HeldNeverChained
<1>m. QED
  BY <1>a, <1>c, <1>e, <1>f, <1>g, <1>i, <1>j, <1>k, <1>l DEF Next

----------------------------------------------------------------------------
(* What the history knows.                                                  *)

HistoryFacts == HistoryInv /\ MessageKept /\ RunsAreTold /\ RevisedMeansRan

LEMMA HistoryInit == Init => HistoryFacts
BY DEF Init, HistoryFacts, HistoryInv, MessageKept, RunsAreTold, RevisedMeansRan, Kinds,
   ByConductor, NewTurn

\* A call of the Conductor leaves the runs it was told of, and keeps the message
\* together with the first reply.
LEMMA CallKept ==
    ASSUME TypeOK, HistoryFacts, NEW failed \in BOOLEAN, AskConductor(failed)
    PROVE  /\ memory' = file' /\ file'.told = file.told /\ file'.told = Len(ran)
           /\ file'.message => file'.reply
           /\ ~failed /\ kind = "message" => file'.message
           /\ failed => file' = file
           /\ error = "none"
<1>1. /\ step = "ask" /\ error = "none" /\ memory = file /\ file \in Notes
      /\ file.told = Len(ran) /\ (file.message => file.reply)
  BY DEF AskConductor, HistoryFacts, HistoryInv, MessageKept, TypeOK
<1>2. CASE failed
  BY <1>1, <1>2 DEF AskConductor
<1>3. CASE ~failed
  <2> DEFINE asked == (kind = "message")
             m == [memory EXCEPT !.message = asked, !.reply = TRUE]
  <2>1. memory' = m /\ file' = m
    BY <1>3 DEF AskConductor, Save
  <2> HIDE DEF asked
  <2>2. m.told = memory.told /\ m.message = asked /\ m.reply = TRUE
    BY <1>1 DEF Notes
  <2>3. QED BY <1>1, <1>3, <2>1, <2>2 DEF asked
<1>4. QED BY <1>2, <1>3

LEMMA HistoryNext == TypeOK /\ ChatInv /\ HistoryFacts /\ [Next]_vars => HistoryFacts'
<1> SUFFICES ASSUME TypeOK, ChatInv, HistoryFacts, [Next]_vars PROVE HistoryFacts'
    OBVIOUS
<1> USE DEF HistoryFacts, HistoryInv, MessageKept, RunsAreTold, RevisedMeansRan
<1>a. CASE ConductorFails
  <2>1. AskConductor(TRUE)
    BY <1>a DEF ConductorFails
  <2>2. ~chat.revised
    BY <2>1 DEF AskConductor, ChatInv
  <2>3. QED BY <1>a, <2>1, <2>2, CallKept DEF ConductorFails
<1>b. CASE ConductorAnswers
  <2>1. AskConductor(FALSE)
    BY <1>b DEF ConductorAnswers
  <2>2. ~chat.revised
    BY <2>1 DEF AskConductor, ChatInv
  <2>3. QED BY <1>b, <2>1, <2>2, CallKept DEF ConductorAnswers
<1>c. ASSUME NEW board \in BOOLEAN, NEW found \in BOOLEAN, ConductorReads(board, found)
      PROVE  HistoryFacts'
  <2>1. AskConductor(FALSE)
    BY <1>c DEF ConductorReads
  <2>2. ~chat.revised
    BY <2>1 DEF AskConductor, ChatInv
  <2>3. QED BY <1>c, <2>1, <2>2, CallKept DEF ConductorReads
<1>d. CASE ConductorProposesPaper
  <2>1. AskConductor(FALSE)
    BY <1>d DEF ConductorProposesPaper
  <2>2. ~chat.revised
    BY <2>1 DEF AskConductor, ChatInv
  <2>3. QED BY <1>d, <2>1, <2>2, CallKept DEF ConductorProposesPaper
<1>e. ASSUME NEW e \in Experts, NEW needed \in BOOLEAN, ConductorRuns(e, needed)
      PROVE  HistoryFacts'
  <2>1. AskConductor(FALSE)
    BY <1>e DEF ConductorRuns
  <2>2. ~chat.revised
    BY <2>1 DEF AskConductor, ChatInv
  <2>3. QED BY <1>e, <2>1, <2>2, CallKept DEF ConductorRuns
<1>f. ASSUME NEW revise \in BOOLEAN, ChatAnswers(revise) PROVE HistoryFacts'
  <2>1. kind = "expert_chat" /\ ~chat.revised
    BY <1>f DEF ChatAnswers, ChatInv
  <2>2. ~chat'.revised
    BY <1>f, <2>1 DEF ChatAnswers, TypeOK, Chat
  <2>3. QED BY <1>f, <2>1, <2>2 DEF ChatAnswers
<1>g. CASE ChatFails \/ WorkerFails \/ StartModule \/ Breaks
  BY <1>g DEF ChatFails, WorkerFails, StartModule, Breaks, ChatInv
<1>h. CASE ChatRevised
  <2>1. /\ kind = "expert_chat" /\ ran = <<expert>> /\ chat.reply
        /\ file.told = Len(ran)
    BY <1>h DEF ChatRevised, ChatInv, ByConductor
  <2>2. chat'.reply = chat.reply
    BY <1>h DEF ChatRevised, TypeOK, Chat
  <2>3. QED BY <1>h, <2>1, <2>2 DEF ChatRevised
<1>i. CASE SaveModule
  BY <1>i DEF SaveModule, ChatInv
<1>j. ASSUME NEW outcome, SettleState(outcome) PROVE HistoryFacts'
  BY <1>j DEF SettleState, ChatInv
<1>k. CASE NoteRun
  <2>1. memory' = [memory EXCEPT !.told = Len(ran)] /\ file' = memory'
    BY <1>k DEF NoteRun, Save
  <2>2. file'.told = Len(ran) /\ file'.message = file.message /\ file'.reply = file.reply
    BY <2>1 DEF TypeOK, Notes
  <2>3. ~chat.revised /\ chat' = chat /\ ran' = ran /\ kind' = kind
    BY <1>k DEF NoteRun, ChatInv
  <2>4. QED BY <1>k, <2>1, <2>2, <2>3 DEF NoteRun
<1>l. CASE UNCHANGED vars
  BY <1>l DEF vars
<1>m. QED
  BY <1>a, <1>b, <1>c, <1>d, <1>e, <1>f, <1>g, <1>h, <1>i, <1>j, <1>k, <1>l DEF Next

----------------------------------------------------------------------------
(* The theorems.                                                            *)

\* The inductive invariant: what holds of the chain, the budget, the history and
\* a chat at each step of a job.
THEOREM TurnInvariant == Spec => []TurnInv
<1> USE DEF TurnInv, HistoryFacts
<1>1. Init => TurnInv
  BY TypeInit, WorkInit, WorkBounded, ChatInit, ChainInit, HistoryInit
<1>2. TurnInv /\ [Next]_vars => TurnInv'
  <2> SUFFICES ASSUME TurnInv, [Next]_vars PROVE TurnInv'
      OBVIOUS
  <2>1. TypeOK /\ TypeOK'
    BY TypeNext DEF BoundedWork
  <2>2. WorkInv' /\ ChatInv' /\ ChainInv' /\ HeldNeverChained' /\ HistoryFacts'
    BY <2>1, WorkNext, ChatNext, ChainNext, HistoryNext
  <2>3. BoundedWork'
    <3>1. TypeOK' /\ WorkInv' => BoundedWork'
      BY WorkBounded, PTL
    <3>2. QED BY <2>1, <2>2, <3>1
  <2>4. QED BY <2>1, <2>2, <2>3
<1>3. QED BY <1>1, <1>2, PTL DEF Spec

\* For any limits, a job makes at most one exchange's calls for each run it may
\* make and one more (conductor_turn's counters and converse's, together).
THEOREM BoundedWorkHolds == Spec => []BoundedWork
<1>1. TurnInv => BoundedWork
  BY DEF TurnInv
<1>2. QED BY <1>1, TurnInvariant, PTL

\* The Conductor never goes on from one run to a held expert (converse).
THEOREM HeldNeverChainedHolds == Spec => []HeldNeverChained
<1>1. TurnInv => HeldNeverChained
  BY DEF TurnInv
<1>2. QED BY <1>1, TurnInvariant, PTL

\* The talk's file has no unanswered message, and a job without an error has
\* stored what it was sent (ask_conductor, record_action_run).
THEOREM MessageKeptHolds == Spec => []MessageKept
<1>1. TurnInv => MessageKept
  BY DEF TurnInv
<1>2. QED BY <1>1, TurnInvariant, PTL

\* Whatever fails but an exception, every saved output is noted before the
\* Conductor is asked again and when the job ends (record_action_run).
THEOREM RunsAreToldHolds == Spec => []RunsAreTold
<1>1. TurnInv => RunsAreTold
  BY DEF TurnInv
<1>2. QED BY <1>1, TurnInvariant, PTL

\* An expert chat that says its output was rewritten is right (expert_turn).
THEOREM RevisedMeansRanHolds == Spec => []RevisedMeansRan
<1>1. TurnInv => RevisedMeansRan
  BY DEF TurnInv
<1>2. QED BY <1>1, TurnInvariant, PTL

\* A job saves no output while a proposal of its own waits (converse's skips).
THEOREM ProposalEndsRunsHolds == Spec => ProposalEndsRuns
<1>1. TurnInv /\ [Next]_vars => [ran' # ran => ~waiting]_vars
  <2> SUFFICES ASSUME TurnInv, Next, ran' # ran PROVE ~waiting
      BY DEF vars
  <2>1. SaveModule
    BY DEF Next, ConductorFails, ConductorAnswers, ConductorReads, ConductorProposesPaper,
       ConductorRuns, ChatFails, ChatAnswers, ChatRevised, StartModule, WorkerFails,
       SettleState, NoteRun, Breaks
  <2>2. QED BY <2>1 DEF SaveModule, TurnInv, ChainInv
<1>2. QED BY <1>1, TurnInvariant, PTL DEF Spec, ProposalEndsRuns
------------------------------------------------------------------------------
(* What the models are sent.  The loops of InputBudget end, and what they      *)
(* leave is proved by induction over the outputs.                             *)

\* Induction over 0..N for a set of numbers.
LEMMA Counting ==
  ASSUME NEW N \in Nat, NEW T, 0 \in T, \A n \in 0..(N - 1) : n \in T => n + 1 \in T
  PROVE  0..N \subseteq T
<1> SUFFICES ASSUME ~ (0..N \subseteq T) PROVE FALSE
  OBVIOUS
<1> DEFINE U == 0..N \ T
<1>1. U \subseteq Nat /\ U # {}
  OBVIOUS
<1>2. PICK x \in U : \A y \in U : ~ (<<y, x>> \in OpToRel(<, Nat))
  <2> HIDE DEF U
  <2> QED BY <1>1, NatLessThanWellFounded, WFMin
<1>3. x # 0 /\ x - 1 \in 0..(N - 1)
  OBVIOUS
<1>4. x - 1 \notin U
  <2>1. x - 1 < x /\ x - 1 \in Nat /\ x \in Nat
    BY <1>3
  <2>2. <<x - 1, x>> \in OpToRel(<, Nat)
    BY <2>1 DEF OpToRel
  <2> QED BY <1>2, <2>2
<1> QED BY <1>3, <1>4

\* The values of a loop that changes first N times, by act[1] to act[N].
IsLoop(f, N, S, first, act) ==
    /\ f \in [0..N -> S] /\ f[0] = first
    /\ \A n \in 1..N : f[n] = act[n][f[n - 1]]

\* There are such values.
LEMMA LoopRuns ==
  ASSUME NEW N \in Nat, NEW S, NEW first \in S, NEW act \in [1..N -> [S -> S]]
  PROVE  \E f : IsLoop(f, N, S, first, act)
<1> DEFINE Run(f, n) == f[0] = first /\ \A i \in 1..n : f[i] = act[i][f[i - 1]]
           T == {n \in 0..N : \E f \in [0..n -> S] : Run(f, n)}
<1>1. 0 \in T
  <2> DEFINE f == [i \in 0..0 |-> first]
  <2>1. f \in [0..0 -> S] /\ f[0] = first /\ 1..0 = {}
    OBVIOUS
  <2> HIDE DEF f
  <2>2. Run(f, 0)
    BY <2>1
  <2> QED BY <2>1, <2>2
<1>2. ASSUME NEW n \in 0..(N - 1), n \in T PROVE n + 1 \in T
  <2>1. PICK f \in [0..n -> S] : Run(f, n)
    BY <1>2
  <2> DEFINE g == [i \in 0..(n + 1) |-> IF i = n + 1 THEN act[n + 1][f[n]] ELSE f[i]]
  <2>2. f[n] \in S /\ act[n + 1] \in [S -> S]
    OBVIOUS
  <2>3. g \in [0..(n + 1) -> S]
    BY <2>2
  <2>4. ASSUME NEW i \in 1..(n + 1) PROVE g[i] = act[i][g[i - 1]]
    <3>1. CASE i = n + 1
      BY <3>1
    <3>2. CASE i # n + 1
      <4>1. i \in 1..n /\ i - 1 \in 0..n
        BY <3>2
      <4>2. g[i] = f[i] /\ g[i - 1] = f[i - 1]
        BY <4>1
      <4> QED BY <4>1, <4>2, <2>1
    <3> QED BY <3>1, <3>2
  <2>5. g[0] = first
    BY <2>1
  <2> HIDE DEF g
  <2>6. Run(g, n + 1)
    BY <2>4, <2>5
  <2> QED BY <2>3, <2>6
<1>3. N \in T
  <2> HIDE DEF T
  <2>1. \A n \in 0..(N - 1) : n \in T => n + 1 \in T
    BY <1>2
  <2>2. 0..N \subseteq T
    BY <1>1, <2>1, Counting, Zenon
  <2> QED BY <2>2
<1> QED BY <1>3 DEF IsLoop
------------------------------------------------------------------------------
(* Numbers.                                                                   *)

LEMMA MaxOfTwo == \A a, b \in Int : Max({a, b}) = IF a >= b THEN a ELSE b
<1> SUFFICES ASSUME NEW a \in Int, NEW b \in Int
             PROVE  Max({a, b}) = IF a >= b THEN a ELSE b
  OBVIOUS
<1> DEFINE m == IF a >= b THEN a ELSE b
<1>1. m \in {a, b} /\ \A y \in {a, b} : m >= y
  OBVIOUS
<1>2. \A x \in {a, b} : (\A y \in {a, b} : x >= y) => x = m
  OBVIOUS
<1> QED BY <1>1, <1>2 DEF Max

LEMMA MinOfTwo == \A a, b \in Int : Min({a, b}) = IF a <= b THEN a ELSE b
<1> SUFFICES ASSUME NEW a \in Int, NEW b \in Int
             PROVE  Min({a, b}) = IF a <= b THEN a ELSE b
  OBVIOUS
<1> DEFINE m == IF a <= b THEN a ELSE b
<1>1. m \in {a, b} /\ \A y \in {a, b} : m <= y
  OBVIOUS
<1>2. \A x \in {a, b} : (\A y \in {a, b} : x <= y) => x = m
  OBVIOUS
<1> QED BY <1>1, <1>2 DEF Min

\* The least of a set of natural numbers is one of them.
LEMMA LeastOfMany ==
  ASSUME NEW S, S \subseteq Nat, S # {}
  PROVE  Min(S) \in S /\ \A n \in S : Min(S) <= n
<1>1. PICK x \in S : \A y \in S : ~ (<<y, x>> \in OpToRel(<, Nat))
  BY NatLessThanWellFounded, WFMin
<1>2. \A y \in S : x <= y
  <2> SUFFICES ASSUME NEW y \in S, y < x PROVE FALSE
    OBVIOUS
  <2> QED BY <1>1 DEF OpToRel
<1> QED BY <1>1, <1>2 DEF Min

\* The shares of n that m blocks have: none is too large, less than m is left.
LEMMA Shares ==
  ASSUME NEW n \in Nat, NEW m \in Nat, m > 0
  PROVE  /\ n \div m \in Nat /\ m * (n \div m) <= n /\ n - m * (n \div m) < m
         /\ \A l \in Nat : l <= n \div m <=> m * l <= n
         /\ \A l \in Nat : l <= n \div m =>
               n - l \in Nat /\ (m - 1) * (n \div m) <= n - l
<1>1. n \div m \in Nat /\ n % m \in 0..(m - 1) /\ n = m * (n \div m) + (n % m)
  OBVIOUS
<1> DEFINE q == n \div m
<1>2. PICK d \in Nat, r \in 0..(m - 1) : d = q /\ n = m * d + r
  BY <1>1
<1> HIDE DEF q
<1>3. m * d <= n /\ n - m * d < m
  BY <1>2
<1>4. ASSUME NEW l \in Nat, m * l <= n PROVE l <= d
  <2>1. CASE l >= d + 1
    <3>1. m * l >= m * (d + 1)
      BY <2>1
    <3>2. m * (d + 1) = m * d + m
      OBVIOUS
    <3> QED BY <3>1, <3>2, <1>4, <1>3
  <2> QED BY <2>1
<1>5. ASSUME NEW l \in Nat, l <= d PROVE m * l <= m * d
  BY <1>5
<1>6. (m - 1) * d = m * d - d
  OBVIOUS
<1>7. m * d >= d
  OBVIOUS
<1> QED BY <1>2, <1>3, <1>4, <1>5, <1>6, <1>7 DEF q
------------------------------------------------------------------------------
(* Sums.                                                                      *)

\* A sum is made number by number.
LEMMA SumRuns ==
  ASSUME NEW s \in Seq(Int)
  PROVE  \E u \in [0..Len(s) -> Int] :
            /\ u[0] = 0 /\ SumOf(s) = u[Len(s)]
            /\ \A n \in 1..Len(s) : u[n] = u[n - 1] + s[n]
<1> DEFINE N == Len(s)
           act == [n \in 1..N |-> [x \in Int |-> x + s[n]]]
           Body(u, n) == IF n = 0 THEN 0 ELSE u[n - 1] + s[n]
           sum == CHOOSE u : u = [n \in 0..N |-> Body(u, n)]
<1>1. N \in Nat /\ \A n \in 1..N : s[n] \in Int
  OBVIOUS
<1>2. act \in [1..N -> [Int -> Int]]
  BY <1>1
<1>3. PICK u \in [0..N -> Int] : u[0] = 0 /\ \A n \in 1..N : u[n] = act[n][u[n - 1]]
  <2> DEFINE S == Int
             first == 0
  <2>1. first \in S /\ act \in [1..N -> [S -> S]]
    BY <1>2
  <2>2. PICK u : IsLoop(u, N, S, first, act)
    <3> HIDE DEF act, N, S, first
    <3> QED BY <1>1, <2>1, LoopRuns
  <2> QED BY <2>2 DEF IsLoop
<1>4. \A n \in 1..N : n - 1 \in 0..N /\ u[n - 1] \in Int
  BY <1>1
<1>5. \A n \in 1..N : u[n] = u[n - 1] + s[n]
  BY <1>3, <1>4
<1>6. u = [n \in 0..N |-> Body(u, n)]
  <2>1. \A n \in 0..N : u[n] = Body(u, n)
    BY <1>1, <1>3, <1>5
  <2> QED BY <1>3, <2>1
<1>7. sum = [n \in 0..N |-> Body(sum, n)]
  <2> HIDE DEF Body
  <2> QED BY <1>6
<1>8. SumOf(s) = sum[N]
  BY DEF SumOf
<1> HIDE DEF sum
<1>9. sum[0] = 0 /\ \A n \in 1..N : sum[n] = sum[n - 1] + s[n]
  BY <1>1, <1>7
<1>10. \A n \in 0..N : sum[n] \in Int
  <2> DEFINE T == {n \in 0..N : sum[n] \in Int}
  <2>1. 0 \in T
    BY <1>1, <1>9
  <2>2. \A n \in 0..(N - 1) : n \in T => n + 1 \in T
    <3> SUFFICES ASSUME NEW n \in 0..(N - 1), n \in T PROVE n + 1 \in T
      OBVIOUS
    <3>1. n + 1 \in 1..N /\ n + 1 \in 0..N /\ (n + 1) - 1 = n
      BY <1>1
    <3>2. sum[n + 1] = sum[n] + s[n + 1] /\ s[n + 1] \in Int
      BY <1>1, <1>9, <3>1
    <3> QED BY <3>1, <3>2
  <2>3. 0..N \subseteq T
    <3> HIDE DEF T
    <3> QED BY <1>1, <2>1, <2>2, Counting
  <2> QED BY <2>3
<1>11. sum \in [0..N -> Int]
  BY <1>7, <1>10
<1> QED BY <1>8, <1>9, <1>11

\* The numbers up to n + 1 in a set are those up to n and maybe that one.
LEMMA NextCounted ==
  ASSUME NEW P, NEW n \in Nat
  PROVE  /\ IsFiniteSet(P \cap 1..n) /\ Cardinality(P \cap 1..n) \in Nat
         /\ Cardinality(P \cap 1..(n + 1)) =
               Cardinality(P \cap 1..n) + IF n + 1 \in P THEN 1 ELSE 0
<1>1. IsFiniteSet(1..n)
  BY FS_Interval
<1>2. IsFiniteSet(P \cap 1..n) /\ Cardinality(P \cap 1..n) \in Nat
  BY <1>1, FS_Subset, FS_CardinalityType
<1>3. CASE n + 1 \in P
  <2>1. P \cap 1..(n + 1) = (P \cap 1..n) \cup {n + 1} /\ n + 1 \notin P \cap 1..n
    BY <1>3
  <2> QED BY <1>2, <1>3, <2>1, FS_AddElement
<1>4. CASE n + 1 \notin P
  <2>1. P \cap 1..(n + 1) = P \cap 1..n
    BY <1>4
  <2> QED BY <1>2, <1>4, <2>1
<1> QED BY <1>2, <1>3, <1>4

\* Two bounds add up.
LEMMA BoundsAdd ==
  ASSUME NEW low \in Int, NEW high \in Int, NEW rest \in Int,
         NEW least \in Int, NEW most \in Int, NEW more \in Int,
         low <= high + rest, least <= most + more
  PROVE  low + least <= (high + most) + (rest + more)
OBVIOUS

\* A sum grows by no more than what its numbers grow by.
LEMMA SumGrows ==
  ASSUME NEW s \in Seq(Int), NEW t \in Seq(Int), Len(s) = Len(t),
         NEW P, P \subseteq DOMAIN s, NEW c \in Int,
         \A i \in DOMAIN s : s[i] <= t[i] + IF i \in P THEN c ELSE 0
  PROVE  SumOf(s) <= SumOf(t) + c * Cardinality(P)
<1> DEFINE N == Len(s)
<1>0. N \in Nat /\ DOMAIN s = 1..N /\ \A i \in 1..N : s[i] \in Int /\ t[i] \in Int
  OBVIOUS
<1>1. PICK u \in [0..N -> Int] :
         u[0] = 0 /\ SumOf(s) = u[N] /\ \A n \in 1..N : u[n] = u[n - 1] + s[n]
  BY SumRuns
<1>2. PICK v \in [0..N -> Int] :
         v[0] = 0 /\ SumOf(t) = v[N] /\ \A n \in 1..N : v[n] = v[n - 1] + t[n]
  BY SumRuns
<1> DEFINE K(n) == Cardinality(P \cap 1..n)
           T == {n \in 0..N : u[n] <= v[n] + c * K(n)}
<1>3. 0 \in T
  <2>1. P \cap 1..0 = {}
    OBVIOUS
  <2>2. K(0) = 0
    BY <2>1, FS_EmptySet
  <2>3. c * 0 = 0
    OBVIOUS
  <2> QED BY <1>0, <1>1, <1>2, <2>2, <2>3
<1>4. \A n \in 0..(N - 1) : n \in T => n + 1 \in T
  <2> SUFFICES ASSUME NEW n \in 0..(N - 1), n \in T PROVE n + 1 \in T
    OBVIOUS
  <2> DEFINE k == K(n)
  <2>1. n + 1 \in 1..N /\ (n + 1) - 1 = n /\ n \in Nat /\ n \in 0..N
    BY <1>0
  <2>2. k \in Nat /\ K(n + 1) = k + IF n + 1 \in P THEN 1 ELSE 0
    BY <2>1, NextCounted
  <2>3. u[n + 1] = u[n] + s[n + 1] /\ v[n + 1] = v[n] + t[n + 1]
    BY <1>1, <1>2, <2>1
  <2>4. s[n + 1] <= t[n + 1] + IF n + 1 \in P THEN c ELSE 0
    BY <1>0, <2>1
  <2>5. u[n] <= v[n] + c * k
    OBVIOUS
  <2>6. u[n] \in Int /\ v[n] \in Int /\ s[n + 1] \in Int /\ t[n + 1] \in Int
    BY <1>0, <1>1, <1>2, <2>1
  <2> HIDE DEF k, K
  <2>7. c * k \in Int /\ c * (k + 1) = c * k + c
    BY <2>2
  <2> DEFINE before == c * k
  <2>8. CASE n + 1 \in P
    <3>1. c * K(n + 1) = before + c
      <4>1. K(n + 1) = k + 1
        BY <2>2, <2>8
      <4> QED BY <2>7, <4>1
    <3>2. before \in Int /\ u[n] <= v[n] + before
      BY <2>5, <2>7
    <3>3. s[n + 1] <= t[n + 1] + c
      BY <2>4, <2>8
    <3>4. u[n + 1] <= v[n + 1] + (before + c)
      <4> HIDE DEF before, T
      <4>1. u[n] + s[n + 1] <= (v[n] + t[n + 1]) + (before + c)
        BY <2>6, <3>2, <3>3, BoundsAdd
      <4> QED BY <2>3, <4>1
    <3> QED BY <2>1, <3>1, <3>4
  <2>9. CASE n + 1 \notin P
    <3>1. c * K(n + 1) = before
      <4>1. K(n + 1) = k
        BY <2>2, <2>9
      <4> QED BY <4>1
    <3>2. before \in Int /\ u[n] <= v[n] + before
      BY <2>5, <2>7
    <3>3. s[n + 1] <= t[n + 1]
      BY <2>4, <2>6, <2>9
    <3> HIDE DEF before
    <3>4. u[n + 1] <= v[n + 1] + before
      BY <2>3, <2>6, <3>2, <3>3
    <3> QED BY <2>1, <3>1, <3>4
  <2> QED BY <2>8, <2>9
<1>5. N \in T
  <2> HIDE DEF T
  <2>1. 0..N \subseteq T
    BY <1>0, <1>3, <1>4, Counting
  <2> QED BY <1>0, <2>1
<1>6. P \cap 1..N = P
  BY <1>0
<1> QED BY <1>1, <1>2, <1>5, <1>6

\* Numbers that all grow by the same make a sum that grows by it each time.
LEMMA SumChanges ==
  ASSUME NEW s \in Seq(Int), NEW t \in Seq(Int), Len(s) = Len(t),
         NEW P, P \subseteq DOMAIN s, NEW c \in Int,
         \A i \in DOMAIN s : s[i] = t[i] + IF i \in P THEN c ELSE 0
  PROVE  SumOf(s) = SumOf(t) + c * Cardinality(P)
<1>1. \A i \in DOMAIN s : s[i] \in Int /\ t[i] \in Int /\ i \in DOMAIN t
  OBVIOUS
<1>2. SumOf(s) <= SumOf(t) + c * Cardinality(P)
  <2>1. \A i \in DOMAIN s : s[i] <= t[i] + IF i \in P THEN c ELSE 0
    BY <1>1
  <2> QED BY <2>1, SumGrows
<1>3. SumOf(t) <= SumOf(s) + (-c) * Cardinality(P)
  <2>1. \A i \in DOMAIN t : t[i] <= s[i] + IF i \in P THEN -c ELSE 0
    <3> SUFFICES ASSUME NEW i \in DOMAIN t
                 PROVE  t[i] <= s[i] + IF i \in P THEN -c ELSE 0
      OBVIOUS
    <3>1. i \in DOMAIN s
      OBVIOUS
    <3>2. s[i] = t[i] + IF i \in P THEN c ELSE 0
      BY <3>1
    <3> QED BY <1>1, <3>1, <3>2
  <2>2. P \subseteq DOMAIN t /\ -c \in Int
    OBVIOUS
  <2> QED BY <2>1, <2>2, SumGrows
<1>4. SumOf(s) \in Int /\ SumOf(t) \in Int /\ Cardinality(P) \in Nat
  <2>1. IsFiniteSet(P)
    BY FS_Interval, FS_Subset
  <2> QED BY <2>1, SumRuns, FS_CardinalityType
<1>5. \A k \in Nat : (-c) * k = -(c * k) /\ c * k \in Int
  OBVIOUS
<1> QED BY <1>2, <1>3, <1>4, <1>5

LEMMA SumType ==
  ASSUME NEW s \in Seq(Nat)
  PROVE  SumOf(s) \in Nat
<1> DEFINE N == Len(s)
<1>1. N \in Nat /\ s \in Seq(Int) /\ \A n \in 1..N : s[n] \in Nat
  OBVIOUS
<1>2. PICK u \in [0..N -> Int] :
         u[0] = 0 /\ SumOf(s) = u[N] /\ \A n \in 1..N : u[n] = u[n - 1] + s[n]
  BY <1>1, SumRuns
<1> DEFINE T == {n \in 0..N : u[n] \in Nat}
<1>3. 0 \in T
  BY <1>1, <1>2
<1>4. \A n \in 0..(N - 1) : n \in T => n + 1 \in T
  <2> SUFFICES ASSUME NEW n \in 0..(N - 1), n \in T PROVE n + 1 \in T
    OBVIOUS
  <2>1. n + 1 \in 1..N /\ (n + 1) - 1 = n
    BY <1>1
  <2>2. u[n + 1] = u[n] + s[n + 1] /\ s[n + 1] \in Nat
    BY <1>1, <1>2, <2>1
  <2> QED BY <2>1, <2>2
<1>5. 0..N \subseteq T
  <2> HIDE DEF T
  <2> QED BY <1>1, <1>3, <1>4, Counting
<1> QED BY <1>1, <1>2, <1>5
------------------------------------------------------------------------------
(* The shares of outputs.                                                     *)

Texts == {b \in [len : Nat, tail : Nat] : b.tail <= b.len}

\* What the loop keeps for blocks, and what it has when no block left fits.
Looping(blocks) == [left : Nat, pending : SUBSET DOMAIN blocks]
NoneFits(blocks, at) ==
    \A i \in at.pending : blocks[i].len > at.left \div Cardinality(at.pending)
Shortest(blocks, S) == CHOOSE i \in S : \A j \in S : blocks[i].len <= blocks[j].len

LEMMA TextTypes ==
  ASSUME NEW blocks \in Seq(Texts)
  PROVE  /\ Len(blocks) \in Nat /\ DOMAIN blocks = 1..Len(blocks)
         /\ \A i \in DOMAIN blocks :
               /\ blocks[i].len \in Nat /\ blocks[i].tail \in Nat
               /\ blocks[i].tail <= blocks[i].len
<1>1. Len(blocks) \in Nat /\ DOMAIN blocks = 1..Len(blocks)
  OBVIOUS
<1>2. \A i \in DOMAIN blocks : blocks[i] \in Texts
  OBVIOUS
<1>3. \A b \in Texts : b.len \in Nat /\ b.tail \in Nat /\ b.tail <= b.len
  BY DEF Texts
<1> QED BY <1>1, <1>2, <1>3

LEMMA ShortestIs ==
  ASSUME NEW blocks \in Seq(Texts), NEW S, S \subseteq DOMAIN blocks, S # {}
  PROVE  /\ Shortest(blocks, S) \in S
         /\ \A j \in S : blocks[Shortest(blocks, S)].len <= blocks[j].len
<1> DEFINE lens == {blocks[i].len : i \in S}
<1>1. lens \subseteq Nat /\ lens # {}
  BY TextTypes
<1>2. Min(lens) \in lens /\ \A l \in lens : Min(lens) <= l
  BY <1>1, LeastOfMany
<1>3. PICK i \in S : blocks[i].len = Min(lens)
  BY <1>2
<1>4. \A j \in S : blocks[i].len <= blocks[j].len
  BY <1>2, <1>3
<1> QED BY <1>4 DEF Shortest

LEMMA PendingCounted ==
  ASSUME NEW blocks \in Seq(Texts), NEW S, S \subseteq DOMAIN blocks
  PROVE  /\ IsFiniteSet(S) /\ Cardinality(S) \in Nat
         /\ Cardinality(S) = 0 <=> S = {}
         /\ \A i \in S : Cardinality(S \ {i}) = Cardinality(S) - 1
<1>1. IsFiniteSet(DOMAIN blocks)
  BY TextTypes, FS_Interval
<1>2. IsFiniteSet(S)
  BY <1>1, FS_Subset
<1> QED BY <1>2, FS_CardinalityType, FS_EmptySet, FS_RemoveElement

\* A turn of the loop ends it, or takes a block that fits its share, and every
\* other one's share is no smaller for that.
LEMMA OneFits ==
  ASSUME NEW blocks \in Seq(Texts), NEW at \in Looping(blocks)
  PROVE  \/ NoneFits(blocks, at) /\ NextFit(blocks, at) = at
         \/ \E i \in at.pending :
               /\ blocks[i].len <= at.left \div Cardinality(at.pending)
               /\ NextFit(blocks, at) =
                     [left |-> at.left - blocks[i].len, pending |-> at.pending \ {i}]
               /\ NextFit(blocks, at) \in Looping(blocks)
<1> DEFINE i == Shortest(blocks, at.pending)
           share == at.left \div Cardinality(at.pending)
<1>1. at.left \in Nat /\ at.pending \subseteq DOMAIN blocks /\ at = [left |-> at.left, pending |-> at.pending]
  BY DEF Looping
<1>2. NextFit(blocks, at) =
         IF at.pending = {} \/ blocks[i].len > share THEN at
         ELSE [left |-> at.left - blocks[i].len, pending |-> at.pending \ {i}]
  BY DEF NextFit, Shortest
<1>3. CASE at.pending = {}
  BY <1>2, <1>3 DEF NoneFits
<1>4. CASE at.pending # {}
  <2>1. i \in at.pending /\ \A j \in at.pending : blocks[i].len <= blocks[j].len
    BY <1>1, <1>4, ShortestIs
  <2>2. Cardinality(at.pending) \in Nat /\ Cardinality(at.pending) > 0
    BY <1>1, <1>4, PendingCounted
  <2>3. share \in Nat /\ \A l \in Nat : l <= share => at.left - l \in Nat
    BY <1>1, <2>2, Shares
  <2>4. \A j \in at.pending : blocks[j].len \in Nat
    BY <1>1, TextTypes
  <2> HIDE DEF i, share
  <2>5. CASE blocks[i].len > share
    <3>1. \A j \in at.pending : blocks[j].len > share
      BY <2>1, <2>3, <2>4, <2>5
    <3>2. NoneFits(blocks, at)
      BY <3>1 DEF NoneFits, share
    <3> QED BY <1>2, <2>5, <3>2
  <2>6. CASE ~ (blocks[i].len > share)
    <3>1. blocks[i].len <= share
      BY <2>1, <2>3, <2>4, <2>6
    <3>2. at.left - blocks[i].len \in Nat
      BY <2>1, <2>3, <2>4, <3>1
    <3>3. NextFit(blocks, at) = [left |-> at.left - blocks[i].len, pending |-> at.pending \ {i}]
      BY <1>2, <1>4, <2>6
    <3>4. NextFit(blocks, at) \in Looping(blocks)
      BY <1>1, <3>2, <3>3 DEF Looping
    <3> QED BY <2>1, <3>1, <3>3, <3>4 DEF share
  <2> QED BY <2>5, <2>6
<1> QED BY <1>3, <1>4

LEMMA LimitsLoop ==
  ASSUME NEW blocks \in Seq(Texts), NEW room \in Nat
  PROVE  \E loop \in [0..Len(blocks) -> Looping(blocks)] :
            /\ loop[0] = [left |-> room, pending |-> DOMAIN blocks]
            /\ \A n \in 1..Len(blocks) : loop[n] = NextFit(blocks, loop[n - 1])
            /\ LET end == loop[Len(blocks)]
               IN  Limits(blocks, room) =
                     [i \in DOMAIN blocks |->
                        IF i \in end.pending THEN end.left \div Cardinality(end.pending)
                        ELSE blocks[i].len]
<1> DEFINE N == Len(blocks)
           S == Looping(blocks)
           first == [left |-> room, pending |-> DOMAIN blocks]
           act == [n \in 1..N |-> [at \in S |-> NextFit(blocks, at)]]
           Body(l, n) == IF n = 0 THEN first ELSE NextFit(blocks, l[n - 1])
           loop == CHOOSE l : l = [n \in 0..N |-> Body(l, n)]
<1>1. N \in Nat /\ first \in S
  BY TextTypes DEF Looping
<1>2. \A at \in S : NextFit(blocks, at) \in S
  BY OneFits
<1>3. act \in [1..N -> [S -> S]]
  BY <1>2
<1>4. PICK l : IsLoop(l, N, S, first, act)
  <2> HIDE DEF N, S, first, act
  <2> QED BY <1>1, <1>3, LoopRuns
<1>5. \A n \in 1..N : l[n - 1] \in S /\ l[n] = NextFit(blocks, l[n - 1])
  <2> SUFFICES ASSUME NEW n \in 1..N
               PROVE  l[n - 1] \in S /\ l[n] = NextFit(blocks, l[n - 1])
    OBVIOUS
  <2>1. n - 1 \in 0..N
    BY <1>1
  <2>2. l[n - 1] \in S /\ l[n] = act[n][l[n - 1]]
    BY <1>4, <2>1 DEF IsLoop
  <2> HIDE DEF S
  <2> QED BY <2>2
<1> HIDE DEF S, first, act
<1>6. l = [n \in 0..N |-> Body(l, n)]
  <2>1. \A n \in 0..N : l[n] = Body(l, n)
    BY <1>1, <1>4, <1>5 DEF IsLoop
  <2> QED BY <1>4, <2>1 DEF IsLoop
<1>7. loop = [n \in 0..N |-> Body(loop, n)]
  <2> HIDE DEF Body
  <2> QED BY <1>6
<1>8. Limits(blocks, room) =
         [i \in DOMAIN blocks |->
            IF i \in loop[N].pending THEN loop[N].left \div Cardinality(loop[N].pending)
            ELSE blocks[i].len]
  BY DEF Limits, first
<1> HIDE DEF loop
<1>9. loop[0] = first /\ \A n \in 1..N : loop[n] = NextFit(blocks, loop[n - 1])
  BY <1>1, <1>7
<1>10. \A n \in 0..N : loop[n] \in S
  <2> DEFINE T == {n \in 0..N : loop[n] \in S}
  <2>1. 0 \in T
    BY <1>1, <1>9
  <2>2. \A n \in 0..(N - 1) : n \in T => n + 1 \in T
    <3> SUFFICES ASSUME NEW n \in 0..(N - 1), n \in T PROVE n + 1 \in T
      OBVIOUS
    <3>1. n + 1 \in 1..N /\ n + 1 \in 0..N /\ (n + 1) - 1 = n
      BY <1>1
    <3>2. loop[n + 1] = NextFit(blocks, loop[n]) /\ loop[n] \in S
      BY <1>9, <3>1
    <3> QED BY <1>2, <3>1, <3>2
  <2>3. 0..N \subseteq T
    <3> HIDE DEF T
    <3> QED BY <1>1, <2>1, <2>2, Counting
  <2> QED BY <2>3
<1>11. loop \in [0..N -> S]
  BY <1>7, <1>10
<1> QED BY <1>8, <1>9, <1>11 DEF S, first

\* What the blocks that no longer wait are long.
Kept(blocks, pending) == [i \in DOMAIN blocks |-> IF i \in pending THEN 0 ELSE blocks[i].len]

LEMMA KeptTypes ==
  ASSUME NEW blocks \in Seq(Texts), NEW pending
  PROVE  /\ Kept(blocks, pending) \in Seq(Nat) /\ Kept(blocks, pending) \in Seq(Int)
         /\ Len(Kept(blocks, pending)) = Len(blocks)
         /\ DOMAIN Kept(blocks, pending) = DOMAIN blocks
         /\ SumOf(Kept(blocks, pending)) \in Nat
<1> DEFINE k == Kept(blocks, pending)
<1>1. DOMAIN blocks = 1..Len(blocks) /\ Len(blocks) \in Nat
  BY TextTypes
<1>2. k \in [1..Len(blocks) -> Nat]
  BY <1>1, TextTypes DEF Kept
<1> HIDE DEF k
<1>3. k \in Seq(Nat) /\ k \in Seq(Int) /\ Len(k) = Len(blocks) /\ DOMAIN k = DOMAIN blocks
  BY <1>1, <1>2
<1> QED BY <1>3, SumType DEF k

\* What holds before every turn of the loop: what is left and what was kept make
\* the room, and no block kept is longer than a share of what is left.
SharedSoFar(blocks, room, at) ==
    /\ at \in Looping(blocks)
    /\ at.left + SumOf(Kept(blocks, at.pending)) = room
    /\ \A i \in DOMAIN blocks \ at.pending :
          Cardinality(at.pending) * blocks[i].len <= at.left

LEMMA SharedFirst ==
  ASSUME NEW blocks \in Seq(Texts), NEW room \in Nat
  PROVE  SharedSoFar(blocks, room, [left |-> room, pending |-> DOMAIN blocks])
<1> DEFINE k == Kept(blocks, DOMAIN blocks)
<1>1. SumOf(k) = 0
  <2>1. k \in Seq(Int) /\ DOMAIN k = DOMAIN blocks /\ SumOf(k) \in Nat
    BY KeptTypes
  <2>2. PICK u \in [0..Len(k) -> Int] :
          u[0] = 0 /\ SumOf(k) = u[Len(k)] /\ \A n \in 1..Len(k) : u[n] = u[n - 1] + k[n]
    BY <2>1, SumRuns
  <2>3. Len(k) \in Nat /\ \A n \in 1..Len(k) : k[n] = 0
    BY <2>1, KeptTypes, TextTypes DEF Kept
  <2> HIDE DEF k
  <2> DEFINE T == {n \in 0..Len(k) : u[n] = 0}
  <2>4. 0 \in T
    BY <2>2, <2>3
  <2>5. \A n \in 0..(Len(k) - 1) : n \in T => n + 1 \in T
    <3> SUFFICES ASSUME NEW n \in 0..(Len(k) - 1), n \in T PROVE n + 1 \in T
      OBVIOUS
    <3>1. n + 1 \in 1..Len(k) /\ (n + 1) - 1 = n
      BY <2>3
    <3>2. u[n + 1] = u[n] + k[n + 1] /\ k[n + 1] = 0
      BY <2>2, <2>3, <3>1
    <3> QED BY <3>1, <3>2
  <2>6. 0..Len(k) \subseteq T
    <3> HIDE DEF T
    <3> QED BY <2>3, <2>4, <2>5, Counting
  <2> QED BY <2>2, <2>3, <2>6
<1> HIDE DEF k
<1>2. room + SumOf(k) = room
  BY <1>1
<1> QED BY <1>2 DEF SharedSoFar, Looping, k

LEMMA SharedNext ==
  ASSUME NEW blocks \in Seq(Texts), NEW room \in Nat,
         NEW at, SharedSoFar(blocks, room, at)
  PROVE  /\ SharedSoFar(blocks, room, NextFit(blocks, at))
         /\ \/ NoneFits(blocks, at) /\ NextFit(blocks, at) = at
            \/ Cardinality(NextFit(blocks, at).pending) = Cardinality(at.pending) - 1
<1>1. at \in Looping(blocks) /\ at.left \in Nat /\ at.pending \subseteq DOMAIN blocks
  BY DEF SharedSoFar, Looping
<1>2. CASE NoneFits(blocks, at) /\ NextFit(blocks, at) = at
  BY <1>2
<1>3. ASSUME NEW i \in at.pending,
             blocks[i].len <= at.left \div Cardinality(at.pending),
             NextFit(blocks, at) =
               [left |-> at.left - blocks[i].len, pending |-> at.pending \ {i}],
             NextFit(blocks, at) \in Looping(blocks)
      PROVE  /\ SharedSoFar(blocks, room, NextFit(blocks, at))
             /\ Cardinality(NextFit(blocks, at).pending) = Cardinality(at.pending) - 1
  <2> DEFINE l == blocks[i].len
             p == Cardinality(at.pending)
             rest == at.pending \ {i}
  <2>1. l \in Nat /\ i \in DOMAIN blocks
    BY <1>1, <1>3, TextTypes
  <2>2. p \in Nat /\ p > 0 /\ Cardinality(rest) = p - 1
    BY <1>1, <1>3, PendingCounted
  <2>3. SumOf(Kept(blocks, rest)) = SumOf(Kept(blocks, at.pending)) + l
    <3> DEFINE new == Kept(blocks, rest)
               old == Kept(blocks, at.pending)
    <3>1. \A j \in DOMAIN new : new[j] = old[j] + IF j \in {i} THEN l ELSE 0
      BY <1>1, <2>1, KeptTypes, TextTypes DEF Kept
    <3>2. new \in Seq(Int) /\ old \in Seq(Int) /\ Len(new) = Len(old)
          /\ {i} \subseteq DOMAIN new /\ l \in Int
      BY <2>1, KeptTypes
    <3> HIDE DEF new, old, l
    <3>3. SumOf(new) = SumOf(old) + l * Cardinality({i})
      BY <3>1, <3>2, SumChanges
    <3>4. l * 1 = l
      BY <3>2
    <3>5. Cardinality({i}) = 1
      BY FS_Singleton
    <3> QED BY <3>3, <3>4, <3>5 DEF new, old
  <2>4. SumOf(Kept(blocks, at.pending)) \in Nat /\ at.left + SumOf(Kept(blocks, at.pending)) = room
    BY KeptTypes DEF SharedSoFar
  <2>5. (at.left - l) + SumOf(Kept(blocks, rest)) = room
    <3> HIDE DEF l, rest
    <3> QED BY <1>1, <2>1, <2>3, <2>4
  <2>6. ASSUME NEW j \in DOMAIN blocks \ rest
        PROVE  (p - 1) * blocks[j].len <= at.left - l
    <3> DEFINE q == at.left \div p
               k == blocks[j].len
    <3>1. q \in Nat /\ (p - 1) * q <= at.left - l /\ \A m \in Nat : m <= q <=> p * m <= at.left
      BY <1>1, <1>3, <2>1, <2>2, Shares
    <3>2. k \in Nat
      BY TextTypes
    <3>3. k <= q
      <4>1. CASE j = i
        BY <1>3, <4>1
      <4>2. CASE j # i
        <5>1. p * k <= at.left
          BY <4>2 DEF SharedSoFar
        <5> HIDE DEF q, k
        <5> QED BY <3>1, <3>2, <5>1
      <4> QED BY <4>1, <4>2
    <3> HIDE DEF q, k
    <3>4. (p - 1) * k <= (p - 1) * q
      <4> DEFINE r == p - 1
      <4>1. r \in Nat
        BY <2>2
      <4> HIDE DEF r, p
      <4>2. r * k <= r * q
        BY <3>1, <3>2, <3>3, <4>1
      <4> QED BY <4>2 DEF r
    <3>5. (p - 1) * k \in Int /\ (p - 1) * q \in Int /\ at.left - l \in Int
      <4>1. p - 1 \in Int /\ l \in Int
        BY <2>1, <2>2
      <4> DEFINE r == p - 1
      <4> HIDE DEF r, l
      <4>2. r \in Int => r * k \in Int /\ r * q \in Int
        BY <3>1, <3>2
      <4> QED BY <1>1, <4>1, <4>2 DEF r
    <3>6. (p - 1) * k <= at.left - l
      <4> DEFINE a == (p - 1) * k
                 b == (p - 1) * q
                 c == at.left - l
      <4>1. a \in Int /\ b \in Int /\ c \in Int /\ a <= b /\ b <= c
        BY <3>1, <3>4, <3>5
      <4> HIDE DEF a, b, c
      <4>2. a <= c
        BY <4>1
      <4> QED BY <4>2 DEF a, c
    <3> QED BY <3>6 DEF k
  <2> DEFINE new == NextFit(blocks, at)
  <2>7. new.left = at.left - l /\ new.pending = rest /\ new \in Looping(blocks)
    BY <1>3
  <2>8. new.left + SumOf(Kept(blocks, new.pending)) = room
    BY <2>5, <2>7
  <2>9. \A j \in DOMAIN blocks \ new.pending : Cardinality(new.pending) * blocks[j].len <= new.left
    BY <2>2, <2>6, <2>7
  <2> HIDE DEF new, rest, p
  <2>10. SharedSoFar(blocks, room, new) /\ Cardinality(new.pending) = p - 1
    BY <2>2, <2>7, <2>8, <2>9 DEF SharedSoFar
  <2> QED BY <2>10 DEF new, p
<1> QED BY <1>1, <1>2, <1>3, OneFits

\* The limits are the lengths of the blocks that fit, and one share for all
\* others, P: the room is used up but for less than one character each.
SharedBy(blocks, room, P, share) ==
    /\ P \subseteq DOMAIN blocks /\ share \in Nat
    /\ Limits(blocks, room) =
          [i \in DOMAIN blocks |-> IF i \in P THEN share ELSE blocks[i].len]
    /\ \A i \in P : blocks[i].len > share
    /\ \A i \in DOMAIN blocks \ P : P # {} => blocks[i].len <= share
    /\ SumOf(Limits(blocks, room)) <= room
    /\ P # {} => room - SumOf(Limits(blocks, room)) < Cardinality(P)

LEMMA LimitsShare ==
  ASSUME NEW blocks \in Seq(Texts), NEW room \in Nat
  PROVE  \E P, share : SharedBy(blocks, room, P, share)
<1> DEFINE N == Len(blocks)
<1>1. PICK loop \in [0..N -> Looping(blocks)] :
         /\ loop[0] = [left |-> room, pending |-> DOMAIN blocks]
         /\ \A n \in 1..N : loop[n] = NextFit(blocks, loop[n - 1])
         /\ LET end == loop[N]
            IN  Limits(blocks, room) =
                  [i \in DOMAIN blocks |->
                     IF i \in end.pending THEN end.left \div Cardinality(end.pending)
                     ELSE blocks[i].len]
  BY LimitsLoop
<1>2. N \in Nat /\ DOMAIN blocks = 1..N
  BY TextTypes
<1> DEFINE Ended(n) == \/ NoneFits(blocks, loop[n])
                       \/ Cardinality(loop[n].pending) + n = N
           T == {n \in 0..N : SharedSoFar(blocks, room, loop[n]) /\ Ended(n)}
<1>3. 0 \in T
  <2>1. Cardinality(DOMAIN blocks) = N
    <3> HIDE DEF N
    <3>1. Cardinality(1..N) = IF 1 > N THEN 0 ELSE N - 1 + 1
      BY <1>2, FS_Interval
    <3> QED BY <1>2, <3>1
  <2>2. SharedSoFar(blocks, room, loop[0])
    BY <1>1, SharedFirst
  <2> QED BY <1>1, <1>2, <2>1, <2>2
<1>4. \A n \in 0..(N - 1) : n \in T => n + 1 \in T
  <2> SUFFICES ASSUME NEW n \in 0..(N - 1), n \in T PROVE n + 1 \in T
    OBVIOUS
  <2>1. n + 1 \in 1..N /\ n + 1 \in 0..N /\ (n + 1) - 1 = n /\ n \in Nat
    BY <1>2
  <2>2. loop[n + 1] = NextFit(blocks, loop[n])
    BY <1>1, <2>1
  <2>3. SharedSoFar(blocks, room, loop[n]) /\ Ended(n)
    OBVIOUS
  <2>4. /\ SharedSoFar(blocks, room, loop[n + 1])
        /\ \/ NoneFits(blocks, loop[n]) /\ loop[n + 1] = loop[n]
           \/ Cardinality(loop[n + 1].pending) = Cardinality(loop[n].pending) - 1
    BY <2>2, <2>3, SharedNext
  <2>5. Ended(n + 1)
    <3>1. CASE NoneFits(blocks, loop[n])
      <4>1. loop[n] \in Looping(blocks) /\ loop[n].pending \subseteq DOMAIN blocks
        BY <2>3 DEF SharedSoFar, Looping
      <4>2. NextFit(blocks, loop[n]) = loop[n]
        <5> SUFFICES ASSUME NEW i \in loop[n].pending,
                            blocks[i].len <= loop[n].left \div Cardinality(loop[n].pending)
                     PROVE  FALSE
          BY <4>1, OneFits
        <5>1. blocks[i].len > loop[n].left \div Cardinality(loop[n].pending)
          BY <3>1 DEF NoneFits
        <5>2. Cardinality(loop[n].pending) \in Nat /\ Cardinality(loop[n].pending) > 0
          BY <4>1, PendingCounted
        <5>3. loop[n].left \in Nat /\ blocks[i].len \in Nat
          BY <4>1, TextTypes DEF Looping
        <5>4. loop[n].left \div Cardinality(loop[n].pending) \in Nat
          BY <5>2, <5>3, Shares
        <5> QED BY <5>1, <5>3, <5>4
      <4> QED BY <2>2, <3>1, <4>2
    <3>2. CASE ~NoneFits(blocks, loop[n])
      <4>1. Cardinality(loop[n].pending) \in Nat
        BY <2>3, PendingCounted DEF SharedSoFar, Looping
      <4> QED BY <1>2, <2>1, <2>3, <2>4, <3>2, <4>1
    <3> QED BY <3>1, <3>2
  <2> HIDE DEF Ended
  <2> QED BY <2>1, <2>4, <2>5
<1>5. N \in T
  <2> HIDE DEF T
  <2>1. 0..N \subseteq T
    BY <1>2, <1>3, <1>4, Counting
  <2> QED BY <1>2, <2>1
<1> DEFINE at == loop[N]
           P == at.pending
           p == Cardinality(P)
           limits == Limits(blocks, room)
           share == IF P = {} THEN 0 ELSE at.left \div p
<1>6. /\ at \in Looping(blocks) /\ at.left \in Nat /\ P \subseteq DOMAIN blocks
      /\ at.left + SumOf(Kept(blocks, P)) = room
      /\ \A i \in DOMAIN blocks \ P : p * blocks[i].len <= at.left
  BY <1>5 DEF SharedSoFar, Looping
<1>7. p \in Nat /\ (p = 0 <=> P = {})
  BY <1>6, PendingCounted
<1>8. NoneFits(blocks, at)
  BY <1>2, <1>5, <1>7 DEF NoneFits
<1>9. share \in Nat /\ p * share <= at.left /\ (P # {} => at.left - p * share < p)
  <2>1. CASE P = {}
    <3>1. p * 0 = 0
      BY <1>7
    <3> QED BY <1>6, <2>1, <3>1
  <2>2. CASE P # {}
    <3>1. p > 0
      BY <1>7, <2>2
    <3> HIDE DEF p
    <3> QED BY <1>6, <1>7, <2>2, <3>1, Shares
  <2> QED BY <2>1, <2>2
<1>10. limits = [i \in DOMAIN blocks |-> IF i \in P THEN share ELSE blocks[i].len]
  BY <1>1
<1>11. \A i \in P : blocks[i].len > share
  BY <1>8 DEF NoneFits
<1>12. \A i \in DOMAIN blocks \ P : P # {} => blocks[i].len <= share
  <2> SUFFICES ASSUME NEW i \in DOMAIN blocks \ P, P # {} PROVE blocks[i].len <= share
    OBVIOUS
  <2>1. p > 0 /\ blocks[i].len \in Nat /\ p * blocks[i].len <= at.left
    BY <1>6, <1>7, TextTypes
  <2> DEFINE l == blocks[i].len
  <2> HIDE DEF l, p
  <2>2. l <= at.left \div p
    BY <1>6, <1>7, <2>1, Shares DEF l
  <2> QED BY <2>2 DEF l
<1>13. SumOf(limits) = SumOf(Kept(blocks, P)) + share * p
  <2> DEFINE kept == Kept(blocks, P)
  <2>1. kept \in Seq(Int) /\ DOMAIN kept = DOMAIN blocks /\ Len(kept) = N
    BY KeptTypes
  <2>2. limits \in Seq(Int) /\ Len(limits) = N /\ DOMAIN limits = DOMAIN blocks
    <3>1. \A i \in 1..N : limits[i] \in Int
      BY <1>2, <1>9, <1>10, TextTypes
    <3>2. limits \in [1..N -> Int]
      BY <1>2, <1>10, <3>1
    <3> QED BY <1>2, <3>2
  <2>3. \A i \in DOMAIN limits : limits[i] = kept[i] + IF i \in P THEN share ELSE 0
    BY <1>9, <1>10, <2>2, TextTypes DEF Kept
  <2>4. P \subseteq DOMAIN limits /\ share \in Int /\ Len(limits) = Len(kept)
    BY <1>6, <1>9, <2>1, <2>2
  <2> HIDE DEF limits, share, kept, P
  <2>5. SumOf(limits) = SumOf(kept) + share * Cardinality(P)
    BY <2>1, <2>2, <2>3, <2>4, SumChanges
  <2> QED BY <2>5 DEF kept
<1> HIDE DEF at, P, p, limits, share
<1>14. SumOf(limits) <= room /\ (P # {} => room - SumOf(limits) < p)
  <2>1. SumOf(Kept(blocks, P)) \in Nat
    BY KeptTypes
  <2>2. share * p = p * share /\ p * share \in Nat
    BY <1>7, <1>9
  <2> QED BY <1>6, <1>9, <1>13, <2>1, <2>2
<1>15. \A i \in P : blocks[i].len > share
  BY <1>11
<1> QED BY <1>6, <1>9, <1>10, <1>12, <1>14, <1>15 DEF limits, p, SharedBy

\* An output that is cut is as long as its limit, or by a notice longer when the
\* limit cannot hold one; of its Handoff it keeps what a third of the limit can.
LEMMA ClipLength ==
  ASSUME NEW b \in Texts, NEW limit \in Nat
  PROVE  /\ ClipBlock(b, limit).len \in Nat
         /\ b.len <= limit => ClipBlock(b, limit) = b
         /\ b.len > limit => ClipBlock(b, limit).tail = Min({b.tail, limit \div 3})
         /\ ClipBlock(b, limit).len <=
               limit + IF b.len > limit /\ 2 * limit < 3 * MarkLen THEN MarkLen ELSE 0
<1>1. b.len \in Nat /\ b.tail \in Nat
  BY DEF Texts
<1>2. MarkLen \in Nat
  BY BudgetAssumption
<1>3. CASE b.len <= limit
  <2>1. ClipBlock(b, limit) = b
    BY <1>3 DEF ClipBlock
  <2> QED BY <1>1, <1>2, <1>3, <2>1
<1>4. CASE b.len > limit
  <2> DEFINE tail == Min({b.tail, limit \div 3})
             head == Max({0, limit - tail - MarkLen})
  <2>1. limit \div 3 \in Nat /\ 3 * (limit \div 3) <= limit
    OBVIOUS
  <2>2. tail \in Nat /\ tail <= limit \div 3
    BY <1>1, <2>1, MinOfTwo
  <2>3. head = IF limit - tail - MarkLen >= 0 THEN limit - tail - MarkLen ELSE 0
    <3>1. 0 \in Int /\ limit - tail - MarkLen \in Int
      BY <1>2, <2>2
    <3>2. head = IF 0 >= limit - tail - MarkLen THEN 0 ELSE limit - tail - MarkLen
      <4> DEFINE x == limit - tail - MarkLen
      <4> HIDE DEF x
      <4>1. Max({0, x}) = IF 0 >= x THEN 0 ELSE x
        BY <3>1, MaxOfTwo DEF x
      <4> QED BY <4>1 DEF x
    <3> HIDE DEF tail, head
    <3> QED BY <1>2, <2>2, <3>2
  <2>4. ClipBlock(b, limit) = [len |-> head + MarkLen + tail, tail |-> tail]
    BY <1>1, <1>4 DEF ClipBlock
  <2> HIDE DEF head, tail
  <2>5. head + MarkLen + tail \in Nat
    BY <1>2, <2>2, <2>3
  <2>6. head + MarkLen + tail <= limit + IF 2 * limit < 3 * MarkLen THEN MarkLen ELSE 0
    BY <1>2, <2>1, <2>2, <2>3
  <2> QED BY <1>1, <1>4, <2>4, <2>5, <2>6 DEF tail
<1> QED BY <1>1, <1>3, <1>4

\* The knowledge that is given: within its part of the budget, or a notice.
LEMMA KnownLength ==
  ASSUME NEW knowledge \in Nat, NEW cap \in Nat
  PROVE  LET known == IF knowledge > cap THEN Max({0, cap - MarkLen}) + MarkLen - 2
                      ELSE knowledge
         IN  /\ known \in Nat
             /\ known <= cap \/ known <= MarkLen
             /\ knowledge = 0 => known = 0
<1>1. MarkLen \in Nat /\ MarkLen >= 2
  BY BudgetAssumption
<1>2. Max({0, cap - MarkLen}) = IF 0 >= cap - MarkLen THEN 0 ELSE cap - MarkLen
  <2> DEFINE x == cap - MarkLen
  <2>1. x \in Int
    BY <1>1
  <2> HIDE DEF x
  <2>2. Max({0, x}) = IF 0 >= x THEN 0 ELSE x
    BY <2>1, MaxOfTwo
  <2> QED BY <2>2 DEF x
<1> QED BY <1>1, <1>2

\* What is given of outputs and knowledge that do not fit: within the budget,
\* but for a notice for each piece whose share cannot hold one; and the shares.
CutToFit(blocks, knowledge, budget, sent) ==
    LET limits == Limits(blocks, sent.room)
        small  == Cardinality({i \in sent.cut : 2 * limits[i] < 3 * MarkLen})
    IN  /\ sent.room \in Nat /\ sent.knowledge \in Nat /\ small \in Nat
        /\ sent.cut = {i \in DOMAIN blocks : blocks[i].len > limits[i]}
        /\ sent.blocks = [i \in DOMAIN blocks |-> ClipBlock(blocks[i], limits[i])]
        /\ knowledge = 0 => sent.knowledge = 0
        /\ Total(sent.blocks) \in Nat
        /\ Total(sent.blocks) <= sent.room + MarkLen * small
        /\ \/ sent.knowledge + sent.room <= budget
           \/ sent.knowledge > budget /\ sent.knowledge + sent.room <= budget + MarkLen

LEMMA FitLength ==
  ASSUME NEW blocks \in Seq(Texts), NEW knowledge \in Nat, NEW budget \in Nat,
         ~ (Total(blocks) + knowledge <= budget)
  PROVE  CutToFit(blocks, knowledge, budget, FitInputs(blocks, knowledge, budget))
<1> DEFINE sent  == FitInputs(blocks, knowledge, budget)
           cap   == IF blocks = <<>> THEN budget ELSE budget \div 2
           known == IF knowledge > cap THEN Max({0, cap - MarkLen}) + MarkLen - 2
                    ELSE knowledge
           room  == Max({0, budget - known})
           limits == Limits(blocks, room)
           cut   == {i \in DOMAIN blocks : blocks[i].len > limits[i]}
           given == [i \in DOMAIN blocks |-> ClipBlock(blocks[i], limits[i])]
           S     == {i \in cut : 2 * limits[i] < 3 * MarkLen}
<1>1. sent = [blocks |-> given, knowledge |-> known, cut |-> cut, room |-> room]
  BY DEF FitInputs
<1>2. MarkLen \in Nat
  BY BudgetAssumption
<1>3. cap \in Nat /\ cap <= budget
  OBVIOUS
<1>4. known \in Nat /\ (known <= cap \/ known <= MarkLen) /\ (knowledge = 0 => known = 0)
  <2> HIDE DEF cap
  <2> QED BY <1>3, KnownLength
<1>5. room = IF 0 >= budget - known THEN 0 ELSE budget - known
  <2> DEFINE x == budget - known
  <2> HIDE DEF known
  <2>1. x \in Int
    BY <1>4
  <2> HIDE DEF x
  <2>2. Max({0, x}) = IF 0 >= x THEN 0 ELSE x
    BY <2>1, MaxOfTwo
  <2> QED BY <2>2 DEF x
<1> HIDE DEF known, room, cap
<1>6. room \in Nat
  BY <1>4, <1>5
<1>7. \/ known + room <= budget
      \/ known > budget /\ known + room <= budget + MarkLen
  BY <1>2, <1>3, <1>4, <1>5
<1>8. /\ DOMAIN limits = DOMAIN blocks /\ \A i \in DOMAIN blocks : limits[i] \in Nat
      /\ limits \in [DOMAIN blocks -> Nat]
  <2>1. PICK P, share : SharedBy(blocks, room, P, share)
    BY <1>6, LimitsShare
  <2>2. \A i \in DOMAIN blocks : blocks[i].len \in Nat
    BY TextTypes
  <2>3. limits = [i \in DOMAIN blocks |-> IF i \in P THEN share ELSE blocks[i].len] /\ share \in Nat
    BY <2>1 DEF SharedBy
  <2> HIDE DEF limits
  <2> QED BY <2>2, <2>3
<1>9. SumOf(limits) <= room
  BY <1>6, LimitsShare DEF SharedBy
<1> HIDE DEF limits
<1>10. S \subseteq DOMAIN blocks /\ Cardinality(S) \in Nat
  BY PendingCounted
<1>11. \A i \in DOMAIN blocks :
         /\ given[i].len \in Nat
         /\ given[i].len <= limits[i] + IF i \in S THEN MarkLen ELSE 0
  <2> SUFFICES ASSUME NEW i \in DOMAIN blocks
               PROVE  /\ given[i].len \in Nat
                      /\ given[i].len <= limits[i] + IF i \in S THEN MarkLen ELSE 0
    OBVIOUS
  <2>1. blocks[i] \in Texts /\ limits[i] \in Nat
    BY <1>8
  <2>2. given[i] = ClipBlock(blocks[i], limits[i])
    OBVIOUS
  <2>3. i \in S <=> blocks[i].len > limits[i] /\ 2 * limits[i] < 3 * MarkLen
    OBVIOUS
  <2> HIDE DEF S, given
  <2> QED BY <2>1, <2>2, <2>3, ClipLength
<1> DEFINE lens == [i \in DOMAIN given |-> given[i].len]
<1>12. DOMAIN blocks = 1..Len(blocks) /\ Len(blocks) \in Nat
  BY TextTypes
<1>13. lens \in Seq(Nat) /\ lens \in Seq(Int) /\ Len(lens) = Len(blocks) /\ DOMAIN lens = DOMAIN blocks
  <2>1. DOMAIN given = DOMAIN blocks
    OBVIOUS
  <2>2. \A i \in DOMAIN blocks : lens[i] \in Nat
    BY <1>11, <2>1
  <2>3. lens \in [1..Len(blocks) -> Nat]
    <3> HIDE DEF given
    <3> QED BY <1>12, <2>1, <2>2
  <2> HIDE DEF lens
  <2> QED BY <1>12, <2>3
<1>14. limits \in Seq(Int) /\ Len(limits) = Len(blocks)
  <2>1. limits \in [1..Len(blocks) -> Int]
    BY <1>8, <1>12
  <2> QED BY <1>12, <2>1
<1>15. Total(given) \in Nat /\ SumOf(limits) \in Int
  <2>1. Total(given) = SumOf(lens)
    BY DEF Total
  <2> HIDE DEF given, lens
  <2>2. SumOf(lens) \in Nat
    BY <1>13, SumType
  <2>3. SumOf(limits) \in Int
    <3>1. PICK u \in [0..Len(limits) -> Int] :
            u[0] = 0 /\ SumOf(limits) = u[Len(limits)]
            /\ \A n \in 1..Len(limits) : u[n] = u[n - 1] + limits[n]
      BY <1>14, SumRuns
    <3> QED BY <1>12, <1>14, <3>1
  <2> QED BY <2>1, <2>2, <2>3
<1>16. Total(given) <= SumOf(limits) + MarkLen * Cardinality(S)
  <2>1. \A i \in DOMAIN lens : lens[i] <= limits[i] + IF i \in S THEN MarkLen ELSE 0
    BY <1>11, <1>13
  <2>2. S \subseteq DOMAIN lens /\ MarkLen \in Int /\ Len(lens) = Len(limits)
    BY <1>2, <1>10, <1>13, <1>14
  <2>3. Total(given) = SumOf(lens)
    BY DEF Total
  <2> HIDE DEF lens, given, S
  <2> QED BY <1>13, <1>14, <2>1, <2>2, <2>3, SumGrows
<1> DEFINE small == Cardinality(S)
<1>17. Total(given) <= room + MarkLen * small
  <2>1. MarkLen * small \in Int
    <3> HIDE DEF small
    <3> QED BY <1>2, <1>10 DEF small
  <2> HIDE DEF given, S
  <2> QED BY <1>6, <1>9, <1>15, <1>16, <2>1
<1>18. limits = Limits(blocks, sent.room)
  BY <1>1 DEF limits
<1> HIDE DEF given, cut
<1> QED BY <1>1, <1>4, <1>6, <1>7, <1>10, <1>15, <1>17, <1>18 DEF given, cut, CutToFit

\* Every run of an expert there may be.
Runs == [local : BOOLEAN, ctx : Nat, max_tokens : Nat, fixed : Nat, knowledge : Nat,
         blocks : Seq(Texts)]

LEMMA Budgets ==
  ASSUME NEW run \in Runs, run.local, run.ctx # 0
  PROVE  /\ WorkerBudget(run) \in Nat /\ Room(run) \in Int
         /\ run.fixed + Margin <= Room(run) =>
               WorkerBudget(run) = Room(run) - run.fixed - Margin
         /\ InputsOf(run) = FitInputs(run.blocks, run.knowledge, WorkerBudget(run))
<1> DEFINE x == Room(run) - run.fixed - Margin
<1>1. run.ctx \in Nat /\ run.max_tokens \in Nat /\ run.fixed \in Nat /\ Margin \in Nat
  BY BudgetAssumption DEF Runs
<1>2. Room(run) \in Int
  <2>1. \A n \in Int : n \div 2 \in Int
    OBVIOUS
  <2>2. 3 * (run.ctx - run.max_tokens) \in Int
    BY <1>1
  <2> QED BY <2>1, <2>2 DEF Room
<1>3. WorkerBudget(run) = Max({0, x})
  BY DEF WorkerBudget
<1>4. x \in Int
  BY <1>1, <1>2
<1>5. Max({0, x}) = IF 0 >= x THEN 0 ELSE x
  <2> HIDE DEF x
  <2> QED BY <1>4, MaxOfTwo
<1>6. WorkerBudget(run) \in Nat
  BY <1>3, <1>4, <1>5
<1>7. WorkerBudget(run) # NoLimit
  BY <1>6 DEF NoLimit
<1>8. InputsOf(run) = FitInputs(run.blocks, run.knowledge, WorkerBudget(run))
  BY <1>7 DEF InputsOf
<1>9. run.fixed + Margin <= Room(run) => WorkerBudget(run) = x
  BY <1>1, <1>2, <1>3, <1>5
<1> QED BY <1>2, <1>6, <1>8, <1>9

\* What fits is left alone.
LEMMA FitsAlone ==
  ASSUME NEW blocks \in Seq(Texts), NEW knowledge \in Nat, NEW budget \in Nat,
         Total(blocks) + knowledge <= budget
  PROVE  FitInputs(blocks, knowledge, budget) =
            [blocks |-> blocks, knowledge |-> knowledge, cut |-> {}, room |-> FitInputs(blocks, knowledge, budget).room]
BY DEF FitInputs

LEMMA TotalType ==
  ASSUME NEW blocks \in Seq(Texts)
  PROVE  Total(blocks) \in Nat
<1> DEFINE lens == [i \in DOMAIN blocks |-> blocks[i].len]
<1>1. DOMAIN blocks = 1..Len(blocks) /\ Len(blocks) \in Nat
  BY TextTypes
<1>2. lens \in [1..Len(blocks) -> Nat]
  BY <1>1, TextTypes
<1>3. Total(blocks) = SumOf(lens)
  BY DEF Total
<1> HIDE DEF lens
<1>4. lens \in Seq(Nat)
  BY <1>1, <1>2
<1> QED BY <1>3, <1>4, SumType

\* Empty lines take no more room around what is given than around what was there.
LEMMA SeparatorTypes ==
  ASSUME NEW blocks \in Seq(Texts), NEW given, DOMAIN given = DOMAIN blocks,
         given \in Seq({given[i] : i \in DOMAIN given}),
         NEW knowledge \in Nat, NEW known \in Nat, knowledge = 0 => known = 0
  PROVE  /\ Separators(blocks, knowledge) \in Nat /\ Separators(given, known) \in Nat
         /\ Separators(given, known) <= Separators(blocks, knowledge)
<1>1. Len(given) = Len(blocks) /\ Len(blocks) \in Nat
  OBVIOUS
<1>2. given = <<>> <=> blocks = <<>>
  OBVIOUS
<1>3. blocks # <<>> => Len(blocks) >= 1
  OBVIOUS
<1> DEFINE before == Separators(blocks, knowledge)
           after  == Separators(given, known)
<1>4. CASE blocks = <<>>
  <2>1. before = 10 + (IF knowledge = 0 THEN 0 ELSE 2) /\ after = 10 + (IF known = 0 THEN 0 ELSE 2)
    BY <1>2, <1>4 DEF Separators
  <2> HIDE DEF before, after
  <2>2. before \in Nat /\ after \in Nat /\ after <= before
    BY <2>1
  <2> QED BY <2>2 DEF before, after
<1>5. CASE blocks # <<>>
  <2> DEFINE n == Len(blocks)
  <2>1. before = 2 * (n - 1) + (IF knowledge = 0 THEN 0 ELSE 2)
    BY <1>5 DEF Separators
  <2>2. after = 2 * (n - 1) + (IF known = 0 THEN 0 ELSE 2)
    BY <1>1, <1>2, <1>5 DEF Separators
  <2>3. n \in Nat /\ n >= 1
    BY <1>1, <1>3, <1>5
  <2> HIDE DEF before, after, n
  <2>4. before \in Nat /\ after \in Nat /\ after <= before
    BY <2>1, <2>2, <2>3
  <2> QED BY <2>4 DEF before, after
<1> QED BY <1>4, <1>5

\* What is cut for a local model fits its context, and what fits is not cut.
LEMMA EveryRunFits ==
  ASSUME NEW run \in Runs, run.local, run.ctx # 0
  PROVE  /\ FitsContext(run, InputsOf(run))
         /\ WorkerPrompt(run, InputsOf(run).blocks, InputsOf(run).knowledge) \in Int
<1> DEFINE sent   == InputsOf(run)
           budget == WorkerBudget(run)
           blocks == run.blocks
           knowledge == run.knowledge
           small  == Cardinality({i \in sent.cut : 2 * Limits(blocks, sent.room)[i] < 3 * MarkLen})
           over   == IF sent.knowledge <= budget THEN 0 ELSE 1
           total  == Total(sent.blocks)
           before == Separators(blocks, knowledge)
           after  == Separators(sent.blocks, sent.knowledge)
<1>1. blocks \in Seq(Texts) /\ knowledge \in Nat /\ run.fixed \in Nat
  BY DEF Runs
<1>2. budget \in Nat /\ sent = FitInputs(blocks, knowledge, budget)
  BY Budgets
<1>3. MarkLen \in Nat /\ Margin \in Nat
  BY BudgetAssumption
<1>4. Total(blocks) \in Nat
  BY <1>1, TotalType
<1>5. TooSmall(run, sent) = small + over
  BY DEF TooSmall
<1> HIDE DEF sent, budget, blocks, knowledge
<1>6. /\ total \in Nat /\ sent.knowledge \in Nat /\ small \in Nat
      /\ total + sent.knowledge <= budget + MarkLen * small + MarkLen * over
      /\ before \in Nat /\ after \in Nat /\ after <= before
  <2>1. CASE Total(blocks) + knowledge <= budget
    <3>1. sent.blocks = blocks /\ sent.knowledge = knowledge /\ sent.cut = {}
      BY <1>1, <1>2, <2>1, FitsAlone
    <3>2. small = 0 /\ over = 0
      <4>1. {i \in sent.cut : 2 * Limits(blocks, sent.room)[i] < 3 * MarkLen} = {}
        BY <3>1
      <4>2. knowledge <= budget
        BY <1>1, <1>2, <1>4, <2>1
      <4> QED BY <3>1, <4>1, <4>2, FS_EmptySet
    <3>3. MarkLen * 0 = 0
      BY <1>3
    <3>4. before \in Nat
      <4>1. blocks \in Seq({blocks[i] : i \in DOMAIN blocks})
        BY <1>1
      <4> QED BY <1>1, <4>1, SeparatorTypes
    <3> QED BY <1>1, <1>2, <1>4, <2>1, <3>1, <3>2, <3>3, <3>4
  <2>2. CASE ~ (Total(blocks) + knowledge <= budget)
    <3> DEFINE limits == Limits(blocks, sent.room)
    <3>1. /\ sent.room \in Nat /\ sent.knowledge \in Nat /\ small \in Nat
          /\ sent.blocks = [i \in DOMAIN blocks |-> ClipBlock(blocks[i], limits[i])]
          /\ knowledge = 0 => sent.knowledge = 0
          /\ total \in Nat
          /\ total <= sent.room + MarkLen * small
          /\ \/ sent.knowledge + sent.room <= budget
             \/ sent.knowledge > budget /\ sent.knowledge + sent.room <= budget + MarkLen
      <4>1. CutToFit(blocks, knowledge, budget, sent)
        BY <1>1, <1>2, <2>2, FitLength
      <4> QED BY <4>1 DEF CutToFit
    <3>2. before \in Nat /\ after \in Nat /\ after <= before
      <4> DEFINE given == sent.blocks
      <4>1. DOMAIN given = DOMAIN blocks
        BY <3>1
      <4>2. DOMAIN given = 1..Len(blocks) /\ Len(blocks) \in Nat
        BY <1>1, <4>1, TextTypes
      <4> HIDE DEF limits
      <4>3. given = [i \in 1..Len(blocks) |-> given[i]]
        BY <3>1, <4>1, <4>2
      <4> HIDE DEF given
      <4>4. given \in Seq({given[i] : i \in DOMAIN given})
        BY <4>2, <4>3
      <4>5. knowledge = 0 => sent.knowledge = 0
        BY <3>1
      <4> QED BY <1>1, <3>1, <4>1, <4>4, <4>5, SeparatorTypes DEF given
    <3> DEFINE m == MarkLen * small
    <3>3. m \in Nat
      <4> HIDE DEF small
      <4> QED BY <1>3, <3>1
    <3>4. MarkLen * 0 = 0 /\ MarkLen * 1 = MarkLen
      BY <1>3
    <3>5. total + sent.knowledge <= budget + m + MarkLen * over
      <4> HIDE DEF m, total
      <4>1. total <= sent.room + m
        BY <3>1 DEF m
      <4>2. CASE sent.knowledge + sent.room <= budget
        <5>1. sent.knowledge <= budget
          BY <1>2, <3>1, <4>2
        <5>2. MarkLen * over = 0
          BY <3>4, <5>1
        <5> HIDE DEF over
        <5> QED BY <1>2, <1>3, <3>1, <3>3, <4>1, <4>2, <5>2
      <4>3. CASE sent.knowledge > budget /\ sent.knowledge + sent.room <= budget + MarkLen
        <5>1. ~ (sent.knowledge <= budget)
          BY <1>2, <3>1, <4>3
        <5>2. MarkLen * over = MarkLen
          BY <3>4, <5>1
        <5> HIDE DEF over
        <5> QED BY <1>2, <1>3, <3>1, <3>3, <4>1, <4>3, <5>2
      <4> QED BY <3>1, <4>2, <4>3
    <3> QED BY <3>1, <3>2, <3>5
  <2> QED BY <2>1, <2>2
<1>7. over \in Nat
  OBVIOUS
<1>8. MarkLen * (small + over) = MarkLen * small + MarkLen * over
      /\ MarkLen * small \in Nat /\ MarkLen * over \in Nat
  <2> HIDE DEF small, over
  <2> QED BY <1>3, <1>6, <1>7
<1>9. WorkerPrompt(run, sent.blocks, sent.knowledge) = run.fixed + total + sent.knowledge + after
  BY DEF WorkerPrompt
<1>10. ASSUME MarginHolds(run, sent)
       PROVE  WorkerPrompt(run, sent.blocks, sent.knowledge) <= Room(run)
  <2>0. run.fixed + Margin <= Room(run) /\ MarkLen * TooSmall(run, sent) + before <= Margin
    BY <1>10 DEF MarginHolds, blocks, knowledge
  <2>1. Room(run) \in Int /\ budget = Room(run) - run.fixed - Margin
    BY <2>0, Budgets DEF budget
  <2> DEFINE a == MarkLen * small
             b == MarkLen * over
  <2>2. a + b + before <= Margin /\ a \in Nat /\ b \in Nat
    BY <1>5, <1>8, <2>0
  <2>3. total + sent.knowledge <= budget + a + b
    BY <1>6
  <2>4. /\ total \in Nat /\ sent.knowledge \in Nat /\ before \in Nat /\ after \in Nat
        /\ after <= before /\ run.fixed \in Nat /\ Margin \in Nat
    BY <1>1, <1>3, <1>6
  <2> HIDE DEF a, b, total, before, after
  <2>5. run.fixed + total + sent.knowledge + after <= Room(run)
    BY <2>1, <2>2, <2>3, <2>4
  <2> QED BY <1>9, <2>5
<1>11. ASSUME Total(blocks) + knowledge <= budget
       PROVE  sent.blocks = blocks /\ sent.knowledge = knowledge
  BY <1>1, <1>2, <1>11, FitsAlone
<1>12. WorkerPrompt(run, sent.blocks, sent.knowledge) \in Int
  <2> HIDE DEF total, after
  <2> QED BY <1>1, <1>6, <1>9
<1> QED BY <1>10, <1>11, <1>12 DEF FitsContext, sent, budget, blocks, knowledge

\* The correction runs over the context by no more than its notice, when the
\* answer is of max_tokens.
LEMMA EveryOverrunIsBounded ==
  ASSUME NEW run \in Runs, run.local, run.ctx # 0, NEW answer \in Nat, NEW notice \in Nat
  PROVE  OverrunIsBounded(run, InputsOf(run), answer, notice)
<1> DEFINE sent == InputsOf(run)
           asked == WorkerPrompt(run, sent.blocks, sent.knowledge)
           spare == 3 * (run.ctx - run.max_tokens)
<1>1. asked \in Int /\ (MarginHolds(run, sent) => asked <= Room(run))
  BY EveryRunFits DEF FitsContext
<1>2. run.ctx \in Nat /\ run.max_tokens \in Nat
  BY DEF Runs
<1>3. Room(run) \in Int /\ 2 * Room(run) <= spare
  <2>1. spare \in Int /\ Room(run) = spare \div 2
    BY <1>2 DEF Room
  <2> HIDE DEF spare
  <2> QED BY <2>1
<1>4. spare = 3 * run.ctx - 3 * run.max_tokens
  BY <1>2
<1>5. CorrectionPrompt(run, sent, answer, notice) = asked + answer + notice
  BY DEF CorrectionPrompt
<1>6. ASSUME MarginHolds(run, sent), 2 * answer <= 3 * run.max_tokens
      PROVE  2 * CorrectionPrompt(run, sent, answer, notice) <= 3 * run.ctx + 2 * notice
  <2> HIDE DEF asked, spare
  <2> QED BY <1>1, <1>2, <1>3, <1>4, <1>5, <1>6
<1> QED BY <1>6 DEF OverrunIsBounded

\* What is cut is cut in fair shares.
LEMMA EveryCutIsFair ==
  ASSUME NEW run \in Runs, run.local, run.ctx # 0
  PROVE  SharesAreFair(run, InputsOf(run))
<1> DEFINE sent   == InputsOf(run)
           budget == WorkerBudget(run)
           blocks == run.blocks
           knowledge == run.knowledge
           limits == Limits(blocks, sent.room)
<1>1. blocks \in Seq(Texts) /\ knowledge \in Nat
  BY DEF Runs
<1>2. budget \in Nat /\ sent = FitInputs(blocks, knowledge, budget)
  BY Budgets
<1> HIDE DEF sent, budget, blocks, knowledge
<1> SUFFICES ASSUME sent.cut # {}
             PROVE  /\ \A i \in sent.cut, j \in DOMAIN limits : limits[j] <= limits[i]
                    /\ SumOf(limits) <= sent.room
                    /\ sent.room - SumOf(limits) < Cardinality(sent.cut)
                    /\ \A i \in sent.cut :
                          sent.blocks[i].tail = Min({blocks[i].tail, limits[i] \div 3})
  BY DEF SharesAreFair, sent, blocks
<1>3. ~ (Total(blocks) + knowledge <= budget)
  BY <1>1, <1>2, FitsAlone
<1>4. /\ sent.room \in Nat
      /\ sent.cut = {i \in DOMAIN blocks : blocks[i].len > limits[i]}
      /\ sent.blocks = [i \in DOMAIN blocks |-> ClipBlock(blocks[i], limits[i])]
  <2>1. CutToFit(blocks, knowledge, budget, sent)
    BY <1>1, <1>2, <1>3, FitLength
  <2> QED BY <2>1 DEF CutToFit
<1>5. PICK P, share : SharedBy(blocks, sent.room, P, share)
  BY <1>1, <1>4, LimitsShare
<1>6. /\ P \subseteq DOMAIN blocks /\ share \in Nat
      /\ limits = [i \in DOMAIN blocks |-> IF i \in P THEN share ELSE blocks[i].len]
      /\ \A i \in P : blocks[i].len > share
      /\ \A i \in DOMAIN blocks \ P : P # {} => blocks[i].len <= share
      /\ SumOf(limits) <= sent.room
      /\ P # {} => sent.room - SumOf(limits) < Cardinality(P)
  BY <1>5 DEF SharedBy
<1> HIDE DEF limits
<1>7. \A i \in DOMAIN blocks : blocks[i].len \in Nat /\ blocks[i] \in Texts
  BY <1>1, TextTypes
<1>8. sent.cut = P
  <2>1. \A i \in DOMAIN blocks : i \in P <=> blocks[i].len > limits[i]
    BY <1>6, <1>7
  <2> QED BY <1>4, <1>6, <2>1
<1>9. \A i \in P, j \in DOMAIN limits : limits[j] <= limits[i]
  <2> SUFFICES ASSUME NEW i \in P, NEW j \in DOMAIN limits PROVE limits[j] <= limits[i]
    OBVIOUS
  <2>1. limits[i] = share /\ j \in DOMAIN blocks /\ limits[j] <= share
    BY <1>6
  <2> QED BY <2>1
<1>10. \A i \in P : sent.blocks[i].tail = Min({blocks[i].tail, limits[i] \div 3})
  <2> SUFFICES ASSUME NEW i \in P
               PROVE  sent.blocks[i].tail = Min({blocks[i].tail, limits[i] \div 3})
    OBVIOUS
  <2>1. i \in DOMAIN blocks /\ limits[i] = share /\ blocks[i].len > share
    BY <1>6
  <2>2. sent.blocks[i] = ClipBlock(blocks[i], share)
    BY <1>4, <2>1
  <2>3. ClipBlock(blocks[i], share).tail = Min({blocks[i].tail, share \div 3})
    BY <1>6, <1>7, <2>1, ClipLength
  <2> QED BY <2>1, <2>2, <2>3
<1> QED BY <1>6, <1>8, <1>9, <1>10
------------------------------------------------------------------------------
(* What the Conductor is shown.                                               *)

Talk == {"user", "assistant"}

\* The end of a sequence that was put behind another one is that sequence.
LEMMA EndOfBoth ==
  ASSUME NEW S, NEW a \in Seq(S), NEW b \in Seq(S)
  PROVE  /\ Len(a \o b) = Len(a) + Len(b)
         /\ SubSeq(a \o b, Len(a \o b) - Len(b) + 1, Len(a \o b)) = b
<1> DEFINE c == a \o b
           m == Len(a)
           n == Len(b)
           e == SubSeq(c, Len(c) - n + 1, Len(c))
<1>1. /\ c \in Seq(S) /\ m \in Nat /\ n \in Nat /\ Len(c) = m + n
      /\ \A i \in 1..n : c[m + i] = b[i]
  OBVIOUS
<1> HIDE DEF c, m, n
<1>2. e = SubSeq(c, m + 1, m + n)
  BY <1>1
<1>3. Len(e) = n /\ \A i \in 1..n : e[i] = c[m + i]
  BY <1>1, <1>2
<1>4. e \in Seq(S)
  BY <1>1, <1>2
<1> HIDE DEF e
<1>5. e = b
  <2>1. Len(e) = Len(b) /\ \A i \in 1..Len(b) : e[i] = b[i]
    BY <1>1, <1>3 DEF n
  <2> QED BY <1>4, <2>1
<1> QED BY <1>1, <1>5 DEF c, m, n, e

\* A slice is the whole talk, or its last messages from start on.
CutAt(history, window, slice, start) ==
    LET N == Len(history)
    IN  /\ window > 0 /\ N > window /\ start \in (N - window + 1)..N
        /\ slice = [messages |-> SubSeq(history, start, N), truncated |-> TRUE]
        /\ \/ start = N - window + 1
           \/ /\ history[start] = "user"
              /\ \A i \in (N - window + 1)..(start - 1) : history[i] # "user"

LEMMA SliceIs ==
  ASSUME NEW history \in Seq(Talk), NEW window \in Nat
  PROVE  LET slice == SliceHistory(history, window)
         IN  \/ /\ window = 0 \/ Len(history) <= window
                /\ slice = [messages |-> history, truncated |-> FALSE]
             \/ \E start : CutAt(history, window, slice, start)
<1> DEFINE N     == Len(history)
           raw   == N - window + 1
           users == {i \in Max({1, raw})..N : history[i] = "user"}
           start == IF users = {} THEN raw ELSE Min(users)
           slice == SliceHistory(history, window)
<1>1. N \in Nat
  OBVIOUS
<1>2. slice = IF window = 0 \/ N <= window
                THEN [messages |-> history, truncated |-> FALSE]
                ELSE [messages |-> SubSeq(history, start, N), truncated |-> TRUE]
  BY DEF SliceHistory
<1>3. CASE window = 0 \/ N <= window
  BY <1>2, <1>3
<1>4. CASE window > 0 /\ N > window
  <2>1. raw \in 2..N
    BY <1>1, <1>4
  <2>2. Max({1, raw}) = raw
    <3> HIDE DEF raw
    <3> QED BY <2>1, MaxOfTwo
  <2>3. users = {i \in raw..N : history[i] = "user"}
    BY <2>2
  <2>4. users \subseteq Nat
    <3> HIDE DEF raw, users
    <3> QED BY <1>1, <2>1, <2>3
  <2>5. start \in raw..N /\ (start = raw \/ (history[start] = "user" /\ \A i \in raw..(start - 1) : history[i] # "user"))
    <3>1. CASE users = {}
      <4>1. start = raw
        BY <3>1
      <4> HIDE DEF start, raw, users, N
      <4>2. raw \in raw..N
        BY <1>1, <2>1
      <4> QED BY <4>1, <4>2
    <3>2. CASE users # {}
      <4>1. start \in users /\ \A i \in users : start <= i
        <5> HIDE DEF users
        <5> QED BY <2>4, <3>2, LeastOfMany
      <4> HIDE DEF start, users, raw, N
      <4>2. start \in raw..N /\ history[start] = "user"
        BY <2>3, <4>1
      <4>3. \A i \in raw..(start - 1) : history[i] # "user"
        <5> SUFFICES ASSUME NEW i \in raw..(start - 1), history[i] = "user" PROVE FALSE
          OBVIOUS
        <5>1. i \in raw..N /\ i < start
          BY <1>1, <2>1, <4>2
        <5>2. i \in users
          BY <2>3, <5>1
        <5> QED BY <1>1, <2>1, <4>1, <4>2, <5>1, <5>2
      <4> QED BY <4>2, <4>3
    <3> QED BY <3>1, <3>2
  <2>6. slice = [messages |-> SubSeq(history, start, N), truncated |-> TRUE]
    BY <1>1, <1>2, <1>4
  <2> HIDE DEF start, slice
  <2>7. CutAt(history, window, slice, start)
    BY <1>4, <2>5, <2>6 DEF CutAt
  <2> QED BY <2>7 DEF slice
<1> QED BY <1>1, <1>3, <1>4

\* What is said before the talk, and that the cut is told of there.
LEMMA PartialIsTold ==
  ASSUME NEW slice, slice.messages \in Seq(Talk), slice.truncated \in BOOLEAN,
         NEW table \in BOOLEAN
  PROVE  LET messages == ConductorMessages(TRUE, table, slice)
             n == Len(slice.messages)
         IN  /\ SubSeq(messages, Len(messages) - n + 1, Len(messages)) = slice.messages
             /\ Contains(messages, "partial") <=> slice.truncated
<1> DEFINE S    == Talk \cup {"system", "brief", "partial", "state", "modules", "table"}
           p    == IF slice.truncated THEN <<"partial">> ELSE <<"state">>
           t    == IF table THEN <<"table">> ELSE <<>>
           head == <<"system", "brief">> \o p \o <<"modules">> \o t
           tail == slice.messages
           all  == ConductorMessages(TRUE, table, slice)
<1>1. all = head \o tail
  BY DEF ConductorMessages
<1>2. head \in Seq(S) /\ tail \in Seq(S)
  <2>1. <<"system", "brief">> \in Seq(S) /\ <<"modules">> \in Seq(S)
    OBVIOUS
  <2>2. p \in Seq(S) /\ t \in Seq(S)
    <3>1. /\ <<"partial">> \in Seq(S) /\ <<"state">> \in Seq(S)
          /\ <<"table">> \in Seq(S) /\ <<>> \in Seq(S)
      OBVIOUS
    <3> HIDE DEF S
    <3> QED BY <3>1
  <2> HIDE DEF p, t
  <2>3. head \in Seq(S)
    BY <2>1, <2>2
  <2>4. Talk \subseteq S
    OBVIOUS
  <2> HIDE DEF S
  <2>5. tail \in Seq(S)
    BY <2>4
  <2> QED BY <2>3, <2>5
<1>3. Contains(head, "partial") <=> slice.truncated
  <2>1. CASE slice.truncated
    <3>1. head[3] = "partial" /\ Len(head) >= 3 /\ Len(head) \in Nat
      BY <2>1
    <3> QED BY <2>1, <3>1 DEF Contains
  <2>2. CASE ~slice.truncated
    <3>1. \A i \in 1..Len(head) : head[i] # "partial"
      BY <2>2
    <3> QED BY <2>2, <3>1 DEF Contains
  <2> QED BY <2>1, <2>2
<1> HIDE DEF head, all, S
<1>4. \A i \in 1..Len(tail) : tail[i] # "partial"
  BY DEF Talk
<1>5. Contains(all, "partial") <=> Contains(head, "partial")
  <2>1. /\ Len(all) = Len(head) + Len(tail) /\ Len(head) \in Nat /\ Len(tail) \in Nat
        /\ \A i \in 1..Len(head) : all[i] = head[i]
        /\ \A i \in (Len(head) + 1)..Len(all) : all[i] = tail[i - Len(head)]
    BY <1>1, <1>2
  <2>2. \A i \in (Len(head) + 1)..Len(all) : i - Len(head) \in 1..Len(tail)
    BY <2>1
  <2>3. ASSUME Contains(all, "partial") PROVE Contains(head, "partial")
    <3>1. PICK i \in 1..Len(all) : all[i] = "partial"
      BY <2>3 DEF Contains
    <3>2. i \notin (Len(head) + 1)..Len(all)
      BY <1>4, <2>1, <2>2, <3>1
    <3>3. i \in 1..Len(head)
      BY <2>1, <3>1, <3>2
    <3> QED BY <2>1, <3>1, <3>3 DEF Contains
  <2>4. ASSUME Contains(head, "partial") PROVE Contains(all, "partial")
    <3>1. PICK i \in 1..Len(head) : head[i] = "partial"
      BY <2>4 DEF Contains
    <3>2. i \in 1..Len(all) /\ all[i] = "partial"
      BY <2>1, <3>1
    <3> QED BY <3>2 DEF Contains
  <2> QED BY <2>3, <2>4
<1>6. SubSeq(all, Len(all) - Len(tail) + 1, Len(all)) = tail
  BY <1>1, <1>2, EndOfBoth
<1> QED BY <1>3, <1>5, <1>6 DEF all

LEMMA EveryHistoryIsRecent ==
  ASSUME NEW history \in Seq(Talk), NEW window \in Nat
  PROVE  HistoryIsRecent(history, window, SliceHistory(history, window))
<1> DEFINE slice == SliceHistory(history, window)
           N == Len(history)
           n == Len(slice.messages)
           left == N - n
<1>1. N \in Nat
  OBVIOUS
<1>2. CASE (window = 0 \/ N <= window) /\ slice = [messages |-> history, truncated |-> FALSE]
  <2>1. slice.messages = history /\ slice.truncated = FALSE /\ left = 0
    BY <1>1, <1>2
  <2>2. SubSeq(history, left + 1, N) = history
    <3>1. SubSeq(history, 1, N) = history
      OBVIOUS
    <3> QED BY <2>1, <3>1
  <2> HIDE DEF slice
  <2>3. \A table \in BOOLEAN :
           LET messages == ConductorMessages(TRUE, table, slice)
           IN  /\ SubSeq(messages, Len(messages) - n + 1, Len(messages)) = slice.messages
               /\ Contains(messages, "partial") <=> left > 0
    <3> HIDE DEF left
    <3>1. slice.messages \in Seq(Talk) /\ ~ (left > 0)
      BY <2>1
    <3>2. slice.truncated \in BOOLEAN /\ ~slice.truncated
      BY <2>1, Zenon
    <3> QED BY <3>1, <3>2, PartialIsTold
  <2> HIDE DEF N, n, left
  <2>4. slice.messages = SubSeq(history, left + 1, N) /\ ~ (left > 0)
    BY <2>1, <2>2
  <2>5. ~slice.truncated
    BY <2>1, Zenon
  <2>6. HistoryIsRecent(history, window, slice)
    BY <2>3, <2>4, <2>5 DEF HistoryIsRecent, N, n, left
  <2> QED BY <2>6 DEF slice
<1>3. ASSUME NEW start, CutAt(history, window, slice, start)
      PROVE  HistoryIsRecent(history, window, slice)
  <2> DEFINE aligned == \/ start = N - window + 1
                        \/ /\ history[start] = "user"
                           /\ \A i \in (N - window + 1)..(start - 1) : history[i] # "user"
  <2>0. /\ window > 0 /\ N > window /\ start \in (N - window + 1)..N
        /\ slice = [messages |-> SubSeq(history, start, N), truncated |-> TRUE]
        /\ aligned
    BY <1>3 DEF CutAt
  <2>1. start \in Nat /\ start >= 2 /\ start <= N
    BY <1>1, <2>0
  <2>2. slice.messages = SubSeq(history, start, N) /\ slice.truncated = TRUE
    BY <2>0
  <2>3. slice.messages \in Seq(Talk) /\ n = N - start + 1
    BY <1>1, <2>1, <2>2
  <2> HIDE DEF slice
  <2>4. left = start - 1
    BY <1>1, <2>1, <2>3
  <2> HIDE DEF N, n, left, aligned
  <2>5. left + 1 = start /\ left > 0 /\ n \in 1..window
        /\ (start = N - window + 1 => n = window)
    BY <1>1, <2>0, <2>1, <2>3, <2>4
  <2>6. slice.messages = SubSeq(history, left + 1, N)
    BY <2>2, <2>5
  <2>7. \A table \in BOOLEAN :
           LET messages == ConductorMessages(TRUE, table, slice)
           IN  /\ SubSeq(messages, Len(messages) - n + 1, Len(messages)) = slice.messages
               /\ Contains(messages, "partial") <=> left > 0
    BY <2>2, <2>3, <2>5, PartialIsTold DEF n
  <2>8. \/ n = window
        \/ /\ history[left + 1] = "user"
           /\ \A i \in (N - window + 1)..left : history[i] # "user"
    BY <2>0, <2>4, <2>5 DEF aligned
  <2> QED BY <2>2, <2>5, <2>6, <2>7, <2>8 DEF HistoryIsRecent, N, n, left
<1> QED BY <1>2, <1>3, SliceIs

\* Every output there is is listed for the Conductor, and given or named to an expert.
LEMMA NothingIsHidden ==
  ASSUME NEW done, NEW agent
  PROVE  ConductorSees(done) /\ ExpertSees(agent, done)
<1>1. ConductorSees(done)
  BY DEF ConductorSees, ConductorContext, ModuleSnapshot
<1>2. ASSUME NEW wanted \in SUBSET Outputs, NEW legacy \in BOOLEAN
      PROVE  LET inputs == SelectInputs(agent, legacy, wanted, done)
             IN  /\ inputs.blocks \cup inputs.others \cup ({agent} \cap done) = done
                 /\ inputs.blocks \cap inputs.others = {}
  <2>1. CASE legacy
    BY <2>1 DEF SelectInputs
  <2>2. CASE ~legacy
    BY <2>2 DEF SelectInputs
  <2> QED BY <2>1, <2>2
<1> QED BY <1>1, <1>2 DEF ExpertSees

\* Whatever the lengths of the outputs, of the knowledge and of the fixed parts, and
\* whatever a local model's context: the prompt run_worker_agent makes fits it when
\* the fixed parts and the notices do, and is cut in fair shares; the correction it
\* sends when headers are missing exceeds the context by no more than the notice when
\* the answer kept to max_tokens; the history that slice_history leaves is the talk's
\* own end, from the start of an exchange.
THEOREM EveryInputFits ==
    /\ \A run \in Runs : run.local /\ run.ctx # 0 =>
          /\ FitsContext(run, InputsOf(run)) /\ SharesAreFair(run, InputsOf(run))
          /\ \A answer, notice \in Nat : OverrunIsBounded(run, InputsOf(run), answer, notice)
    /\ \A history \in Seq(Talk), window \in Nat :
          HistoryIsRecent(history, window, SliceHistory(history, window))
BY EveryRunFits, EveryCutIsFair, EveryOverrunIsBounded, EveryHistoryIsRecent

\* The bounded runs and talks of the model checker are among them.
LEMMA InputsFitHolds == InputsFit
<1>1. SomeTexts \subseteq Texts
  BY BudgetAssumption DEF SomeTexts, Texts
<1>2. \A S, T : S \subseteq T => BoundedSeq(S, MaxBlocks) \subseteq Seq(T)
  BY BudgetAssumption DEF BoundedSeq, SeqOf
<1>3. SomeRuns \subseteq Runs
  <2>1. BoundedSeq(SomeTexts, MaxBlocks) \subseteq Seq(Texts)
    BY <1>1, <1>2
  <2>2. Contexts \subseteq Nat /\ {1} \subseteq Nat /\ Lengths \subseteq Nat /\ Lengths \ {0} \subseteq Nat
    BY BudgetAssumption
  <2> DEFINE some == BoundedSeq(SomeTexts, MaxBlocks)
             short == Lengths \ {0}
             one == {1}
  <2> HIDE DEF some, short, one
  <2>3. ASSUME NEW run \in [local : BOOLEAN, ctx : Contexts, max_tokens : one, fixed : short,
                            knowledge : Lengths, blocks : some]
        PROVE  run \in Runs
    BY <2>1, <2>2 DEF some, short, one, Runs
  <2> QED BY <2>3 DEF SomeRuns, some, short, one
<1>4. BoundedSeq({"user", "assistant"}, MaxHistory) \subseteq Seq(Talk)
  BY BudgetAssumption DEF BoundedSeq, SeqOf, Talk
<1>5. 0..MaxHistory \subseteq Nat /\ Lengths \subseteq Nat
  BY BudgetAssumption
<1> QED BY <1>3, <1>4, <1>5, EveryInputFits DEF InputsFit, Talk

\* In every job, with any experts, limits and lengths: the outputs it has saved are
\* listed for the Conductor it asks next and given or named to the expert it runs
\* next (conductor_context.py:96-130, worker.py:122-148), and an expert's inputs and
\* the history are cut as InputsFit says.
THEOREM OutputsReachModelsHolds == Spec => []OutputsReachModels
<1>1. OutputsReachModels
  BY InputsFitHolds, NothingIsHidden DEF OutputsReachModels
<1> QED BY <1>1, PTL
=============================================================================
