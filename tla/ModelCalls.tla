----------------------------- MODULE ModelCalls -----------------------------
(* Model calls of the conversation jobs: sida/providers.py with its         *)
(* retries, the Conductor's tool, text and recovery calls                   *)
(* (sida/conductor.py), an expert's call and its correction                 *)
(* (sida/worker.py), the start of a local Ollama (sida/ollama_boot.py), and *)
(* the ChatGPT token each attempt asks for (ChatGptSignIn).                 *)
(*                                                                          *)
(* What a server may answer is external: an answer with an action, one      *)
(* without, nothing usable, or one of the ways to fail that providers.py    *)
(* tells apart.  The local Ollama is started and stopped by its user too,   *)
(* so that each step that asks it may find it up or down.                   *)
EXTENDS ChatGptSignIn

CONSTANTS
    Kinds,     \* the providers the configuration may name
    Attempts   \* _with_retries(attempts=3)

WithTools == {"openrouter", "chatgpt", "ollama"}   \* providers with chat_tools

ASSUME CallsAssumption ==
    /\ Kinds \subseteq {"openrouter", "openai", "chatgpt", "ollama"}
    /\ Attempts \in Nat \ {0}

VARIABLE no_tools   \* _NO_TOOLS: providers whose model refused tools

vars == <<authVars, no_tools, pc, own>>

Init == AuthInit /\ no_tools = {}
----------------------------------------------------------------------------
\* A ChatGPT request asks for the token first, at every attempt.
Entry(kind) == IF kind \in {"chatgpt", "none"} THEN "token" ELSE "send"

\* One more call of the same exchange or run, with attempts of its own.
NextCall(t, mode) ==
    /\ own' = [own EXCEPT ![t].mode = mode, ![t].calls = @ + 1,
                         ![t].tries = 0, ![t].before = 0]
    /\ Goto(t, Entry(own[t].kind))

\* The ways a request fails: nothing usable in the answer, or only thinking;
\* no answer in time; nothing listening, or the line lost; a usage limit; a
\* busy server; a stream that ends early; anything else.
Failures == {"empty", "thinking", "timeout", "unreachable", "network",
             "limit", "busy", "broken", "refused"}

\* Which of them may pass and are tried again (RETRY_STATUS: limits too).
OpenRouterRetries == {"empty", "timeout", "unreachable", "network", "limit", "busy"}

OpenAIRetries == {"empty", "timeout", "unreachable", "network", "limit", "busy"}

\* The limits of the ChatGPT plan are no reason to try again.
ChatGPTRetries == {"empty", "timeout", "unreachable", "network", "busy", "broken"}

\* Ollama is not asked again when nothing listens at its address.
OllamaRetries == {"empty", "thinking", "timeout", "network", "limit", "busy"}

Retried(kind) ==
    CASE kind = "openrouter" -> OpenRouterRetries
      [] kind = "openai"     -> OpenAIRetries
      [] kind = "chatgpt"    -> ChatGPTRetries
      [] kind = "ollama"     -> OllamaRetries
      [] OTHER               -> {}

\* One more request of the call, in a first or a second round.
Retry(t, tried, before) ==
    /\ own' = [own EXCEPT ![t].tries = tried, ![t].before = before,
                         ![t].session = NoSession]
    /\ Goto(t, Entry(own[t].kind))

\* Mutant of SecondRound: thinking is not switched off for the second round.
RoundAgain(o, mentions) == o.think /\ o.mode # "tools" /\ mentions

\* A thinking Ollama model has as many attempts again, with thinking off, when
\* its first round ends in an error that mentions thinking.  The tools call
\* has no such second round.
SecondRound(o, mentions) ==
    o.think /\ o.mode # "tools" /\ o.before = 0 /\ mentions

\* Mutant of Again: the attempts start over without end.
AgainAndAgain(t, retried, mentions) == Retry(t, (own[t].tries + 1) % Attempts, 0)

\* _with_retries: a failure that may pass is tried again, Attempts times in a
\* round; any other ends the round at once.
Again(t, retried, mentions) ==
    LET o     == own[t]
        tried == o.tries + 1
    IN  IF o.kind # "none" /\ retried /\ tried < o.before + Attempts
        THEN Retry(t, tried, o.before)
        ELSE IF SecondRound(o, mentions) THEN Retry(t, tried, tried) ELSE Return(t)

\* A job begins with the providers its configuration names; a local one is
\* made ready first.
BeginJob(t) ==
    /\ t \in Jobs /\ pc[t] = "idle"
    /\ \E kind \in Kinds :
         /\ own' = [own EXCEPT ![t].kind = kind]
         /\ Goto(t, IF kind = "ollama" THEN "boot" ELSE "call")
    /\ UNCHANGED <<authVars, no_tools>>

\* An exchange of the Conductor, with tools unless this model refused them
\* before, or an expert run.
BeginCall(t) ==
    /\ pc[t] = "call"
    /\ \E conductor, think \in BOOLEAN :
         /\ think => own[t].kind = "ollama"
         /\ own' = [own EXCEPT ![t].think = think, ![t].calls = 1,
                      ![t].mode = IF ~conductor THEN "write"
                                  ELSE IF own[t].kind \in WithTools \ no_tools THEN "tools"
                                  ELSE "text"]
    /\ Goto(t, Entry(own[t].kind))
    /\ UNCHANGED <<authVars, no_tools>>

\* An answer: a Conductor's action or text is stored; tools mode without
\* either goes on in text mode; text without an action block is asked about
\* once more, and that reply is kept whatever becomes of the question; an
\* expert's output without all its sections is corrected once.
Answered(t) ==
    /\ pc[t] = "send" /\ own[t].kind # "none"
    /\ \/ Return(t)
       \/ own[t].mode = "tools" /\ NextCall(t, "text")
       \/ own[t].mode = "text"  /\ NextCall(t, "recover")
       \/ own[t].mode = "write" /\ NextCall(t, "correct")
    /\ UNCHANGED <<authVars, no_tools>>

\* ToolsUnsupported: remembered for the model, and asked again in text mode.
ToolsRefused(t) ==
    /\ pc[t] = "send" /\ own[t].mode = "tools"
    /\ no_tools' = no_tools \cup {own[t].kind}
    /\ NextCall(t, "text")
    /\ UNCHANGED authVars

\* What a failure is to the retries: whether it may pass, and whether its
\* error mentions thinking.  An error quotes the server, the address or the
\* model's name, so that any may; the answer spent on thinking always does.
Outcomes(kind) ==
    {<<failure \in Retried(kind), failure = "thinking" \/ mentions>> :
       failure \in Failures, mentions \in BOOLEAN}

\* A request fails: the call waits and tries again, or ends here.
Failed(t) ==
    /\ pc[t] = "send" /\ own[t].kind # "none"
    /\ \E retried, mentions \in BOOLEAN :
         /\ <<retried, mentions>> \in Outcomes(own[t].kind)
         /\ Again(t, retried, mentions)
    /\ UNCHANGED <<authVars, no_tools>>

\* list_models has its token and its one request.
Listed(t) ==
    /\ pc[t] = "send" /\ own[t].kind = "none"
    /\ Return(t)
    /\ UNCHANGED <<authVars, no_tools>>
----------------------------------------------------------------------------
(* ensure_ollama_ready, before the providers are built.                     *)

\* ollama_reachable: the server answers, or is not there and may not be
\* started, or its program is not found, or it is started.
BootReach(t) ==
    /\ pc[t] = "boot"
    /\ \/ (Goto(t, "boot_models") \/ Goto(t, "boot_wait")) /\ UNCHANGED own
       \/ Return(t)
    /\ UNCHANGED <<authVars, no_tools>>

\* wait_until_reachable gives up at its deadline.
BootWait(t) ==
    /\ pc[t] = "boot_wait"
    /\ \/ Goto(t, "boot_models") /\ UNCHANGED own
       \/ Return(t)
    /\ UNCHANGED <<authVars, no_tools>>

\* A list that cannot be read counts as empty.  A missing model is downloaded
\* when the configuration says so; nobody is there to be asked.  Warming may
\* be switched off.
BootModels(t) ==
    /\ pc[t] = "boot_models"
    /\ \/ (Goto(t, "boot_pull") \/ Goto(t, "boot_warm") \/ Goto(t, "call")) /\ UNCHANGED own
       \/ Return(t)
    /\ UNCHANGED <<authVars, no_tools>>

BootPull(t) ==
    /\ pc[t] = "boot_pull"
    /\ \/ (Goto(t, "boot_warm") \/ Goto(t, "call")) /\ UNCHANGED own
       \/ Return(t)
    /\ UNCHANGED <<authVars, no_tools>>

\* One token loads the model; a model just downloaded is also measured, and
\* a measurement that fails is left out.
BootWarm(t) ==
    /\ pc[t] = "boot_warm"
    /\ \/ Goto(t, "call") /\ UNCHANGED own
       \/ Return(t)
    /\ UNCHANGED <<authVars, no_tools>>

----------------------------------------------------------------------------
\* What a thread does in the middle of its work.
Auth(t) ==
    /\ \/ KeepAttempt(t) \/ Exchange(t) \/ SaveLogin(t) \/ Revoke(t)
       \/ TakeToken(t, Return(t)) \/ RefreshAnswered(t)
       \/ RefreshLost(t, Again(t, TRUE, FALSE), Return(t)) \/ RefreshRefused(t, Return(t))
    /\ UNCHANGED no_tools
Boot(t) == BootReach(t) \/ BootWait(t) \/ BootModels(t) \/ BootPull(t) \/ BootWarm(t)
Call(t) == BeginCall(t) \/ Answered(t) \/ ToolsRefused(t) \/ Failed(t) \/ Listed(t)

Step(t) == Auth(t) \/ Boot(t) \/ Call(t)

Begin(t) ==
    \/ BeginJob(t)
    \/ (BeginLogin(t) \/ PopAttempt(t) \/ BeginSignOut(t) \/ UseToken(t)) /\ UNCHANGED no_tools

\* The server stops and starts: what was in memory is gone.  A refresh that
\* was waiting has no answer.
Restart ==
    /\ \E t \in Threads : pc[t] # "idle"
    /\ ended' = (ended \/ \E t \in Threads : pc[t] = "refresh")
    /\ lock' = Free /\ pending' = {} /\ no_tools' = {}
    /\ pc' = [t \in Threads |-> "idle"] /\ own' = [t \in Threads |-> Idle]
    /\ UNCHANGED <<client, session, alive, logins, expiries, dropped>>

Next ==
    \/ \E t \in Threads : Begin(t) \/ Step(t)
    \/ (TimePasses \/ ServerEnds) /\ UNCHANGED no_tools
    \/ Restart

\* Strong fairness: a thread that waits for _lock has its turn, as the lock is
\* held only while one refresh waits for its answer, 30 seconds at most.
Spec == Init /\ [][Next]_vars /\ \A t \in Threads : SF_vars(Step(t))
----------------------------------------------------------------------------
(* Properties.                                                              *)

TypeOK ==
    /\ client \in Logins \cup {Register} /\ lock \in Threads \cup {Free}
    /\ session.login \in Logins \cup {0} /\ session.turn \in 0..MaxExpiries
    /\ \A p \in pending : p.login \in Logins
    /\ no_tools \subseteq WithTools
    /\ \A t \in Threads : own[t].tries \in 0..2 * Attempts - 1

\* However tools, text, recovery, correction, retries and the second round
\* without thinking follow each other, an exchange of the Conductor makes at
\* most three calls and an expert run two, of Attempts requests each -- twice
\* that in a thinking model's calls without tools, whichever attempt of the
\* first round it is whose error mentions thinking.
RequestsAreBounded ==
    /\ TypeOK
    /\ \A t \in Threads :
         /\ own[t].calls <= IF own[t].mode \in {"write", "correct"} THEN 2 ELSE 3
         /\ own[t].tries < IF own[t].think /\ own[t].mode # "tools" THEN 2 * Attempts
                           ELSE Attempts

\* Whatever the servers do, a thread that makes a call, signs in or out ends,
\* and with it a job: no retry goes on for ever and no lock stays taken.
CallEnds == \A t \in Threads : pc[t] # "idle" ~> pc[t] = "idle"
=============================================================================
