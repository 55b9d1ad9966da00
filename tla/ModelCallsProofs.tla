-------------------------- MODULE ModelCallsProofs --------------------------
(* Theorems about the ChatGPT session that ModelCalls' threads share, for   *)
(* any threads, providers and numbers of sign-ins: the session in the file  *)
(* is the newest one, and only the server ends it.                          *)
EXTENDS ModelCalls, TLAPS

Sessions == [login: Nat, turn: Nat, client: Nat, due: BOOLEAN, plan: BOOLEAN]
SignIns  == [login: Nat, client: Nat]
Owned    == [attempt: SignIns, session: Sessions, kind: Kinds \cup {"none"},
             mode: {"tools", "text", "recover", "write", "correct"},
             think: BOOLEAN, calls: Nat, tries: Nat, before: Nat]

\* Where a thread carries a sign-in that is not in the file yet, and where it
\* carries a session of the file or of before.
Signing == {"start_login", "exchange", "save_login"}
Quiet   == {"idle", "token", "send", "boot", "boot_wait", "boot_models",
            "boot_pull", "boot_warm", "call"}
Steps   == Signing \cup Quiet \cup {"refresh", "revoke"}

TypesInv ==
    /\ pc \in [Threads -> Steps] /\ own \in [Threads -> Owned]
    /\ session \in Sessions /\ pending \subseteq SignIns
    /\ client \in Nat /\ logins \in Nat /\ dropped \subseteq Nat
    /\ session # NoSession => session.login # 0

\* A sign-in under way is nobody else's and was never the file's.
NewIn(n) == n \in 1..logins /\ n \notin dropped /\ n # session.login

SignInsInv ==
    /\ session.login <= logins /\ \A n \in dropped : n <= logins
    /\ \A t \in Threads : pc[t] \in Signing => NewIn(own[t].attempt.login)
    /\ \A p \in pending : NewIn(p.login)
    /\ \A t, u \in Threads : pc[t] \in Signing /\ pc[u] \in Signing /\ t # u =>
          own[t].attempt.login # own[u].attempt.login
    /\ \A p, q \in pending : p.login = q.login => p = q
    /\ \A t \in Threads, p \in pending : pc[t] \in Signing =>
          own[t].attempt.login # p.login

\* A refresh has the lock and the session that is in the file; a session that
\* is being revoked is out of the file.
SameSession(s) == s.login = session.login /\ s.turn = session.turn /\ s.client = session.client

HoldersInv ==
    /\ \A t \in Threads : pc[t] = "refresh" =>
          lock = t /\ session # NoSession /\ SameSession(own[t].session)
    /\ \A t \in Threads : pc[t] = "revoke" => own[t].session.login \in dropped

\* The server honours the file's session unless it ended it or an answer of
\* its was lost.
HonouredInv == session # NoSession /\ ~ended => Grant(session) \in alive

SessionInv == TypesInv /\ SignInsInv /\ HoldersInv /\ SessionIsCurrent /\ HonouredInv
----------------------------------------------------------------------------
(* Moves of one thread.                                                     *)

\* Thread t goes to a place in S and nobody else moves.
Moves(t, S) ==
    /\ pc' \in [Threads -> Steps] /\ pc'[t] \in S
    /\ own' \in [Threads -> Owned]
    /\ \A u \in Threads : u # t => pc'[u] = pc[u] /\ own'[u] = own[u]

\* A thread carries on with any record it may have.
LEMMA Moving ==
    ASSUME TypesInv, NEW t \in Threads, NEW step \in Steps, NEW o \in Owned,
           Goto(t, step), own' = [own EXCEPT ![t] = o]
    PROVE  Moves(t, {step}) /\ own'[t] = o
<1>1. pc \in [Threads -> Steps] /\ own \in [Threads -> Owned]
  BY DEF TypesInv
<1>2. pc' \in [Threads -> Steps] /\ pc'[t] = step
  BY <1>1 DEF Goto
<1>3. own' \in [Threads -> Owned] /\ own'[t] = o
  BY <1>1
<1>4. \A u \in Threads : u # t => pc'[u] = pc[u] /\ own'[u] = own[u]
  BY <1>1 DEF Goto
<1>5. QED BY <1>2, <1>3, <1>4 DEF Moves

\* A thread goes on with the record it has.
LEMMA Staying ==
    ASSUME TypesInv, NEW t \in Threads, NEW step \in Steps, Goto(t, step), own' = own
    PROVE  Moves(t, {step}) /\ own'[t] = own[t]
<1>1. pc \in [Threads -> Steps] /\ own \in [Threads -> Owned]
  BY DEF TypesInv
<1>2. QED BY <1>1 DEF Goto, Moves

\* An idle thread carries nothing.
LEMMA IdleOwned == Idle \in Owned
BY DEF Idle, Owned, NoAttempt, NoSession, SignIns, Sessions, Register

\* A thread that returns carries nothing on.
LEMMA Returning ==
    ASSUME TypesInv, NEW t \in Threads, Return(t)
    PROVE  Moves(t, Quiet)
<1>1. "idle" \in Steps /\ "idle" \in Quiet
  BY DEF Steps, Quiet
<1>2. Moves(t, {"idle"})
  BY <1>1, IdleOwned, Moving DEF Return
<1>3. QED BY <1>1, <1>2 DEF Moves

\* A call begins with the token or with the request.
LEMMA Entries == \A kind : Entry(kind) \in Quiet /\ Entry(kind) \in Steps
BY DEF Entry, Quiet, Steps

\* The next call of the same exchange or run carries no sign-in and no session.
LEMMA Calling ==
    ASSUME TypesInv, NEW t \in Threads,
           NEW mode \in {"text", "recover", "correct"}, NextCall(t, mode)
    PROVE  Moves(t, Quiet)
<1> DEFINE o == [own[t] EXCEPT !.mode = mode, !.calls = own[t].calls + 1,
                         !.tries = 0, !.before = 0]
<1>1. own \in [Threads -> Owned] /\ own[t] \in Owned
  BY DEF TypesInv
<1>2. o \in Owned
  <2>1. own[t].calls + 1 \in Nat
    BY <1>1 DEF Owned
  <2>2. \A s \in Owned, n \in Nat : 
          [s EXCEPT !.mode = mode, !.calls = n, !.tries = 0, !.before = 0] \in Owned
    BY DEF Owned
  <2>3. QED BY <1>1, <2>1, <2>2
<1>3. own' = [own EXCEPT ![t] = o]
  BY <1>1 DEF NextCall
<1>4. Moves(t, {Entry(own[t].kind)})
  BY <1>2, <1>3, Entries, Moving DEF NextCall
<1>5. QED BY <1>4, Entries DEF Moves

\* Nor does another attempt, or the end of the last.
LEMMA Retrying ==
    ASSUME TypesInv, NEW t \in Threads, NEW retried, NEW mentions,
           Again(t, retried, mentions)
    PROVE  Moves(t, Quiet)
<1>1. own \in [Threads -> Owned] /\ own[t] \in Owned /\ NoSession \in Sessions
  BY DEF TypesInv, NoSession, Sessions, Register
<1>2. ASSUME NEW tried \in Nat, NEW before \in Nat, Retry(t, tried, before)
      PROVE  Moves(t, Quiet)
  <2> DEFINE o == [own[t] EXCEPT !.tries = tried, !.before = before, !.session = NoSession]
  <2>1. o \in Owned
    <3>1. \A s \in Owned, x \in Sessions :
            [s EXCEPT !.tries = tried, !.before = before, !.session = x] \in Owned
      BY DEF Owned
    <3>2. QED BY <1>1, <3>1
  <2>2. own' = [own EXCEPT ![t] = o]
    BY <1>1, <1>2 DEF Retry
  <2>3. Moves(t, {Entry(own[t].kind)})
    BY <1>2, <2>1, <2>2, Entries, Moving DEF Retry
  <2>4. QED BY <2>3, Entries DEF Moves
<1>3. own[t].tries + 1 \in Nat /\ own[t].before \in Nat
  BY <1>1 DEF Owned
<1>4. \/ Return(t) \/ Retry(t, own[t].tries + 1, own[t].before)
      \/ Retry(t, own[t].tries + 1, own[t].tries + 1)
  BY DEF Again
<1>5. QED BY <1>2, <1>3, <1>4, Returning
----------------------------------------------------------------------------
(* Steps that leave the session and the sign-ins alone.                     *)

\* A move to a place where nothing is carried keeps all that holds.
LEMMA QuietMove ==
    ASSUME SessionInv, NEW t \in Threads, Moves(t, Quiet), UNCHANGED authVars
    PROVE  SessionInv'
<1>1. \A u \in Threads : pc'[u] \in Signing \cup {"refresh", "revoke"} =>
        u # t /\ pc'[u] = pc[u] /\ own'[u] = own[u]
  BY DEF Moves, Quiet, Signing
<1>2. /\ session' = session /\ client' = client /\ dropped' = dropped
      /\ pending' = pending /\ logins' = logins /\ lock' = lock
      /\ alive' = alive /\ ended' = ended
  BY DEF authVars
<1>3. TypesInv'
  BY <1>2 DEF SessionInv, TypesInv, Moves
<1>4. SignInsInv'
  BY <1>1, <1>2 DEF SessionInv, SignInsInv, NewIn
<1>5. HoldersInv'
  BY <1>1, <1>2 DEF SessionInv, HoldersInv, SameSession
<1>6. SessionIsCurrent' /\ HonouredInv'
  BY <1>2 DEF SessionInv, SessionIsCurrent, HonouredInv, Grant
<1>7. QED BY <1>3, <1>4, <1>5, <1>6 DEF SessionInv

\* Beginning a job, asking for the token, starting Ollama and calling a model
\* leave the file and the sign-ins alone.
LEMMA QuietSteps ==
    ASSUME SessionInv, NEW t \in Threads,
           BeginJob(t) \/ UseToken(t) \/ Boot(t) \/ Call(t)
    PROVE  SessionInv'
<1>1. TypesInv /\ own \in [Threads -> Owned] /\ own[t] \in Owned
  BY DEF SessionInv, TypesInv
<1>2. \A step \in Quiet : Goto(t, step) /\ own' = own => Moves(t, Quiet)
  <2>1. ASSUME NEW step \in Quiet, Goto(t, step), own' = own
        PROVE  Moves(t, {step})
    BY <1>1, <2>1, Staying DEF Steps
  <2>2. QED BY <2>1 DEF Moves
<1>3. CASE BeginJob(t)
  <2>1. PICK kind \in Kinds :
          /\ own' = [own EXCEPT ![t].kind = kind]
          /\ Goto(t, IF kind = "ollama" THEN "boot" ELSE "call")
    BY <1>3 DEF BeginJob
  <2> DEFINE o == [own[t] EXCEPT !.kind = kind]
             step == IF kind = "ollama" THEN "boot" ELSE "call"
  <2>2. o \in Owned
    BY <1>1 DEF Owned
  <2>3. own' = [own EXCEPT ![t] = o]
    BY <1>1, <2>1
  <2>4. step \in Steps /\ step \in Quiet
    BY DEF Steps, Quiet
  <2>5. Moves(t, {step})
    BY <1>1, <2>1, <2>2, <2>3, <2>4, Moving
  <2>6. QED BY <1>3, <2>4, <2>5, QuietMove DEF Moves, BeginJob
<1>4. CASE UseToken(t)
  BY <1>2, <1>4, QuietMove DEF UseToken, Quiet
<1>5. CASE Boot(t)
  <2>1. UNCHANGED authVars
    BY <1>5 DEF Boot, BootReach, BootWait, BootModels, BootPull, BootWarm
  <2>2. \/ Return(t)
        \/ \E step \in Quiet : Goto(t, step) /\ own' = own
    BY <1>5 DEF Boot, BootReach, BootWait, BootModels, BootPull, BootWarm, Quiet
  <2>3. QED BY <1>1, <1>2, <2>1, <2>2, Returning, QuietMove
<1>6. CASE BeginCall(t)
  <2>1. PICK conductor \in BOOLEAN, think \in BOOLEAN :
          own' = [own EXCEPT ![t].think = think, ![t].calls = 1,
                    ![t].mode = IF ~conductor THEN "write"
                                ELSE IF own[t].kind \in WithTools \ no_tools THEN "tools"
                                ELSE "text"]
    BY <1>6 DEF BeginCall
  <2>2. PICK mode \in {"write", "tools", "text"} :
          own' = [own EXCEPT ![t].think = think, ![t].calls = 1, ![t].mode = mode]
    BY <2>1
  <2> DEFINE o == [own[t] EXCEPT !.think = think, !.calls = 1, !.mode = mode]
  <2>3. o \in Owned
    BY <1>1 DEF Owned
  <2>4. own' = [own EXCEPT ![t] = o]
    BY <1>1, <2>2
  <2>5. Moves(t, {Entry(own[t].kind)})
    BY <1>1, <1>6, <2>3, <2>4, Entries, Moving DEF BeginCall
  <2>6. QED BY <1>6, <2>5, Entries, QuietMove DEF Moves, BeginCall
<1>7. CASE Answered(t) \/ ToolsRefused(t)
  <2>1. UNCHANGED authVars
    BY <1>7 DEF Answered, ToolsRefused
  <2>2. Return(t) \/ \E mode \in {"text", "recover", "correct"} : NextCall(t, mode)
    BY <1>7 DEF Answered, ToolsRefused
  <2>3. QED BY <1>1, <2>1, <2>2, Returning, Calling, QuietMove
<1>8. CASE Failed(t) \/ Listed(t)
  <2>1. UNCHANGED authVars
    BY <1>8 DEF Failed, Listed
  <2>2. Return(t) \/ \E retried, mentions \in BOOLEAN : Again(t, retried, mentions)
    BY <1>8 DEF Failed, Listed
  <2>3. QED BY <1>1, <2>1, <2>2, Returning, Retrying, QuietMove
<1>9. QED BY <1>3, <1>4, <1>5, <1>6, <1>7, <1>8 DEF Call
----------------------------------------------------------------------------
(* Signing in and out.                                                      *)

\* The next sign-in begins: its number was never used.
LEMMA BeginLoginKeeps ==
    ASSUME SessionInv, NEW t \in Threads, BeginLogin(t)
    PROVE  SessionInv'
<1> DEFINE n == logins + 1
<1>1. TypesInv /\ own \in [Threads -> Owned] /\ own[t] \in Owned /\ n \in Nat
  BY DEF SessionInv, TypesInv
<1>2. PICK c \in {Register, client} :
        own' = [own EXCEPT ![t].attempt = [login |-> n, client |-> c]]
  BY DEF BeginLogin
<1> DEFINE o == [own[t] EXCEPT !.attempt = [login |-> n, client |-> c]]
<1>3. o \in Owned /\ o.attempt.login = n
  <2>1. [login |-> n, client |-> c] \in SignIns
    BY <1>1 DEF SignIns, TypesInv, Register
  <2>2. QED BY <1>1, <2>1 DEF Owned
<1>4. own' = [own EXCEPT ![t] = o]
  BY <1>1, <1>2
<1>5. Moves(t, {"start_login"}) /\ own'[t] = o
  BY <1>1, <1>3, <1>4, Moving DEF BeginLogin, Steps, Signing
<1>6. /\ logins' = n /\ client' = client /\ session' = session /\ lock' = lock
      /\ pending' = pending /\ alive' = alive /\ dropped' = dropped /\ ended' = ended
  BY DEF BeginLogin
<1>7. \A u \in Threads : u # t => pc'[u] = pc[u] /\ own'[u] = own[u]
  BY <1>5 DEF Moves
<1>8. pc'[t] = "start_login" /\ own'[t].attempt.login = n
  BY <1>3, <1>5 DEF Moves
<1>9. TypesInv'
  BY <1>1, <1>5, <1>6 DEF TypesInv, Moves
<1>10. SignInsInv'
  <2>1. \A k \in 1..logins : k \in 1..n /\ k # n
    BY <1>1 DEF TypesInv
  <2>2. session.login <= logins /\ session.login <= n /\ n # session.login
    BY <1>1 DEF SessionInv, SignInsInv, TypesInv, Sessions
  <2>3. \A k \in dropped : k <= logins /\ k <= n /\ k # n
    BY <1>1 DEF SessionInv, SignInsInv, TypesInv
  <2>4. n \in 1..n
    BY <1>1 DEF TypesInv
  <2>5. \A k : NewIn(k) => NewIn(k)' /\ k # n
    BY <1>6, <2>1 DEF NewIn
  <2>6. \A k : k = n => NewIn(k)'
    BY <1>6, <2>2, <2>3, <2>4 DEF NewIn
  <2>7. \A u \in Threads : pc'[u] \in Signing => NewIn(own[u].attempt.login)'
    BY <1>7, <1>8, <2>5, <2>6 DEF SessionInv, SignInsInv, NewIn
  <2>8. \A p \in pending : NewIn(p.login)' /\ p.login # n
    BY <2>5 DEF SessionInv, SignInsInv
  <2>9. \A u \in Threads : u # t /\ pc'[u] \in Signing => own'[u].attempt.login # n
    BY <1>7, <2>5 DEF SessionInv, SignInsInv
  <2>10. QED BY <1>6, <1>7, <1>8, <2>2, <2>3, <2>7, <2>8, <2>9
             DEF SessionInv, SignInsInv, NewIn
<1>11. HoldersInv'
  BY <1>6, <1>7, <1>8 DEF SessionInv, HoldersInv, SameSession
<1>12. SessionIsCurrent' /\ HonouredInv'
  BY <1>6 DEF SessionInv, SessionIsCurrent, HonouredInv, Grant
<1>13. QED BY <1>9, <1>10, <1>11, <1>12 DEF SessionInv

\* An attempt goes from its thread to those that wait.
LEMMA KeepAttemptKeeps ==
    ASSUME SessionInv, NEW t \in Threads, KeepAttempt(t)
    PROVE  SessionInv'
<1> DEFINE a == own[t].attempt
<1>1. /\ TypesInv /\ own[t] \in Owned /\ a \in SignIns
      /\ pc[t] = "start_login" /\ pc[t] \in Signing
  BY DEF SessionInv, TypesInv, KeepAttempt, Owned, Signing
<1>2. PICK lasting \in SUBSET pending : pending' = lasting \cup {a}
  BY DEF KeepAttempt
<1>3. /\ logins' = logins /\ client' = client /\ session' = session /\ lock' = lock
      /\ alive' = alive /\ dropped' = dropped /\ ended' = ended
  BY DEF KeepAttempt
<1>4. Moves(t, Quiet)
  BY <1>1, Returning DEF KeepAttempt
<1>5. \A u \in Threads : pc'[u] \in Signing \cup {"refresh", "revoke"} =>
        u # t /\ pc'[u] = pc[u] /\ own'[u] = own[u]
  BY <1>4 DEF Moves, Quiet, Signing
<1>6. TypesInv'
  BY <1>1, <1>2, <1>3, <1>4 DEF TypesInv, Moves
<1>7. SignInsInv'
  <2>1. \A p \in pending' : p \in pending \/ p = a
    BY <1>2
  <2>2. \A k : NewIn(k)' <=> NewIn(k)
    BY <1>3 DEF NewIn
  <2>3. NewIn(a.login) /\ \A p \in pending : p.login # a.login
    BY <1>1 DEF SessionInv, SignInsInv
  <2>4. \A u \in Threads : pc[u] \in Signing /\ u # t => own[u].attempt.login # a.login
    BY <1>1 DEF SessionInv, SignInsInv
  <2>5. \A p \in pending' : NewIn(p.login)'
    BY <2>1, <2>2, <2>3 DEF SessionInv, SignInsInv
  <2>6. \A p, q \in pending' : p.login = q.login => p = q
    BY <2>1, <2>3 DEF SessionInv, SignInsInv
  <2>7. \A u \in Threads, p \in pending' : pc'[u] \in Signing =>
          own'[u].attempt.login # p.login
    BY <1>5, <2>1, <2>4 DEF SessionInv, SignInsInv
  <2>8. \A u \in Threads : pc'[u] \in Signing => NewIn(own[u].attempt.login)'
    BY <1>3, <1>5 DEF SessionInv, SignInsInv, NewIn
  <2>9. QED BY <1>3, <1>5, <2>5, <2>6, <2>7, <2>8 DEF SessionInv, SignInsInv, NewIn
<1>8. HoldersInv'
  BY <1>3, <1>5 DEF SessionInv, HoldersInv, SameSession
<1>9. SessionIsCurrent' /\ HonouredInv'
  BY <1>3 DEF SessionInv, SessionIsCurrent, HonouredInv, Grant
<1>10. QED BY <1>6, <1>7, <1>8, <1>9 DEF SessionInv

\* A callback takes its attempt out of those that wait, for itself alone.
LEMMA PopAttemptKeeps ==
    ASSUME SessionInv, NEW t \in Threads, PopAttempt(t)
    PROVE  SessionInv'
<1>1. TypesInv /\ own \in [Threads -> Owned] /\ own[t] \in Owned
  BY DEF SessionInv, TypesInv
<1>2. PICK p \in pending :
        /\ pending' = pending \ {p}
        /\ \/ Return(t)
           \/ /\ own' = [own EXCEPT ![t].attempt =
                           [p EXCEPT !.client = IF @ = Register THEN p.login ELSE @]]
              /\ Goto(t, "exchange")
  BY DEF PopAttempt
<1>3. /\ logins' = logins /\ client' = client /\ session' = session /\ lock' = lock
      /\ alive' = alive /\ dropped' = dropped /\ ended' = ended
  BY DEF PopAttempt
<1>4. Moves(t, Quiet \cup {"exchange"}) /\ (pc'[t] = "exchange" => own'[t].attempt.login = p.login)
  <2>1. CASE Return(t)
    BY <1>1, <2>1, Returning DEF Moves, Quiet
  <2>2. CASE /\ own' = [own EXCEPT ![t].attempt =
                          [p EXCEPT !.client = IF @ = Register THEN p.login ELSE @]]
             /\ Goto(t, "exchange")
    <3> DEFINE a == [p EXCEPT !.client = IF @ = Register THEN p.login ELSE @]
               o == [own[t] EXCEPT !.attempt = a]
    <3>1. a \in SignIns /\ a.login = p.login
      BY <1>1 DEF TypesInv, SignIns
    <3> HIDE DEF a
    <3>2. o \in Owned /\ o.attempt = a
      BY <1>1, <3>1 DEF Owned
    <3>3. own' = [own EXCEPT ![t] = o]
      BY <1>1, <2>2 DEF a
    <3> HIDE DEF o
    <3>4. Moves(t, {"exchange"}) /\ own'[t] = o
      BY <1>1, <2>2, <3>2, <3>3, Moving DEF Steps, Signing
    <3>5. QED BY <3>1, <3>2, <3>4 DEF Moves
  <2>3. QED BY <1>2, <2>1, <2>2
<1>5. \A u \in Threads : u # t => pc'[u] = pc[u] /\ own'[u] = own[u]
  BY <1>4 DEF Moves
<1>6. pc'[t] \in Quiet \/ pc'[t] = "exchange"
  BY <1>4 DEF Moves
<1>7. TypesInv'
  BY <1>1, <1>2, <1>3, <1>4 DEF TypesInv, Moves
<1>8. SignInsInv'
  <2>1. \A k : NewIn(k)' <=> NewIn(k)
    BY <1>3 DEF NewIn
  <2>2. NewIn(p.login) /\ \A q \in pending' : q \in pending /\ q.login # p.login
    BY <1>2 DEF SessionInv, SignInsInv
  <2>3. pc'[t] \in Signing => own'[t].attempt.login = p.login
    BY <1>4, <1>6 DEF Quiet, Signing
  <2>4. \A u \in Threads : pc[u] \in Signing => own[u].attempt.login # p.login
    BY DEF SessionInv, SignInsInv
  <2>5. \A u \in Threads : pc'[u] \in Signing => NewIn(own[u].attempt.login)'
    BY <1>3, <1>5, <2>2, <2>3 DEF SessionInv, SignInsInv, NewIn
  <2>6. \A u, w \in Threads : pc'[u] \in Signing /\ pc'[w] \in Signing /\ u # w =>
          own'[u].attempt.login # own'[w].attempt.login
    BY <1>5, <2>3, <2>4 DEF SessionInv, SignInsInv
  <2>7. \A u \in Threads, q \in pending' : pc'[u] \in Signing =>
          own'[u].attempt.login # q.login
    BY <1>5, <2>2, <2>3 DEF SessionInv, SignInsInv
  <2>8. QED BY <1>3, <2>2, <2>5, <2>6, <2>7 DEF SessionInv, SignInsInv, NewIn
<1>9. HoldersInv'
  BY <1>3, <1>5, <1>6 DEF SessionInv, HoldersInv, SameSession, Quiet
<1>10. SessionIsCurrent' /\ HonouredInv'
  BY <1>3 DEF SessionInv, SessionIsCurrent, HonouredInv, Grant
<1>11. QED BY <1>7, <1>8, <1>9, <1>10 DEF SessionInv

\* A thread that carries no sign-in afterwards leaves the others theirs, also
\* when the session in the file goes.
LEMMA SignInsStay ==
    ASSUME SessionInv, NEW t \in Threads, Moves(t, Steps \ Signing),
           logins' = logins, pending' = pending,
           session'.login = session.login \/ session' = NoSession,
           dropped' \subseteq dropped \cup {session.login}
    PROVE  SignInsInv'
<1>1. \A u \in Threads : pc'[u] \in Signing => u # t /\ pc[u] \in Signing /\ own'[u] = own[u]
  BY DEF Moves
<1>2. session'.login = session.login \/ session'.login = 0
  BY DEF NoSession
<1>3. logins \in Nat /\ session.login <= logins /\ session'.login <= logins
  BY <1>2 DEF SessionInv, SignInsInv, TypesInv
<1>4. \A k : NewIn(k) => NewIn(k)'
  BY <1>2 DEF NewIn
<1>5. \A u \in Threads : pc'[u] \in Signing => NewIn(own[u].attempt.login)'
  BY <1>1, <1>4 DEF SessionInv, SignInsInv, NewIn
<1>7. \A p \in pending : NewIn(p.login)'
  BY <1>4 DEF SessionInv, SignInsInv
<1>8. \A n \in dropped' : n <= logins
  BY <1>3 DEF SessionInv, SignInsInv
<1>9. QED BY <1>1, <1>3, <1>5, <1>7, <1>8 DEF SessionInv, SignInsInv, NewIn

\* While a thread refreshes nobody else does, and the lock is its own.
LEMMA OneRefresh ==
    ASSUME SessionInv, NEW t \in Threads, pc[t] = "refresh" \/ lock = Free
    PROVE  \A u \in Threads : u # t => pc[u] # "refresh"
BY SignInAssumption DEF SessionInv, HoldersInv

\* A thread that ends a step outside the sign-in, with the session as it was.
LEMMA SettledMove ==
    ASSUME SessionInv, NEW t \in Threads, Moves(t, Quiet),
           session' = session, client' = client, dropped' = dropped,
           pending' = pending, logins' = logins,
           lock' = lock \/ pc[t] = "refresh", HonouredInv'
    PROVE  SessionInv'
<1>1. \A u \in Threads : u # t => pc'[u] = pc[u] /\ own'[u] = own[u]
  BY DEF Moves
<1>2. pc'[t] \in Quiet /\ pc'[t] # "refresh" /\ pc'[t] # "revoke"
  BY DEF Moves, Quiet
<1>3. TypesInv'
  BY DEF SessionInv, TypesInv, Moves
<1>4. Moves(t, Steps \ Signing)
  BY DEF Moves, Quiet, Signing, Steps
<1>5. SignInsInv'
  BY <1>4, SignInsStay
<1>6. \A u \in Threads : u # t /\ pc[u] = "refresh" => lock' = lock
  BY OneRefresh
<1>7. HoldersInv'
  BY <1>1, <1>2, <1>6 DEF SessionInv, HoldersInv, SameSession
<1>8. SessionIsCurrent'
  BY DEF SessionInv, SessionIsCurrent
<1>9. QED BY <1>3, <1>5, <1>7, <1>8 DEF SessionInv

\* The tokens are there, or the callback ends without them.
LEMMA ExchangeKeeps ==
    ASSUME SessionInv, NEW t \in Threads, Exchange(t)
    PROVE  SessionInv'
<1>1. TypesInv /\ pc[t] = "exchange" /\ UNCHANGED authVars
  BY DEF SessionInv, Exchange
<1>2. CASE Return(t)
  BY <1>1, <1>2, Returning, QuietMove
<1>3. CASE Goto(t, "save_login") /\ UNCHANGED own
  <2>1. Moves(t, {"save_login"}) /\ own' = own
    BY <1>1, <1>3, Staying DEF Steps, Signing
  <2>2. \A u \in Threads : own'[u] = own[u]
            /\ (u # t => pc'[u] = pc[u]) /\ (pc'[u] \in Signing <=> pc[u] \in Signing)
    BY <1>1, <2>1 DEF Moves, Signing
  <2>3. pc'[t] = "save_login"
    BY <2>1 DEF Moves
  <2>4. TypesInv'
    BY <1>1, <2>1 DEF TypesInv, Moves, authVars
  <2>5. SignInsInv'
    BY <1>1, <2>2 DEF SessionInv, SignInsInv, NewIn, authVars
  <2>6. HoldersInv'
    BY <1>1, <2>2, <2>3 DEF SessionInv, HoldersInv, SameSession, authVars
  <2>7. SessionIsCurrent' /\ HonouredInv'
    BY <1>1 DEF SessionInv, SessionIsCurrent, HonouredInv, Grant, authVars
  <2>8. QED BY <2>4, <2>5, <2>6, <2>7 DEF SessionInv
<1>4. QED BY <1>2, <1>3 DEF Exchange

\* The new session is the newest sign-in's, and the one before it is dropped.
LEMMA SaveLoginKeeps ==
    ASSUME SessionInv, NEW t \in Threads, SaveLogin(t)
    PROVE  SessionInv'
<1> DEFINE a == own[t].attempt
<1>1. /\ TypesInv /\ a \in SignIns /\ pc[t] = "save_login" /\ pc[t] \in Signing /\ lock = Free
  BY DEF SessionInv, TypesInv, SaveLogin, Owned, Signing
<1>2. PICK plan \in BOOLEAN :
        session' = [login |-> a.login, turn |-> 0, client |-> a.client,
                    due |-> FALSE, plan |-> plan]
  BY DEF SaveLogin
<1>3. /\ client' = a.client /\ alive' = alive \cup {<<a.login, 0>>} /\ ended' = FALSE
      /\ lock' = lock /\ pending' = pending /\ logins' = logins
  BY DEF SaveLogin
<1>4. dropped' = dropped \/ dropped' = dropped \cup {session.login}
  BY DEF SaveLogin, Dropping
<1>5. Moves(t, Quiet)
  BY <1>1, Returning DEF SaveLogin
<1>6. \A u \in Threads : pc'[u] \in Signing \cup {"refresh", "revoke"} =>
        u # t /\ pc'[u] = pc[u] /\ own'[u] = own[u]
  BY <1>5 DEF Moves, Quiet, Signing
<1>7. NewIn(a.login) /\ a.login # 0 /\ a.login <= logins
  BY <1>1 DEF SessionInv, SignInsInv, NewIn, TypesInv
<1>8. session'.login = a.login /\ session'.client = a.client
      /\ session' \in Sessions /\ Grant(session)' = <<a.login, 0>>
  BY <1>1, <1>2 DEF Sessions, SignIns, Grant
<1>9. \A n \in dropped' : n # a.login /\ n <= logins /\ n \in Nat
  <2>1. session.login # a.login /\ session.login <= logins /\ session.login \in Nat
    BY <1>1, <1>7 DEF SessionInv, SignInsInv, NewIn, TypesInv, Sessions
  <2>2. \A n \in dropped : n # a.login /\ n <= logins /\ n \in Nat
    BY <1>1, <1>7 DEF SessionInv, SignInsInv, NewIn, TypesInv
  <2>3. QED BY <1>4, <2>1, <2>2
<1>10. TypesInv'
  BY <1>1, <1>3, <1>5, <1>7, <1>8, <1>9 DEF TypesInv, Moves, SignIns
<1>11. SignInsInv'
  <2>1. \A k : NewIn(k) /\ k # a.login => NewIn(k)'
    BY <1>3, <1>4, <1>8 DEF NewIn
  <2>2. \A u \in Threads : pc[u] \in Signing /\ u # t => own[u].attempt.login # a.login
    BY <1>1 DEF SessionInv, SignInsInv
  <2>3. \A u \in Threads : pc'[u] \in Signing => NewIn(own[u].attempt.login)'
    BY <1>6, <2>1, <2>2 DEF SessionInv, SignInsInv, NewIn
  <2>5. \A p \in pending : p.login # a.login
    BY <1>1 DEF SessionInv, SignInsInv
  <2>6. \A p \in pending : NewIn(p.login)'
    BY <2>1, <2>5 DEF SessionInv, SignInsInv
  <2>7. QED BY <1>3, <1>6, <1>7, <1>8, <1>9, <2>3, <2>6 DEF SessionInv, SignInsInv, NewIn
<1>12. HoldersInv'
  <2>1. \A u \in Threads : pc'[u] # "refresh"
    BY <1>1, <1>6, OneRefresh
  <2>2. QED BY <1>4, <1>6, <2>1 DEF SessionInv, HoldersInv
<1>13. SessionIsCurrent'
  BY <1>3, <1>8, <1>9 DEF SessionIsCurrent
<1>14. HonouredInv'
  BY <1>3, <1>8 DEF HonouredInv
<1>15. QED BY <1>10, <1>11, <1>12, <1>13, <1>14 DEF SessionInv

\* The session leaves the file with the thread that will revoke it.
LEMMA BeginSignOutKeeps ==
    ASSUME SessionInv, NEW t \in Threads, BeginSignOut(t)
    PROVE  SessionInv'
<1> DEFINE o == [own[t] EXCEPT !.session = session]
<1>1. /\ TypesInv /\ own \in [Threads -> Owned] /\ own[t] \in Owned /\ session \in Sessions
      /\ lock = Free /\ session # NoSession
  BY DEF SessionInv, TypesInv, BeginSignOut
<1>2. o \in Owned /\ o.session = session
  BY <1>1 DEF Owned
<1>3. own' = [own EXCEPT ![t] = o]
  BY <1>1 DEF BeginSignOut
<1>4. Moves(t, {"revoke"}) /\ own'[t].session = session
  BY <1>1, <1>2, <1>3, Moving DEF BeginSignOut, Steps
<1>5. /\ session' = NoSession /\ dropped' = dropped \cup {session.login}
      /\ client' = client /\ lock' = lock /\ pending' = pending /\ logins' = logins
  BY <1>1 DEF BeginSignOut, Dropping
<1>6. TypesInv'
  BY <1>1, <1>4, <1>5 DEF TypesInv, Moves, Sessions, NoSession, Register
<1>7. SignInsInv'
  <2>1. Moves(t, Steps \ Signing)
    BY <1>4 DEF Moves, Steps, Signing
  <2>2. QED BY <1>5, <2>1, SignInsStay
<1>8. HoldersInv'
  <2>1. \A u \in Threads : u # t => pc'[u] = pc[u] /\ own'[u] = own[u] /\ pc[u] # "refresh"
    BY <1>1, <1>4, OneRefresh DEF Moves
  <2>2. pc'[t] = "revoke"
    BY <1>4 DEF Moves
  <2>3. QED BY <1>4, <1>5, <2>1, <2>2 DEF SessionInv, HoldersInv
<1>9. SessionIsCurrent' /\ HonouredInv'
  BY <1>5 DEF SessionIsCurrent, HonouredInv
<1>10. QED BY <1>6, <1>7, <1>8, <1>9 DEF SessionInv

\* Only tokens of a session that left the file are revoked.
LEMMA RevokeKeeps ==
    ASSUME SessionInv, NEW t \in Threads, Revoke(t)
    PROVE  SessionInv'
<1>1. TypesInv /\ own[t].session.login \in dropped
  BY DEF SessionInv, HoldersInv, Revoke
<1>2. Moves(t, Quiet)
  BY <1>1, Returning DEF Revoke
<1>3. session # NoSession => session.login # own[t].session.login
  BY <1>1 DEF SessionInv, SessionIsCurrent
<1>4. HonouredInv'
  <2>1. alive' = {g \in alive : g[1] # own[t].session.login} /\ session' = session /\ ended' = ended
    BY DEF Revoke
  <2>2. Grant(session)[1] = session.login
    BY DEF Grant
  <2>3. QED BY <1>3, <2>1, <2>2 DEF SessionInv, HonouredInv, Grant
<1>5. QED BY <1>2, <1>4, SettledMove DEF Revoke
----------------------------------------------------------------------------
(* The access token.                                                        *)

\* A refresh begins with the session in the file and takes the lock.
LEMMA TakeTokenKeeps ==
    ASSUME SessionInv, NEW t \in Threads, TakeToken(t, Return(t))
    PROVE  SessionInv'
<1>1. /\ TypesInv /\ own \in [Threads -> Owned] /\ own[t] \in Owned
      /\ session \in Sessions /\ lock = Free
  BY DEF SessionInv, TypesInv, TakeToken
<1>2. /\ session' = session /\ client' = client /\ dropped' = dropped /\ alive' = alive
      /\ pending' = pending /\ logins' = logins /\ ended' = ended
  BY DEF TakeToken
<1>3. HonouredInv'
  BY <1>2 DEF SessionInv, HonouredInv, Grant
<1>4. CASE Return(t) /\ UNCHANGED lock
  BY <1>1, <1>2, <1>3, <1>4, Returning, SettledMove
<1>5. CASE Goto(t, "send") /\ UNCHANGED <<own, lock>>
  <2>1. Moves(t, {"send"})
    BY <1>1, <1>5, Staying DEF Steps, Quiet
  <2>2. Moves(t, Quiet)
    BY <2>1 DEF Moves, Quiet
  <2>3. QED BY <1>2, <1>3, <1>5, <2>2, SettledMove
<1>6. CASE /\ session.plan /\ own' = [own EXCEPT ![t].session = session]
           /\ lock' = t /\ Goto(t, "refresh")
  <2> DEFINE o == [own[t] EXCEPT !.session = session]
  <2>1. o \in Owned /\ o.session = session
    BY <1>1 DEF Owned
  <2>2. own' = [own EXCEPT ![t] = o]
    BY <1>1, <1>6
  <2>3. Moves(t, {"refresh"}) /\ own'[t].session = session
    BY <1>1, <1>6, <2>1, <2>2, Moving DEF Steps
  <2>4. Moves(t, Steps \ Signing)
    BY <2>3 DEF Moves, Steps, Signing
  <2>5. TypesInv'
    BY <1>1, <1>2, <2>3 DEF TypesInv, Moves
  <2>6. SignInsInv'
    BY <1>2, <2>4, SignInsStay
  <2>7. session # NoSession
    BY <1>6 DEF NoSession
  <2>8. \A u \in Threads : u # t => pc'[u] = pc[u] /\ own'[u] = own[u] /\ pc[u] # "refresh"
    BY <1>1, <2>3, OneRefresh DEF Moves
  <2>9. pc'[t] = "refresh"
    BY <2>3 DEF Moves
  <2>10. HoldersInv'
    BY <1>2, <1>6, <2>3, <2>7, <2>8, <2>9 DEF SessionInv, HoldersInv, SameSession
  <2>11. SessionIsCurrent'
    BY <1>2 DEF SessionInv, SessionIsCurrent
  <2>12. QED BY <1>3, <2>5, <2>6, <2>10, <2>11 DEF SessionInv
<1>7. QED BY <1>4, <1>5, <1>6 DEF TakeToken

\* The thread that refreshes holds the session in the file, and lets go.
LEMMA Refreshing ==
    ASSUME SessionInv, NEW t \in Threads, pc[t] = "refresh"
    PROVE  /\ TypesInv /\ own \in [Threads -> Owned] /\ own[t] \in Owned
           /\ own[t].session \in Sessions /\ session \in Sessions
           /\ lock = t /\ session # NoSession /\ SameSession(own[t].session)
           /\ session.login # 0 /\ session.client = client /\ session.login \notin dropped
BY DEF SessionInv, TypesInv, HoldersInv, SessionIsCurrent, Owned

\* The session in the file goes on with the token that replaced its own.
LEMMA RefreshAnsweredKeeps ==
    ASSUME SessionInv, NEW t \in Threads, RefreshAnswered(t)
    PROVE  SessionInv'
<1> DEFINE s == own[t].session
           o == [own[t] EXCEPT !.session = NoSession]
<1>1. /\ TypesInv /\ own \in [Threads -> Owned] /\ own[t] \in Owned
      /\ s \in Sessions /\ session # NoSession /\ SameSession(s)
      /\ session.login # 0 /\ session.client = client /\ session.login \notin dropped
      /\ pc[t] = "refresh"
  BY Refreshing DEF RefreshAnswered
<1>2. /\ session' = Turned(s) /\ alive' = (alive \ {Grant(s)}) \cup {Grant(Turned(s))}
      /\ client' = client /\ pending' = pending /\ logins' = logins
      /\ dropped' = dropped /\ ended' = ended
  BY DEF RefreshAnswered
<1>3. Turned(s) \in Sessions /\ Turned(s).login = s.login /\ Turned(s).client = s.client
  <2>1. s.turn + 1 \in Nat
    BY <1>1 DEF Sessions
  <2>2. \A x \in Sessions, n \in Nat : LET y == [x EXCEPT !.turn = n, !.due = FALSE]
          IN  y \in Sessions /\ y.login = x.login /\ y.client = x.client
    BY DEF Sessions
  <2>3. QED BY <1>1, <2>1, <2>2 DEF Turned
<1>4. session'.login = session.login /\ session'.client = session.client
  BY <1>1, <1>2, <1>3 DEF SameSession
<1>5. Moves(t, {"send"})
  <2>1. o \in Owned
    <3>1. NoSession \in Sessions
      BY DEF NoSession, Sessions, Register
    <3>2. QED BY <1>1, <3>1 DEF Owned
  <2>2. own' = [own EXCEPT ![t] = o]
    BY <1>1 DEF RefreshAnswered
  <2>3. QED BY <1>1, <2>1, <2>2, Moving DEF RefreshAnswered, Steps, Quiet
<1>6. TypesInv'
  BY <1>1, <1>2, <1>3, <1>4, <1>5 DEF TypesInv, Moves
<1>7. SignInsInv'
  <2>1. Moves(t, Steps \ Signing)
    BY <1>5 DEF Moves, Steps, Signing, Quiet
  <2>2. QED BY <1>2, <1>4, <2>1, SignInsStay
<1>8. HoldersInv'
  <2>1. \A u \in Threads : u # t => pc'[u] = pc[u] /\ own'[u] = own[u] /\ pc[u] # "refresh"
    BY <1>1, <1>5, OneRefresh DEF Moves
  <2>2. pc'[t] = "send"
    BY <1>5 DEF Moves
  <2>3. QED BY <1>2, <2>1, <2>2 DEF SessionInv, HoldersInv
<1>9. SessionIsCurrent' /\ HonouredInv'
  BY <1>1, <1>2, <1>4 DEF SessionIsCurrent, HonouredInv, Grant
<1>10. QED BY <1>6, <1>7, <1>8, <1>9 DEF SessionInv

\* The session stays whatever became of its token.
LEMMA RefreshLostKeeps ==
    ASSUME SessionInv, NEW t \in Threads, RefreshLost(t, Again(t, TRUE, FALSE), Return(t))
    PROVE  SessionInv'
<1>1. TypesInv /\ pc[t] = "refresh" /\ (Again(t, TRUE, FALSE) \/ Return(t))
  BY DEF SessionInv, RefreshLost
<1>2. Moves(t, Quiet)
  BY <1>1, Returning, Retrying
<1>3. HonouredInv'
  BY DEF RefreshLost, HonouredInv
<1>4. QED BY <1>1, <1>2, <1>3, SettledMove DEF RefreshLost

\* The session in the file goes, and it is the refused one.
LEMMA RefreshRefusedKeeps ==
    ASSUME SessionInv, NEW t \in Threads, RefreshRefused(t, Return(t))
    PROVE  SessionInv'
<1>1. /\ TypesInv /\ session \in Sessions /\ session # NoSession /\ pc[t] = "refresh"
  BY Refreshing DEF RefreshRefused
<1>2. Moves(t, Quiet)
  BY <1>1, Returning DEF RefreshRefused
<1>3. /\ session' = NoSession /\ dropped' = dropped \cup {session.login}
      /\ client' = client /\ pending' = pending /\ logins' = logins
  BY <1>1 DEF RefreshRefused, Dropping
<1>4. TypesInv'
  BY <1>1, <1>2, <1>3 DEF TypesInv, Moves, Sessions, NoSession, Register
<1>5. SignInsInv'
  <2>1. Moves(t, Steps \ Signing)
    BY <1>2 DEF Moves, Steps, Signing, Quiet
  <2>2. QED BY <1>3, <2>1, SignInsStay
<1>6. HoldersInv'
  <2>1. \A u \in Threads : u # t => pc'[u] = pc[u] /\ own'[u] = own[u] /\ pc[u] # "refresh"
    BY <1>1, <1>2, OneRefresh DEF Moves
  <2>2. pc'[t] # "refresh" /\ pc'[t] # "revoke"
    BY <1>2 DEF Moves, Quiet
  <2>3. QED BY <1>3, <2>1, <2>2 DEF SessionInv, HoldersInv
<1>7. SessionIsCurrent' /\ HonouredInv'
  BY <1>3 DEF SessionIsCurrent, HonouredInv
<1>8. QED BY <1>4, <1>5, <1>6, <1>7 DEF SessionInv
----------------------------------------------------------------------------
(* Time, the server and a restart.                                          *)

\* Time and the server change when a session is due and whether it is honoured.
LEMMA OutsideKeeps ==
    ASSUME SessionInv, TimePasses \/ ServerEnds
    PROVE  SessionInv'
<1>1. /\ client' = client /\ lock' = lock /\ pending' = pending /\ logins' = logins
      /\ pc' = pc /\ own' = own /\ dropped' = dropped
  BY DEF TimePasses, ServerEnds
<1>2. /\ session' \in Sessions /\ session'.login = session.login
      /\ session'.turn = session.turn /\ session'.client = session.client
      /\ (session' # NoSession => session # NoSession)
      /\ (session # NoSession => session' # NoSession)
  <2>1. CASE session' = [session EXCEPT !.due = TRUE] /\ session # NoSession
    BY <2>1 DEF SessionInv, TypesInv, Sessions, NoSession
  <2>2. CASE session' = session
    BY <2>2 DEF SessionInv, TypesInv
  <2>3. QED BY <2>1, <2>2 DEF TimePasses, ServerEnds
<1>3. TypesInv'
  BY <1>1, <1>2 DEF SessionInv, TypesInv
<1>4. SignInsInv'
  BY <1>1, <1>2 DEF SessionInv, SignInsInv, NewIn
<1>5. HoldersInv'
  BY <1>1, <1>2 DEF SessionInv, HoldersInv, SameSession
<1>6. SessionIsCurrent'
  BY <1>1, <1>2 DEF SessionInv, SessionIsCurrent
<1>7. HonouredInv'
  BY <1>2 DEF SessionInv, HonouredInv, Grant, TimePasses, ServerEnds
<1>8. QED BY <1>3, <1>4, <1>5, <1>6, <1>7 DEF SessionInv

\* A refresh that the stop cut off is one whose answer was lost.
LEMMA RestartKeeps ==
    ASSUME SessionInv, Restart
    PROVE  SessionInv'
<1>1. /\ pc' = [t \in Threads |-> "idle"] /\ own' = [t \in Threads |-> Idle] /\ pending' = {}
      /\ client' = client /\ session' = session /\ alive' = alive
      /\ logins' = logins /\ dropped' = dropped /\ (ended => ended')
  BY DEF Restart
<1>2. TypesInv'
  BY <1>1, IdleOwned DEF SessionInv, TypesInv, Steps, Quiet
<1>3. SignInsInv'
  BY <1>1 DEF SessionInv, SignInsInv, Signing
<1>4. HoldersInv'
  BY <1>1 DEF HoldersInv
<1>5. SessionIsCurrent' /\ HonouredInv'
  BY <1>1 DEF SessionInv, SessionIsCurrent, HonouredInv, Grant
<1>6. QED BY <1>2, <1>3, <1>4, <1>5 DEF SessionInv
----------------------------------------------------------------------------
(* The theorems.                                                            *)

\* The invariant holds at the start ...
LEMMA SessionInit == Init => SessionInv
<1>1. SUFFICES ASSUME Init PROVE SessionInv
  OBVIOUS
<1>2. TypesInv
  BY <1>1, IdleOwned DEF Init, AuthInit, TypesInv, Steps, Quiet, Sessions, NoSession, Register
<1>3. SignInsInv
  BY <1>1 DEF Init, AuthInit, SignInsInv, Signing, NoSession
<1>4. HoldersInv /\ SessionIsCurrent /\ HonouredInv
  BY <1>1 DEF Init, AuthInit, HoldersInv, SessionIsCurrent, HonouredInv
<1>5. QED BY <1>2, <1>3, <1>4 DEF SessionInv

\* ... and every step keeps it.
LEMMA SessionNext == SessionInv /\ [Next]_vars => SessionInv'
<1>1. SUFFICES ASSUME SessionInv, [Next]_vars PROVE SessionInv'
  OBVIOUS
<1>2. ASSUME NEW t \in Threads, Begin(t) PROVE SessionInv'
  BY <1>1, <1>2, QuietSteps, BeginLoginKeeps, PopAttemptKeeps, BeginSignOutKeeps DEF Begin
<1>3. ASSUME NEW t \in Threads, Auth(t) PROVE SessionInv'
  BY <1>1, <1>3, KeepAttemptKeeps, ExchangeKeeps, SaveLoginKeeps, RevokeKeeps, TakeTokenKeeps,
     RefreshAnsweredKeeps, RefreshLostKeeps, RefreshRefusedKeeps DEF Auth
<1>4. ASSUME NEW t \in Threads, Boot(t) \/ Call(t) PROVE SessionInv'
  BY <1>1, <1>4, QuietSteps
<1>5. CASE TimePasses \/ ServerEnds
  BY <1>1, <1>5, OutsideKeeps
<1>6. CASE Restart
  BY <1>1, <1>6, RestartKeeps
<1>7. CASE UNCHANGED vars
  <2>1. /\ client' = client /\ session' = session /\ lock' = lock /\ pending' = pending
        /\ alive' = alive /\ logins' = logins /\ dropped' = dropped /\ ended' = ended
        /\ pc' = pc /\ own' = own
    BY <1>7 DEF vars, authVars
  <2>2. TypesInv' /\ SignInsInv'
    BY <1>1, <2>1 DEF SessionInv, TypesInv, SignInsInv, NewIn
  <2>3. HoldersInv'
    BY <1>1, <2>1 DEF SessionInv, HoldersInv, SameSession
  <2>4. SessionIsCurrent' /\ HonouredInv'
    BY <1>1, <2>1 DEF SessionInv, SessionIsCurrent, HonouredInv, Grant
  <2>5. QED BY <2>2, <2>3, <2>4 DEF SessionInv
<1>8. QED BY <1>1, <1>2, <1>3, <1>4, <1>5, <1>6, <1>7 DEF Next, Step

\* The session in the file, the sign-ins under way and the thread that holds
\* _lock fit together at every step of the token store, whatever the threads
\* call (chatgpt_auth.py, providers.py).
THEOREM SessionInvariant == Spec => []SessionInv
<1>1. Spec => Init /\ [][Next]_vars
  BY PTL DEF Spec
<1>2. QED BY <1>1, SessionInit, SessionNext, PTL

\* The client id in the file is the session's own, and a session that was
\* signed out of, replaced or ended stays away: access_token saves its refresh
\* over no other session, and one callback is answered once.
THEOREM SessionIsCurrentHolds == Spec => []SessionIsCurrent
<1>1. SessionInv => SessionIsCurrent
  BY DEF SessionInv
<1>2. QED BY <1>1, SessionInvariant, PTL

\* A refused token comes only after the server ended the sign-in or an answer
\* of its was lost.
LEMMA RefusedForAReason ==
    ASSUME SessionInv, NEW t \in Threads, RefreshRefused(t, Return(t))
    PROVE  ended
<1>1. session # NoSession /\ SameSession(own[t].session) /\ session.client = client
  BY Refreshing DEF RefreshRefused
<1>2. Grant(own[t].session) = Grant(session) /\ own[t].session.client = client
  BY <1>1 DEF SameSession, Grant
<1>3. Grant(session) \notin alive
  BY <1>2 DEF RefreshRefused
<1>4. QED BY <1>1, <1>3 DEF SessionInv, HonouredInv

\* Every other step keeps the session while somebody refreshes.
LEMMA OthersKeepTheSession ==
    ASSUME SessionInv, NEW t \in Threads, pc[t] = "refresh", Next, session # NoSession,
           \A u \in Threads : ~RefreshRefused(u, Return(u))
    PROVE  session' # NoSession
<1>1. lock # Free
  BY Refreshing, SignInAssumption
<1>2. ASSUME NEW u \in Threads, Begin(u) PROVE session' = session
  BY <1>1, <1>2 DEF Begin, BeginJob, BeginLogin, PopAttempt, BeginSignOut, UseToken, authVars
<1>3. ASSUME NEW u \in Threads, Boot(u) \/ Call(u) PROVE session' = session
  <2>1. CASE Boot(u)
    BY <2>1 DEF Boot, BootReach, BootWait, BootModels, BootPull, BootWarm, authVars
  <2>2. CASE Call(u)
    BY <2>2 DEF Call, BeginCall, Answered, ToolsRefused, Failed, Listed, authVars
  <2>3. QED BY <1>3, <2>1, <2>2
<1>4. ASSUME NEW u \in Threads, RefreshAnswered(u) PROVE session' # NoSession
  <2>1. pc[u] = "refresh" /\ session' = Turned(own[u].session)
    BY <1>4 DEF RefreshAnswered
  <2>2. own[u].session \in Sessions /\ own[u].session.login # 0
    BY <2>1, Refreshing DEF SameSession
  <2>3. QED BY <2>1, <2>2 DEF Turned, Sessions, NoSession
<1>5. ASSUME NEW u \in Threads, Auth(u), ~RefreshAnswered(u) PROVE session' = session
  <2>1. \/ KeepAttempt(u) \/ Exchange(u) \/ Revoke(u)
        \/ TakeToken(u, Return(u)) \/ RefreshLost(u, Again(u, TRUE, FALSE), Return(u))
    BY <1>1, <1>5 DEF Auth, SaveLogin
  <2>2. QED BY <2>1 DEF KeepAttempt, Exchange, Revoke, TakeToken, RefreshLost, authVars
<1>6. CASE TimePasses
  BY <1>6 DEF SessionInv, TypesInv, Sessions, TimePasses, NoSession
<1>7. CASE ServerEnds \/ Restart
  BY <1>7 DEF ServerEnds, Restart
<1>8. QED BY <1>2, <1>3, <1>4, <1>5, <1>6, <1>7 DEF Next, Step

\* A sign-in is never ended by Sida using a refresh token twice: only the
\* server's own end or a lost answer has a refresh refused (_refresh and
\* access_token, with DEAD_REFRESH_ERRORS).
THEOREM EndsForAReasonHolds == Spec => EndsForAReason
<1>1. Spec => Init /\ [][Next]_vars
  BY PTL DEF Spec
<1> DEFINE Ends == \A t \in Threads :
             pc[t] = "refresh" /\ session # NoSession /\ session' = NoSession => ended
<1>2. SessionInv /\ [Next]_vars => [Ends]_<<session, pc>>
  <2>1. SUFFICES ASSUME SessionInv, Next, NEW t \in Threads, pc[t] = "refresh",
                        session # NoSession, session' = NoSession
                 PROVE  ended
    BY DEF vars, authVars
  <2>2. PICK u \in Threads : RefreshRefused(u, Return(u))
    BY <2>1, OthersKeepTheSession
  <2>3. QED BY <2>1, <2>2, RefusedForAReason
<1>3. QED BY <1>1, <1>2, SessionInvariant, PTL DEF EndsForAReason
----------------------------------------------------------------------------
(* How much a thread asks of the servers.                                   *)

\* The calls of an exchange or a run, counted up to and with this one.
MostCalls(mode) ==
    CASE mode = "tools"   -> 1
      [] mode = "text"    -> 2
      [] mode = "recover" -> 3
      [] mode = "write"   -> 1
      [] OTHER            -> 2

\* Before its first request a thread has not tried anything.
Before == {"idle", "boot", "boot_wait", "boot_models", "boot_pull", "boot_warm", "call"}

\* A call with a second round without thinking has twice the requests.
MostTries(o) == IF o.think /\ o.mode # "tools" THEN 2 * Attempts ELSE Attempts

\* What a thread with the account o has used at this step.
AccountAt(step, o) ==
    /\ o.calls <= MostCalls(o.mode)
    /\ o.before <= Attempts /\ o.tries < o.before + Attempts
    /\ o.before # 0 => o.think /\ o.mode # "tools"
    /\ o.mode = "tools" => o.kind \in WithTools
    /\ step \in Before => o.tries = 0 /\ o.before = 0 /\ o.mode # "tools"

AccountInv ==
    /\ no_tools \subseteq WithTools
    /\ \A t \in Threads : AccountAt(pc[t], own[t])

\* Numbers and client ids are of sign-ins that were started, and the file's
\* refresh token was replaced no oftener than an access token ran out.
Issued(c) == c \in Logins \cup {Register}

NumbersInv ==
    /\ logins \in 0..MaxLogins /\ expiries \in 0..MaxExpiries
    /\ lock \in Threads \cup {Free} /\ Issued(client)
    /\ \A p \in pending : Issued(p.client)
    /\ \A t \in Threads : pc[t] \in Signing => Issued(own[t].attempt.client)
    /\ session.turn <= expiries /\ (session.due => session.turn < expiries)
    /\ \A t \in Threads : pc[t] = "refresh" => session.due

\* A thread that goes on with the account it had, or with none.
LEMMA SameAccount ==
    ASSUME TypesInv, AccountInv, NEW t \in Threads, Moves(t, Steps),
           own'[t].calls = own[t].calls, own'[t].tries = own[t].tries,
           own'[t].mode = own[t].mode, own'[t].kind = own[t].kind,
           own'[t].think = own[t].think, own'[t].before = own[t].before,
           pc'[t] \in Before => pc[t] \in Before
    PROVE  AccountAt(pc'[t], own'[t])
BY DEF AccountInv, AccountAt

LEMMA NoAccount == AccountAt("idle", Idle)
BY CallsAssumption DEF AccountAt, Idle, MostCalls

LEMMA ReturnAccount ==
    ASSUME TypesInv, NEW t \in Threads, Return(t)
    PROVE  AccountAt(pc'[t], own'[t])
BY NoAccount DEF Return, Goto, TypesInv

\* The next call of the same exchange or run is one of those that are left.
LEMMA CallAccount ==
    ASSUME TypesInv, AccountInv, NEW t \in Threads,
           NEW mode \in {"text", "recover", "correct"}, NextCall(t, mode),
           MostCalls(own[t].mode) < MostCalls(mode)
    PROVE  AccountAt(pc'[t], own'[t])
<1>1. own \in [Threads -> Owned] /\ own[t] \in Owned
  BY DEF TypesInv
<1>2. /\ own'[t].mode = mode /\ own'[t].tries = 0 /\ own'[t].before = 0
      /\ own'[t].calls = own[t].calls + 1
  BY <1>1 DEF NextCall, Owned
<1>3. own[t].calls + 1 <= MostCalls(mode)
  <2>1. own[t].calls <= MostCalls(own[t].mode) /\ own[t].calls \in Nat
    BY <1>1 DEF AccountInv, AccountAt, Owned
  <2>2. MostCalls(own[t].mode) \in Nat /\ MostCalls(mode) \in Nat
    BY DEF MostCalls
  <2>3. QED BY <2>1, <2>2
<1>4. pc'[t] \notin Before
  <2>1. pc'[t] = Entry(own[t].kind)
    BY DEF NextCall, Goto, TypesInv
  <2>2. QED BY <2>1 DEF Entry, Before
<1>5. 0 <= Attempts /\ 0 < 0 + Attempts
  BY CallsAssumption
<1>6. QED BY <1>2, <1>3, <1>4, <1>5 DEF AccountAt

\* So is the next attempt.
LEMMA AgainAccount ==
    ASSUME TypesInv, AccountInv, NEW t \in Threads, NEW retried, NEW mentions,
           Again(t, retried, mentions)
    PROVE  AccountAt(pc'[t], own'[t])
<1> DEFINE n == own[t].tries + 1
<1>1. own \in [Threads -> Owned] /\ own[t] \in Owned /\ AccountAt(pc[t], own[t])
  BY DEF TypesInv, AccountInv
<1>2. own[t].tries \in Nat /\ own[t].before \in Nat /\ Attempts \in Nat \ {0}
  BY <1>1, CallsAssumption DEF Owned
<1>3. CASE Return(t)
  BY <1>3, ReturnAccount
<1>4. ASSUME NEW before \in Nat, Retry(t, n, before), before <= Attempts,
             n < before + Attempts,
             before # 0 => own[t].think /\ own[t].mode # "tools"
      PROVE  AccountAt(pc'[t], own'[t])
  <2>1. /\ own'[t].tries = n /\ own'[t].before = before
        /\ own'[t].calls = own[t].calls /\ own'[t].mode = own[t].mode
        /\ own'[t].kind = own[t].kind /\ own'[t].think = own[t].think
    BY <1>1, <1>4 DEF Owned, Retry
  <2>2. pc'[t] \notin Before
    <3>1. pc'[t] = Entry(own[t].kind)
      BY <1>4 DEF Goto, TypesInv, Retry
    <3>2. QED BY <3>1 DEF Entry, Before
  <2>3. QED BY <1>1, <1>4, <2>1, <2>2 DEF AccountAt
<1>5. CASE Retry(t, n, own[t].before) /\ n < own[t].before + Attempts
  BY <1>1, <1>2, <1>4, <1>5 DEF AccountAt
<1>6. CASE Retry(t, n, n) /\ SecondRound(own[t], mentions)
  <2>1. n \in Nat /\ n <= Attempts /\ n < n + Attempts
    BY <1>1, <1>2, <1>6 DEF AccountAt, SecondRound
  <2>2. own[t].think /\ own[t].mode # "tools"
    BY <1>6 DEF SecondRound
  <2>3. QED BY <1>4, <1>6, <2>1, <2>2
<1>7. QED BY <1>3, <1>5, <1>6 DEF Again

\* One thread moves: its account is all there is to show.
LEMMA OneAccount ==
    ASSUME AccountInv, NEW t \in Threads, AccountAt(pc'[t], own'[t]),
           \A u \in Threads : u # t => pc'[u] = pc[u] /\ own'[u] = own[u],
           no_tools' \subseteq WithTools
    PROVE  AccountInv'
BY DEF AccountInv

\* A thread that returns, makes its next call or its next attempt.
LEMMA GoingOn ==
    ASSUME TypesInv, NEW t \in Threads,
           \/ Return(t)
           \/ \E retried, mentions : Again(t, retried, mentions)
           \/ \E mode : NextCall(t, mode)
    PROVE  \A u \in Threads : u # t => pc'[u] = pc[u] /\ own'[u] = own[u]
BY DEF TypesInv, Return, Again, Retry, NextCall, Goto

\* Signing in, signing out and the token: no calls are made.
LEMMA AuthAccount ==
    ASSUME SessionInv, AccountInv, NEW t \in Threads,
           \/ BeginLogin(t) \/ PopAttempt(t) \/ BeginSignOut(t) \/ UseToken(t)
           \/ Auth(t),
           no_tools' = no_tools
    PROVE  AccountInv'
<1>1. TypesInv /\ own \in [Threads -> Owned] /\ own[t] \in Owned
  BY DEF SessionInv, TypesInv
<1>2. CASE Return(t)
  BY <1>1, <1>2, ReturnAccount, GoingOn, OneAccount DEF AccountInv
<1>3. CASE \E retried, mentions : Again(t, retried, mentions)
  BY <1>1, <1>3, AgainAccount, GoingOn, OneAccount DEF AccountInv
<1>4. CASE /\ \/ own' = own
              \/ \E a : own' = [own EXCEPT ![t].attempt = a]
              \/ \E s : own' = [own EXCEPT ![t].session = s]
           /\ \E step \in Signing \cup {"token", "send", "refresh", "revoke"} : Goto(t, step)
  <2>1. /\ own'[t].calls = own[t].calls /\ own'[t].tries = own[t].tries
        /\ own'[t].mode = own[t].mode /\ own'[t].kind = own[t].kind
        /\ own'[t].think = own[t].think /\ own'[t].before = own[t].before
    BY <1>1, <1>4 DEF Owned
  <2>2. pc'[t] \notin Before
    BY <1>1, <1>4 DEF Goto, TypesInv, Before, Signing
  <2>3. AccountAt(pc'[t], own'[t])
    BY <2>1, <2>2 DEF AccountInv, AccountAt
  <2>4. \A u \in Threads : u # t => pc'[u] = pc[u] /\ own'[u] = own[u]
    BY <1>1, <1>4 DEF Goto, TypesInv
  <2>5. QED BY <2>3, <2>4, OneAccount DEF AccountInv
<1>5. \/ Return(t)
      \/ \E retried, mentions : Again(t, retried, mentions)
      \/ /\ \/ own' = own
            \/ \E a : own' = [own EXCEPT ![t].attempt = a]
            \/ \E s : own' = [own EXCEPT ![t].session = s]
         /\ \E step \in Signing \cup {"token", "send", "refresh", "revoke"} : Goto(t, step)
  <2>1. CASE BeginLogin(t) \/ PopAttempt(t)
    BY <2>1 DEF BeginLogin, PopAttempt, Signing
  <2>2. CASE BeginSignOut(t) \/ UseToken(t)
    BY <2>2 DEF BeginSignOut, UseToken
  <2>3. CASE Auth(t)
    BY <2>3 DEF Auth, KeepAttempt, Exchange, SaveLogin, Revoke, TakeToken,
                RefreshAnswered, RefreshLost, RefreshRefused, authVars, Signing
  <2>4. QED BY <2>1, <2>2, <2>3
<1>6. QED BY <1>2, <1>3, <1>4, <1>5

\* An exchange makes its tool, text and recovery call at most once each, a run
\* its call and its correction (complete_json and worker.py).
LEMMA WorkAccount ==
    ASSUME SessionInv, AccountInv, NEW t \in Threads,
           BeginJob(t) \/ Boot(t) \/ Call(t)
    PROVE  AccountInv'
<1>1. /\ TypesInv /\ own \in [Threads -> Owned] /\ own[t] \in Owned
      /\ pc \in [Threads -> Steps]
      /\ AccountAt(pc[t], own[t]) /\ no_tools \subseteq WithTools
  BY DEF SessionInv, TypesInv, AccountInv
<1>2. CASE Return(t) /\ no_tools' = no_tools
  BY <1>1, <1>2, ReturnAccount, GoingOn, OneAccount
<1>3. CASE BeginJob(t)
  <2>1. PICK kind \in Kinds :
          /\ own' = [own EXCEPT ![t].kind = kind]
          /\ Goto(t, IF kind = "ollama" THEN "boot" ELSE "call")
    BY <1>3 DEF BeginJob
  <2>2. /\ own'[t].calls = own[t].calls /\ own'[t].tries = own[t].tries
        /\ own'[t].mode = own[t].mode /\ own'[t].before = own[t].before
    BY <1>1, <2>1 DEF Owned
  <2>3. own[t].tries = 0 /\ own[t].before = 0 /\ own[t].mode # "tools"
    BY <1>1, <1>3 DEF BeginJob, AccountAt, Before
  <2>4. AccountAt(pc'[t], own'[t])
    BY <1>1, <2>2, <2>3, CallsAssumption DEF AccountAt
  <2>5. \A u \in Threads : u # t => pc'[u] = pc[u] /\ own'[u] = own[u]
    BY <1>1, <2>1 DEF Goto
  <2>6. QED BY <1>1, <1>3, <2>4, <2>5, OneAccount DEF BeginJob
<1>4. CASE Boot(t)
  <2>1. no_tools' = no_tools /\ pc[t] \in Before
    BY <1>4 DEF Boot, BootReach, BootWait, BootModels, BootPull, BootWarm, Before
  <2>2. Return(t) \/ (own' = own /\ \E step \in Steps : Goto(t, step))
    BY <1>4 DEF Boot, BootReach, BootWait, BootModels, BootPull, BootWarm, Steps, Quiet
  <2>3. CASE own' = own /\ \E step \in Steps : Goto(t, step)
    <3>1. AccountAt(pc'[t], own'[t])
      BY <1>1, <2>1, <2>3 DEF AccountAt
    <3>2. \A u \in Threads : u # t => pc'[u] = pc[u] /\ own'[u] = own[u]
      BY <1>1, <2>3 DEF Goto
    <3>3. QED BY <1>1, <2>1, <3>1, <3>2, OneAccount
  <2>4. QED BY <1>2, <2>1, <2>2, <2>3
<1>5. CASE BeginCall(t)
  <2>1. PICK conductor \in BOOLEAN, think \in BOOLEAN :
          own' = [own EXCEPT ![t].think = think, ![t].calls = 1,
                    ![t].mode = IF ~conductor THEN "write"
                                ELSE IF own[t].kind \in WithTools \ no_tools THEN "tools"
                                ELSE "text"]
    BY <1>5 DEF BeginCall
  <2>2. PICK mode \in {"write", "tools", "text"} :
          /\ own' = [own EXCEPT ![t].think = think, ![t].calls = 1, ![t].mode = mode]
          /\ mode = "tools" => own[t].kind \in WithTools
    BY <2>1
  <2>3. /\ own'[t].mode = mode /\ own'[t].calls = 1
        /\ own'[t].tries = own[t].tries /\ own'[t].kind = own[t].kind
        /\ own'[t].before = own[t].before
    BY <1>1, <2>2 DEF Owned
  <2>4. own[t].tries = 0 /\ own[t].before = 0
    BY <1>1, <1>5 DEF BeginCall, AccountAt, Before
  <2>5. pc'[t] \notin Before
    <3>1. pc'[t] = Entry(own[t].kind)
      BY <1>1, <1>5 DEF BeginCall, Goto
    <3>2. QED BY <3>1 DEF Entry, Before
  <2>6. 1 <= MostCalls(mode)
    BY DEF MostCalls
  <2>7. 0 <= Attempts /\ 0 < 0 + Attempts
    BY CallsAssumption
  <2>8. AccountAt(pc'[t], own'[t])
    BY <2>2, <2>3, <2>4, <2>5, <2>6, <2>7 DEF AccountAt
  <2>9. \A u \in Threads : u # t => pc'[u] = pc[u] /\ own'[u] = own[u]
    BY <1>1, <1>5, <2>2 DEF BeginCall, Goto
  <2>10. QED BY <1>1, <1>5, <2>8, <2>9, OneAccount DEF BeginCall
<1>6. ASSUME NEW mode \in {"text", "recover", "correct"}, NextCall(t, mode),
             MostCalls(own[t].mode) < MostCalls(mode), no_tools' \subseteq WithTools
      PROVE  AccountInv'
  BY <1>1, <1>6, CallAccount, GoingOn, OneAccount
<1>7. CASE Answered(t)
  <2>1. no_tools' = no_tools
    BY <1>7 DEF Answered
  <2>2. \/ Return(t)
        \/ \E mode \in {"text", "recover", "correct"} :
              NextCall(t, mode) /\ MostCalls(own[t].mode) < MostCalls(mode)
    BY <1>7 DEF Answered, MostCalls
  <2>3. QED BY <1>1, <1>2, <1>6, <2>1, <2>2
<1>8. CASE ToolsRefused(t)
  <2>1. no_tools' \subseteq WithTools
    BY <1>1, <1>8 DEF ToolsRefused, AccountAt
  <2>2. NextCall(t, "text") /\ MostCalls(own[t].mode) < MostCalls("text")
    BY <1>8 DEF ToolsRefused, MostCalls
  <2>3. QED BY <1>6, <2>1, <2>2
<1>9. CASE Failed(t) \/ Listed(t)
  <2>1. no_tools' = no_tools /\ (Return(t) \/ \E retried, mentions : Again(t, retried, mentions))
    BY <1>9 DEF Failed, Listed
  <2>2. CASE \E retried, mentions : Again(t, retried, mentions)
    BY <1>1, <2>1, <2>2, AgainAccount, GoingOn, OneAccount
  <2>3. QED BY <1>2, <2>1, <2>2
<1>10. QED BY <1>3, <1>4, <1>5, <1>7, <1>8, <1>9 DEF Call

LEMMA AccountNext == SessionInv /\ AccountInv /\ [Next]_vars => AccountInv'
<1> SUFFICES ASSUME SessionInv, AccountInv, [Next]_vars PROVE AccountInv'
    OBVIOUS
<1>1. ASSUME NEW t \in Threads, Begin(t) \/ Step(t) PROVE AccountInv'
  BY <1>1, AuthAccount, WorkAccount DEF Begin, Step, Auth
<1>2. CASE (TimePasses \/ ServerEnds) /\ UNCHANGED no_tools
  BY <1>2 DEF TimePasses, ServerEnds, AccountInv
<1>3. CASE Restart
  <2>1. no_tools' = {} /\ \A t \in Threads : pc'[t] = "idle" /\ own'[t] = Idle
    BY <1>3 DEF Restart
  <2>2. QED BY <2>1, NoAccount DEF AccountInv
<1>4. CASE UNCHANGED vars
  BY <1>4 DEF vars, AccountInv
<1>5. QED BY <1>1, <1>2, <1>3, <1>4 DEF Next

\* A step of one thread that carries no new sign-in and begins no refresh, and
\* leaves the file's session as it was.
LEMMA SameNumbers ==
    ASSUME NumbersInv, NEW t \in Threads,
           \A u \in Threads : u # t => pc'[u] = pc[u] /\ own'[u] = own[u],
           pc'[t] \notin Signing \cup {"refresh"},
           lock' \in Threads \cup {Free},
           \A p \in pending' : p \in pending \/ Issued(p.client),
           UNCHANGED <<client, session, logins, expiries>>
    PROVE  NumbersInv'
BY DEF NumbersInv, Issued

LEMMA WorkNumbers ==
    ASSUME SessionInv, NumbersInv, NEW t \in Threads,
           BeginJob(t) \/ UseToken(t) \/ Boot(t) \/ Call(t)
    PROVE  NumbersInv'
<1>1. pc \in [Threads -> Steps] /\ own \in [Threads -> Owned] /\ TypesInv
  BY DEF SessionInv, TypesInv
<1>2. UNCHANGED authVars
  BY DEF BeginJob, UseToken, Boot, BootReach, BootWait, BootModels, BootPull,
         BootWarm, Call, BeginCall, Answered, ToolsRefused, Failed, Listed
<1>3. \/ Return(t) \/ \E retried, mentions : Again(t, retried, mentions)
      \/ \E step \in Quiet : Goto(t, step)
  <2>1. \A mode : NextCall(t, mode) => \E step \in Quiet : Goto(t, step)
    BY Entries DEF NextCall
  <2>2. BeginCall(t) => \E step \in Quiet : Goto(t, step)
    BY Entries DEF BeginCall
  <2>3. Answered(t) \/ ToolsRefused(t) \/ Failed(t) \/ Listed(t) =>
          \/ Return(t) \/ \E retried, mentions : Again(t, retried, mentions) \/ \E mode : NextCall(t, mode)
    BY DEF Answered, ToolsRefused, Failed, Listed
  <2>4. BeginJob(t) \/ UseToken(t) \/ Boot(t) =>
          Return(t) \/ \E step \in Quiet : Goto(t, step)
    BY DEF BeginJob, UseToken, Boot, BootReach, BootWait, BootModels, BootPull,
           BootWarm, Quiet
  <2>5. QED BY <2>1, <2>2, <2>3, <2>4 DEF Call
<1>4. pc'[t] \in Quiet
  <2>1. ASSUME NEW retried, NEW mentions, Again(t, retried, mentions)
        PROVE  pc'[t] \in Quiet
    BY <1>1, <2>1, Retrying DEF Moves
  <2>2. Return(t) => pc'[t] \in Quiet
    BY <1>1 DEF Return, Goto, Quiet
  <2>3. \A step \in Quiet : Goto(t, step) => pc'[t] \in Quiet
    BY <1>1 DEF Goto
  <2>4. QED BY <1>3, <2>1, <2>2, <2>3
<1>5. \A u \in Threads : u # t => pc'[u] = pc[u]
  BY <1>1, <1>3 DEF Return, Again, Retry, Goto
<1>6. \A u \in Threads : u # t => own'[u] = own[u]
  BY <1>1 DEF BeginJob, UseToken, Boot, BootReach, BootWait, BootModels, BootPull,
     BootWarm, Call, BeginCall, Answered, ToolsRefused, Failed, Listed, Return,
     NextCall, Again, Retry
<1>7. pc'[t] \notin Signing \cup {"refresh"}
  BY <1>4 DEF Quiet, Signing
<1>8. /\ lock' \in Threads \cup {Free} /\ \A p \in pending' : p \in pending
      /\ UNCHANGED <<client, session, logins, expiries>>
  BY <1>2 DEF authVars, NumbersInv
<1>9. QED BY <1>5, <1>6, <1>7, <1>8, SameNumbers

LEMMA SignInNumbers ==
    ASSUME SessionInv, NumbersInv, NEW t \in Threads,
           \/ BeginLogin(t) \/ KeepAttempt(t) \/ PopAttempt(t) \/ Exchange(t)
           \/ SaveLogin(t) \/ BeginSignOut(t) \/ Revoke(t)
    PROVE  NumbersInv'
<1>1. /\ pc \in [Threads -> Steps] /\ own \in [Threads -> Owned] /\ own[t] \in Owned
      /\ own[t].attempt \in SignIns /\ logins \in Nat
  BY DEF SessionInv, TypesInv, Owned
<1>2. \A u \in Threads : u # t => pc'[u] = pc[u] /\ own'[u] = own[u]
  BY <1>1 DEF BeginLogin, KeepAttempt, PopAttempt, Exchange, SaveLogin,
              BeginSignOut, Revoke, Return, Goto
<1>3. CASE BeginLogin(t)
  <2>1. PICK c \in {Register, client} :
          own' = [own EXCEPT ![t].attempt = [login |-> logins + 1, client |-> c]]
    BY <1>3 DEF BeginLogin
  <2>2. own'[t].attempt.client = c /\ Issued(c)
    BY <1>1, <2>1 DEF Owned, NumbersInv, Issued
  <2>3. logins' \in 0..MaxLogins
    BY <1>1, <1>3, SignInAssumption DEF BeginLogin
  <2>4. pc'[t] = "start_login"
    BY <1>1, <1>3 DEF BeginLogin, Goto
  <2>5. UNCHANGED <<client, session, lock, pending, expiries>>
    BY <1>3 DEF BeginLogin
  <2>6. QED BY <1>2, <2>2, <2>3, <2>4, <2>5 DEF NumbersInv, Issued
<1>4. CASE KeepAttempt(t)
  <2>1. pc'[t] \notin Signing \cup {"refresh"}
    BY <1>1, <1>4 DEF KeepAttempt, Return, Goto, Signing
  <2>2. \A p \in pending' : p \in pending \/ Issued(p.client)
    BY <1>4 DEF KeepAttempt, NumbersInv, Signing
  <2>3. /\ lock' \in Threads \cup {Free}
        /\ UNCHANGED <<client, session, logins, expiries>>
    BY <1>4 DEF KeepAttempt, NumbersInv
  <2>4. QED BY <1>2, <2>1, <2>2, <2>3, SameNumbers
<1>5. CASE PopAttempt(t)
  <2>1. /\ lock' \in Threads \cup {Free} /\ \A p \in pending' : p \in pending
        /\ UNCHANGED <<client, session, lock, logins, expiries>>
    BY <1>5 DEF PopAttempt, NumbersInv
  <2>2. CASE Return(t)
    <3>1. pc'[t] \notin Signing \cup {"refresh"}
      BY <1>1, <2>2 DEF Return, Goto, Signing
    <3>2. QED BY <1>2, <2>1, <3>1, SameNumbers
  <2>3. CASE ~Return(t)
    <3>1. PICK p \in pending :
            own' = [own EXCEPT ![t].attempt =
                      [p EXCEPT !.client = IF @ = Register THEN p.login ELSE @]]
      BY <1>5, <2>3 DEF PopAttempt
    <3>2. p \in SignIns /\ Issued(p.client) /\ p.login \in 1..logins
      BY DEF SessionInv, TypesInv, SignInsInv, NumbersInv, NewIn
    <3>3. Issued(p.login)
      BY <3>2, SignInAssumption DEF NumbersInv, Issued, Logins
    <3>4. own'[t].attempt.client \in {p.client, p.login}
      BY <1>1, <3>1, <3>2 DEF Owned, SignIns
    <3>5. pc'[t] = "exchange"
      BY <1>1, <1>5, <2>3 DEF PopAttempt, Goto
    <3>6. QED BY <1>2, <2>1, <3>2, <3>3, <3>4, <3>5 DEF NumbersInv, Issued
  <2>4. QED BY <2>2, <2>3
<1>6. CASE Exchange(t)
  <2>1. CASE Return(t)
    <3>1. pc'[t] \notin Signing \cup {"refresh"}
      BY <1>1, <2>1 DEF Return, Goto, Signing
    <3>2. QED BY <1>2, <1>6, <3>1, SameNumbers DEF Exchange, authVars, NumbersInv
  <2>2. CASE Goto(t, "save_login") /\ own' = own
    <3>1. pc[t] \in Signing /\ pc'[t] # "refresh"
      BY <1>1, <1>6, <2>2 DEF Exchange, Goto, Signing
    <3>2. UNCHANGED authVars
      BY <1>6 DEF Exchange
    <3>3. QED BY <1>2, <2>2, <3>1, <3>2 DEF NumbersInv, Issued, authVars
  <2>3. QED BY <1>6, <2>1, <2>2 DEF Exchange
<1>7. CASE SaveLogin(t)
  <2>1. pc'[t] \notin Signing \cup {"refresh"}
    BY <1>1, <1>7 DEF SaveLogin, Return, Goto, Signing
  <2>2. Issued(client')
    BY <1>7 DEF SaveLogin, NumbersInv, Signing
  <2>3. session'.turn = 0 /\ session'.due = FALSE
    BY <1>7 DEF SaveLogin
  <2>4. \A u \in Threads : pc'[u] # "refresh"
    BY <1>2, <1>7, <2>1, OneRefresh DEF SaveLogin
  <2>5. UNCHANGED <<lock, pending, logins, expiries>>
    BY <1>7 DEF SaveLogin
  <2>6. QED BY <1>2, <2>1, <2>2, <2>3, <2>4, <2>5 DEF NumbersInv, Issued
<1>8. CASE BeginSignOut(t)
  <2>1. pc'[t] \notin Signing \cup {"refresh"}
    BY <1>1, <1>8 DEF BeginSignOut, Goto, Signing
  <2>2. session'.turn = 0 /\ session'.due = FALSE
    BY <1>8 DEF BeginSignOut, NoSession
  <2>3. \A u \in Threads : pc'[u] # "refresh"
    BY <1>2, <1>8, <2>1, OneRefresh DEF BeginSignOut
  <2>4. UNCHANGED <<client, lock, pending, logins, expiries>>
    BY <1>8 DEF BeginSignOut
  <2>5. QED BY <1>2, <2>1, <2>2, <2>3, <2>4 DEF NumbersInv, Issued
<1>9. CASE Revoke(t)
  <2>1. pc'[t] \notin Signing \cup {"refresh"}
    BY <1>1, <1>9 DEF Revoke, Return, Goto, Signing
  <2>2. QED BY <1>2, <1>9, <2>1, SameNumbers DEF Revoke, NumbersInv
<1>10. QED BY <1>3, <1>4, <1>5, <1>6, <1>7, <1>8, <1>9

\* Only a session whose access token runs out is refreshed, and by one thread:
\* its refresh token is replaced once for each time that happens.
LEMMA TokenNumbers ==
    ASSUME SessionInv, NumbersInv, NEW t \in Threads,
           \/ TakeToken(t, Return(t)) \/ RefreshAnswered(t)
           \/ RefreshLost(t, Again(t, TRUE, FALSE), Return(t))
           \/ RefreshRefused(t, Return(t))
    PROVE  NumbersInv'
<1>1. /\ TypesInv /\ pc \in [Threads -> Steps] /\ own \in [Threads -> Owned]
      /\ own[t] \in Owned /\ session \in Sessions
  BY DEF SessionInv, TypesInv
<1>2. \A u \in Threads : u # t => pc'[u] = pc[u] /\ own'[u] = own[u]
  BY <1>1 DEF TakeToken, RefreshAnswered, RefreshLost, RefreshRefused, Return, Again,
         Retry, Goto
<1>3. CASE TakeToken(t, Return(t))
  <2>1. UNCHANGED <<client, session, pending, logins, expiries>>
    BY <1>3 DEF TakeToken
  <2>2. lock' \in Threads \cup {Free}
    BY <1>3 DEF TakeToken, NumbersInv
  <2>3. pc'[t] \notin Signing /\ (pc'[t] = "refresh" => session.due)
    BY <1>1, <1>3 DEF TakeToken, Return, Goto, Signing
  <2>4. QED BY <1>2, <2>1, <2>2, <2>3 DEF NumbersInv, Issued
<1>4. CASE RefreshAnswered(t)
  <2>1. /\ pc[t] = "refresh" /\ session' = Turned(own[t].session)
        /\ UNCHANGED <<client, pending, logins, expiries>>
    BY <1>4 DEF RefreshAnswered
  <2>2. /\ own[t].session \in Sessions /\ own[t].session.turn = session.turn
        /\ session.due /\ session.turn \in Nat
    BY <1>1, <2>1, Refreshing DEF SameSession, NumbersInv, Sessions
  <2>3. session'.turn = session.turn + 1 /\ session'.due = FALSE
    BY <2>1, <2>2 DEF Turned, Sessions
  <2>4. expiries \in Nat /\ session.turn < expiries
    BY <2>2, SignInAssumption DEF NumbersInv
  <2>5. session'.turn <= expiries'
    BY <2>1, <2>2, <2>3, <2>4
  <2>6. pc'[t] = "send" /\ lock' \in Threads \cup {Free}
    BY <1>1, <1>4 DEF RefreshAnswered, Unlocked, Goto, NumbersInv
  <2>7. \A u \in Threads : pc'[u] # "refresh"
    BY <1>2, <2>1, <2>6, OneRefresh
  <2>8. pc'[t] \notin Signing
    BY <2>6 DEF Signing
  <2>9. QED BY <1>2, <2>1, <2>3, <2>5, <2>6, <2>7, <2>8 DEF NumbersInv, Issued
<1>5. CASE RefreshLost(t, Again(t, TRUE, FALSE), Return(t))
  <2>1. Moves(t, Quiet)
    BY <1>1, <1>5, Retrying, Returning DEF RefreshLost
  <2>2. pc'[t] \notin Signing \cup {"refresh"}
    BY <2>1 DEF Moves, Quiet, Signing
  <2>3. /\ lock' \in Threads \cup {Free} /\ \A p \in pending' : p \in pending
        /\ UNCHANGED <<client, session, logins, expiries>>
    BY <1>5 DEF RefreshLost, Unlocked, NumbersInv
  <2>4. QED BY <1>2, <2>2, <2>3, SameNumbers
<1>6. CASE RefreshRefused(t, Return(t))
  <2>1. /\ pc[t] = "refresh" /\ session'.turn = 0 /\ session'.due = FALSE
        /\ UNCHANGED <<client, pending, logins, expiries>>
    BY <1>6 DEF RefreshRefused, NoSession
  <2>2. pc'[t] \notin Signing \cup {"refresh"} /\ lock' \in Threads \cup {Free}
    BY <1>1, <1>6 DEF RefreshRefused, Unlocked, Return, Goto, NumbersInv, Signing
  <2>3. \A u \in Threads : pc'[u] # "refresh"
    BY <1>2, <2>1, <2>2, OneRefresh
  <2>4. QED BY <1>2, <2>1, <2>2, <2>3 DEF NumbersInv, Issued
<1>7. QED BY <1>3, <1>4, <1>5, <1>6

LEMMA NumbersNext == SessionInv /\ NumbersInv /\ [Next]_vars => NumbersInv'
<1> SUFFICES ASSUME SessionInv, NumbersInv, [Next]_vars PROVE NumbersInv'
    OBVIOUS
<1>1. ASSUME NEW t \in Threads, Begin(t) \/ Step(t) PROVE NumbersInv'
  BY <1>1, WorkNumbers, SignInNumbers, TokenNumbers DEF Begin, Step, Auth
<1>2. CASE TimePasses
  <2>1. session \in Sessions /\ session.turn <= expiries /\ expiries \in 0..MaxExpiries
    BY DEF SessionInv, TypesInv, NumbersInv
  <2>2. /\ session'.turn = session.turn /\ session'.due = TRUE
        /\ expiries' = expiries + 1 /\ expiries < MaxExpiries
    BY <1>2, <2>1 DEF TimePasses, Sessions
  <2>3. session'.turn < expiries' /\ session'.turn <= expiries' /\ expiries' \in 0..MaxExpiries
    BY <2>1, <2>2, SignInAssumption DEF Sessions
  <2>4. UNCHANGED <<client, lock, pending, logins, pc, own>>
    BY <1>2 DEF TimePasses
  <2>5. QED BY <2>2, <2>3, <2>4 DEF NumbersInv, Issued
<1>3. CASE ServerEnds
  BY <1>3 DEF ServerEnds, NumbersInv, Issued
<1>4. CASE Restart
  <2>1. /\ pending' = {} /\ lock' = Free /\ \A t \in Threads : pc'[t] = "idle"
        /\ UNCHANGED <<client, session, logins, expiries>>
    BY <1>4 DEF Restart
  <2>2. QED BY <2>1 DEF NumbersInv, Issued, Signing
<1>5. CASE UNCHANGED vars
  BY <1>5 DEF vars, authVars, NumbersInv, Issued
<1>6. QED BY <1>1, <1>2, <1>3, <1>4, <1>5 DEF Next

\* However many providers, threads, sign-ins and retries there are: an exchange
\* makes at most three calls and a run two, each of Attempts requests, or twice
\* that where thinking may be switched off (complete_json, worker.py and
\* OllamaProvider.chat, whatever attempt the first round ends at); and what is
\* in the credentials file stays what was issued.
THEOREM RequestsAreBoundedHolds == Spec => []RequestsAreBounded
<1>1. Spec => Init /\ [][Next]_vars
  BY PTL DEF Spec
<1>2. Init => AccountInv /\ NumbersInv
  <2> SUFFICES ASSUME Init PROVE AccountInv /\ NumbersInv
      OBVIOUS
  <2>1. AccountInv
    BY NoAccount DEF Init, AuthInit, AccountInv
  <2>2. NumbersInv
    BY SignInAssumption
       DEF Init, AuthInit, NumbersInv, Issued, Signing, NoSession, Register
  <2>3. QED BY <2>1, <2>2
<1>3. SessionInv /\ AccountInv /\ NumbersInv => RequestsAreBounded
  <2> SUFFICES ASSUME SessionInv, AccountInv, NumbersInv PROVE RequestsAreBounded
      OBVIOUS
  <2>1. ASSUME NEW t \in Threads
        PROVE  /\ own[t].calls <= IF own[t].mode \in {"write", "correct"} THEN 2 ELSE 3
               /\ own[t].tries < MostTries(own[t])
               /\ own[t].tries \in 0..2 * Attempts - 1
    <3>1. /\ own[t] \in Owned /\ own[t].tries \in Nat /\ own[t].calls \in Nat
          /\ own[t].before \in Nat /\ own[t].think \in BOOLEAN
      BY DEF SessionInv, TypesInv, Owned
    <3>2. /\ own[t].calls <= MostCalls(own[t].mode) /\ own[t].before <= Attempts
          /\ own[t].tries < own[t].before + Attempts
          /\ own[t].before # 0 => own[t].think /\ own[t].mode # "tools"
      BY DEF AccountInv, AccountAt
    <3>3. own[t].tries < MostTries(own[t])
      <4>1. CASE own[t].before = 0
        BY <3>1, <3>2, <4>1, CallsAssumption DEF MostTries
      <4>2. CASE own[t].before # 0
        <5>1. MostTries(own[t]) = 2 * Attempts
          BY <3>2, <4>2 DEF MostTries
        <5>2. QED BY <3>1, <3>2, <5>1, CallsAssumption
      <4>3. QED BY <4>1, <4>2
    <3>4. own[t].calls <= IF own[t].mode \in {"write", "correct"} THEN 2 ELSE 3
      BY <3>1, <3>2 DEF MostCalls
    <3>5. own[t].tries \in 0..2 * Attempts - 1
      BY <3>1, <3>2, CallsAssumption
    <3>6. QED BY <3>3, <3>4, <3>5
  <2>2. session.login \in Logins \cup {0}
    <3>1. session.login \in Nat /\ session.login <= logins /\ logins \in 0..MaxLogins
      BY DEF SessionInv, TypesInv, SignInsInv, NumbersInv, Sessions
    <3>2. QED BY <3>1, SignInAssumption DEF Logins
  <2>3. session.turn \in 0..MaxExpiries
    <3>1. /\ session.turn \in Nat /\ session.turn <= expiries
          /\ expiries \in 0..MaxExpiries
      BY DEF SessionInv, TypesInv, NumbersInv, Sessions
    <3>2. QED BY <3>1, SignInAssumption
  <2>4. \A p \in pending : p.login \in Logins
    <3>1. \A p \in pending : p.login \in 1..logins
      BY DEF SessionInv, SignInsInv, NewIn
    <3>2. QED BY <3>1, SignInAssumption DEF NumbersInv, Logins
  <2>5. TypeOK
    BY <2>1, <2>2, <2>3, <2>4 DEF TypeOK, AccountInv, NumbersInv, Issued
  <2>6. QED BY <2>1, <2>5 DEF RequestsAreBounded, MostTries
<1>4. QED BY <1>1, <1>2, <1>3, SessionInvariant, AccountNext, NumbersNext, PTL
=============================================================================
