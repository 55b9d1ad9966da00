---------------------------- MODULE ChatGptSignIn ---------------------------
(* Signing in with ChatGPT (sida/chatgpt_auth.py, sida/chatgpt_api.py): one *)
(* credentials file, one lock, and threads that start a sign-in, finish it  *)
(* in the browser's callback, sign out, or need an access token and refresh *)
(* it.  A refresh keeps the lock while it waits for the server; the other   *)
(* steps that wait for the server do not.                                   *)
(*                                                                          *)
(* The server is external: it issues a client id on the first sign-in and   *)
(* replaces the refresh token at a refresh, so that a token used twice is   *)
(* refused (DEAD_REFRESH_ERRORS names refresh_token_reused).                *)
EXTENDS Integers, FiniteSets

CONSTANTS
    Requests,     \* threads that serve the settings screen
    Jobs,         \* threads of conversation jobs, which call models
    Free,         \* nobody holds _lock
    MaxLogins,    \* bound: sign-ins started
    MaxExpiries   \* bound: how often the access token runs out

Threads == Requests \cup Jobs

ASSUME SignInAssumption ==
    /\ MaxLogins \in Nat /\ MaxExpiries \in Nat
    /\ Free \notin Threads

Logins     == 1..MaxLogins   \* also the client ids the server may issue
Register   == 0              \* REGISTER_CLIENT_ID: the client has no id yet
NoSession  == [login |-> 0, turn |-> 0, client |-> 0, due |-> FALSE, plan |-> FALSE]
NoAttempt  == [login |-> 0, client |-> Register]

VARIABLES
    client,    \* the issued client id in the file, Register when there is none
    session,   \* the session in the file: whose sign-in, which refresh token
    lock,      \* _lock
    pending,   \* _pending: sign-ins waiting for their callback
    alive,     \* the server: <<login, turn>> of the kept refresh tokens it honours
    logins, expiries,  \* how many sign-ins were started, how often time ran out
    pc, own,   \* where each thread is, and what it has read or been given
    dropped,   \* history: sign-ins signed out of, replaced or ended
    ended      \* history: the server ended the session in the file of its own
               \* accord, or replaced its token in an answer that never came

authVars == <<client, session, lock, pending, alive, logins, expiries,
              dropped, ended>>

\* What a thread carries: its sign-in and client, the session it read, and the
\* account of the model call it makes (module ModelCalls).
Idle == [attempt |-> NoAttempt, session |-> NoSession,
         kind |-> "none", mode |-> "text", think |-> FALSE,
         calls |-> 0, tries |-> 0, before |-> 0]

AuthInit ==
    /\ client = Register /\ session = NoSession /\ lock = Free
    /\ pending = {} /\ alive = {} /\ logins = 0 /\ expiries = 0
    /\ pc = [t \in Threads |-> "idle"] /\ own = [t \in Threads |-> Idle]
    /\ dropped = {} /\ ended = FALSE

Goto(t, step) == pc' = [pc EXCEPT ![t] = step]
Return(t)     == Goto(t, "idle") /\ own' = [own EXCEPT ![t] = Idle]

\* The session that is in the file now is no longer the one to use.
Dropping == dropped' = IF session = NoSession THEN dropped
                                              ELSE dropped \cup {session.login}
----------------------------------------------------------------------------
(* Signing in.                                                              *)

\* start_login reads the file under the lock ...
BeginLogin(t) ==
    /\ t \in Requests /\ pc[t] = "idle" /\ lock = Free /\ logins < MaxLogins
    /\ logins' = logins + 1
    /\ \E new_account \in BOOLEAN :
         own' = [own EXCEPT ![t].attempt =
                   [login |-> logins + 1,
                    client |-> IF new_account THEN Register ELSE client]]
    /\ Goto(t, "start_login")
    /\ UNCHANGED <<client, session, lock, pending, alive, expiries, dropped, ended>>

\* ... and keeps the attempt under it later; attempts that ran out go.
KeepAttempt(t) ==
    /\ pc[t] = "start_login" /\ lock = Free
    /\ \E lasting \in SUBSET pending : pending' = lasting \cup {own[t].attempt}
    /\ Return(t)
    /\ UNCHANGED <<client, session, lock, alive, logins, expiries, dropped, ended>>

\* Mutant of PopAttempt: the attempt stays, so that a reload repeats it.
PeekAttempt(t) ==
    /\ t \in Requests /\ pc[t] = "idle" /\ lock = Free
    /\ \E p \in pending :
         /\ own' = [own EXCEPT ![t].attempt = [p EXCEPT !.client = IF @ = Register THEN p.login ELSE @]]
         /\ Goto(t, "exchange")
    /\ UNCHANGED authVars

\* finish_login: the browser comes back with a state.  Its attempt is taken
\* out under the lock; one that ran out, a refusal, a wrong or missing client
\* id end the sign-in there.  A registration is given a client id.
PopAttempt(t) ==
    /\ t \in Requests /\ pc[t] = "idle" /\ lock = Free
    /\ \E p \in pending :
         /\ pending' = pending \ {p}
         /\ \/ Return(t)
            \/ /\ own' = [own EXCEPT ![t].attempt =
                            [p EXCEPT !.client = IF @ = Register THEN p.login ELSE @]]
               /\ Goto(t, "exchange")
    /\ UNCHANGED <<client, session, lock, alive, logins, expiries, dropped, ended>>

\* Outside the lock the code is exchanged for tokens, and the id token is
\* validated with the server's keys; either may fail or bring too little.
Exchange(t) ==
    /\ pc[t] = "exchange"
    /\ \/ Goto(t, "save_login") /\ UNCHANGED own
       \/ Return(t)
    /\ UNCHANGED authVars

\* The file is read again under the lock and gets the new session; the user
\* may not have granted the plan's scope.
SaveLogin(t) ==
    LET a == own[t].attempt
    IN  /\ pc[t] = "save_login" /\ lock = Free
        /\ client' = a.client
        /\ \E plan \in BOOLEAN :
             session' = [login |-> a.login, turn |-> 0, client |-> a.client,
                         due |-> FALSE, plan |-> plan]
        /\ alive' = alive \cup {<<a.login, 0>>}
        /\ ended' = FALSE /\ Dropping /\ Return(t)
        /\ UNCHANGED <<lock, pending, logins, expiries>>
----------------------------------------------------------------------------
(* Signing out.                                                             *)

BeginSignOut(t) ==
    /\ t \in Requests /\ pc[t] = "idle" /\ lock = Free /\ session # NoSession
    /\ session' = NoSession /\ Dropping
    /\ own' = [own EXCEPT ![t].session = session]
    /\ Goto(t, "revoke")
    /\ UNCHANGED <<client, lock, pending, alive, logins, expiries, ended>>

\* Outside the lock.  Nobody has the token any more, so that it makes no
\* difference whether the server could be reached.
Revoke(t) ==
    /\ pc[t] = "revoke"
    /\ alive' = {g \in alive : g[1] # own[t].session.login}
    /\ Return(t)
    /\ UNCHANGED <<client, session, lock, pending, logins, expiries, dropped, ended>>

----------------------------------------------------------------------------
(* access_token.                                                            *)

\* Mutant of TakeToken: the lock is given back before the server is asked.
TakeTokenUnlocked(t, missing) ==
    /\ pc[t] = "token" /\ lock = Free
    /\ \/ ~session.plan /\ missing
       \/ session.plan /\ ~session.due /\ Goto(t, "send") /\ UNCHANGED own
       \/ /\ session.plan /\ session.due
          /\ own' = [own EXCEPT ![t].session = session] /\ Goto(t, "refresh")
    /\ UNCHANGED authVars

\* No session, or one without the plan's scope: an error that is not retried.
\* A token that is good for a while is returned at once.
TakeToken(t, missing) ==
    /\ pc[t] = "token" /\ lock = Free
    /\ \/ ~session.plan /\ missing /\ UNCHANGED lock
       \/ session.plan /\ ~session.due /\ Goto(t, "send") /\ UNCHANGED <<own, lock>>
       \/ /\ session.plan /\ session.due
          /\ own' = [own EXCEPT ![t].session = session] /\ lock' = t
          /\ Goto(t, "refresh")
    /\ UNCHANGED <<client, session, pending, alive, logins, expiries, dropped, ended>>

Turned(s) == [s EXCEPT !.turn = @ + 1, !.due = FALSE]
Grant(s)  == <<s.login, s.turn>>
Unlocked(t) == lock' = IF lock = t THEN Free ELSE lock

\* The server honours the token for the client it was issued to, replaces it,
\* and the new one is saved.
RefreshAnswered(t) ==
    LET s == own[t].session
    IN  /\ pc[t] = "refresh" /\ Grant(s) \in alive /\ client = s.client
        /\ alive' = (alive \ {Grant(s)}) \cup {Grant(Turned(s))}
        /\ session' = Turned(s)
        /\ own' = [own EXCEPT ![t].session = NoSession]
        /\ Unlocked(t) /\ Goto(t, "send")
        /\ UNCHANGED <<client, pending, logins, expiries, dropped, ended>>

\* The answer never comes, or cannot be saved, after the server may have
\* replaced the token; or the server is in trouble: "a network blip", to be
\* tried again.  A file that cannot be written or an error of another kind
\* ends the call.  The session stays.
RefreshLost(t, again, gave_up) ==
    LET s == own[t].session
    IN  /\ pc[t] = "refresh"
        /\ \/ /\ Grant(s) \in alive
              /\ alive' = (alive \ {Grant(s)}) \cup {Grant(Turned(s))}
           \/ UNCHANGED alive
        /\ ended' = TRUE
        /\ Unlocked(t) /\ (again \/ gave_up)
        /\ UNCHANGED <<client, session, pending, logins, expiries, dropped>>

\* One of DEAD_REFRESH_ERRORS: the session goes, the client id stays.
RefreshRefused(t, missing) ==
    LET s == own[t].session
    IN  /\ pc[t] = "refresh" /\ (Grant(s) \notin alive \/ client # s.client)
        /\ session' = NoSession /\ Dropping
        /\ Unlocked(t) /\ missing
        /\ UNCHANGED <<client, pending, alive, logins, expiries, ended>>

\* list_models uses the token for one request.
UseToken(t) ==
    /\ t \in Requests /\ pc[t] = "idle"
    /\ Goto(t, "token")
    /\ UNCHANGED <<authVars, own>>
----------------------------------------------------------------------------
(* Time and the server.                                                     *)

\* The access token comes near its end.
TimePasses ==
    /\ expiries < MaxExpiries /\ expiries' = expiries + 1
    /\ session # NoSession /\ session' = [session EXCEPT !.due = TRUE]
    /\ UNCHANGED <<client, lock, pending, alive, logins, pc, own, dropped, ended>>

\* The user disconnects Sida in ChatGPT's settings, or the token lapses.
ServerEnds ==
    /\ Grant(session) \in alive
    /\ alive' = alive \ {Grant(session)} /\ ended' = TRUE
    /\ UNCHANGED <<client, session, lock, pending, logins, expiries, pc, own, dropped>>

----------------------------------------------------------------------------
(* Properties.                                                              *)

\* The stored client id is the one the stored session was issued to -- a
\* refresh sends both -- and a session that was signed out of, replaced by a
\* newer sign-in or ended never comes back into the file: not by a refresh
\* that was waiting for the server meanwhile, not by a second callback of
\* the same sign-in.
SessionIsCurrent ==
    session # NoSession => session.client = client /\ session.login \notin dropped

\* The server's refusal of a refresh token, which ends the sign-in, is never
\* of Sida's own making by using a token twice: it follows only the server
\* ending the sign-in, or a refresh whose answer did not come.
EndsForAReason ==
    [][\A t \in Threads :
         pc[t] = "refresh" /\ session # NoSession /\ session' = NoSession
           => ended]_<<session, pc>>
=============================================================================
