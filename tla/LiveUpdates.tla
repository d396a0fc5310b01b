---------------------------- MODULE LiveUpdates -----------------------------
(***************************************************************************)
(* useWebSocket: the socket over which the backend announces changes, in   *)
(* one mounting of the hook.                                               *)
(*                                                                         *)
(* The flag, the socket and the timer are refs, shared by every run of the *)
(* effect; a socket's handlers keep the token of the run that opened it.   *)
(* close() only asks: onclose comes later and judges by the flag as it is  *)
(* by then.                                                                *)
(***************************************************************************)
EXTENDS FiniteSets, Naturals

CONSTANTS Sockets,      \* bound: sockets that are there at once
          Tokens,       \* bound: access tokens
          FirstDelay,   \* INITIAL_RECONNECT_DELAY_MS
          LastDelay,    \* MAX_RECONNECT_DELAY_MS
          NoSocket      \* null

ASSUME LiveAssumption == /\ NoSocket \notin Sockets /\ Tokens # {}
                         /\ FirstDelay \in Nat /\ LastDelay \in Nat /\ FirstDelay <= LastDelay

VARIABLES token,        \* the token of the store
          mounted,
          guard,        \* cleanupGuardRef
          starting,     \* the timer that opens the first socket is set
          socket,       \* socket[s]: where it is, and the token its handlers keep
          current,      \* wsRef
          retry,        \* reconnectTimerRef: the socket whose onclose has set it
          delay,        \* reconnectDelayRef
          renewing,     \* onclose waits for refreshToken of the store
          asksMe,       \* getMe is under way
          swapped       \* the token has changed while a socket was there

liveVars == <<token, mounted, guard, starting, socket, current, retry, delay,
              renewing, asksMe, swapped>>

\* waiting: gone, and its onclose has set a timer to connect again.
Socket == [at : {"none", "connecting", "open", "closing", "waiting"}, token : Tokens]
There == {s \in Sockets : socket[s].at \in {"connecting", "open", "closing"}}
Opened == {s \in Sockets : socket[s].at \in {"connecting", "open"}}
Waiting == {s \in Sockets : socket[s].at = "waiting"}

LiveInit ==
    /\ token \in Tokens /\ mounted = TRUE
    /\ guard = FALSE /\ starting = TRUE
    /\ socket = [s \in Sockets |-> [at |-> "none", token |-> token]]
    /\ current = NoSocket /\ retry = NoSocket /\ delay = FirstDelay
    /\ renewing = FALSE /\ asksMe = FALSE /\ swapped = FALSE

\* Mutant of Cleaned: the timer is forgotten, not cleared.
CleanedSocket == [s \in Sockets |->
    [socket[s] EXCEPT !.at = IF s = current /\ s \in There THEN "closing" ELSE @]]
\* The function the effect returns, but for the flag: the timer in the ref is
\* cleared and the socket in the ref told to close.
Cleaned == [s \in Sockets |->
    [socket[s] EXCEPT !.at = CASE s = retry /\ @ = "waiting" -> "none"
                               [] s = current /\ s \in There -> "closing"
                               [] OTHER -> @]]

\* The store has another token: the effect is cleaned up and runs again, which
\* lowers the flag.
NewToken ==
    /\ token' \in Tokens \ {token}
    /\ socket' = Cleaned /\ current' = NoSocket /\ retry' = NoSocket
    /\ guard' = FALSE /\ starting' = TRUE
    /\ swapped' = (swapped \/ There # {})
    /\ UNCHANGED <<mounted, delay>>

\* Without a token the pages that mount the hook are left.
Unmount ==
    /\ socket' = Cleaned /\ current' = NoSocket /\ retry' = NoSocket
    /\ guard' = TRUE /\ mounted' = FALSE /\ starting' = FALSE
    /\ UNCHANGED <<token, delay, swapped>>

\* connect of the run with token t, whose socket will be s.
Connect(s, t) ==
    /\ socket' = [socket EXCEPT ![s] = [at |-> "connecting", token |-> t]]
    /\ current' = s

\* The timer of the effect, after cleanup or not.
FirstConnect ==
    /\ starting /\ starting' = FALSE
    /\ IF guard THEN UNCHANGED <<socket, current>>
       ELSE \E s \in Sockets : socket[s].at = "none" /\ Connect(s, token)
    /\ UNCHANGED <<token, mounted, guard, retry, delay, renewing, asksMe, swapped>>

Onopen(s) ==
    /\ socket[s].at = "connecting"
    /\ socket' = [socket EXCEPT ![s].at = "open"]
    /\ delay' = FirstDelay
    /\ UNCHANGED <<token, mounted, guard, starting, current, retry, renewing, asksMe, swapped>>

\* onerror closes, and onclose is still to come.
Onerror(s) ==
    /\ s \in Opened
    /\ socket' = [socket EXCEPT ![s].at = "closing"]
    /\ UNCHANGED <<token, mounted, guard, starting, current, retry, delay, renewing, asksMe, swapped>>

\* Code 4001 asks for the refresh that everybody shares, any other sets a timer.
Onclose(s) ==
    /\ s \in There
    /\ \/ /\ guard
          /\ socket' = [socket EXCEPT ![s].at = "none"]
          /\ UNCHANGED <<retry, renewing>>
       \/ /\ ~guard /\ socket[s].at # "closing"
          /\ socket' = [socket EXCEPT ![s].at = "none"]
          /\ renewing' = TRUE /\ UNCHANGED retry
       \/ /\ ~guard
          /\ socket' = [socket EXCEPT ![s].at = "waiting"]
          /\ retry' = s /\ UNCHANGED renewing
    /\ UNCHANGED <<token, mounted, guard, starting, current, delay, asksMe, swapped>>

\* A timer that was not in the ref is not cleared: it looks at the flag.
Again(s) ==
    /\ s \in Waiting
    /\ IF guard
       THEN /\ socket' = [socket EXCEPT ![s].at = "none"] /\ UNCHANGED <<current, delay>>
       ELSE /\ Connect(s, socket[s].token)
            /\ delay' = IF 2 * delay > LastDelay THEN LastDelay ELSE 2 * delay
    /\ UNCHANGED <<token, mounted, guard, starting, retry, renewing, asksMe, swapped>>

\* A refresh that onclose has asked for ends in a token or in clearAuth.
Renewed == /\ renewing /\ renewing' = FALSE
           /\ IF mounted THEN NewToken \/ Unmount
              ELSE UNCHANGED <<token, mounted, guard, starting, socket, current, retry, delay, swapped>>
           /\ UNCHANGED asksMe

\* A request of a page has renewed the token, or a logout or a failed refresh
\* has cleared it.
Elsewhere == /\ mounted /\ (NewToken \/ Unmount)
             /\ UNCHANGED <<renewing, asksMe>>

\* A message; user_updated about oneself asks for the profile, the others only
\* mark cached answers as stale.
Message(s) ==
    /\ socket[s].at = "open" /\ ~asksMe /\ asksMe' = TRUE
    /\ UNCHANGED <<token, mounted, guard, starting, socket, current, retry, delay, renewing, swapped>>

\* getMe: a profile is stored, none or a blocked one clears the store. It gives
\* none for a failed request as well.
MeAnswer == /\ asksMe /\ asksMe' = FALSE
            /\ \/ UNCHANGED <<token, mounted, guard, starting, socket, current, retry, delay, swapped>>
               \/ mounted /\ Unmount
            /\ UNCHANGED renewing

LiveNext ==
    \/ FirstConnect \/ Renewed \/ Elsewhere \/ MeAnswer
    \/ \E s \in Sockets : Onopen(s) \/ Onerror(s) \/ Onclose(s) \/ Again(s) \/ Message(s)

-----------------------------------------------------------------------------
(* Properties *)

\* As long as no token is replaced under a socket there is one connection or
\* one attempt at it, and none once the hook is unmounted. (When one is, its
\* onclose finds the flag lowered again and goes on with the old token.)
NeverTwo ==
    ~swapped => Cardinality(Opened \cup Waiting) <= IF mounted THEN 1 ELSE 0

\* A mounted hook is never left with neither a socket nor anything to come that
\* will open one or end the mounting.
NeverStranded ==
    mounted => There # {} \/ renewing \/ (~guard /\ (starting \/ Waiting # {}))

\* While the hook is mounted it has its one connection, or will have it.
OneSocket == NeverTwo /\ NeverStranded
=============================================================================
