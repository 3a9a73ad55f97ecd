-------------------------------- MODULE SignIn --------------------------------
(***************************************************************************)
(* Sign-in with a wallet, seen from both ends: /auth/nonce and /auth/verify *)
(* over the store of single-use nonces, and the tabs of one browser, each  *)
(* with its session in memory, its shared sign-in under way and the calls  *)
(* of authFetch that wait for it.  One address; its session cookie is the  *)
(* browser's.  Tokens are counted by the time they expire.                 *)
(***************************************************************************)
EXTENDS Integers, FiniteSets

CONSTANTS
    Tabs,
    Calls,          \* calls of authFetch under way in a tab at the same time
    NonceTTL,       \* 5 minutes
    TokenTTL,       \* AccessTokenTTL, 15 minutes
    BelievedTTL,    \* what the tab takes it for: the answer names no expires_in, so 3570 s
    MaxNonces,      \* bound: nonces asked for
    MaxTime,        \* bound: the clock stops here
    MaxRepeats      \* bound: verify requests delivered a second time

VARIABLES
    slot,        \* siwe_nonces: the row of the address
    now,
    issued,      \* nonces drawn so far
    tab,         \* the sign-in each tab has under way
    session,     \* tab -> its session
    cookie,      \* when the browser's access cookie expires
    call,        \* tab, call -> authFetch
    families,    \* history: nonce -> sessions it has opened
    repeats

vars == <<slot, now, issued, tab, session, cookie, call, families, repeats>>
clientVars == <<session, cookie, call>>

Empty == [nonce |-> 0, expires |-> 0]
NoSession == [token |-> 0, until |-> 0]
NoCall == [pc |-> "idle", again |-> FALSE, token |-> 0]
Resting == [pc |-> "idle", nonce |-> 0]

Init ==
    /\ slot = Empty /\ now = 0 /\ issued = 0
    /\ tab = [t \in Tabs |-> Resting]
    /\ session = [t \in Tabs |-> NoSession]
    /\ cookie = 0
    /\ call = [t \in Tabs |-> [c \in Calls |-> NoCall]]
    /\ families = [n \in 1 .. MaxNonces |-> 0]
    /\ repeats = 0

----------------------------------------------------------------------------
(* The store: each of its calls is one statement or transaction.           *)

Live(s) == s.nonce # 0 /\ now < s.expires

\* SetIfFree replaces an expired row and leaves a live one.
SetIfFree(n) == IF Live(slot) THEN slot ELSE [nonce |-> n, expires |-> now + NonceTTL]

\* Mutation: the nonce is read and left for cleanup to delete.
Read(s) == s

\* GetDel deletes the live row it returns; an expired one is left.
GetDel(s) == IF Live(s) THEN Empty ELSE s

Cleanup ==
    /\ slot # Empty /\ ~Live(slot)
    /\ slot' = Empty
    /\ UNCHANGED <<now, issued, tab, clientVars, families, repeats>>

----------------------------------------------------------------------------
(* authenticate(), in a tab.  A failure rejects every call that waits.     *)

Waiting(t) == {c \in Calls : call[t][c].pc = "auth"}

Resume(t, pc, token) ==
    call' = [call EXCEPT ![t] = [c \in Calls |->
                IF c \in Waiting(t) THEN [@[c] EXCEPT !.pc = pc, !.token = token] ELSE @[c]]]

Fails(t) ==
    /\ tab' = [tab EXCEPT ![t] = Resting]
    /\ Resume(t, "failed", 0)

\* nonceHandler, first try.
AskNonce(t) ==
    /\ tab[t].pc = "begin" /\ issued < MaxNonces
    /\ issued' = issued + 1
    /\ slot' = SetIfFree(issued + 1)
    /\ tab' = [tab EXCEPT ![t] = [pc |-> IF Live(slot) THEN "replace" ELSE "sign", nonce |-> issued + 1]]
    /\ UNCHANGED <<now, clientVars, families, repeats>>

Replace(t) ==
    /\ tab[t].pc = "replace"
    /\ slot' = GetDel(slot)
    /\ tab' = [tab EXCEPT ![t].pc = "claim"]
    /\ UNCHANGED <<now, issued, clientVars, families, repeats>>

Claim(t) ==
    /\ tab[t].pc = "claim"
    /\ slot' = SetIfFree(tab[t].nonce)
    /\ IF Live(slot) THEN Fails(t)
       ELSE tab' = [tab EXCEPT ![t].pc = "sign"] /\ UNCHANGED call
    /\ UNCHANGED <<now, issued, session, cookie, families, repeats>>

Sign(t) ==
    /\ tab[t].pc = "sign"
    /\ \/ tab' = [tab EXCEPT ![t].pc = "verify"] /\ UNCHANGED call
       \/ Fails(t)
    /\ UNCHANGED <<slot, now, issued, session, cookie, families, repeats>>

\* verifyHandler: the signature is checked before, the nonce consumed last, and a
\* nonce that is not the message's is gone all the same.
Opens(n) == Live(slot) /\ slot.nonce = n

Verify(t) ==
    /\ tab[t].pc = "verify"
    /\ slot' = GetDel(slot)
    /\ IF Opens(tab[t].nonce)
       THEN /\ families' = [families EXCEPT ![tab[t].nonce] = @ + 1]
            /\ cookie' = now + TokenTTL
            /\ session' = [session EXCEPT ![t] = [token |-> now + TokenTTL, until |-> now + BelievedTTL]]
            /\ tab' = [tab EXCEPT ![t] = Resting]
            /\ Resume(t, "send", now + TokenTTL)
       ELSE Fails(t) /\ UNCHANGED <<session, cookie, families>>
    /\ UNCHANGED <<now, issued, repeats>>

\* The same message arrives again; whoever sent it is not a tab's sign-in.
VerifyAgain(n) ==
    /\ families[n] > 0 /\ repeats < MaxRepeats
    /\ repeats' = repeats + 1
    /\ slot' = GetDel(slot)
    /\ families' = IF Opens(n) THEN [families EXCEPT ![n] = @ + 1] ELSE families
    /\ UNCHANGED <<now, issued, tab, clientVars>>

----------------------------------------------------------------------------
(* authFetch().                                                            *)

ClearedSession(t) == [session EXCEPT ![t] = NoSession]

\* getSession, else join the sign-in under way or begin one.
Authenticate(t, c, s, again) ==
    LET have == now < s[t].until
    IN  /\ session' = s
        /\ call' = [call EXCEPT ![t][c] =
                      [pc |-> IF have THEN "send" ELSE "auth", again |-> again,
                       token |-> IF have THEN s[t].token ELSE 0]]
        /\ tab' = IF have \/ tab[t].pc # "idle" THEN tab ELSE [tab EXCEPT ![t].pc = "begin"]

Fetch(t, c) ==
    /\ call[t][c].pc = "idle"
    /\ Authenticate(t, c, session, FALSE)
    /\ UNCHANGED <<slot, now, issued, cookie, families, repeats>>

\* jwtMiddleware takes the Bearer token or the cookie.
Authorized(t, c) == now < call[t][c].token \/ now < cookie

Send(t, c) ==
    /\ call[t][c].pc = "send"
    /\ IF Authorized(t, c)
       THEN call' = [call EXCEPT ![t][c].pc = "answered"] /\ UNCHANGED <<session, tab>>
       ELSE IF call[t][c].again
       THEN call' = [call EXCEPT ![t][c].pc = "refused"] /\ UNCHANGED <<session, tab>>
       ELSE Authenticate(t, c, ClearedSession(t), TRUE)
    /\ UNCHANGED <<slot, now, issued, cookie, families, repeats>>

Return(t, c) ==
    /\ call[t][c].pc \in {"answered", "refused", "failed"}
    /\ call' = [call EXCEPT ![t][c] = NoCall]
    /\ UNCHANGED <<slot, now, issued, tab, session, cookie, families, repeats>>

\* logout, and the answer that clears the browser's cookies.
Logout(t) ==
    /\ session[t] # NoSession
    /\ session' = ClearedSession(t)
    /\ cookie' = 0
    /\ UNCHANGED <<slot, now, issued, tab, call, families, repeats>>

\* A request is sent in the turn its token came and answered well within a tick.
Tick ==
    /\ now < MaxTime
    /\ \A t \in Tabs, c \in Calls : call[t][c].pc # "send"
    /\ now' = now + 1
    /\ UNCHANGED <<slot, issued, tab, clientVars, families, repeats>>

Next ==
    \/ \E t \in Tabs :
         \/ AskNonce(t) \/ Replace(t) \/ Claim(t) \/ Sign(t) \/ Verify(t) \/ Logout(t)
         \/ \E c \in Calls : Fetch(t, c) \/ Send(t, c) \/ Return(t, c)
    \/ \E n \in 1 .. MaxNonces : VerifyAgain(n)
    \/ Cleanup \/ Tick

Spec == Init /\ [][Next]_vars

----------------------------------------------------------------------------
TypeOK ==
    /\ slot.nonce \in 0 .. MaxNonces /\ slot.expires \in 0 .. MaxTime + NonceTTL
    /\ issued \in 0 .. MaxNonces /\ repeats \in 0 .. MaxRepeats
    /\ \A t \in Tabs : tab[t].nonce <= issued /\ session[t].token <= session[t].until

\* A signed message opens at most one session, whichever tabs ask for nonces,
\* replace each other's and send their messages late or twice.
SessionPerNonce == \A n \in 1 .. MaxNonces : families[n] <= 1

\* authFetch "signs in on demand and retries once on 401": no call is answered 401,
\* though a token dies long before the tab stops believing in it and another call of
\* the tab may clear or renew the session in between.
NeverRefused == \A t \in Tabs, c \in Calls : call[t][c].pc # "refused"
==============================================================================
