------------------------------- MODULE Session -------------------------------
(***************************************************************************)
(* Administrator sessions (auth/session.go, auth/middleware.go): a session *)
(* is a signed cookie, the server keeps none.  Times are in ticks, a second *)
(* is PerSecond of them; the cookie carries whole seconds.                 *)
(***************************************************************************)
EXTENDS Integers

CONSTANTS
    Browsers,     \* clients that may hold a cookie
    Secrets,      \* what ATOMHUB_SESSION_SECRET may be
    Names,        \* what ATOMHUB_ADMIN_USERNAME may be
    Passwords,    \* what an administrator may sign in with
    NoCookie,     \* nothing held
    TTL,          \* ATOMHUB_SESSION_TTL
    PerSecond,    \* ticks of a second
    MaxClock      \* bound: the clock

Cookie == [secret : Secrets, exp : Nat, born : Nat, name : Names, by : Passwords]

ASSUME TTLAssumption       == TTL \in Nat \ {0}
ASSUME PerSecondAssumption == PerSecond \in Nat \ {0}
ASSUME NoCookieAssumption  == NoCookie \notin Cookie

VARIABLES
    clock,        \* time, in ticks
    secret,       \* the secret of the running process
    cookie        \* cookie[b]: what browser b sends

sessionVars == <<clock, secret, cookie>>

-----------------------------------------------------------------------------
Second(t) == t \div PerSecond

(* What Set signs, with two history fields: when, and for which password.  *)
Token(n, p) ==
    [secret |-> secret, exp |-> Second(clock + TTL), born |-> clock, name |-> n, by |-> p]

(* Bug: the session ends with the second its cookie names.                 *)
OpensEarly(c) == c # NoCookie /\ c.secret = secret /\ Second(clock) < c.exp

(* Get: the signature is this process's, and the second has not passed.    *)
Opens(c) == c # NoCookie /\ c.secret = secret /\ Second(clock) <= c.exp

(* Max-Age is in whole seconds; it is left out if 0, and Expires, which    *)
(* names a second, stands alone.                                           *)
DropsAt(c) ==
    IF Second(TTL) > 0 THEN c.born + Second(TTL) * PerSecond
                       ELSE Second(c.born + TTL) * PerSecond

SetCookie(b, n, p) ==
    /\ cookie' = [cookie EXCEPT ![b] = Token(n, p)]
    /\ UNCHANGED <<clock, secret>>

(* RequireAdmin lets the request through.                                  *)
Admit(b) ==
    /\ Opens(cookie[b])
    /\ UNCHANGED sessionVars

(* Logout: only the browser forgets.                                       *)
Clear(b) ==
    /\ cookie' = [cookie EXCEPT ![b] = NoCookie]
    /\ UNCHANGED <<clock, secret>>

(* A browser drops the cookie when told to; other clients need not.        *)
Expire(b) ==
    /\ cookie[b] # NoCookie /\ clock >= DropsAt(cookie[b])
    /\ Clear(b)

Configure(s) ==
    /\ secret' = s
    /\ UNCHANGED <<clock, cookie>>

Tick ==
    /\ clock < MaxClock
    /\ clock' = clock + 1
    /\ UNCHANGED <<secret, cookie>>

SessionInit ==
    /\ clock = 0
    /\ secret \in Secrets
    /\ cookie = [b \in Browsers |-> NoCookie]

-----------------------------------------------------------------------------
SessionTypeOK ==
    /\ clock \in Nat /\ secret \in Secrets
    /\ cookie \in [Browsers -> Cookie \union {NoCookie}]

(* A session lasts as long as configured: whoever has signed in less than  *)
(* the TTL ago, to the tick, is let in, also after a restart that kept the *)
(* secret, though the cookie carries whole seconds; and no browser that    *)
(* drops the cookie in time ever sends one that is refused for its age.    *)
SessionsLast ==
    \A b \in Browsers : cookie[b] # NoCookie /\ cookie[b].secret = secret =>
        /\ clock <= cookie[b].born + TTL => Opens(cookie[b])
        /\ clock < DropsAt(cookie[b]) => Opens(cookie[b])

=============================================================================
