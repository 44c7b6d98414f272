-------------------------------- MODULE Server --------------------------------
(***************************************************************************)
(* The process around the store and the sessions (cmd/atomhub, app/app.go, *)
(* app/handlers_admin.go): it starts, migrates the database and sees to an *)
(* administrator, serves, stops and is started again with a configuration  *)
(* that may differ, and it may die between any two statements.             *)
(*                                                                         *)
(* Browsers sign in, look at the dashboard, and add and delete keys;       *)
(* gateway requests write their log row; the starting process migrates,    *)
(* then probes keys, each with the statements of Store.                    *)
(***************************************************************************)
EXTENDS Session, Store

CONSTANTS
    Starter,      \* the process itself: main, then its first probes
    Requests,     \* gateway requests that reach their log
    Keys,         \* upstream keys
    Tokens,       \* downstream keys, which an earlier version may have left
    Models,       \* what a key may serve
    ModelLists    \* what a probe may find

ASSUME WorkersAssumption ==
    Workers = Browsers \union Requests \union {Starter}
ASSUME KeysAssumption ==
    /\ Nobody \notin Keys \union Tokens \union Requests
    /\ Keys \intersect Tokens = {} /\ (Keys \union Tokens) \intersect Requests = {}
    /\ "row" \notin Requests
ASSUME ModelListsAssumption == ModelLists \subseteq Seq(Models)

VARIABLES
    phase,        \* "down", "boot", "up" or "closing"
    admin,        \* the username the process was started with
    used          \* the requests that have come, and the ids of keys given out

serverVars == <<phase, admin, used>>
vars       == <<sessionVars, storeVars, serverVars>>

-----------------------------------------------------------------------------
Call(op, k, x) == [op |-> op, key |-> k, what |-> x]

SignIn(n, p)   == Call("login", n, p)
Look           == Call("dashboard", Nobody, Nobody)
Add(k)         == Call("create", k, Nobody)
Remove(k)      == Call("delete", k, Nobody)
Revoke(d)      == Call("revoke", d, Nobody)
Record(k, q, d) == Call("log", k, <<q, d>>)
Found(k, ms)   == Call("replace", k, ms)
Verdict(k, v)  == Call("mark", k, v)
Bootstrap(n, p) == Call("boot", n, p)
AdminCalls     == {Look} \union {Add(k) : k \in Keys} \union {Remove(k) : k \in Keys}
                      \union {Revoke(d) : d \in Tokens}
Verdicts       == {"healthy", "cooling_down"}
Presented      == Tokens \union {Nobody}     \* Nobody: the environment's token

ASSUME CallsAssumption ==
    Calls = AdminCalls
        \union {SignIn(n, p) : n \in Names, p \in Passwords}
        \union {Bootstrap(n, p) : n \in Names, p \in Passwords}
        \union {Record(k, q, d) : k \in Keys, q \in Requests, d \in Presented}
        \union {Found(k, ms) : k \in Keys, ms \in ModelLists}
        \union {Verdict(k, v) : k \in Keys, v \in Verdicts}

(* app.New, with the configured secret, username and password.             *)
Boot(s, n, p) ==
    /\ phase = "down"
    /\ Start(Starter, Bootstrap(n, p), Migrate \o EnsureDefaultAdmin(n, p))
    /\ Configure(s)
    /\ phase' = "boot" /\ admin' = n
    /\ UNCHANGED used

(* New returns, Run serves.                                                *)
Serve ==
    /\ phase = "boot"
    /\ Succeed(Starter)
    /\ phase' = "up"
    /\ UNCHANGED <<sessionVars, admin, used>>

(* handleAdminLogin, which reads the account of that name ...              *)
Login(b, n, p) ==
    /\ phase = "up"
    /\ Start(b, SignIn(n, p), Authenticate(n))
    /\ UNCHANGED <<sessionVars, serverVars>>

(* ... and sets a cookie if it has this password.                          *)
LoggedIn(b) ==
    /\ ~Idle(b) /\ call[b].op = "login"
    /\ Succeed(b)
    /\ IF <<"admin_users", call[b].key, call[b].what>> \in found[b]
       THEN SetCookie(b, call[b].key, call[b].what) ELSE UNCHANGED sessionVars
    /\ UNCHANGED serverVars

(* handleDashboard: TokenStats, then Overview.                             *)
Dashboard(b) ==
    /\ phase = "up"
    /\ Admit(b)
    /\ Start(b, Look, TokenStats \o Overview)
    /\ UNCHANGED serverVars

(* handleCreateKey, up to the health row and the probe; ids are not reused. *)
AddKey(b, k) ==
    /\ phase = "up" /\ k \notin used
    /\ Admit(b)
    /\ Start(b, Add(k), CreateKey(k))
    /\ used' = used \union {k}
    /\ UNCHANGED <<phase, admin>>

(* handleDeleteKey, up to the rebuild of the catalog (Registry).           *)
RemoveKey(b, k) ==
    /\ phase = "up"
    /\ Admit(b)
    /\ Start(b, Remove(k), DeleteKey(k))
    /\ UNCHANGED serverVars

(* handleDeleteDownstreamKey.                                              *)
RemoveToken(b, d) ==
    /\ phase = "up"
    /\ Admit(b)
    /\ Start(b, Revoke(d), RevokeKey(d))
    /\ UNCHANGED serverVars

Logout(b) ==
    /\ phase = "up" /\ Idle(b)
    /\ Clear(b)
    /\ UNCHANGED <<storeVars, serverVars>>

(* LogStore.Insert for a request that came with d and was given k; either  *)
(* may be gone.                                                            *)
Log(q, k, d) ==
    /\ phase = "up" /\ q \notin used /\ k \in used /\ d \in used \union {Nobody}
    /\ used' = used \union {q}
    /\ Start(q, Record(k, q, d), InsertLog(k, q, d))
    /\ UNCHANGED <<sessionVars, phase, admin>>

(* A probe keeps the models it found, then its verdict; the key may be gone. *)
Probe(k, ms) ==
    /\ phase = "up" /\ k \in used
    /\ Start(Starter, Found(k, ms), ReplaceForKey(k, ms))
    /\ UNCHANGED <<sessionVars, serverVars>>

Mark(k, v) ==
    /\ phase = "up" /\ k \in used
    /\ Start(Starter, Verdict(k, v), MarkProbe(k, v))
    /\ UNCHANGED <<sessionVars, serverVars>>

Finish(w) ==
    /\ ~Idle(w)
    /\ call[w].op \in {"dashboard", "create", "delete", "revoke", "log", "replace", "mark"}
    /\ Succeed(w)
    /\ UNCHANGED <<sessionVars, serverVars>>

(* Run returns as soon as the server is told to shut down, and Close then  *)
(* closes the database: whoever waits for the connection gets an error,    *)
(* whoever has it may go on until the process exits.                       *)
Close ==
    /\ phase = "up"
    /\ phase' = "closing"
    /\ UNCHANGED <<sessionVars, storeVars, admin, used>>

Refused(w) ==
    /\ phase = "closing" /\ conn # w
    /\ Fail(w)
    /\ UNCHANGED <<sessionVars, serverVars>>

(* Main returns, or the process dies.                                      *)
Exit ==
    /\ phase # "down"
    /\ Die
    /\ phase' = "down"
    /\ UNCHANGED <<sessionVars, admin, used>>

GetConnection(w) ==
    /\ phase # "closing"
    /\ Acquire(w)
    /\ UNCHANGED <<sessionVars, serverVars>>

Step(w) == Statement(w) /\ UNCHANGED <<sessionVars, serverVars>>

(* The client leaves or a statement fails; a boot that fails ends the      *)
(* process.                                                                *)
Cancel(w) ==
    /\ Fail(w)
    /\ phase' = IF phase = "boot" THEN "down" ELSE phase
    /\ UNCHANGED <<sessionVars, admin, used>>

-----------------------------------------------------------------------------
(* A database of an earlier version, or none yet.                          *)
OldDisk ==
    {<<"tables", t, "created">> : t \in {"request_logs", "downstream_keys"}}
        \union {<<"upstream_keys", k, "row">> : k \in Keys}
        \union {<<"key_state", k, "healthy">> : k \in Keys}
        \union {<<"downstream_keys", d, "row">> : d \in Tokens}

Init ==
    /\ \/ disk = {} /\ used = {}
       \/ disk = OldDisk /\ used = Keys \union Tokens
    /\ StoreInit /\ SessionInit
    /\ phase = "down" /\ admin \in Names

Returns(w) == Finish(w) \/ (w \in Browsers /\ LoggedIn(w)) \/ (w = Starter /\ Serve)

Next ==
    \/ \E s \in Secrets, n \in Names, p \in Passwords : Boot(s, n, p)
    \/ Close \/ Exit
    \/ \E w \in Workers :
          GetConnection(w) \/ Step(w) \/ Returns(w) \/ Refused(w) \/ Cancel(w)
    \/ \E b \in Browsers :
          \/ \E n \in Names, p \in Passwords : Login(b, n, p)
          \/ Dashboard(b) \/ Logout(b)
          \/ Expire(b) /\ UNCHANGED <<storeVars, serverVars>>
          \/ \E k \in Keys : AddKey(b, k) \/ RemoveKey(b, k)
          \/ \E d \in Tokens : RemoveToken(b, d)
    \/ \E k \in Keys : \/ \E q \in Requests, d \in Presented : Log(q, k, d)
                       \/ \E v \in Verdicts : Mark(k, v)
                       \/ \E ms \in ModelLists : Probe(k, ms)
    \/ Tick /\ UNCHANGED <<storeVars, serverVars>>

Spec == Init /\ [][Next]_vars

-----------------------------------------------------------------------------
TypeOK ==
    /\ StoreTypeOK /\ SessionTypeOK
    /\ phase \in {"down", "boot", "up", "closing"}
    /\ admin \in Names
    /\ used \subseteq Requests \union Keys \union Tokens
    /\ phase = "down" => \A w \in Workers : Idle(w)

(* What w can do though nobody leaves, fails or exits: get the connection, *)
(* or an error instead of it, go on with it, or answer.                    *)
MayGoOn(w) ==
    \/ phase # "closing" /\ conn = Nobody /\ todo[w] # <<>>
    \/ phase = "closing" /\ conn # w /\ ~Idle(w) /\ todo[w] # <<>>
    \/ Runs(w) /\ Head(todo[w]).kind \in
          {"begin", "commit", "select", "get", "insert", "ensure", "set", "count",
           "delete", "remove"}
    \/ /\ ~Idle(w) /\ todo[w] = <<>>
       /\ \/ call[w].op \in {"dashboard", "create", "delete", "revoke", "log",
                              "replace", "mark"}
          \/ call[w].op = "login" /\ w \in Browsers
          \/ phase = "boot" /\ w = Starter

(* The connection is never a dead end: while there are calls, one of them  *)
(* can go on; none waits for the connection it holds, and none that has    *)
(* ended keeps it.                                                         *)
SomeoneGoesOn == (\E w \in Workers : ~Idle(w)) => \E w \in Workers : MayGoOn(w)

(* Whoever dies when: a log row in the file of a request that came with a  *)
(* downstream key that still is there has its count there too, and the     *)
(* models of a key are those of one probe, or none, never a part of them.  *)
LogsCounted ==
    \A r \in disk :
        r[1] = "request_logs" /\ <<"downstream_keys", r[3][2], "row">> \in disk =>
            <<"downstream_keys", r[3][2], r[3][1]>> \in disk

ModelsWhole ==
    \A k \in Keys :
        LET served == {r[3] : r \in {x \in disk : x[1] = "key_models" /\ x[2] = k}}
        IN  served = {} \/ \E ms \in ModelLists : served = {ms[i] : i \in DOMAIN ms}

FileWhole == LogsCounted /\ ModelsWhole

(* Whenever requests are served the schema is complete, the configured     *)
(* administrator has an account, and no name has two, however often a start *)
(* was cut short, and from whichever version the database is.  It is not   *)
(* said that there is one administrator: the account of a name that was    *)
(* configured before stays.                                                *)
ReadyWhenUp ==
    phase \in {"up", "closing"} =>
        /\ \A t \in {"request_logs", "downstream_keys"} :
              <<"tables", t, "created">> \in disk /\ <<"columns", t, "added">> \in disk
        /\ \E p \in Passwords : <<"admin_users", admin, p>> \in disk
        /\ \A n \in Names, p, other \in Passwords :
              {<<"admin_users", n, p>>, <<"admin_users", n, other>>} \subseteq disk => p = other

(* Who is let in has signed in under the secret of this process less than  *)
(* the TTL and a second ago, with the password that still is the one of    *)
(* the account: a cookie cannot be taken back, so the account it was given *)
(* for must not change.                                                    *)
AdmissionEarned ==
    [][\A b \in Browsers :
          Idle(b) /\ call'[b] \in AdminCalls =>
              /\ cookie[b] # NoCookie
              /\ cookie[b].secret = secret
              /\ clock < cookie[b].born + TTL + PerSecond
              /\ <<"admin_users", cookie[b].name, cookie[b].by>> \in disk]_vars
=============================================================================
