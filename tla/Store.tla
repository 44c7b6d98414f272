-------------------------------- MODULE Store --------------------------------
(***************************************************************************)
(* internal/store, statement by statement: a call is a program of SQL      *)
(* statements, and they all go through one connection (store/db.go), which *)
(* a call takes for a statement, for the rows of a query until they are    *)
(* read to the end, or for a whole transaction.                            *)
(*                                                                         *)
(* Whoever waits gets the connection in any order (database/sql).  A call  *)
(* whose client leaves, or whose statement fails, ends at once: its        *)
(* deferred Rollback or Close gives the connection back.                   *)
(*                                                                         *)
(* A row is <<table, key, value>>.  Only what tells calls apart is kept of *)
(* it; a downstream key has one more row per request its counters count.   *)
(***************************************************************************)
EXTENDS Naturals, Sequences

CONSTANTS
    Workers,      \* goroutines that call the store
    Calls,        \* what they may call: [op, key, what]
    Nobody        \* not a worker; no call either

ASSUME NobodyAssumption == Nobody \notin Workers /\ Nobody \notin Calls

VARIABLES
    disk,         \* the rows of the database file
    work,         \* the rows the connection sees: disk, or its transaction's
    conn,         \* who holds the connection
    call,         \* call[w]: what w has called and not been answered
    todo,         \* todo[w]: the statements that call has yet to run
    found         \* found[w]: the rows its queries have given

storeVars == <<disk, work, conn, call, todo, found>>

-----------------------------------------------------------------------------
Begin           == [kind |-> "begin",  rows |-> {}]
Commit          == [kind |-> "commit", rows |-> {}]
Select(rs)      == [kind |-> "select", rows |-> rs]
Insert(t, k, v) == [kind |-> "insert", rows |-> {<<t, k, v>>}]
Ensure(t, k, v) == [kind |-> "ensure", rows |-> {<<t, k, v>>}]  \* on conflict do nothing
Get(t, k)       == [kind |-> "get",    rows |-> {<<t, k>>}]     \* no row is an error
Set(t, k, v)    == [kind |-> "set",    rows |-> {<<t, k, v>>}]  \* update ... where
Count(t, k, v)  == [kind |-> "count",  rows |-> {<<t, k, v>>}]  \* and of a counter
Drop(t, k)      == [kind |-> "delete", rows |-> {<<t, k>>}]
MustDrop(t, k)  == [kind |-> "remove", rows |-> {<<t, k>>}]     \* 0 rows are an error

Matches(r, rs)  == \E s \in rs : s[1] = r[1] /\ s[2] = r[2]
Hits(s, db)     == \E r \in db : Matches(r, s.rows)

After(s, db) ==
    CASE s.kind = "insert"      -> db \union s.rows
      [] s.kind = "ensure"      -> IF Hits(s, db) THEN db ELSE db \union s.rows
      [] s.kind = "count"       -> IF Hits(s, db) THEN db \union s.rows ELSE db
      [] s.kind = "set"         ->
            IF Hits(s, db) THEN {r \in db : ~Matches(r, s.rows)} \union s.rows ELSE db
      [] OTHER                  -> {r \in db : ~Matches(r, s.rows)}

-----------------------------------------------------------------------------
(* The functions of internal/store, and what handlers string together.     *)
CreateKey(k) == <<Insert("upstream_keys", k, "row"), Get("upstream_keys", k)>>

(* MarkProbeSuccess and markFailure, whose Get ensures the row once more,   *)
(* without a transaction; what is kept of the health row is its status.    *)
MarkProbe(k, v) ==
    IF v = "healthy"
    THEN <<Ensure("key_state", k, "healthy"), Set("key_state", k, v)>>
    ELSE <<Ensure("key_state", k, "healthy"), Ensure("key_state", k, "healthy"),
           Get("key_state", k), Set("key_state", k, v)>>

DeleteKey(k) ==
    <<Begin, Drop("key_models", k), Drop("key_state", k), Drop("request_logs", k),
      MustDrop("upstream_keys", k), Commit>>

(* Bug: the log row and its count are written without a transaction.       *)
InsertLogLoose(k, q, d) ==
    <<Insert("request_logs", k, <<q, d>>)>>
        \o (IF d = Nobody THEN <<>> ELSE <<Count("downstream_keys", d, q)>>)

(* Of request q, which came with the downstream key d, or the token of the *)
(* environment.                                                            *)
InsertLog(k, q, d) ==
    <<Begin, Insert("request_logs", k, <<q, d>>)>>
        \o (IF d = Nobody THEN <<>> ELSE <<Count("downstream_keys", d, q)>>)
        \o <<Commit>>

RevokeKey(d) == <<MustDrop("downstream_keys", d)>>

(* Bug: the models of a key are replaced one statement at a time.          *)
ReplaceLoose(k, ms) ==
    <<Drop("key_models", k)>> \o [i \in 1..Len(ms) |-> Insert("key_models", k, ms[i])]

ReplaceForKey(k, ms) ==
    <<Begin, Drop("key_models", k)>>
        \o [i \in 1..Len(ms) |-> Insert("key_models", k, ms[i])] \o <<Commit>>

TokenStats == <<Select({}), Select({})>>
Overview   == <<Select({})>>

Authenticate(name) == <<Select({<<"admin_users", name>>})>>

(* Bug: the configured administrator replaces the one in the table.        *)
OverwriteAdmin(name, password) ==
    <<Drop("admin_users", name), Insert("admin_users", name, password)>>

EnsureDefaultAdmin(name, password) == <<Ensure("admin_users", name, password)>>

(* create table if not exists, with the column later versions added.       *)
CreateTable(t) ==
    [kind |-> "ensure", rows |-> {<<"tables", t, "created">>, <<"columns", t, "added">>}]

(* Bug: a table that was there is taken to have all its columns.           *)
ColumnAssumed(t) == <<Select({<<"columns", t>>})>>

(* ensureColumnExists: altering is not tried if the column is there.       *)
EnsureColumn(t) == <<Select({<<"columns", t>>}), Ensure("columns", t, "added")>>

Migrate ==
    <<CreateTable("downstream_keys"), CreateTable("request_logs")>>
        \o EnsureColumn("request_logs") \o EnsureColumn("downstream_keys")

-----------------------------------------------------------------------------
Idle(w)      == call[w] = Nobody
Runs(w)      == conn = w /\ todo[w] # <<>>
Rest(w)      == todo' = [todo EXCEPT ![w] = Tail(@)]
InTransaction(w) == todo[w][Len(todo[w])] = Commit

(* A handler or the starting process calls functions of the store.         *)
Start(w, c, program) ==
    /\ Idle(w)
    /\ call' = [call EXCEPT ![w] = c]
    /\ todo' = [todo EXCEPT ![w] = program]
    /\ UNCHANGED <<disk, work, conn, found>>

(* database/sql hands out the connection.                                  *)
Acquire(w) ==
    /\ conn = Nobody /\ todo[w] # <<>>
    /\ conn' = w
    /\ UNCHANGED <<disk, work, call, todo, found>>

BeginTx(w) ==
    /\ Runs(w) /\ Head(todo[w]) = Begin
    /\ Rest(w)
    /\ UNCHANGED <<disk, work, conn, call, found>>

(* Bug: the rows stay open while the next query is made.                   *)
ReadHolding(w) ==
    /\ Runs(w) /\ Head(todo[w]).kind \in {"select", "get"}
    /\ Head(todo[w]).kind = "get" => Hits(Head(todo[w]), work)
    /\ found' = [found EXCEPT ![w] = {r \in work : Matches(r, Head(todo[w]).rows)}]
    /\ conn' = IF Tail(todo[w]) = <<>> THEN Nobody ELSE "rows"
    /\ Rest(w)
    /\ UNCHANGED <<disk, work, call>>

(* Rows that are read to the end give the connection back, before the call *)
(* makes its next query.                                                   *)
Read(w) ==
    /\ Runs(w) /\ Head(todo[w]).kind \in {"select", "get"}
    /\ Head(todo[w]).kind = "get" => Hits(Head(todo[w]), work)
    /\ found' = [found EXCEPT ![w] = {r \in work : Matches(r, Head(todo[w]).rows)}]
    /\ conn' = Nobody
    /\ Rest(w)
    /\ UNCHANGED <<disk, work, call>>

(* A statement outside a transaction commits by itself.                    *)
Write(w) ==
    LET s == Head(todo[w]) IN
    /\ Runs(w) /\ s.kind \in {"insert", "ensure", "set", "count", "delete", "remove"}
    /\ s.kind = "remove" => Hits(s, work)
    /\ work' = After(s, work)
    /\ IF InTransaction(w) THEN UNCHANGED <<disk, conn>>
                           ELSE disk' = work' /\ conn' = Nobody
    /\ Rest(w)
    /\ UNCHANGED <<call, found>>

CommitTx(w) ==
    /\ Runs(w) /\ Head(todo[w]) = Commit
    /\ disk' = work
    /\ conn' = Nobody
    /\ Rest(w)
    /\ UNCHANGED <<work, call, found>>

Succeed(w) ==
    /\ ~Idle(w) /\ todo[w] = <<>>
    /\ call' = [call EXCEPT ![w] = Nobody]
    /\ found' = [found EXCEPT ![w] = {}]
    /\ UNCHANGED <<disk, work, conn, todo>>

(* Bug: an error returns without the deferred Rollback.                    *)
FailKeepingWork(w) ==
    /\ ~Idle(w) /\ todo[w] # <<>>
    /\ call' = [call EXCEPT ![w] = Nobody]
    /\ todo' = [todo EXCEPT ![w] = <<>>]
    /\ found' = [found EXCEPT ![w] = {}]
    /\ conn' = IF conn = w THEN Nobody ELSE conn
    /\ UNCHANGED <<disk, work>>

(* The context of the call is cancelled, or a statement fails, a delete of *)
(* no row included: the transaction is rolled back.                        *)
Fail(w) ==
    /\ ~Idle(w) /\ todo[w] # <<>>
    /\ call' = [call EXCEPT ![w] = Nobody]
    /\ todo' = [todo EXCEPT ![w] = <<>>]
    /\ found' = [found EXCEPT ![w] = {}]
    /\ IF conn = w THEN conn' = Nobody /\ work' = disk ELSE UNCHANGED <<conn, work>>
    /\ UNCHANGED disk

(* The process ends: what was not committed is gone.                       *)
Die ==
    /\ work' = disk
    /\ conn' = Nobody
    /\ call' = [w \in Workers |-> Nobody]
    /\ todo' = [w \in Workers |-> <<>>]
    /\ found' = [w \in Workers |-> {}]
    /\ UNCHANGED disk

StoreInit ==
    /\ work = disk
    /\ conn = Nobody
    /\ call = [w \in Workers |-> Nobody]
    /\ todo = [w \in Workers |-> <<>>]
    /\ found = [w \in Workers |-> {}]

(* What the running call of w does by itself.                              *)
Statement(w) == BeginTx(w) \/ Read(w) \/ Write(w) \/ CommitTx(w)

-----------------------------------------------------------------------------
(* What the connection sees differs from the file only inside the          *)
(* transaction of its holder, and only calls have statements left.         *)
StoreTypeOK ==
    /\ conn \in Workers \union {Nobody}
    /\ call \in [Workers -> Calls \union {Nobody}]
    /\ work # disk => conn # Nobody /\ todo[conn] # <<>> /\ InTransaction(conn)
    /\ \A w \in Workers : todo[w] # <<>> => ~Idle(w)

(* The store keeps the promise of AtomicStore, whoever calls, fails or dies *)
(* between which statements: transactions are all or nothing, and what the *)
(* calls without one may leave half done is no more than said there.  A    *)
(* Create has taken effect with its insert, though its select is to come.  *)
Tables == {"upstream_keys", "key_models", "key_state", "request_logs", "downstream_keys"}
Atomic == INSTANCE AtomicStore WITH
              NoCall <- Nobody,
              rows <- {r \in disk : r[1] \in Tables},
              took <- [w \in Workers |->
                          /\ ~Idle(w)
                          /\ \/ todo[w] = <<>>
                             \/ call[w].op = "create" /\ Head(todo[w]).kind = "get"]
ImplementsAtomicStore == Atomic!Spec
=============================================================================
