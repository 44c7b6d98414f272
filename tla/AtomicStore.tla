----------------------------- MODULE AtomicStore -----------------------------
(***************************************************************************)
(* What the calls of internal/store promise.  A transaction (delete, log,  *)
(* replace) and a single write (revoke) take effect in one step or not at  *)
(* all, and fail only if they did not.  Two kinds of call are several      *)
(* statements without a transaction and promise less: a Create may fail    *)
(* though its key is there, and a Mark call may leave a fresh health row   *)
(* without its verdict.  A process that dies takes no effect back.         *)
(* The rows are those of the tables about upstream keys and of             *)
(* downstream_keys, where a key has one more row per request it counts.    *)
(***************************************************************************)
EXTENDS Sequences

CONSTANTS
    Workers,      \* who calls
    Calls,        \* what may be called
    NoCall        \* not a call

VARIABLES
    rows,         \* the rows, as <<table, key, value>>
    call,         \* call[w]: what w has called and not been answered
    took          \* took[w]: that call has taken effect

atomicVars == <<rows, call, took>>

-----------------------------------------------------------------------------
Of(r, t, k)      == r[1] = t /\ r[2] = k
Known(t, k, rs)  == \E r \in rs : Of(r, t, k)
Without(t, k, rs) == {r \in rs : ~Of(r, t, k)}
KeyTables        == {"upstream_keys", "key_models", "key_state", "request_logs"}
ModelsOf(k, ms)  == {<<"key_models", k, ms[i]>> : i \in DOMAIN ms}

(* A log row of request q, and its count if it came with a downstream key   *)
(* that is still there.                                                    *)
LogOf(k, q, d, rs) ==
    {<<"request_logs", k, <<q, d>>>>}
        \union (IF d # NoCall /\ Known("downstream_keys", d, rs)
                THEN {<<"downstream_keys", d, q>>} ELSE {})

(* A key goes with its models, its health and its logs; the models of a    *)
(* key are replaced as a whole; a verdict changes a health row that is     *)
(* still there; the other calls write nothing.                             *)
Effect(c, rs) ==
    CASE c.op = "create"  -> rs \union {<<"upstream_keys", c.key, "row">>}
      [] c.op = "mark"    -> IF Known("key_state", c.key, rs)
                             THEN Without("key_state", c.key, rs)
                                      \union {<<"key_state", c.key, c.what>>}
                             ELSE rs
      [] c.op = "delete"  -> {r \in rs : ~(r[1] \in KeyTables /\ r[2] = c.key)}
      [] c.op = "revoke"  -> Without("downstream_keys", c.key, rs)
      [] c.op = "log"     -> rs \union LogOf(c.key, c.what[1], c.what[2], rs)
      [] c.op = "replace" -> Without("key_models", c.key, rs) \union ModelsOf(c.key, c.what)
      [] OTHER            -> rs

Start(w, c) ==
    /\ call[w] = NoCall
    /\ call' = [call EXCEPT ![w] = c]
    /\ UNCHANGED <<rows, took>>

(* A Mark call sees to a health row first.                                 *)
Prepare(w) ==
    /\ call[w] # NoCall /\ ~took[w] /\ call[w].op = "mark"
    /\ ~Known("key_state", call[w].key, rows)
    /\ rows' = rows \union {<<"key_state", call[w].key, "healthy">>}
    /\ UNCHANGED <<call, took>>

Take(w) ==
    /\ call[w] # NoCall /\ ~took[w]
    /\ call[w].op = "delete" => Known("upstream_keys", call[w].key, rows)
    /\ call[w].op = "revoke" => Known("downstream_keys", call[w].key, rows)
    /\ rows' = Effect(call[w], rows)
    /\ took' = [took EXCEPT ![w] = TRUE]
    /\ UNCHANGED call

Succeed(w) ==
    /\ took[w]
    /\ call' = [call EXCEPT ![w] = NoCall]
    /\ took' = [took EXCEPT ![w] = FALSE]
    /\ UNCHANGED rows

Fail(w) ==
    /\ call[w] # NoCall
    /\ took[w] => call[w].op = "create"
    /\ call' = [call EXCEPT ![w] = NoCall]
    /\ took' = [took EXCEPT ![w] = FALSE]
    /\ UNCHANGED rows

Die ==
    /\ call' = [w \in Workers |-> NoCall]
    /\ took' = [w \in Workers |-> FALSE]
    /\ UNCHANGED rows

Init ==
    /\ call = [w \in Workers |-> NoCall]
    /\ took = [w \in Workers |-> FALSE]

Next ==
    \/ \E w \in Workers, c \in Calls : Start(w, c)
    \/ \E w \in Workers : Prepare(w) \/ Take(w) \/ Succeed(w) \/ Fail(w)
    \/ Die

Spec == Init /\ [][Next]_atomicVars
=============================================================================
