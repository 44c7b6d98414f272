----------------------------- MODULE StoreProofs -----------------------------
(* The calls of Server keep the promises of AtomicStore, for every set of  *)
(* browsers, requests, keys and models, and every order of their           *)
(* statements, failures and deaths.                                        *)
EXTENDS ServerProofs

DataOf(db) == {r \in db : r[1] \in Tables}

(* The calls that run in a transaction, and what the connection sees once  *)
(* n of the statements of such a call have run.                            *)
Transacts(c) == c.op \in {"delete", "log", "replace"}

Cut(n) == (IF n >= 2 THEN {"key_models"} ELSE {}) \union (IF n >= 3 THEN {"key_state"} ELSE {})
            \union (IF n >= 4 THEN {"request_logs"} ELSE {})
            \union (IF n >= 5 THEN {"upstream_keys"} ELSE {})

Partial(c, n, db) ==
    CASE c.op = "delete"  -> {r \in db : ~(r[2] = c.key /\ r[1] \in Cut(n))}
      [] c.op = "log"     ->
            db \union (IF n < 2 THEN {}
                       ELSE IF n = 2 THEN {<<"request_logs", c.key, c.what>>}
                       ELSE Atomic!LogOf(c.key, c.what[1], c.what[2], db))
      [] OTHER            ->
            IF n < 2 THEN db
            ELSE {r \in db : ~(r[2] = c.key /\ r[1] = "key_models")}
                    \union {<<"key_models", c.key, c.what[i]>> : i \in 1..n - 2}

(* n statements of its program have run.                                   *)
HasRun(w, n) ==
    /\ n \in Nat
    /\ Len(todo[w]) = Len(Program(call[w])) - n
    /\ \A i \in 1..Len(todo[w]) : todo[w][i] = Program(call[w])[n + i]

(* A transaction waits for the connection with nothing done; with it, what *)
(* the connection sees is the file with the statements run so far.         *)
Progress(w, n) ==
    /\ HasRun(w, n)
    /\ Transacts(call[w]) /\ todo[w] # <<>> =>
          /\ conn # w => n = 0
          /\ conn = w => work = Partial(call[w], n, disk)
          /\ conn = w /\ call[w].op = "delete" /\ n >= 5 =>
                Atomic!Known("upstream_keys", call[w].key, DataOf(disk))

Progresses(w) == ~Idle(w) /\ call[w].op # "boot" => \E n : Progress(w, n)

(* It has taken effect.                                                    *)
Took(w) == /\ ~Idle(w)
           /\ \/ todo[w] = <<>>
              \/ call[w].op = "create" /\ Head(todo[w]).kind = "get"

AtomicInv == StoreInv /\ \A w \in Workers : Progresses(w)

-----------------------------------------------------------------------------
(* The programs, statement by statement.                                   *)
LEMMA DeleteProgram ==
  ASSUME NEW k \in Keys, NEW t, t = Program(Remove(k))
  PROVE  /\ Len(t) = 6 /\ t[1] = Begin /\ t[2] = Drop("key_models", k)
         /\ t[3] = Drop("key_state", k) /\ t[4] = Drop("request_logs", k)
         /\ t[5] = MustDrop("upstream_keys", k) /\ t[6] = Commit
  BY CallPrograms DEF DeleteKey

LEMMA LogProgram ==
  ASSUME NEW k \in Keys, NEW q \in Requests, NEW d \in Presented,
         NEW t, t = Program(Record(k, q, d))
  PROVE  /\ t[1] = Begin /\ t[2] = Insert("request_logs", k, <<q, d>>) /\ t[Len(t)] = Commit
         /\ d = Nobody => Len(t) = 3 /\ t[3] = Commit
         /\ d # Nobody => Len(t) = 4 /\ t[3] = Count("downstream_keys", d, q) /\ t[4] = Commit
  BY CallPrograms, LogFits

LEMMA ReplaceProgram ==
  ASSUME NEW k \in Keys, NEW ms \in ModelLists, NEW t, t = Program(Found(k, ms))
  PROVE  /\ Len(t) = Len(ms) + 3 /\ Len(ms) \in Nat /\ t[1] = Begin
         /\ t[2] = Drop("key_models", k)
         /\ \A i \in 1..Len(ms) : t[i + 2] = Insert("key_models", k, ms[i])
         /\ t[Len(ms) + 3] = Commit
  BY CallPrograms, ReplaceFits

LEMMA CreateProgram ==
  ASSUME NEW k \in Keys, NEW t, t = Program(Add(k))
  PROVE  /\ Len(t) = 2 /\ t[1] = Insert("upstream_keys", k, "row")
         /\ t[2] = Get("upstream_keys", k)
  BY CallPrograms DEF CreateKey

LEMMA MarkProgram ==
  ASSUME NEW k \in Keys, NEW v \in Verdicts, NEW t, t = Program(Verdict(k, v))
  PROVE  /\ Len(t) \in {2, 4} /\ t[Len(t)] = Set("key_state", k, v)
         /\ t[1] = Ensure("key_state", k, "healthy")
         /\ Len(t) = 4 => /\ t[2] = Ensure("key_state", k, "healthy")
                          /\ t[3] = Get("key_state", k)
  <1>1. PICK e, s, g : /\ e = Ensure("key_state", k, "healthy")
                       /\ s = Set("key_state", k, v) /\ g = Get("key_state", k)
    OBVIOUS
  <1>2. t = <<e, s>> \/ t = <<e, e, g, s>>
    BY <1>1, CallPrograms, Zenon DEF MarkProbe
  <1> QED
    BY <1>1, <1>2

LEMMA ProgramLengths ==
  ASSUME NEW c \in Calls, c.op # "boot"
  PROVE  Len(Program(c)) \in Nat
  <1>1. PICK t : t = Program(c)
    OBVIOUS
  <1>2. Alone(t) \/ Joined(t)
    BY <1>1, ProgramsFit
  <1>3. Len(t) \in Nat
    BY <1>2 DEF Alone, Joined
  <1> QED
    BY <1>1, <1>3

LEMMA OneStatement ==
  /\ \A d \in Tokens : /\ Len(Program(Revoke(d))) = 1
                       /\ Program(Revoke(d))[1] = MustDrop("downstream_keys", d)
  /\ \A u \in Names, p \in Passwords : /\ Len(Program(SignIn(u, p))) = 1
                                       /\ Program(SignIn(u, p))[1].kind = "select"
  BY CallPrograms DEF RevokeKey, Authenticate, Select

LEMMA LookProgram ==
  /\ Len(Program(Look)) = 3
  /\ \A i \in 1..3 : Program(Look)[i].kind = "select"
  <1>1. PICK S, a, x, t : S = {a} /\ a = Select({}) /\ x = <<a, a>> /\ t = Program(Look)
    OBVIOUS
  <1>2. t = x \o <<a>>
    BY <1>1, CallPrograms, Zenon DEF TokenStats, Overview
  <1>3. x \in Seq(S) /\ a \in S
    BY <1>1
  <1>4. Len(t) = Len(x) + 1 /\ (\A i \in 1..Len(x) : t[i] = x[i]) /\ t[Len(x) + 1] = a
    BY <1>2, <1>3, JoiningOne
  <1>5. Len(x) = 2 /\ x[1] = a /\ x[2] = a
    BY <1>1
  <1>6. Len(t) = 3 /\ t[1] = a /\ t[2] = a /\ t[3] = a
    BY <1>4, <1>5
  <1> QED
    BY <1>1, <1>6 DEF Select

LEMMA ProgramNotEmpty ==
  ASSUME NEW c \in Calls, c.op # "boot"
  PROVE  Len(Program(c)) # 0
  <1>1. \/ \E k \in Keys : c = Add(k)
        \/ \E k \in Keys, v \in Verdicts : c = Verdict(k, v)
        \/ \E u \in Names, p \in Passwords : c = SignIn(u, p)
        \/ c = Look
        \/ \E d \in Tokens : c = Revoke(d)
        \/ \E k \in Keys : c = Remove(k)
        \/ \E k \in Keys, q \in Requests, d \in Presented : c = Record(k, q, d)
        \/ \E k \in Keys, ms \in ModelLists : c = Found(k, ms)
    BY CallsAssumption DEF AdminCalls, Bootstrap, Call
  <1>2. PICK l : l = Len(Program(c))
    OBVIOUS
  <1>3. ASSUME NEW k \in Keys, c = Add(k) PROVE l = 2
    BY <1>2, <1>3, CreateProgram, Zenon
  <1>4. ASSUME NEW k \in Keys, NEW v \in Verdicts, c = Verdict(k, v) PROVE l = 2 \/ l = 4
    <2>1. l \in {2, 4}
      BY <1>2, <1>4, MarkProgram, Zenon
    <2> QED
      BY <2>1, Zenon
  <1>5. ASSUME NEW u \in Names, NEW p \in Passwords, c = SignIn(u, p) PROVE l = 1
    BY <1>2, <1>5, OneStatement, Zenon
  <1>6. ASSUME NEW d \in Tokens, c = Revoke(d) PROVE l = 1
    BY <1>2, <1>6, OneStatement, Zenon
  <1>7. ASSUME NEW k \in Keys, c = Remove(k) PROVE l = 6
    BY <1>2, <1>7, DeleteProgram, Zenon
  <1>8. ASSUME NEW k \in Keys, NEW q \in Requests, NEW d \in Presented, c = Record(k, q, d)
        PROVE  l = 3 \/ l = 4
    BY <1>2, <1>8, LogProgram, Zenon
  <1>9. ASSUME NEW k \in Keys, NEW ms \in ModelLists, c = Found(k, ms) PROVE l # 0
    <2>1. l = Len(ms) + 3 /\ Len(ms) \in Nat
      BY <1>2, <1>9, ReplaceProgram, Zenon
    <2> QED
      BY <2>1
  <1>10. c = Look => l = 3
    BY <1>2, LookProgram, Zenon
  <1>11. l \in {1, 2, 3, 4, 6} \/ l # 0
    BY <1>1, <1>3, <1>4, <1>5, <1>6, <1>7, <1>8, <1>9, <1>10, Zenon
  <1> QED
    BY <1>2, <1>11

-----------------------------------------------------------------------------
(* What the transactions do, statement by statement.                       *)
LEMMA PartialStarts ==
  ASSUME NEW c, Transacts(c), NEW db
  PROVE  Partial(c, 0, db) = db /\ Partial(c, 1, db) = db
  <1>1. CASE c.op = "delete"
    BY <1>1 DEF Partial, Cut
  <1>2. CASE c.op = "log"
    BY <1>2 DEF Partial
  <1>3. CASE c.op = "replace"
    BY <1>3 DEF Partial
  <1> QED
    BY <1>1, <1>2, <1>3 DEF Transacts

(* The next statement of a transaction after n of them.                    *)
NextOf(c, n, s) ==
    \/ n = 0 /\ s = Begin /\ n + 1 < Len(Program(c))
    \/ /\ n \in Nat \ {0} /\ n + 1 < Len(Program(c)) /\ s.kind \in {"insert", "count", "delete", "remove"}
       /\ \A db : Partial(c, n + 1, db) = After(s, Partial(c, n, db))
       /\ c.op = "delete" /\ n >= 4 => s = MustDrop("upstream_keys", c.key)
    \/ /\ n + 1 = Len(Program(c)) /\ s = Commit
       /\ \A db : DataOf(Partial(c, n, db)) = Atomic!Effect(c, DataOf(db))

LEMMA DeleteNext ==
  ASSUME NEW k \in Keys, NEW n \in Nat, n < Len(Program(Remove(k)))
  PROVE  NextOf(Remove(k), n, Program(Remove(k))[n + 1])
  <1>1. PICK c, t : c = Remove(k) /\ t = Program(Remove(k))
    OBVIOUS
  <1>2. c.op = "delete" /\ c.key = k
    BY <1>1 DEF Remove, Call
  <1>4. /\ Len(t) = 6 /\ t[1] = Begin /\ t[2] = Drop("key_models", k)
        /\ t[3] = Drop("key_state", k) /\ t[4] = Drop("request_logs", k)
        /\ t[5] = MustDrop("upstream_keys", k) /\ t[6] = Commit
    BY <1>1, DeleteProgram
  <1>5. \A db : Partial(c, n, db) = {r \in db : ~(r[2] = k /\ r[1] \in Cut(n))}
    BY <1>2 DEF Partial
  <1>6. \A db : Partial(c, n + 1, db) = {r \in db : ~(r[2] = k /\ r[1] \in Cut(n + 1))}
    BY <1>2 DEF Partial
  <1>7. ASSUME NEW a, NEW s, s = Drop(a, k) \/ s = MustDrop(a, k), Cut(n + 1) = Cut(n) \union {a}
        PROVE  \A db : Partial(c, n + 1, db) = After(s, Partial(c, n, db))
    <2>1. s.rows = {<<a, k>>} /\ s.kind \in {"delete", "remove"}
      BY <1>7 DEF Drop, MustDrop
    <2>2. \A r : Matches(r, s.rows) <=> r[1] = a /\ r[2] = k
      BY <2>1 DEF Matches
    <2>3. \A db : After(s, db) = {r \in db : ~(r[1] = a /\ r[2] = k)}
      BY <2>1, <2>2 DEF After
    <2> SUFFICES ASSUME NEW db PROVE Partial(c, n + 1, db) = After(s, Partial(c, n, db))
      OBVIOUS
    <2>4. After(s, Partial(c, n, db)) = {r \in Partial(c, n, db) : ~(r[1] = a /\ r[2] = k)}
      BY <2>3
    <2>5. /\ Partial(c, n, db) = {r \in db : ~(r[2] = k /\ r[1] \in Cut(n))}
          /\ Partial(c, n + 1, db) = {r \in db : ~(r[2] = k /\ r[1] \in Cut(n + 1))}
      BY <1>5, <1>6
    <2> QED
      BY <1>7, <2>4, <2>5
  <1>8. CASE n = 0
    BY <1>1, <1>4, <1>8 DEF NextOf
  <1>9. CASE n = 1
    <2>1. Cut(2) = Cut(1) \union {"key_models"}
      BY DEF Cut
    <2> QED
      BY <1>1, <1>2, <1>4, <1>7, <1>9, <2>1 DEF NextOf, Drop
  <1>10. CASE n = 2
    <2>1. Cut(3) = Cut(2) \union {"key_state"}
      BY DEF Cut
    <2> QED
      BY <1>1, <1>2, <1>4, <1>7, <1>10, <2>1 DEF NextOf, Drop
  <1>11. CASE n = 3
    <2>1. Cut(4) = Cut(3) \union {"request_logs"}
      BY DEF Cut
    <2> QED
      BY <1>1, <1>2, <1>4, <1>7, <1>11, <2>1 DEF NextOf, Drop
  <1>12. CASE n = 4
    <2>1. Cut(5) = Cut(4) \union {"upstream_keys"}
      BY DEF Cut
    <2> QED
      BY <1>1, <1>2, <1>4, <1>7, <1>12, <2>1 DEF NextOf, MustDrop
  <1>13. CASE n = 5
    <2>1. Cut(5) = {"key_models", "key_state", "request_logs", "upstream_keys"}
      BY DEF Cut
    <2>2. ASSUME NEW db PROVE DataOf(Partial(c, n, db)) = Atomic!Effect(c, DataOf(db))
      <3>1. Atomic!Effect(c, DataOf(db)) = {r \in DataOf(db) : ~(r[1] \in Cut(5) /\ r[2] = k)}
        BY <1>2, <2>1 DEF Atomic!Effect, Atomic!KeyTables
      <3>2. Partial(c, n, db) = {r \in db : ~(r[2] = k /\ r[1] \in Cut(5))}
        BY <1>5, <1>13
      <3> QED
        BY <3>1, <3>2 DEF DataOf
    <2> QED
      BY <1>1, <1>4, <1>13, <2>2 DEF NextOf
  <1> QED
    BY <1>1, <1>4, <1>8, <1>9, <1>10, <1>11, <1>12, <1>13

LEMMA LogNext ==
  ASSUME NEW k \in Keys, NEW q \in Requests, NEW d \in Presented,
         NEW n \in Nat, n < Len(Program(Record(k, q, d)))
  PROVE  NextOf(Record(k, q, d), n, Program(Record(k, q, d))[n + 1])
  <1>1. PICK c, t, l : /\ c = Record(k, q, d) /\ t = Program(Record(k, q, d))
                       /\ l = <<"request_logs", k, <<q, d>>>>
    OBVIOUS
  <1>2. c.op = "log" /\ c.key = k /\ c.what = <<q, d>> /\ c.what[1] = q /\ c.what[2] = d
    BY <1>1 DEF Record, Call
  <1>4. /\ t[1] = Begin /\ t[2] = Insert("request_logs", k, <<q, d>>) /\ t[Len(t)] = Commit
        /\ d = Nobody => Len(t) = 3 /\ t[3] = Commit
        /\ d # Nobody => Len(t) = 4 /\ t[3] = Count("downstream_keys", d, q) /\ t[4] = Commit
    BY <1>1, LogProgram
  <1>5. /\ \A db : Partial(c, 1, db) = db
        /\ \A db : Partial(c, 2, db) = db \union {l}
        /\ \A db : Partial(c, 3, db) = db \union Atomic!LogOf(k, q, d, db)
    BY <1>1, <1>2 DEF Partial
  <1>6. \A db : /\ Atomic!Effect(c, db) = db \union Atomic!LogOf(k, q, d, db)
                /\ Atomic!Known("downstream_keys", d, DataOf(db))
                      <=> Atomic!Known("downstream_keys", d, db)
    BY <1>2 DEF Atomic!Effect, Atomic!Known, Atomic!Of, DataOf, Tables
  <1>7. ASSUME NEW db
        PROVE  DataOf(db \union Atomic!LogOf(k, q, d, db)) = Atomic!Effect(c, DataOf(db))
    <2>1. PICK x, L : x = DataOf(db) /\ L = Atomic!LogOf(k, q, d, db)
      OBVIOUS
    <2>6. Atomic!Known("downstream_keys", d, x) <=> Atomic!Known("downstream_keys", d, db)
      BY <1>6, <2>1, Zenon
    <2>2. Atomic!LogOf(k, q, d, x) = L
      <3>1. CASE Atomic!Known("downstream_keys", d, db)
        BY <2>1, <2>6, <3>1 DEF Atomic!LogOf
      <3>2. CASE ~Atomic!Known("downstream_keys", d, db)
        BY <2>1, <2>6, <3>2 DEF Atomic!LogOf
      <3> QED
        BY <3>1, <3>2
    <2>3. Atomic!Effect(c, x) = x \union L
      <3>1. Atomic!Effect(c, x) = x \union Atomic!LogOf(k, q, d, x)
        BY <1>6, Zenon
      <3> QED
        BY <2>2, <3>1
    <2>4. \A r \in L : r[1] \in Tables
      BY <2>1 DEF Atomic!LogOf, Tables
    <2>5. DataOf(db \union L) = x \union L
      BY <2>1, <2>4 DEF DataOf
    <2> QED
      BY <2>1, <2>3, <2>5
  <1>8. CASE n = 0
    BY <1>1, <1>4, <1>8 DEF NextOf
  <1>9. CASE n = 1
    <2>1. t[n + 1] = Insert("request_logs", k, <<q, d>>) /\ n + 1 = 2 /\ n + 1 < Len(t)
      BY <1>4, <1>9
    <2>2. \A db : Partial(c, n + 1, db) = After(t[n + 1], Partial(c, n, db))
      <3> SUFFICES ASSUME NEW db PROVE Partial(c, 2, db) = After(t[2], Partial(c, 1, db))
        BY <1>9
      <3>1. After(t[2], db) = db \union {l}
        BY <1>1, <2>1 DEF Insert, After
      <3> QED
        BY <1>5, <3>1
    <2>3. t[n + 1].kind = "insert"
      BY <2>1 DEF Insert
    <2> QED
      BY <1>1, <1>2, <1>9, <2>1, <2>2, <2>3 DEF NextOf
  <1>10. CASE n = 2 /\ d # Nobody
    <2>4. t[3] = Count("downstream_keys", d, q) /\ Len(t) = 4
      BY <1>4, <1>10, Zenon
    <2>1. t[n + 1] = Count("downstream_keys", d, q) /\ n + 1 = 3 /\ n + 1 < Len(t)
      BY <1>10, <2>4
    <2>2. \A db : Partial(c, n + 1, db) = After(t[n + 1], Partial(c, n, db))
      <3> SUFFICES ASSUME NEW db PROVE Partial(c, 3, db) = After(t[3], Partial(c, 2, db))
        BY <1>10
      <3>1. PICK x : x = db \union {l}
        OBVIOUS
      <3>2. /\ t[3].kind = "count" /\ t[3].rows = {<<"downstream_keys", d, q>>}
        BY <2>1 DEF Count
      <3>3. Hits(t[3], x) <=> Atomic!Known("downstream_keys", d, db)
        BY <1>1, <3>1, <3>2 DEF Hits, Matches, Atomic!Known, Atomic!Of
      <3>4. After(t[3], x) = IF Hits(t[3], x) THEN x \union {<<"downstream_keys", d, q>>} ELSE x
        BY <3>2 DEF After
      <3>5. Atomic!LogOf(k, q, d, db)
              = {l} \union (IF Hits(t[3], x) THEN {<<"downstream_keys", d, q>>} ELSE {})
        BY <1>1, <1>10, <3>3 DEF Atomic!LogOf
      <3> QED
        BY <1>5, <3>1, <3>4, <3>5
    <2>3. t[n + 1].kind = "count"
      BY <2>1 DEF Count
    <2> QED
      BY <1>1, <1>2, <1>10, <2>1, <2>2, <2>3 DEF NextOf
  <1>11. CASE n = 2 /\ d = Nobody
    <2>1. \A db : Atomic!LogOf(k, q, d, db) = {l}
      BY <1>1, <1>11 DEF Atomic!LogOf
    <2>3. \A db : Partial(c, 2, db) = db \union Atomic!LogOf(k, q, d, db)
      BY <1>5, <2>1
    <2>2. \A db : DataOf(Partial(c, n, db)) = Atomic!Effect(c, DataOf(db))
      BY <1>7, <1>11, <2>3
    <2>5. Len(t) = 3 /\ t[3] = Commit
      BY <1>4, <1>11, Zenon
    <2>4. n + 1 = Len(t) /\ t[n + 1] = Commit
      BY <1>11, <2>5
    <2> QED
      BY <1>1, <2>2, <2>4 DEF NextOf
  <1>12. CASE n = 3 /\ d # Nobody
    <2>2. \A db : DataOf(Partial(c, n, db)) = Atomic!Effect(c, DataOf(db))
      BY <1>5, <1>7, <1>12
    <2>5. Len(t) = 4 /\ t[4] = Commit
      BY <1>4, <1>12, Zenon
    <2>4. n + 1 = Len(t) /\ t[n + 1] = Commit
      BY <1>12, <2>5
    <2> QED
      BY <1>1, <2>2, <2>4 DEF NextOf
  <1> QED
    BY <1>1, <1>4, <1>8, <1>9, <1>10, <1>11, <1>12

LEMMA ReplaceNext ==
  ASSUME NEW k \in Keys, NEW ms \in ModelLists, NEW n \in Nat, n < Len(Program(Found(k, ms)))
  PROVE  NextOf(Found(k, ms), n, Program(Found(k, ms))[n + 1])
  <1>1. PICK c, t : c = Found(k, ms) /\ t = Program(Found(k, ms))
    OBVIOUS
  <1>2. c.op = "replace" /\ c.key = k /\ c.what = ms
    BY <1>1 DEF Found, Call
  <1>3. ms \in Seq(Models)
    BY ModelListsAssumption
  <1>4. /\ Len(t) = Len(ms) + 3 /\ Len(ms) \in Nat /\ t[1] = Begin
        /\ t[2] = Drop("key_models", k)
        /\ \A i \in 1..Len(ms) : t[i + 2] = Insert("key_models", k, ms[i])
        /\ t[Len(ms) + 3] = Commit
    BY <1>1, ReplaceProgram
  <1>5. \A m \in Nat : m >= 2 => \A db :
           Partial(c, m, db) = {r \in db : ~(r[2] = k /\ r[1] = "key_models")}
                    \union {<<"key_models", k, ms[i]>> : i \in 1..m - 2}
    BY <1>2 DEF Partial
  <1>8. CASE n = 0
    BY <1>1, <1>4, <1>8 DEF NextOf
  <1>9. CASE n = 1
    <2>1. \A r : Matches(r, {<<"key_models", k>>}) <=> r[1] = "key_models" /\ r[2] = k
      BY DEF Matches
    <2>2. \A db : After(Drop("key_models", k), db) = {r \in db : ~(r[2] = k /\ r[1] = "key_models")}
      BY <2>1 DEF Drop, After
    <2>3. \A db : Partial(c, 2, db) = {r \in db : ~(r[2] = k /\ r[1] = "key_models")}
      BY <1>5
    <2>4. \A db : Partial(c, 1, db) = db
      BY <1>2 DEF Partial
    <2>5. t[n + 1] = Drop("key_models", k) /\ n + 1 = 2 /\ n + 1 < Len(t)
      BY <1>4, <1>9
    <2>6. \A db : Partial(c, n + 1, db) = After(t[n + 1], Partial(c, n, db))
      <3> SUFFICES ASSUME NEW db PROVE Partial(c, 2, db) = After(t[2], Partial(c, 1, db))
        BY <1>9
      <3>1. t[2] = Drop("key_models", k) /\ Partial(c, 1, db) = db
        BY <2>4, <2>5
      <3> QED
        BY <2>2, <2>3, <3>1
    <2>7. t[n + 1].kind = "delete"
      BY <2>5 DEF Drop
    <2> QED
      BY <1>1, <1>2, <1>9, <2>5, <2>6, <2>7 DEF NextOf
  <1>10. CASE n >= 2 /\ n < Len(ms) + 2
    <2>1. n - 1 \in 1..Len(ms) /\ t[n + 1] = Insert("key_models", k, ms[n - 1])
      BY <1>4, <1>10
    <2>2. 1..(n + 1) - 2 = (1..n - 2) \union {n - 1}
      BY <1>10
    <2>3. \A db : Partial(c, n + 1, db) = Partial(c, n, db) \union {<<"key_models", k, ms[n - 1]>>}
      BY <1>5, <1>10, <2>2
    <2>4. \A db : After(t[n + 1], db) = db \union {<<"key_models", k, ms[n - 1]>>}
      BY <2>1 DEF Insert, After
    <2>5. t[n + 1].kind = "insert"
      BY <2>1 DEF Insert
    <2>6. \A db : Partial(c, n + 1, db) = After(t[n + 1], Partial(c, n, db))
      BY <2>3, <2>4
    <2>7. n + 1 < Len(t) /\ n \in Nat \ {0}
      BY <1>4, <1>10
    <2> QED
      BY <1>1, <1>2, <2>5, <2>6, <2>7 DEF NextOf
  <1>11. CASE n = Len(ms) + 2
    <2>2. ASSUME NEW db PROVE DataOf(Partial(c, n, db)) = Atomic!Effect(c, DataOf(db))
      <3>1. Atomic!Effect(c, DataOf(db)) =
               {r \in DataOf(db) : ~(r[2] = k /\ r[1] = "key_models")}
                  \union {<<"key_models", k, ms[i]>> : i \in DOMAIN ms}
        BY <1>2 DEF Atomic!Effect, Atomic!Without, Atomic!ModelsOf, Atomic!Of
      <3>2. DOMAIN ms = 1..n - 2
        BY <1>3, <1>4, <1>11
      <3>3. Partial(c, n, db) = {r \in db : ~(r[2] = k /\ r[1] = "key_models")}
                    \union {<<"key_models", k, ms[i]>> : i \in DOMAIN ms}
        BY <1>4, <1>5, <1>11, <3>2
      <3> QED
        BY <3>1, <3>3 DEF DataOf, Tables
    <2> QED
      BY <1>1, <1>4, <1>11, <2>2 DEF NextOf
  <1> QED
    BY <1>1, <1>4, <1>8, <1>9, <1>10, <1>11

LEMMA TransactionNext ==
  ASSUME NEW c \in Calls, Transacts(c), NEW n \in Nat, n < Len(Program(c))
  PROVE  NextOf(c, n, Program(c)[n + 1])
  <1>1. \/ \E k \in Keys : c = Remove(k)
        \/ \E k \in Keys, q \in Requests, d \in Presented : c = Record(k, q, d)
        \/ \E k \in Keys, ms \in ModelLists : c = Found(k, ms)
    BY CallsAssumption DEF Transacts, AdminCalls, Look, Add, Revoke, SignIn, Bootstrap, Verdict, Call
  <1> QED
    BY <1>1, DeleteNext, LogNext, ReplaceNext

(* The other calls, but a boot: queries, and writes that commit by          *)
(* themselves.                                                             *)
PlainStep(c, n, s) ==
    LET last == n + 1 = Len(Program(c)) IN
    \/ c.op \in {"login", "dashboard"} /\ s.kind = "select"
    \/ /\ c.op = "create" /\ ~last /\ s = Insert("upstream_keys", c.key, "row")
       /\ Program(c)[n + 2].kind = "get"
    \/ c.op = "create" /\ last /\ s = Get("upstream_keys", c.key)
    \/ c.op = "revoke" /\ last /\ s = MustDrop("downstream_keys", c.key)
    \/ c.op = "mark" /\ ~last /\ s = Ensure("key_state", c.key, "healthy")
    \/ c.op = "mark" /\ ~last /\ s = Get("key_state", c.key)
    \/ c.op = "mark" /\ last /\ s = Set("key_state", c.key, c.what)

LEMMA PlainNext ==
  ASSUME NEW c \in Calls, ~Transacts(c), c.op # "boot", NEW n \in Nat, n < Len(Program(c))
  PROVE  PlainStep(c, n, Program(c)[n + 1])
  <1>1. \/ \E u \in Names, q \in Passwords : c = SignIn(u, q)
        \/ c = Look
        \/ \E k \in Keys : c = Add(k)
        \/ \E d \in Tokens : c = Revoke(d)
        \/ \E k \in Keys, v \in Verdicts : c = Verdict(k, v)
    BY CallsAssumption DEF Transacts, AdminCalls, Remove, Record, Found, Bootstrap, Call
  <1>2. PICK t : t = Program(c)
    OBVIOUS
  <1>3. CASE \E u \in Names, q \in Passwords : c = SignIn(u, q)
    <2>1. Len(t) = 1 /\ t[1].kind = "select"
      BY <1>2, <1>3, OneStatement
    <2>2. n + 1 = 1
      BY <1>2, <2>1
    <2> QED
      BY <1>2, <1>3, <2>1, <2>2 DEF PlainStep, SignIn, Call
  <1>4. CASE c = Look
    <2>1. Len(t) = 3 /\ \A i \in 1..3 : t[i].kind = "select"
      BY <1>2, <1>4, LookProgram
    <2>2. n + 1 \in 1..3
      BY <1>2, <2>1
    <2> QED
      BY <1>2, <1>4, <2>1, <2>2 DEF PlainStep, Look, Call
  <1>5. CASE \E k \in Keys : c = Add(k)
    <2> PICK k \in Keys : c = Add(k)
      BY <1>5
    <2>1. /\ Len(t) = 2 /\ t[1] = Insert("upstream_keys", k, "row")
          /\ t[2] = Get("upstream_keys", k) /\ t[2].kind = "get"
      BY <1>2, CreateProgram DEF Get
    <2>2. n = 0 \/ n = 1
      BY <1>2, <2>1
    <2>3. c.op = "create" /\ c.key = k
      BY DEF Add, Call
    <2> QED
      BY <1>2, <2>1, <2>2, <2>3 DEF PlainStep
  <1>6. CASE \E k \in Keys, v \in Verdicts : c = Verdict(k, v)
    <2> PICK k \in Keys, v \in Verdicts : c = Verdict(k, v)
      BY <1>6
    <2>1. /\ Len(t) \in {2, 4} /\ t[Len(t)] = Set("key_state", k, v)
          /\ t[1] = Ensure("key_state", k, "healthy")
          /\ Len(t) = 4 => t[2] = Ensure("key_state", k, "healthy") /\ t[3] = Get("key_state", k)
      BY <1>2, MarkProgram
    <2>2. n \in 0..3
      BY <1>2, <2>1
    <2>3. c.op = "mark" /\ c.key = k /\ c.what = v
      BY DEF Verdict, Call
    <2> QED
      BY <1>2, <2>1, <2>2, <2>3 DEF PlainStep
  <1>7. CASE \E d \in Tokens : c = Revoke(d)
    <2> PICK d \in Tokens : c = Revoke(d)
      BY <1>7
    <2>1. Len(t) = 1 /\ t[1] = MustDrop("downstream_keys", d)
      BY <1>2, OneStatement
    <2>2. n + 1 = 1
      BY <1>2, <2>1
    <2> QED
      BY <1>2, <2>1, <2>2 DEF PlainStep, Revoke, Call
  <1> QED
    BY <1>1, <1>3, <1>4, <1>5, <1>6, <1>7

-----------------------------------------------------------------------------
(* A call that has run n statements runs the next one.                     *)
LEMMA NextRuns ==
  ASSUME StoreInv, NEW w \in Workers, todo[w] # <<>>, call[w].op # "boot",
         NEW n, HasRun(w, n), NEW c, c = call[w]
  PROVE  /\ c \in Calls /\ n \in Nat /\ n < Len(Program(c))
         /\ Head(todo[w]) = Program(c)[n + 1]
         /\ Tail(todo[w]) = <<>> <=> n + 1 = Len(Program(c))
         /\ Rest(w) /\ call' = call => HasRun(w, n + 1)'
         /\ todo[w][Len(todo[w])] = Program(c)[Len(Program(c))]
  <1>1. PICK t, R, S : t = todo[w] /\ R = Program(c) /\ S = Data \union Queries \union {Begin, Commit}
    OBVIOUS
  <1>2. c \in Calls /\ (Alone(t) \/ Joined(t))
    BY <1>1, StatementsOf DEF StoreInv, StoreTypeOK, Bootstrap, Call
  <1>3. t \in Seq(S) /\ R \in Seq(S)
    BY <1>1, <1>2, ProgramsFit DEF Alone, Joined
  <1>4. /\ t # <<>> /\ n \in Nat /\ Len(t) = Len(R) - n
        /\ \A i \in 1..Len(t) : t[i] = R[n + i]
    BY <1>1 DEF HasRun
  <1>5. /\ Head(t) = R[n + 1] /\ n < Len(R)
        /\ Tail(t) = <<>> <=> n + 1 = Len(R)
        /\ Len(Tail(t)) = Len(R) - (n + 1)
        /\ \A i \in 1..Len(Tail(t)) : Tail(t)[i] = R[(n + 1) + i]
        /\ t[Len(t)] = R[Len(R)]
    <2>1. /\ Head(t) = t[1] /\ Len(t) \in Nat \ {0} /\ Len(Tail(t)) = Len(t) - 1
          /\ \A i \in 1..Len(t) - 1 : Tail(t)[i] = t[i + 1]
          /\ Tail(t) \in Seq(S)
      BY <1>3, <1>4, HeadOf
    <2>2. Len(R) \in Nat
      BY <1>3
    <2>3. n < Len(R) /\ Len(Tail(t)) = Len(R) - (n + 1)
      BY <1>4, <2>1, <2>2
    <2>4. Head(t) = R[n + 1] /\ t[Len(t)] = R[n + Len(t)] /\ n + Len(t) = Len(R)
      BY <1>4, <2>1, <2>2
    <2>5. Tail(t) = <<>> <=> Len(Tail(t)) = 0
      <3>1. PICK u : u = Tail(t)
        OBVIOUS
      <3>2. u \in Seq(S)
        BY <2>1, <3>1
      <3>3. u = <<>> <=> Len(u) = 0
        BY <3>2
      <3> QED
        BY <3>1, <3>3
    <2>6. ASSUME NEW i \in 1..Len(Tail(t)) PROVE Tail(t)[i] = R[(n + 1) + i]
      <3>1. i \in 1..Len(t) - 1 /\ i + 1 \in 1..Len(t) /\ i \in Nat
        BY <2>1
      <3>2. n + (i + 1) = (n + 1) + i
        BY <1>4, <3>1
      <3> QED
        BY <1>4, <2>1, <3>1, <3>2
    <2>7. t[Len(t)] = R[Len(R)]
      BY <2>4
    <2>8. Tail(t) = <<>> <=> n + 1 = Len(R)
      BY <1>4, <2>2, <2>3, <2>5
    <2> QED
      BY <2>3, <2>4, <2>6, <2>7, <2>8
  <1>6. ASSUME Rest(w), call' = call PROVE HasRun(w, n + 1)'
    <2>1. todo'[w] = Tail(t) /\ Program(call'[w]) = R
      BY <1>1, <1>6 DEF Rest, StoreInv
    <2> QED
      BY <1>4, <1>5, <2>1 DEF HasRun
  <1> QED
    BY <1>1, <1>2, <1>4, <1>5, <1>6

LEMMA EndsInCommit ==
  ASSUME NEW c \in Calls, Transacts(c), NEW m, m = Len(Program(c)), m \in Nat \ {0}
  PROVE  Program(c)[m] = Commit
  <1>1. m - 1 \in Nat /\ m - 1 < m /\ (m - 1) + 1 = m
    OBVIOUS
  <1>2. NextOf(c, m - 1, Program(c)[m])
    BY <1>1, TransactionNext
  <1> QED
    BY <1>1, <1>2 DEF NextOf

(* A step of w leaves the others where they were.                          *)
LEMMA OthersProgress ==
  ASSUME NEW w \in Workers, NEW v \in Workers, Progresses(v),
         call'[v] = call[v], todo'[v] = todo[v],
         conn' = v => conn = v /\ UNCHANGED <<work, disk>>,
         conn = v => conn' = v
  PROVE  Progresses(v)'
  <1> SUFFICES ASSUME ~Idle(v), call[v].op # "boot", NEW n, Progress(v, n)
               PROVE  Progress(v, n)'
    BY DEF Progresses, Idle
  <1>1. HasRun(v, n)'
    BY DEF Progress, HasRun
  <1>2. CASE conn' = v
    BY <1>1, <1>2 DEF Progress
  <1>3. CASE conn' # v
    BY <1>1, <1>3 DEF Progress
  <1> QED
    BY <1>2, <1>3

-----------------------------------------------------------------------------
(* Steps of the detailed store as steps of the abstract one.               *)
Maps       == Atomic!Next \/ UNCHANGED Atomic!atomicVars
AtomicStep == (\A v \in Workers : Progresses(v)') /\ Maps

LEMMA TookBoolean == \A v : Took(v) \in BOOLEAN /\ Took(v)' \in BOOLEAN
  BY DEF Took

LEMMA TookMoves ==
  ASSUME NEW w \in Workers, NEW b \in BOOLEAN, Took(w)' = b,
         \A v \in Workers \ {w} : Took(v)' <=> Took(v),
         NEW took, took = [v \in Workers |-> Took(v)]
  PROVE  [v \in Workers |-> Took(v)'] = [took EXCEPT ![w] = b]
  BY TookBoolean

LEMMA Stutters ==
  ASSUME DataOf(disk') = DataOf(disk), call' = call,
         \A v \in Workers : Took(v)' <=> Took(v)
  PROVE  Maps
  BY DEF Maps, Atomic!atomicVars, DataOf, Idle, Took

(* One call moves on, the others stay where they are.                      *)
LEMMA OthersTook ==
  ASSUME StoreInv, NEW w \in Workers, Rest(w), call' = call
  PROVE  \A v \in Workers \ {w} : Took(v)' <=> Took(v)
  BY DEF Rest, StoreInv, Took, Idle

LEMMA Takes ==
  ASSUME StoreInv, NEW w \in Workers, todo[w] # <<>>, Rest(w), call' = call,
         ~Took(w), Took(w)',
         call[w].op = "delete" => Atomic!Known("upstream_keys", call[w].key, DataOf(disk)),
         call[w].op = "revoke" => Atomic!Known("downstream_keys", call[w].key, DataOf(disk)),
         DataOf(disk') = Atomic!Effect(call[w], DataOf(disk))
  PROVE  Maps
  <1>1. call[w] # Nobody
    BY DEF StoreInv, StoreTypeOK, Idle
  <1>2. \A v \in Workers \ {w} : Took(v)' <=> Took(v)
    BY OthersTook
  <1>3. PICK took : took = [v \in Workers |-> Took(v)]
    OBVIOUS
  <1>4. [v \in Workers |-> Took(v)'] = [took EXCEPT ![w] = TRUE]
    BY <1>2, <1>3, TookBoolean, TookMoves
  <1>5. ~took[w]
    BY <1>3
  <1>6. Atomic!Take(w)
    BY <1>1, <1>3, <1>4, <1>5 DEF Atomic!Take, DataOf, Took
  <1> QED
    BY <1>6 DEF Maps, Atomic!Next

(* The row a Mark call makes sure of.                                      *)
LEMMA Prepares ==
  ASSUME StoreInv, NEW w \in Workers, call' = call, call[w] # Nobody, call[w].op = "mark",
         ~Took(w), \A v \in Workers : Took(v)' <=> Took(v),
         ~Atomic!Known("key_state", call[w].key, DataOf(disk)),
         DataOf(disk') = DataOf(disk) \union {<<"key_state", call[w].key, "healthy">>}
  PROVE  Maps
  <1>1. PICK took : took = [v \in Workers |-> Took(v)]
    OBVIOUS
  <1>2. ~took[w] /\ [v \in Workers |-> Took(v)'] = took
    BY <1>1, TookBoolean
  <1>3. Atomic!Prepare(w)
    BY <1>1, <1>2 DEF Atomic!Prepare, DataOf, Took
  <1> QED
    BY <1>3 DEF Maps, Atomic!Next

(* A call is made.                                                         *)
LEMMA AtomicStarts ==
  ASSUME AtomicInv, NEW w \in Workers, NEW c \in Calls, Start(w, c, Program(c))
  PROVE  AtomicStep
  <1>1. /\ Idle(w) /\ call'[w] = c /\ todo'[w] = Program(c)
        /\ \A v \in Workers \ {w} : call'[v] = call[v] /\ todo'[v] = todo[v]
        /\ UNCHANGED <<disk, work, conn>>
    BY DEF Start, AtomicInv, StoreInv, StoreTypeOK
  <1>2. conn = w => work = disk
    BY <1>1 DEF AtomicInv, StoreInv, StoreTypeOK
  <1>3. Progresses(w)'
    <2> SUFFICES ASSUME c.op # "boot" PROVE Progress(w, 0)'
      BY <1>1 DEF Progresses
    <2>1. Len(Program(c)) \in Nat
      BY ProgramLengths
    <2>2. HasRun(w, 0)'
      BY <1>1, <2>1 DEF HasRun
    <2>3. Transacts(c) /\ conn' = w => work' = Partial(c, 0, disk')
      BY <1>1, <1>2, PartialStarts
    <2> QED
      BY <1>1, <2>2, <2>3 DEF Progress
  <1>4. \A v \in Workers \ {w} : Progresses(v)'
    BY <1>1, OthersProgress DEF AtomicInv
  <1>5. Maps
    <2>1. /\ c # Nobody /\ Program(c) # <<>>
          /\ c.op = "create" => Head(Program(c)).kind # "get"
      <3>1. c # Nobody
        BY NobodyAssumption
      <3>2. CASE c.op = "boot"
        <4>1. PICK u \in Names, p \in Passwords : c = Bootstrap(u, p)
          BY <3>2, CallsAssumption
          DEF AdminCalls, SignIn, Look, Add, Remove, Revoke, Record, Found, Verdict, Call
        <4>2. PICK t : t = Program(c)
          OBVIOUS
        <4>3. t = BootProgram(u, p)
          BY <4>1, <4>2, CallPrograms DEF BootProgram
        <4>4. Len(t) = 7
          BY <4>3, BootFits
        <4> QED
          BY <3>1, <3>2, <4>2, <4>4
      <3>3. CASE c.op # "boot"
        <4>1. PICK t : t = Program(c)
          OBVIOUS
        <4>2. Alone(t) \/ Joined(t)
          BY <3>3, <4>1, ProgramsFit
        <4>3. Len(t) \in Nat
          BY <4>2 DEF Alone, Joined
        <4>4. Len(t) # 0
          BY <3>3, <4>1, ProgramNotEmpty
        <4>5. ASSUME c.op = "create" PROVE Head(t).kind # "get"
          <5>1. ~Transacts(c) /\ PlainStep(c, 0, t[0 + 1])
            BY <4>1, <4>3, <4>4, <4>5, PlainNext DEF Transacts
          <5>2. PICK k \in Keys : c = Add(k)
            BY <4>5, CallsAssumption
            DEF AdminCalls, SignIn, Look, Bootstrap, Remove, Revoke, Record, Found, Verdict, Call
          <5>3. t[1] = Insert("upstream_keys", k, "row")
            BY <4>1, <5>2, CreateProgram
          <5>4. Head(t) = t[1]
            BY <4>2, <4>4, HeadOf DEF Alone, Joined
          <5> QED
            BY <5>3, <5>4 DEF Insert
        <4>6. t # <<>>
          BY <4>4
        <4> QED
          BY <3>1, <4>1, <4>5, <4>6
      <3> QED
        BY <3>1, <3>2, <3>3
    <2>2. DataOf(disk') = DataOf(disk)
      BY <1>1
    <2>3. call' = [call EXCEPT ![w] = c] /\ call[w] = Nobody
      BY DEF Start, Idle
    <2>4. [v \in Workers |-> Took(v)'] = [v \in Workers |-> Took(v)]
      <3>1. ~Took(w) /\ ~Took(w)'
        BY <1>1, <2>1 DEF Idle, Took
      <3>2. \A v \in Workers \ {w} : Took(v)' <=> Took(v)
        BY <1>1 DEF Idle, Took
      <3> QED
        BY <3>1, <3>2, TookBoolean
    <2>5. Atomic!Start(w, c)
      BY <2>2, <2>3, <2>4 DEF Atomic!Start, DataOf, Took
    <2> QED
      BY <2>5 DEF Maps, Atomic!Next
  <1> QED
    BY <1>1, <1>3, <1>4, <1>5 DEF AtomicStep, AtomicInv

(* It gets the connection.                                                 *)
LEMMA AtomicAcquires ==
  ASSUME AtomicInv, NEW w \in Workers, Acquire(w)
  PROVE  AtomicStep
  <1>1. UNCHANGED <<disk, work, call, todo, found>> /\ conn = Nobody /\ conn' = w
    BY DEF Acquire
  <1>2. work = disk /\ call[w] \in Calls \union {Nobody}
    BY <1>1 DEF AtomicInv, StoreInv, StoreTypeOK
  <1>3. Progresses(w)'
    <2> SUFFICES ASSUME ~Idle(w), call[w].op # "boot", NEW n, Progress(w, n)
                 PROVE  Progress(w, n)'
      BY <1>1 DEF Progresses, AtomicInv, Idle
    <2>1. HasRun(w, n)'
      BY <1>1 DEF Progress, HasRun
    <2>2. ASSUME Transacts(call[w]), todo[w] # <<>>
          PROVE  n = 0 /\ work = Partial(call[w], n, disk)
      <3>1. n = 0
        BY <1>1, <2>2, NobodyAssumption DEF Progress
      <3> QED
        BY <1>2, <2>2, <3>1, PartialStarts
    <2> QED
      BY <1>1, <2>1, <2>2 DEF Progress
  <1>4. \A v \in Workers \ {w} : Progresses(v)'
    BY <1>1, NobodyAssumption, OthersProgress DEF AtomicInv
  <1>5. Maps
    BY <1>1, Stutters DEF Took, Idle
  <1> QED
    BY <1>1, <1>3, <1>4, <1>5 DEF AtomicStep, AtomicInv

(* It returns or fails.                                                    *)
LEMMA AtomicEnds ==
  ASSUME AtomicInv, NEW w \in Workers, Succeed(w) \/ Fail(w)
  PROVE  AtomicStep
  <1>1. /\ call'[w] = Nobody /\ todo'[w] = <<>> /\ disk' = disk /\ call[w] # Nobody
        /\ \A v \in Workers \ {w} : call'[v] = call[v] /\ todo'[v] = todo[v]
    BY DEF Succeed, Fail, Idle, AtomicInv, StoreInv, StoreTypeOK
  <1>2. \/ conn' = conn /\ work' = work
        \/ conn = w /\ conn' = Nobody
    BY DEF Succeed, Fail
  <1>3. Progresses(w)'
    BY <1>1 DEF Progresses, Idle
  <1>4. \A v \in Workers \ {w} : Progresses(v)'
    BY <1>1, <1>2, NobodyAssumption, OthersProgress DEF AtomicInv
  <1>5. Maps
    <2>1. PICK took : took = [v \in Workers |-> Took(v)]
      OBVIOUS
    <2>2. [v \in Workers |-> Took(v)'] = [took EXCEPT ![w] = FALSE]
      <3>1. ~Took(w)' /\ \A v \in Workers \ {w} : Took(v)' <=> Took(v)
        BY <1>1 DEF Idle, Took
      <3>2. Took(w)' = FALSE
        BY <3>1, TookBoolean
      <3> QED
        BY <2>1, <3>1, <3>2, TookMoves
    <2>3. call' = [call EXCEPT ![w] = Nobody]
      BY DEF Succeed, Fail
    <2>4. CASE Succeed(w)
      <3>1. took[w]
        BY <2>1, <2>4 DEF Succeed, Took
      <3>2. Atomic!Succeed(w)
        BY <1>1, <2>1, <2>2, <2>3, <3>1 DEF Atomic!Succeed, Took
      <3> QED
        BY <3>2 DEF Maps, Atomic!Next
    <2>5. CASE Fail(w)
      <3>1. took[w] => call[w].op = "create"
        BY <2>1, <2>5 DEF Fail, Took
      <3>2. Atomic!Fail(w)
        BY <1>1, <2>1, <2>2, <2>3, <3>1 DEF Atomic!Fail, Took
      <3> QED
        BY <3>2 DEF Maps, Atomic!Next
    <2> QED
      BY <2>4, <2>5
  <1> QED
    BY <1>1, <1>3, <1>4, <1>5 DEF AtomicStep, AtomicInv

LEMMA AtomicDies ==
  ASSUME AtomicInv, Die
  PROVE  AtomicStep
  <1>1. /\ disk' = disk /\ call' = [v \in Workers |-> Nobody]
        /\ \A v \in Workers : todo'[v] = <<>> /\ call'[v] = Nobody
    BY DEF Die
  <1>2. [v \in Workers |-> Took(v)'] = [v \in Workers |-> FALSE]
    BY <1>1 DEF Idle, Took
  <1>3. Atomic!Die
    BY <1>1, <1>2 DEF Atomic!Die, Took
  <1> QED
    BY <1>1, <1>3 DEF AtomicStep, AtomicInv, Progresses, Idle, Maps, Atomic!Next

(* Statements of a boot change no row of the data.                         *)
LEMMA BootApart ==
  ASSUME NEW u, NEW p, NEW s \in BootStatements(u, p), NEW db
  PROVE  s.kind # "select" => DataOf(After(s, db)) = DataOf(db)
  <1>1. SUFFICES ASSUME s.kind # "select" PROVE DataOf(After(s, db)) = DataOf(db)
    OBVIOUS
  <1>2. s.kind = "ensure" /\ \A x \in s.rows : x[1] \notin Tables
    BY <1>1 DEF BootStatements, CreateTable, AddColumn, Ensure, Select, Tables
  <1>3. After(s, db) = db \/ After(s, db) = db \union s.rows
    BY <1>2 DEF After
  <1> QED
    BY <1>2, <1>3 DEF DataOf

(* What holds of every statement of w.                                     *)
LEMMA StatementMoves ==
  ASSUME AtomicInv, NEW w \in Workers, Statement(w)
  PROVE  /\ Runs(w) /\ conn = w /\ todo[w] # <<>> /\ Rest(w) /\ call' = call
         /\ todo'[w] = Tail(todo[w]) /\ ~Idle(w)
         /\ \A v \in Workers \ {w} : call'[v] = call[v] /\ todo'[v] = todo[v] /\ Progresses(v)'
  <1>1. /\ Runs(w) /\ conn = w /\ todo[w] # <<>> /\ Rest(w) /\ call' = call
        /\ conn' \in {w, Nobody}
    BY DEF Statement, BeginTx, Read, Write, CommitTx, Runs
  <1>2. /\ todo'[w] = Tail(todo[w]) /\ ~Idle(w)
        /\ \A v \in Workers \ {w} : call'[v] = call[v] /\ todo'[v] = todo[v]
    BY <1>1 DEF Rest, AtomicInv, StoreInv, StoreTypeOK
  <1>3. \A v \in Workers \ {w} : Progresses(v)'
    BY <1>1, <1>2, NobodyAssumption, OthersProgress DEF AtomicInv
  <1> QED
    BY <1>1, <1>2, <1>3

(* A statement of a boot.                                                  *)
LEMMA AtomicBoots ==
  ASSUME AtomicInv, NEW w \in Workers, Statement(w), call[w].op = "boot"
  PROVE  AtomicStep
  <1>1. /\ Runs(w) /\ conn = w /\ todo[w] # <<>> /\ Rest(w) /\ call' = call
        /\ todo'[w] = Tail(todo[w]) /\ ~Idle(w)
        /\ \A v \in Workers \ {w} : todo'[v] = todo[v] /\ Progresses(v)'
    BY StatementMoves
  <1>2. PICK u \in Names, p \in Passwords : call[w] = Bootstrap(u, p) /\ BootOK(todo[w], u, p)
    BY <1>1, StatementsOf DEF AtomicInv
  <1>3. ~InTransaction(w) /\ work = disk
    BY <1>1, <1>2, NoneOpen DEF AtomicInv
  <1>4. Head(todo[w]) \in BootStatements(u, p)
    BY <1>1, <1>2, HeadOf DEF BootOK
  <1>5. DataOf(disk') = DataOf(disk)
    <2>1. CASE Read(w)
      BY <2>1 DEF Read
    <2>2. CASE Write(w)
      <3>1. disk' = After(Head(todo[w]), disk) /\ Head(todo[w]).kind # "select"
        BY <1>3, <2>2 DEF Write
      <3> QED
        BY <1>4, <3>1, BootApart
    <2>3. ~BeginTx(w) /\ ~CommitTx(w)
      BY <1>4, Kinds DEF BeginTx, CommitTx
    <2> QED
      BY <2>1, <2>2, <2>3 DEF Statement
  <1>6. Progresses(w)'
    BY <1>1 DEF Progresses
  <1>7. Maps
    <2>3. ~Took(w) /\ (Took(w)' <=> Tail(todo[w]) = <<>>)
      BY <1>1 DEF Took, Idle
    <2>1. CASE Tail(todo[w]) = <<>>
      <3>1. /\ Atomic!Effect(call[w], DataOf(disk)) = DataOf(disk)
            /\ call[w].op # "delete" /\ call[w].op # "revoke"
        BY <1>2 DEF Atomic!Effect, Bootstrap, Call
      <3> QED
        BY <1>1, <1>5, <2>1, <2>3, <3>1, Takes DEF AtomicInv
    <2>2. CASE Tail(todo[w]) # <<>>
      BY <1>1, <1>5, <2>2, <2>3, OthersTook, Stutters DEF AtomicInv
    <2> QED
      BY <2>1, <2>2
  <1> QED
    BY <1>1, <1>6, <1>7 DEF AtomicStep

(* A query, or a write that commits by itself.                             *)
LEMMA AtomicPlain ==
  ASSUME AtomicInv, NEW w \in Workers, Statement(w), call[w].op # "boot", ~Transacts(call[w])
  PROVE  AtomicStep
  <1>1. /\ Runs(w) /\ conn = w /\ todo[w] # <<>> /\ Rest(w) /\ call' = call
        /\ todo'[w] = Tail(todo[w]) /\ ~Idle(w)
        /\ \A v \in Workers \ {w} : todo'[v] = todo[v] /\ Progresses(v)'
    BY StatementMoves
  <1>2. PICK n : Progress(w, n)
    BY <1>1 DEF AtomicInv, Progresses
  <1>3. PICK c, s : c = call[w] /\ s = Head(todo[w])
    OBVIOUS
  <1>4. /\ c \in Calls /\ n \in Nat /\ n < Len(Program(c)) /\ s = Program(c)[n + 1]
        /\ Tail(todo[w]) = <<>> <=> n + 1 = Len(Program(c))
        /\ HasRun(w, n + 1)'
        /\ todo[w][Len(todo[w])] = Program(c)[Len(Program(c))]
    BY <1>1, <1>2, <1>3, NextRuns DEF AtomicInv, Progress
  <1>5. Progresses(w)'
    <2>1. Progress(w, n + 1)'
      BY <1>1, <1>4 DEF Progress
    <2> QED
      BY <2>1 DEF Progresses
  <1>6. PlainStep(c, n, s)
    BY <1>3, <1>4, PlainNext
  <1>7. work = disk /\ ~InTransaction(w)
    <2>1. PICK m : m = Len(Program(c)) - 1
      OBVIOUS
    <2>2. Len(Program(c)) \in Nat
      BY <1>3, <1>4, ProgramLengths
    <2>3. m \in Nat /\ m < Len(Program(c)) /\ m + 1 = Len(Program(c))
      BY <1>4, <2>1, <2>2
    <2>4. PlainStep(c, m, Program(c)[Len(Program(c))])
      BY <1>3, <1>4, <2>3, PlainNext
    <2>5. Program(c)[Len(Program(c))] # Commit
      BY <2>4 DEF PlainStep, Insert, Get, MustDrop, Ensure, Set, Commit
    <2>6. ~InTransaction(w)
      BY <1>4, <2>5 DEF InTransaction
    <2> QED
      BY <1>1, <2>6 DEF AtomicInv, StoreInv, StoreTypeOK
  <1>8. s.kind \in {"select", "get"} => DataOf(disk') = DataOf(disk)
    BY <1>3, Kinds DEF Statement, BeginTx, Read, Write, CommitTx
  <1>9. s.kind \in {"insert", "ensure", "set", "remove"}
           => /\ disk' = After(s, disk)
              /\ s.kind = "remove" => Hits(s, disk)
    BY <1>3, <1>7, Kinds DEF Statement, BeginTx, Read, Write, CommitTx
  <1>10. \A v \in Workers \ {w} : Took(v)' <=> Took(v)
    BY <1>1, OthersTook DEF AtomicInv
  <1>11. /\ Took(w) <=> c.op = "create" /\ s.kind = "get"
         /\ Took(w)' <=> \/ Tail(todo[w]) = <<>>
                         \/ c.op = "create" /\ Head(Tail(todo[w])).kind = "get"
    BY <1>1, <1>3 DEF Took, Idle
  <1>12. CASE c.op \in {"login", "dashboard"}
    <2>1. s.kind = "select" /\ DataOf(disk') = DataOf(disk)
      BY <1>6, <1>8, <1>12 DEF PlainStep
    <2>2. Atomic!Effect(c, DataOf(disk)) = DataOf(disk)
      BY <1>12 DEF Atomic!Effect
    <2>6. c.op # "create" /\ c.op # "delete" /\ c.op # "revoke"
      BY <1>12
    <2>7. ~Took(w) /\ (Took(w)' <=> Tail(todo[w]) = <<>>)
      BY <1>11, <2>6
    <2>3. ASSUME Tail(todo[w]) = <<>> PROVE Maps
      BY <1>1, <1>3, <2>1, <2>2, <2>3, <2>6, <2>7, Takes DEF AtomicInv
    <2>4. ASSUME Tail(todo[w]) # <<>> PROVE Maps
      BY <1>1, <1>10, <2>1, <2>4, <2>7, Stutters
    <2>5. Maps
      BY <2>3, <2>4
    <2> QED
      BY <1>1, <1>5, <2>5 DEF AtomicStep
  <1>13. CASE c.op = "create"
    <2>1. CASE s = Insert("upstream_keys", c.key, "row") /\ n + 1 # Len(Program(c))
      <3>1. s.kind = "insert" /\ s.rows = {<<"upstream_keys", c.key, "row">>}
        BY <2>1 DEF Insert
      <3>2. DataOf(disk') = Atomic!Effect(c, DataOf(disk))
        BY <1>9, <1>13, <3>1 DEF After, Atomic!Effect, DataOf, Tables
      <3>3. Head(Tail(todo[w])).kind = "get"
        <4>1. Program(c)[n + 2].kind = "get"
          BY <1>6, <1>13, <2>1, <3>1 DEF PlainStep, Get
        <4>2. Tail(todo[w]) # <<>>
          BY <1>4, <2>1
        <4>3. todo[w] \in Seq(Data \union Queries \union {Begin, Commit})
          <5>1. Alone(todo[w]) \/ Joined(todo[w])
            BY <1>1, StatementsOf DEF AtomicInv, StoreInv, StoreTypeOK, Bootstrap, Call
          <5> QED
            BY <5>1 DEF Alone, Joined
        <4>4. /\ Tail(todo[w]) \in Seq(Data \union Queries \union {Begin, Commit})
              /\ Len(Tail(todo[w])) = Len(todo[w]) - 1
              /\ \A i \in 1..Len(todo[w]) - 1 : Tail(todo[w])[i] = todo[w][i + 1]
          BY <1>1, <4>3, HeadOf
        <4>5. /\ Head(Tail(todo[w])) = Tail(todo[w])[1]
              /\ Len(Tail(todo[w])) \in Nat \ {0}
          BY <4>2, <4>4, HeadOf
        <4>8. Len(todo[w]) \in Nat
          BY <1>1, <4>3, HeadOf
        <4>6. 1 \in 1..Len(todo[w]) - 1 /\ 2 \in 1..Len(todo[w])
          <5>1. PICK l, m : l = Len(todo[w]) /\ m = Len(Tail(todo[w]))
            OBVIOUS
          <5>2. l \in Nat /\ m \in Nat \ {0} /\ m = l - 1
            BY <4>4, <4>5, <4>8, <5>1, Zenon
          <5>3. 1 \in 1..l - 1 /\ 2 \in 1..l
            BY <5>2
          <5> QED
            BY <5>1, <5>3, Zenon
        <4>7. todo[w][2] = Program(c)[n + 2]
          BY <1>2, <1>3, <4>6 DEF Progress, HasRun
        <4> QED
          BY <4>1, <4>4, <4>5, <4>6, <4>7
      <3>4. Maps
        BY <1>1, <1>3, <1>11, <1>13, <3>1, <3>2, <3>3, Takes DEF AtomicInv
      <3> QED
        BY <1>1, <1>5, <3>4 DEF AtomicStep
    <2>2. CASE s = Get("upstream_keys", c.key) /\ n + 1 = Len(Program(c))
      <3>1. s.kind = "get"
        BY <2>2 DEF Get
      <3>2. Maps
        BY <1>1, <1>4, <1>8, <1>10, <1>11, <1>13, <2>2, <3>1, Stutters
      <3> QED
        BY <1>1, <1>5, <3>2 DEF AtomicStep
    <2> QED
      BY <1>6, <1>13, <2>1, <2>2 DEF PlainStep
  <1>14. CASE c.op = "revoke"
    <2>1. s = MustDrop("downstream_keys", c.key) /\ n + 1 = Len(Program(c))
      BY <1>6, <1>14 DEF PlainStep
    <2>2. s.kind = "remove" /\ s.rows = {<<"downstream_keys", c.key>>}
      BY <2>1 DEF MustDrop
    <2>3. DataOf(disk') = Atomic!Effect(c, DataOf(disk))
      <3>1. \A r : Matches(r, s.rows) <=> Atomic!Of(r, "downstream_keys", c.key)
        BY <2>2 DEF Matches, Atomic!Of
      <3> QED
        BY <1>9, <1>14, <2>2, <3>1 DEF After, Atomic!Effect, Atomic!Without, DataOf
    <2>4. Atomic!Known("downstream_keys", c.key, DataOf(disk))
      BY <1>9, <2>2 DEF Hits, Matches, Atomic!Known, Atomic!Of, DataOf, Tables
    <2>5. Maps
      BY <1>1, <1>3, <1>4, <1>11, <1>14, <2>1, <2>3, <2>4, Takes DEF AtomicInv
    <2> QED
      BY <1>1, <1>5, <2>5 DEF AtomicStep
  <1>15. CASE c.op = "mark"
    <2>1. \A db : /\ DataOf(db) = {r \in db : r[1] \in Tables}
                  /\ Atomic!Known("key_state", c.key, DataOf(db))
                        <=> Atomic!Known("key_state", c.key, db)
      BY DEF DataOf, Tables, Atomic!Known, Atomic!Of
    <2>5. /\ DataOf(disk) = {r \in disk : r[1] \in Tables}
          /\ Atomic!Known("key_state", c.key, DataOf(disk))
                <=> Atomic!Known("key_state", c.key, disk)
      BY <2>1, Zenon
    <2>2. CASE s = Ensure("key_state", c.key, "healthy") /\ n + 1 # Len(Program(c))
      <3>1. s.kind = "ensure" /\ s.rows = {<<"key_state", c.key, "healthy">>}
        BY <2>2 DEF Ensure
      <3>2. Hits(s, disk) <=> Atomic!Known("key_state", c.key, disk)
        BY <3>1 DEF Hits, Matches, Atomic!Known, Atomic!Of
      <3>3. ~Took(w) /\ ~Took(w)'
        BY <1>4, <1>11, <1>15, <2>2
      <3>4. \A v \in Workers : Took(v)' <=> Took(v)
        BY <1>10, <3>3
      <3>5. CASE Atomic!Known("key_state", c.key, disk)
        <4>1. disk' = disk
          BY <1>9, <3>1, <3>2, <3>5 DEF After
        <4>2. Maps
          BY <1>1, <3>4, <4>1, Stutters
        <4> QED
          BY <1>1, <1>5, <4>2 DEF AtomicStep
      <3>6. CASE ~Atomic!Known("key_state", c.key, disk)
        <4>1. disk' = disk \union {<<"key_state", c.key, "healthy">>}
          BY <1>9, <3>1, <3>2, <3>6 DEF After
        <4>2. DataOf(disk') = DataOf(disk) \union {<<"key_state", c.key, "healthy">>}
          BY <4>1 DEF DataOf, Tables
        <4>3. Maps
          BY <1>1, <1>3, <1>15, <2>5, <3>3, <3>4, <3>6, <4>2, Prepares DEF AtomicInv, Idle
        <4> QED
          BY <1>1, <1>5, <4>3 DEF AtomicStep
      <3> QED
        BY <3>5, <3>6
    <2>3. CASE s = Get("key_state", c.key) /\ n + 1 # Len(Program(c))
      <3>1. s.kind = "get"
        BY <2>3 DEF Get
      <3>2. Maps
        BY <1>1, <1>4, <1>8, <1>10, <1>11, <1>15, <2>3, <3>1, Stutters
      <3> QED
        BY <1>1, <1>5, <3>2 DEF AtomicStep
    <2>4. CASE s = Set("key_state", c.key, c.what) /\ n + 1 = Len(Program(c))
      <3>1. s.kind = "set" /\ s.rows = {<<"key_state", c.key, c.what>>}
        BY <2>4 DEF Set
      <3>2. \A r : Matches(r, s.rows) <=> Atomic!Of(r, "key_state", c.key)
        BY <3>1 DEF Matches, Atomic!Of
      <3>3. Hits(s, disk) <=> Atomic!Known("key_state", c.key, disk)
        BY <3>2 DEF Hits, Atomic!Known
      <3>4. disk' = IF Atomic!Known("key_state", c.key, disk)
                    THEN {r \in disk : ~Atomic!Of(r, "key_state", c.key)} \union s.rows
                    ELSE disk
        BY <1>9, <3>1, <3>2, <3>3 DEF After
      <3>5. DataOf(disk') = Atomic!Effect(c, DataOf(disk))
        <4>1. PICK x : x = DataOf(disk)
          OBVIOUS
        <4>2. /\ x = {r \in disk : r[1] \in Tables}
              /\ Atomic!Known("key_state", c.key, x) <=> Atomic!Known("key_state", c.key, disk)
          BY <2>5, <4>1
        <4>3. CASE Atomic!Known("key_state", c.key, disk)
          <5>1. Atomic!Effect(c, x)
                  = {r \in x : ~Atomic!Of(r, "key_state", c.key)}
                       \union {<<"key_state", c.key, c.what>>}
            BY <1>15, <4>2, <4>3 DEF Atomic!Effect, Atomic!Without
          <5>2. disk' = {r \in disk : ~Atomic!Of(r, "key_state", c.key)}
                           \union {<<"key_state", c.key, c.what>>}
            BY <3>1, <3>4, <4>3
          <5> QED
            BY <4>1, <4>2, <5>1, <5>2 DEF DataOf, Tables
        <4>4. CASE ~Atomic!Known("key_state", c.key, disk)
          <5>1. Atomic!Effect(c, x) = x
            BY <1>15, <4>2, <4>4 DEF Atomic!Effect
          <5> QED
            BY <3>4, <4>1, <4>4, <5>1
        <4> QED
          BY <4>3, <4>4
      <3>6. Maps
        BY <1>1, <1>3, <1>4, <1>11, <1>15, <2>4, <3>5, Takes DEF AtomicInv
      <3> QED
        BY <1>1, <1>5, <3>6 DEF AtomicStep
    <2> QED
      BY <1>6, <1>15, <2>2, <2>3, <2>4 DEF PlainStep
  <1> QED
    BY <1>6, <1>12, <1>13, <1>14, <1>15 DEF PlainStep

(* A statement of a transaction: only the commit changes the file.         *)
LEMMA AtomicTransacts ==
  ASSUME AtomicInv, NEW w \in Workers, Statement(w), call[w].op # "boot", Transacts(call[w])
  PROVE  AtomicStep
  <1>1. /\ Runs(w) /\ conn = w /\ todo[w] # <<>> /\ Rest(w) /\ call' = call
        /\ todo'[w] = Tail(todo[w]) /\ ~Idle(w)
        /\ \A v \in Workers \ {w} : todo'[v] = todo[v] /\ Progresses(v)'
    BY StatementMoves
  <1>2. PICK n : Progress(w, n)
    BY <1>1 DEF AtomicInv, Progresses
  <1>3. PICK c, s, m : c = call[w] /\ s = Head(todo[w]) /\ m = Len(Program(c))
    OBVIOUS
  <1>4. /\ c \in Calls /\ n \in Nat /\ n < m /\ s = Program(c)[n + 1]
        /\ Tail(todo[w]) = <<>> <=> n + 1 = m
        /\ HasRun(w, n + 1)'
        /\ todo[w][Len(todo[w])] = Program(c)[m]
    BY <1>1, <1>2, <1>3, NextRuns DEF AtomicInv, Progress
  <1>5. NextOf(c, n, s)
    BY <1>3, <1>4, TransactionNext
  <1>6. /\ work = Partial(c, n, disk)
        /\ c.op = "delete" /\ n >= 5 => Atomic!Known("upstream_keys", c.key, DataOf(disk))
        /\ c.op \in {"delete", "log", "replace"}
    BY <1>1, <1>2, <1>3 DEF Progress, Transacts
  <1>7. ASSUME Tail(todo[w]) # <<>>, UNCHANGED <<disk, conn>>, work' = Partial(c, n + 1, disk),
               c.op = "delete" /\ n + 1 >= 5 =>
                  Atomic!Known("upstream_keys", c.key, DataOf(disk))
        PROVE  AtomicStep
    <2>1. Progress(w, n + 1)'
      BY <1>1, <1>3, <1>4, <1>7 DEF Progress
    <2>2. Progresses(w)'
      BY <2>1 DEF Progresses
    <2>3. ~Took(w) /\ ~Took(w)'
      BY <1>1, <1>3, <1>6, <1>7 DEF Took
    <2>4. Maps
      BY <1>1, <1>7, <2>3, OthersTook, Stutters DEF AtomicInv
    <2> QED
      BY <1>1, <2>2, <2>4 DEF AtomicStep
  <1>8. CASE BeginTx(w)
    <2>1. s = Begin /\ UNCHANGED <<disk, work, conn>>
      BY <1>3, <1>8 DEF BeginTx
    <2>2. n = 0 /\ n + 1 < m
      BY <1>3, <1>5, <2>1, Kinds DEF NextOf
    <2>3. Tail(todo[w]) # <<>> /\ work' = Partial(c, n + 1, disk)
      BY <1>3, <1>4, <1>6, <2>1, <2>2, PartialStarts
    <2> QED
      BY <1>7, <2>1, <2>2, <2>3
  <1>9. CASE Write(w)
    <2>1. s.kind \in Changes /\ work' = After(s, work)
      BY <1>3, <1>9 DEF Write, Changes
    <2>2. /\ n \in Nat \ {0} /\ n + 1 < m
          /\ \A db : Partial(c, n + 1, db) = After(s, Partial(c, n, db))
          /\ c.op = "delete" /\ n >= 4 => s = MustDrop("upstream_keys", c.key)
      BY <1>3, <1>5, <2>1, Kinds DEF NextOf, Changes
    <2>3. InTransaction(w)
      BY <1>3, <1>4, <2>2, EndsInCommit DEF InTransaction
    <2>4. UNCHANGED <<disk, conn>>
      BY <1>9, <2>3 DEF Write
    <2>5. Tail(todo[w]) # <<>> /\ work' = Partial(c, n + 1, disk)
      BY <1>4, <1>6, <2>1, <2>2
    <2>6. ASSUME c.op = "delete", n + 1 >= 5 PROVE Atomic!Known("upstream_keys", c.key, DataOf(disk))
      <3>1. s = MustDrop("upstream_keys", c.key)
        BY <1>4, <2>2, <2>6
      <3>2. s.kind = "remove" /\ s.rows = {<<"upstream_keys", c.key>>}
        BY <3>1 DEF MustDrop
      <3>3. Hits(s, work)
        BY <1>3, <1>9, <3>2 DEF Write
      <3>4. PICK r \in work : r[1] = "upstream_keys" /\ r[2] = c.key
        BY <3>2, <3>3 DEF Hits, Matches
      <3>5. r \in disk
        BY <1>6, <2>6, <3>4 DEF Partial
      <3> QED
        BY <3>4, <3>5 DEF Atomic!Known, Atomic!Of, DataOf, Tables
    <2> QED
      BY <1>7, <2>4, <2>5, <2>6
  <1>10. CASE CommitTx(w)
    <2>1. s = Commit /\ disk' = work
      BY <1>3, <1>10 DEF CommitTx
    <2>2. /\ n + 1 = m
          /\ \A db : DataOf(Partial(c, n, db)) = Atomic!Effect(c, DataOf(db))
      BY <1>3, <1>5, <2>1, Kinds DEF NextOf
    <2>3. DataOf(disk') = Atomic!Effect(c, DataOf(disk))
      BY <1>6, <2>1, <2>2
    <2>4. Tail(todo[w]) = <<>>
      BY <1>4, <2>2
    <2>5. c.op = "delete" => Atomic!Known("upstream_keys", c.key, DataOf(disk))
      <3> SUFFICES ASSUME c.op = "delete" PROVE n >= 5
        BY <1>6
      <3>1. PICK k \in Keys : c = Remove(k)
        BY <1>4, CallsAssumption
        DEF AdminCalls, Look, Add, Revoke, SignIn, Bootstrap, Verdict, Record, Found, Call
      <3>2. m = 6
        BY <1>3, <3>1, DeleteProgram
      <3> QED
        BY <1>4, <2>2, <3>2
    <2>9. ~Took(w) /\ Took(w)'
      BY <1>1, <1>3, <1>6, <2>4 DEF Took, Idle
    <2>6. Maps
      BY <1>1, <1>3, <1>6, <2>3, <2>5, <2>9, Takes DEF AtomicInv
    <2>7. Progress(w, n + 1)'
      BY <1>1, <1>4, <2>4 DEF Progress
    <2>8. Progresses(w)'
      BY <2>7 DEF Progresses
    <2> QED
      BY <1>1, <2>6, <2>8 DEF AtomicStep
  <1>11. CASE Read(w)
    <2>1. s.kind \in {"select", "get"}
      BY <1>3, <1>11 DEF Read
    <2> QED
      BY <1>5, <2>1, Kinds DEF NextOf
  <1> QED
    BY <1>8, <1>9, <1>10, <1>11 DEF Statement

-----------------------------------------------------------------------------
LEMMA AtomicInvInit == Init => AtomicInv /\ Atomic!Init
  <1> SUFFICES ASSUME Init PROVE AtomicInv /\ Atomic!Init
    OBVIOUS
  <1>1. StoreInv
    BY ServerInvInit DEF ServerInv
  <1>3. /\ call = [w \in Workers |-> Nobody] /\ \A w \in Workers : Idle(w)
    BY DEF Init, StoreInit, Idle
  <1>4. Atomic!Init
    BY <1>3 DEF Atomic!Init
  <1> QED
    BY <1>1, <1>3, <1>4 DEF AtomicInv, Progresses

LEMMA AtomicInvStep == AtomicInv /\ [Next]_vars => AtomicInv' /\ Maps
  <1> SUFFICES ASSUME AtomicInv, [Next]_vars PROVE AtomicInv' /\ Maps
    OBVIOUS
  <1>1. StoreInv'
    BY ServerStores, StoreKept DEF AtomicInv
  <1>2. CASE StoreStep
    <2>1. AtomicStep
      BY <1>2, AtomicStarts, AtomicAcquires, AtomicBoots, AtomicPlain, AtomicTransacts,
         AtomicEnds, AtomicDies DEF StoreStep
    <2> QED
      BY <1>1, <2>1 DEF AtomicStep, AtomicInv
  <1>3. CASE UNCHANGED storeVars
    <2>1. UNCHANGED <<disk, work, conn, call, todo>>
      BY <1>3 DEF storeVars
    <2>2. \A w \in Workers : Progresses(w)'
      BY <2>1 DEF AtomicInv, Progresses, Progress, HasRun, Idle
    <2>3. Maps
      BY <2>1, Stutters DEF Took, Idle
    <2> QED
      BY <1>1, <2>1, <2>2, <2>3 DEF AtomicInv
  <1> QED
    BY <1>2, <1>3, ServerStores

(* The transactions (a deletion, a log row with its count, a model list)   *)
(* and the deletion of a downstream key take effect in one step or not at  *)
(* all, succeed only if they did and fail only if they did not, whoever    *)
(* else calls and whoever is cut short between which statements.  A Create *)
(* and a Mark call, which are no transactions, leave no more behind than   *)
(* AtomicStore says: the key, though the caller has got an error, and a    *)
(* fresh health row without its verdict.                                   *)
THEOREM CallsAtomic == Spec => ImplementsAtomicStore
  <1>1. AtomicInv /\ [Next]_vars => [Atomic!Next]_(Atomic!atomicVars)
    BY AtomicInvStep DEF Maps
  <1>2. Spec => []AtomicInv
    BY AtomicInvInit, AtomicInvStep, PTL DEF Spec
  <1> QED
    BY <1>1, <1>2, AtomicInvInit, PTL DEF Spec, ImplementsAtomicStore, Atomic!Spec

-----------------------------------------------------------------------------
(* The file at any moment, through every death: it goes from one whole     *)
(* state to another, since its transactions are atomic.                    *)
Counted(db)   ==
    /\ <<"downstream_keys", Nobody, "row">> \notin db
    /\ \A r \in db : r[1] = "request_logs" /\ <<"downstream_keys", r[3][2], "row">> \in db
                      => <<"downstream_keys", r[3][2], r[3][1]>> \in db
Served(k, db) == {r[3] : r \in {x \in db : x[1] = "key_models" /\ x[2] = k}}
Whole(db)     == \A k \in Keys : \/ Served(k, db) = {}
                                 \/ \E ms \in ModelLists : Served(k, db) = {ms[i] : i \in DOMAIN ms}

LEMMA EffectsWhole ==
  ASSUME NEW c \in Calls, NEW db, Counted(db), Whole(db), NEW new, new = Atomic!Effect(c, db)
  PROVE  Counted(new) /\ Whole(new)
  <1> USE DEF Atomic!Effect
  <1>1. ASSUME \A x : x[1] \in {"request_logs", "downstream_keys"} => (x \in new <=> x \in db)
        PROVE  Counted(new)
    <2>1. \A y : <<"downstream_keys", "counted", y>>[1] = "downstream_keys"
      OBVIOUS
    <2> QED
      BY <1>1, <2>1 DEF Counted
  <1>2. ASSUME \A x : x[1] = "key_models" => (x \in new <=> x \in db)
        PROVE  Whole(new)
    <2>1. \A k : Served(k, new) = Served(k, db)
      BY <1>2 DEF Served
    <2> QED
      BY <2>1 DEF Whole
  <1>3. CASE c.op \notin {"create", "mark", "delete", "revoke", "log", "replace"}
    BY <1>3
  <1>4. CASE c.op \in {"create", "mark"}
    <2>1. \A x : x[1] \notin {"upstream_keys", "key_state"} => (x \in new <=> x \in db)
      BY <1>4 DEF Atomic!Without, Atomic!Of
    <2> QED
      BY <1>1, <1>2, <2>1
  <1>5. CASE c.op = "delete"
    <2>1. PICK k : k = c.key
      OBVIOUS
    <2>2. new = {r \in db : ~(r[1] \in Atomic!KeyTables /\ r[2] = k)}
      BY <2>1, <1>5
    <2>3. Counted(new)
      <3>1. \A d, y : /\ <<"downstream_keys", d, y>>[1] = "downstream_keys"
                      /\ "downstream_keys" \notin Atomic!KeyTables
        BY DEF Atomic!KeyTables
      <3>2. \A d, y : <<"downstream_keys", d, y>> \in new <=> <<"downstream_keys", d, y>> \in db
        BY <2>2, <3>1
      <3>3. new \subseteq db
        BY <2>2
      <3> QED
        BY <3>2, <3>3 DEF Counted
    <2>4. Whole(new)
      <3>1. \A j : Served(j, new) = IF j = k THEN {} ELSE Served(j, db)
        BY <2>2 DEF Served, Atomic!KeyTables
      <3> QED
        BY <3>1 DEF Whole
    <2> QED
      BY <2>3, <2>4
  <1>8. CASE c.op = "revoke"
    <2>1. PICK d : d = c.key
      OBVIOUS
    <2>2. new = {r \in db : ~(r[1] = "downstream_keys" /\ r[2] = d)}
      BY <2>1, <1>8 DEF Atomic!Without, Atomic!Of
    <2>3. \A e, y : <<"downstream_keys", e, y>> \in new
                      <=> <<"downstream_keys", e, y>> \in db /\ e # d
      BY <2>2
    <2>4. Counted(new)
      BY <2>2, <2>3 DEF Counted
    <2> QED
      BY <1>2, <2>2, <2>4
  <1>6. CASE c.op = "log"
    <2>1. PICK k \in Keys, q \in Requests, d \in Presented : c = Record(k, q, d)
      BY <1>6, CallsAssumption
      DEF AdminCalls, Look, Add, SignIn, Bootstrap, Verdict, Found, Remove, Revoke, Call
    <2>2. PICK l : l = <<"request_logs", k, <<q, d>>>>
      OBVIOUS
    <2>3. new = db \union {l}
             \union (IF d # Nobody /\ Atomic!Known("downstream_keys", d, db)
                     THEN {<<"downstream_keys", d, q>>} ELSE {})
      BY <1>6, <2>1, <2>2 DEF Atomic!LogOf, Record, Call
    <2>4. q # "row"
      BY KeysAssumption
    <2>5. \A e : <<"downstream_keys", e, "row">> \in new <=> <<"downstream_keys", e, "row">> \in db
      BY <2>2, <2>3, <2>4
    <2>6. ASSUME NEW r \in new, r[1] = "request_logs",
                 <<"downstream_keys", r[3][2], "row">> \in new
          PROVE  <<"downstream_keys", r[3][2], r[3][1]>> \in new
      <3>1. CASE r \in db
        BY <2>3, <2>5, <2>6, <3>1 DEF Counted
      <3>2. CASE r = l
        <4>1. r[3][1] = q /\ r[3][2] = d
          BY <2>2, <3>2
        <4>2. <<"downstream_keys", d, "row">> \in db
          BY <2>5, <2>6, <4>1
        <4>3. d # Nobody
          BY <4>2 DEF Counted
        <4>4. Atomic!Known("downstream_keys", d, db)
          BY <4>2 DEF Atomic!Known, Atomic!Of
        <4> QED
          BY <2>3, <4>1, <4>3, <4>4
      <3>3. CASE r = <<"downstream_keys", d, q>>
        BY <2>6, <3>3
      <3> QED
        BY <2>3, <3>1, <3>2, <3>3
    <2>7. Counted(new)
      BY <2>5, <2>6 DEF Counted
    <2>8. \A x : x[1] = "key_models" => (x \in new <=> x \in db)
      BY <2>2, <2>3
    <2> QED
      BY <1>2, <2>7, <2>8
  <1>7. CASE c.op = "replace"
    <2>1. PICK k \in Keys, ms \in ModelLists : c = Found(k, ms)
      BY <1>7, CallsAssumption DEF AdminCalls, Look, Add, Revoke, SignIn, Bootstrap, Verdict, Record, Remove, Call
    <2>2. new = {r \in db : ~(r[2] = k /\ r[1] = "key_models")}
                  \union {<<"key_models", k, ms[i]>> : i \in DOMAIN ms}
      BY <2>1, <1>7 DEF Atomic!Without, Atomic!Of, Atomic!ModelsOf, Found, Call
    <2>3. Counted(new)
      BY <1>1, <2>2
    <2>4. \A j : j # k => Served(j, new) = Served(j, db)
      BY <2>2 DEF Served
    <2>5. Served(k, new) = {ms[i] : i \in DOMAIN ms}
      <3>1. ASSUME NEW v \in Served(k, new) PROVE \E i \in DOMAIN ms : v = ms[i]
        <4>1. PICK x \in new : x[1] = "key_models" /\ x[2] = k /\ v = x[3]
          BY <3>1 DEF Served
        <4>2. PICK i \in DOMAIN ms : x = <<"key_models", k, ms[i]>>
          BY <2>2, <4>1
        <4> QED
          BY <4>1, <4>2
      <3>2. ASSUME NEW i \in DOMAIN ms PROVE ms[i] \in Served(k, new)
        <4>1. PICK x : x = <<"key_models", k, ms[i]>>
          OBVIOUS
        <4>2. x \in new /\ x[1] = "key_models" /\ x[2] = k /\ x[3] = ms[i]
          BY <2>2, <4>1
        <4> QED
          BY <4>2 DEF Served
      <3> QED
        BY <3>1, <3>2
    <2> QED
      BY <2>3, <2>4, <2>5 DEF Whole
  <1> QED
    BY <1>3, <1>4, <1>5, <1>6, <1>7, <1>8

FileInv == Counted(DataOf(disk)) /\ Whole(DataOf(disk))

LEMMA FileInvariant == Spec => []FileInv
  <1>1. Init => FileInv
    <2> SUFFICES ASSUME Init PROVE FileInv
      OBVIOUS
    <2>1. \A r \in disk : r[1] \notin {"request_logs", "key_models"}
      BY DEF Init, OldDisk
    <2>2. <<"downstream_keys", Nobody, "row">> \notin disk
      BY KeysAssumption DEF Init, OldDisk
    <2> QED
      BY <2>1, <2>2 DEF FileInv, Counted, Whole, Served, DataOf
  <1>2. AtomicInv /\ FileInv /\ [Next]_vars => FileInv'
    <2> SUFFICES ASSUME AtomicInv, FileInv, [Next]_vars PROVE FileInv'
      OBVIOUS
    <2>1. \/ DataOf(disk') = DataOf(disk)
          \/ \E k : DataOf(disk') = DataOf(disk) \union {<<"key_state", k, "healthy">>}
          \/ \E w \in Workers : call[w] # Nobody /\ DataOf(disk') = Atomic!Effect(call[w], DataOf(disk))
      <3>1. Maps
        BY AtomicInvStep
      <3> QED
        BY <3>1 DEF Maps, DataOf, Atomic!Next, Atomic!Start, Atomic!Prepare, Atomic!Take,
                    Atomic!Succeed, Atomic!Fail, Atomic!Die, Atomic!atomicVars
    <2>2. \A w \in Workers : call[w] # Nobody => call[w] \in Calls
      BY DEF AtomicInv, StoreInv, StoreTypeOK
    <2>3. ASSUME NEW k, DataOf(disk') = DataOf(disk) \union {<<"key_state", k, "healthy">>}
          PROVE  FileInv'
      <3>1. \A x : x[1] # "key_state" => (x \in DataOf(disk') <=> x \in DataOf(disk))
        BY <2>3
      <3>2. \A j : Served(j, DataOf(disk')) = Served(j, DataOf(disk))
        BY <3>1 DEF Served
      <3> QED
        BY <3>1, <3>2 DEF FileInv, Counted, Whole
    <2> QED
      BY <2>1, <2>2, <2>3, EffectsWhole DEF FileInv
  <1>3. Spec => []AtomicInv
    BY AtomicInvInit, AtomicInvStep, PTL DEF Spec
  <1> QED
    BY <1>1, <1>2, <1>3, PTL DEF Spec

(* Whoever dies between which statements: a log row that is in the file,   *)
(* of a request that came with a downstream key that still is there, has   *)
(* been counted for it, and what a key serves according to the file is     *)
(* what one probe found, or nothing.                                       *)
THEOREM FileAlwaysWhole == Spec => []FileWhole
  <1>1. FileInv => FileWhole
    <2>1. FileInv => LogsCounted
      BY DEF FileInv, Counted, DataOf, LogsCounted, Tables
    <2>2. \A k : {x \in DataOf(disk) : x[1] = "key_models" /\ x[2] = k}
                   = {x \in disk : x[1] = "key_models" /\ x[2] = k}
      BY DEF DataOf, Tables
    <2>3. FileInv => ModelsWhole
      BY <2>2, Zenon DEF FileInv, Whole, Served, ModelsWhole
    <2> QED
      BY <2>1, <2>3 DEF FileWhole
  <1> QED
    BY <1>1, FileInvariant, PTL
=============================================================================
