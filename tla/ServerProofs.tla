---------------------------- MODULE ServerProofs ----------------------------
(* What Server guarantees for every set of browsers, requests, keys, names *)
(* and passwords, and every length of a session and of a second.           *)
EXTENDS Server, TLAPS

LEMMA SecondMeaning ==
  ASSUME NEW t \in Nat
  PROVE  /\ Second(t) \in Nat
         /\ Second(t) * PerSecond <= t
         /\ t < Second(t) * PerSecond + PerSecond
  BY PerSecondAssumption, SMTT(30) DEF Second

LEMMA SecondMonotone ==
  ASSUME NEW t \in Nat, NEW u \in Nat, t <= u
  PROVE  Second(t) <= Second(u)
  <1>1. Second(t) \in Nat /\ Second(u) \in Nat /\ PerSecond \in Nat \ {0}
    BY SecondMeaning, PerSecondAssumption
  <1>2. Second(t) * PerSecond < (Second(u) + 1) * PerSecond
    BY <1>1, SecondMeaning
  <1> QED
    BY <1>1, <1>2

LEMMA EndMeaning ==
  ASSUME NEW t \in Nat, NEW e \in Nat
  PROVE  t < e * PerSecond => Second(t) <= e
  <1>1. PerSecond \in Nat \ {0}
    BY PerSecondAssumption
  <1>2. Second(t) \in Nat /\ Second(t) * PerSecond <= t
    BY SecondMeaning
  <1> QED
    BY <1>1, <1>2
(* What \o gives, by position.                                            *)
LEMMA Joining ==
  ASSUME NEW S, NEW x \in Seq(S), NEW y \in Seq(S), NEW z, z = x \o y
  PROVE  /\ z \in Seq(S) /\ Len(z) = Len(x) + Len(y)
         /\ \A i \in 1..Len(x) : z[i] = x[i]
         /\ \A i \in 1..Len(y) : z[i + Len(x)] = y[i]
  OBVIOUS

LEMMA JoiningPair ==
  ASSUME NEW S, NEW x \in Seq(S), NEW a \in S, NEW b \in S, NEW z, z = x \o <<a, b>>
  PROVE  /\ z \in Seq(S) /\ Len(z) = Len(x) + 2
         /\ \A i \in 1..Len(x) : z[i] = x[i]
         /\ z[Len(x) + 1] = a
         /\ z[Len(x) + 2] = b
  <1>1. PICK y : y = <<a, b>>
    OBVIOUS
  <1>2. y \in Seq(S) /\ Len(y) = 2 /\ y[1] = a /\ y[2] = b /\ Len(x) \in Nat
    BY <1>1
  <1>3. /\ z \in Seq(S) /\ Len(z) = Len(x) + Len(y)
        /\ \A i \in 1..Len(x) : z[i] = x[i]
        /\ \A i \in 1..Len(y) : z[i + Len(x)] = y[i]
    BY <1>1, <1>2, Joining
  <1>4. z[1 + Len(x)] = a /\ z[2 + Len(x)] = b
    BY <1>2, <1>3
  <1> QED
    BY <1>2, <1>3, <1>4

LEMMA JoiningOne ==
  ASSUME NEW S, NEW x \in Seq(S), NEW a \in S, NEW z, z = x \o <<a>>
  PROVE  /\ z \in Seq(S) /\ Len(z) = Len(x) + 1
         /\ \A i \in 1..Len(x) : z[i] = x[i]
         /\ z[Len(x) + 1] = a
  OBVIOUS

LEMMA PairJoining ==
  ASSUME NEW S, NEW a \in S, NEW b \in S, NEW s \in Seq(S), NEW v, v = <<a, b>> \o s
  PROVE  /\ v \in Seq(S) /\ Len(v) = Len(s) + 2
         /\ v[1] = a /\ v[2] = b
         /\ \A i \in 1..Len(s) : v[i + 2] = s[i]
  <1>1. PICK u : u = <<a, b>>
    OBVIOUS
  <1>2. u \in Seq(S) /\ Len(u) = 2 /\ u[1] = a /\ u[2] = b /\ Len(s) \in Nat
    BY <1>1
  <1>4. /\ v \in Seq(S) /\ Len(v) = Len(u) + Len(s)
        /\ \A i \in 1..Len(u) : v[i] = u[i]
        /\ \A i \in 1..Len(s) : v[i + Len(u)] = s[i]
    BY <1>1, <1>2, Joining
  <1> QED
    BY <1>2, <1>4

LEMMA Wrapped ==
  ASSUME NEW S, NEW a \in S, NEW b \in S, NEW s \in Seq(S), NEW c \in S,
         NEW t, t = <<a, b>> \o s \o <<c>>
  PROVE  /\ t \in Seq(S) /\ Len(t) = Len(s) + 3
         /\ t[1] = a /\ t[2] = b /\ t[Len(s) + 3] = c
         /\ \A i \in 1..Len(s) : t[i + 2] = s[i]
  <1>3. PICK v : v = <<a, b>> \o s
    OBVIOUS
  <1>5. /\ v \in Seq(S) /\ Len(v) = Len(s) + 2 /\ v[1] = a /\ v[2] = b
        /\ \A i \in 1..Len(s) : v[i + 2] = s[i]
    BY <1>3, PairJoining
  <1>6. /\ t \in Seq(S) /\ Len(t) = Len(v) + 1
        /\ \A i \in 1..Len(v) : t[i] = v[i]
        /\ t[Len(v) + 1] = c
    BY <1>3, <1>5, JoiningOne
  <1>7. \A i \in 1..Len(s) : i + 2 \in 1..Len(v)
    BY <1>5
  <1> QED
    BY <1>5, <1>6, <1>7

-----------------------------------------------------------------------------
(* What the calls of the server run: statements about the data of keys and *)
(* requests, alone or in a transaction, and those of a boot about the      *)
(* schema and the administrator, which no transaction holds.               *)
Ids       == Keys \union Tokens
Cells     == {"row"} \union Verdicts \union Requests \union (Requests \X Presented)
                \union Models
DataRows  == (Tables \X Ids) \union (Tables \X Ids \X Cells)
Changes   == {"insert", "ensure", "set", "count", "delete", "remove"}
Data      == [kind : Changes, rows : SUBSET DataRows]
Queries   == {Select({})} \union {Select({<<"admin_users", u>>}) : u \in Names}
                \union {Get(t, k) : t \in {"upstream_keys", "key_state"}, k \in Keys}
Versioned == {"request_logs", "downstream_keys"}

BootProgram(u, p) == Migrate \o EnsureDefaultAdmin(u, p)
AddColumn(t)   == Ensure("columns", t, "added")
BootStatements(u, p) ==
    {CreateTable(t) : t \in Versioned} \union {AddColumn(t) : t \in Versioned}
        \union {Select({<<"columns", t>>}) : t \in Versioned}
        \union {Ensure("admin_users", u, p)}

Program(c) ==
    CASE c.op = "login"     -> Authenticate(c.key)
      [] c.op = "dashboard" -> TokenStats \o Overview
      [] c.op = "create"    -> CreateKey(c.key)
      [] c.op = "delete"    -> DeleteKey(c.key)
      [] c.op = "revoke"    -> RevokeKey(c.key)
      [] c.op = "log"       -> InsertLog(c.key, c.what[1], c.what[2])
      [] c.op = "replace"   -> ReplaceForKey(c.key, c.what)
      [] c.op = "mark"      -> MarkProbe(c.key, c.what)
      [] OTHER             -> BootProgram(c.key, c.what)

Alone(rest)  == rest \in Seq(Data \union Queries)
Joined(rest) == /\ rest \in Seq(Data \union {Begin, Commit})
                /\ rest # <<>> /\ rest[Len(rest)] = Commit

LEMMA Kinds ==
  /\ \A s \in Data : s.kind \in Changes /\ s.rows \subseteq DataRows
  /\ \A s \in Queries : s.kind \in {"select", "get"}
  /\ Begin.kind = "begin" /\ Commit.kind = "commit"
  /\ \A u, p : \A s \in BootStatements(u, p) : s.kind \in {"ensure", "select"}
  BY DEF Data, Queries, Select, Get, Begin, Commit, BootStatements, CreateTable, AddColumn, Ensure

LEMMA DataFits ==
  ASSUME NEW t \in Tables, NEW k \in Ids, NEW v \in Cells
  PROVE  /\ Insert(t, k, v) \in Data /\ Ensure(t, k, v) \in Data
         /\ Set(t, k, v) \in Data /\ Count(t, k, v) \in Data
         /\ Drop(t, k) \in Data /\ MustDrop(t, k) \in Data
  <1>1. {<<t, k, v>>} \in SUBSET DataRows /\ {<<t, k>>} \in SUBSET DataRows
    BY DEF DataRows
  <1> QED
    BY <1>1 DEF Insert, Ensure, Set, Count, Drop, MustDrop, Data, Changes

LEMMA ReplaceFits ==
  ASSUME NEW k \in Keys, NEW ms \in ModelLists
  PROVE  LET t == ReplaceForKey(k, ms) IN
         /\ t \in Seq(Data \union {Begin, Commit}) /\ Len(t) = Len(ms) + 3 /\ Len(ms) \in Nat
         /\ t[1] = Begin /\ t[2] = Drop("key_models", k) /\ t[Len(ms) + 3] = Commit
         /\ \A i \in 1..Len(ms) : t[i + 2] = Insert("key_models", k, ms[i])
  <1>1. ms \in Seq(Models) /\ Len(ms) \in Nat /\ \A i \in 1..Len(ms) : ms[i] \in Models
    BY ModelListsAssumption
  <1>2. "key_models" \in Tables /\ k \in Ids /\ Models \subseteq Cells /\ "row" \in Cells
    BY DEF Tables, Ids, Cells
  <1>3. PICK S : S = Data \union {Begin, Commit}
    OBVIOUS
  <1>4. PICK s : s = [i \in 1..Len(ms) |-> Insert("key_models", k, ms[i])]
    OBVIOUS
  <1>5. \A i \in 1..Len(ms) : Insert("key_models", k, ms[i]) \in S
    BY <1>1, <1>2, <1>3, DataFits
  <1>6. s \in Seq(S)
    BY <1>1, <1>4, <1>5
  <1>11. Len(s) = Len(ms) /\ \A i \in 1..Len(ms) : s[i] = Insert("key_models", k, ms[i])
    BY <1>1, <1>4
  <1>7. Begin \in S /\ Commit \in S /\ Drop("key_models", k) \in S
    BY <1>2, <1>3, DataFits
  <1>8. PICK t : t = ReplaceForKey(k, ms)
    OBVIOUS
  <1>9. t = <<Begin, Drop("key_models", k)>> \o s \o <<Commit>>
    BY <1>4, <1>8, Zenon DEF ReplaceForKey
  <1>10. /\ t \in Seq(S) /\ Len(t) = Len(s) + 3
         /\ t[1] = Begin /\ t[2] = Drop("key_models", k) /\ t[Len(s) + 3] = Commit
         /\ \A i \in 1..Len(s) : t[i + 2] = s[i]
    BY <1>6, <1>7, <1>9, Wrapped
  <1> QED
    BY <1>1, <1>3, <1>8, <1>10, <1>11

LEMMA LogFits ==
  ASSUME NEW k \in Keys, NEW q \in Requests, NEW d \in Presented
  PROVE  LET t == InsertLog(k, q, d) IN
         /\ Joined(t)
         /\ t[1] = Begin /\ t[2] = Insert("request_logs", k, <<q, d>>) /\ t[Len(t)] = Commit
         /\ d = Nobody => Len(t) = 3 /\ t[3] = Commit
         /\ d # Nobody => Len(t) = 4 /\ t[3] = Count("downstream_keys", d, q) /\ t[4] = Commit
  <1>1. PICK S, l, c, t :
          /\ S = Data \union {Begin, Commit} /\ l = Insert("request_logs", k, <<q, d>>)
          /\ c = Count("downstream_keys", d, q) /\ t = InsertLog(k, q, d)
    OBVIOUS
  <1>2. l \in S /\ Begin \in S /\ Commit \in S
    BY <1>1, DataFits DEF Ids, Cells, Tables
  <1>3. CASE d = Nobody
    <2>1. PICK s : s = <<>>
      OBVIOUS
    <2>3. s \in Seq(S) /\ Len(s) = 0
      BY <2>1
    <2>4. t = <<Begin, l>> \o s \o <<Commit>>
      BY <1>1, <1>3, <2>1, Zenon DEF InsertLog
    <2>2. t \in Seq(S) /\ Len(t) = 3 /\ t[1] = Begin /\ t[2] = l /\ t[3] = Commit
      BY <1>2, <2>3, <2>4, Wrapped
    <2>5. Joined(t)
      BY <1>1, <2>2 DEF Joined
    <2> QED
      BY <1>1, <1>3, <2>2, <2>5
  <1>4. CASE d # Nobody
    <2>1. d \in Tokens
      BY <1>4 DEF Presented
    <2>2. c \in S
      BY <1>1, <2>1, DataFits DEF Ids, Cells, Tables
    <2>3. t = <<Begin, l>> \o <<c>> \o <<Commit>>
      BY <1>1, <1>4, Zenon DEF InsertLog
    <2>4. PICK s : s = <<c>>
      OBVIOUS
    <2>5. s \in Seq(S) /\ Len(s) = 1 /\ s[1] = c
      BY <2>2, <2>4
    <2>6. /\ t \in Seq(S) /\ Len(t) = 4
          /\ t[1] = Begin /\ t[2] = l /\ t[3] = c /\ t[4] = Commit
      BY <1>2, <2>3, <2>4, <2>5, Wrapped
    <2>7. Joined(t)
      BY <1>1, <2>6 DEF Joined
    <2> QED
      BY <1>1, <1>4, <2>6, <2>7
  <1> QED
    BY <1>3, <1>4

LEMMA MarkFits ==
  ASSUME NEW k \in Keys, NEW v \in Verdicts
  PROVE  /\ MarkProbe(k, v) \in Seq(Data \union Queries)
         /\ Ensure("key_state", k, "healthy") \in Data /\ Set("key_state", k, v) \in Data
         /\ Get("key_state", k) \in Queries
  <1>2. "key_state" \in Tables /\ k \in Ids /\ v \in Cells /\ "healthy" \in Cells
    <2>1. "healthy" \in Verdicts
      BY DEF Verdicts
    <2> QED
      BY <2>1 DEF Tables, Ids, Cells
  <1>1. /\ Ensure("key_state", k, "healthy") \in Data /\ Set("key_state", k, v) \in Data
        /\ Get("key_state", k) \in Queries
    BY <1>2, DataFits DEF Queries
  <1>3. PICK S, e, s, g : /\ S = Data \union Queries /\ e = Ensure("key_state", k, "healthy")
                          /\ s = Set("key_state", k, v) /\ g = Get("key_state", k)
    OBVIOUS
  <1>4. e \in S /\ s \in S /\ g \in S
    BY <1>1, <1>3
  <1>5. <<e, s>> \in Seq(S) /\ <<e, e, g, s>> \in Seq(S)
    BY <1>4
  <1>6. MarkProbe(k, v) \in {<<e, s>>, <<e, e, g, s>>}
    BY <1>3, Zenon DEF MarkProbe
  <1> QED
    BY <1>1, <1>3, <1>5, <1>6

LEMMA ProgramsFit ==
  ASSUME NEW c \in Calls, c.op # "boot"
  PROVE  Alone(Program(c)) \/ Joined(Program(c))
  <1>1. Tables = {"upstream_keys", "key_models", "key_state", "request_logs", "downstream_keys"}
    BY DEF Tables
  <1>2. PICK t : t = Program(c)
    OBVIOUS
  <1>3. CASE \E u \in Names, p \in Passwords : c = SignIn(u, p)
    <2> PICK u \in Names, p \in Passwords : c = SignIn(u, p)
      BY <1>3
    <2>1. t = <<Select({<<"admin_users", u>>})>>
      BY <1>2 DEF Program, SignIn, Authenticate, Call
    <2> QED
      BY <1>2, <2>1 DEF Alone, Queries
  <1>4. CASE c = Look
    <2>1. PICK S, a, x : S = Data \union Queries /\ a = Select({}) /\ x = <<a, a>>
      OBVIOUS
    <2>2. a \in S /\ x \in Seq(S)
      BY <2>1 DEF Queries
    <2>3. t = x \o <<a>>
      BY <1>2, <1>4, <2>1 DEF Program, Look, TokenStats, Overview, Call
    <2> QED
      BY <1>2, <2>1, <2>2, <2>3, JoiningOne DEF Alone
  <1>5. CASE \E k \in Keys : c = Add(k)
    <2> PICK k \in Keys : c = Add(k)
      BY <1>5
    <2>1. Insert("upstream_keys", k, "row") \in Data /\ Get("upstream_keys", k) \in Queries
      BY <1>1, DataFits DEF Ids, Cells, Queries
    <2>2. t = <<Insert("upstream_keys", k, "row"), Get("upstream_keys", k)>>
      BY <1>2 DEF Program, Add, CreateKey, Call
    <2> QED
      BY <1>2, <2>1, <2>2 DEF Alone
  <1>6. CASE \E k \in Keys : c = Remove(k)
    <2> PICK k \in Keys : c = Remove(k)
      BY <1>6
    <2>1. \A n \in Tables : Drop(n, k) \in Data /\ MustDrop(n, k) \in Data
      BY DataFits DEF Ids, Cells
    <2>2. t = DeleteKey(k)
      BY <1>2 DEF Program, Remove, Call
    <2> QED
      BY <1>1, <1>2, <2>1, <2>2 DEF Joined, DeleteKey
  <1>7. CASE \E k \in Keys, q \in Requests, d \in Presented : c = Record(k, q, d)
    <2> PICK k \in Keys, q \in Requests, d \in Presented : c = Record(k, q, d)
      BY <1>7
    <2>1. t = InsertLog(k, q, d)
      BY <1>2 DEF Program, Record, Call
    <2> QED
      BY <1>2, <2>1, LogFits
  <1>11. CASE \E d \in Tokens : c = Revoke(d)
    <2> PICK d \in Tokens : c = Revoke(d)
      BY <1>11
    <2>1. MustDrop("downstream_keys", d) \in Data
      BY <1>1, DataFits DEF Ids, Cells
    <2>2. t = <<MustDrop("downstream_keys", d)>>
      BY <1>2 DEF Program, Revoke, RevokeKey, Call
    <2> QED
      BY <1>2, <2>1, <2>2 DEF Alone
  <1>8. CASE \E k \in Keys, ms \in ModelLists : c = Found(k, ms)
    <2> PICK k \in Keys, ms \in ModelLists : c = Found(k, ms)
      BY <1>8
    <2>1. t = ReplaceForKey(k, ms)
      BY <1>2 DEF Program, Found, Call
    <2> QED
      BY <1>2, <2>1, ReplaceFits DEF Joined
  <1>9. CASE \E k \in Keys, v \in Verdicts : c = Verdict(k, v)
    <2> PICK k \in Keys, v \in Verdicts : c = Verdict(k, v)
      BY <1>9
    <2>1. t = MarkProbe(k, v)
      BY <1>2 DEF Program, Verdict, Call
    <2> QED
      BY <1>2, <2>1, MarkFits DEF Alone
  <1>10. c \notin {Bootstrap(u, p) : u \in Names, p \in Passwords}
    BY DEF Bootstrap, Call
  <1> QED
    BY <1>3, <1>4, <1>5, <1>6, <1>7, <1>8, <1>9, <1>10, <1>11, CallsAssumption DEF AdminCalls

LEMMA BootFits ==
  ASSUME NEW u, NEW p
  PROVE  LET t == BootProgram(u, p) IN
         /\ t \in Seq(BootStatements(u, p)) /\ Len(t) = 7
         /\ t[1] = CreateTable("downstream_keys") /\ t[2] = CreateTable("request_logs")
         /\ t[3] = Select({<<"columns", "request_logs">>}) /\ t[4] = AddColumn("request_logs")
         /\ t[5] = Select({<<"columns", "downstream_keys">>})
         /\ t[6] = AddColumn("downstream_keys")
         /\ t[7] = Ensure("admin_users", u, p)
  <1>1. PICK S, a, b, c, d, e, f, g :
          /\ S = BootStatements(u, p)
          /\ a = CreateTable("downstream_keys") /\ b = CreateTable("request_logs")
          /\ c = Select({<<"columns", "request_logs">>}) /\ d = AddColumn("request_logs")
          /\ e = Select({<<"columns", "downstream_keys">>}) /\ f = AddColumn("downstream_keys")
          /\ g = Ensure("admin_users", u, p)
    OBVIOUS
  <1>2. {a, b, c, d, e, f, g} \subseteq S
    BY <1>1, Zenon DEF BootStatements, Versioned
  <1>3. PICK t, x, y, z :
          t = BootProgram(u, p) /\ x = <<a, b>> /\ y = x \o <<c, d>> /\ z = y \o <<e, f>>
    OBVIOUS
  <1>4. t = z \o <<g>>
    BY <1>1, <1>3, Zenon DEF BootProgram, Migrate, EnsureColumn, EnsureDefaultAdmin, AddColumn
  <1>5. x \in Seq(S) /\ y \in Seq(S) /\ z \in Seq(S) /\ t \in Seq(S)
    BY <1>2, <1>3, <1>4
  <1>6. /\ Len(y) = Len(x) + 2 /\ \A i \in 1..Len(x) : y[i] = x[i]
        /\ y[Len(x) + 1] = c /\ y[Len(x) + 2] = d
    BY <1>2, <1>3, <1>5, JoiningPair
  <1>7. /\ Len(z) = Len(y) + 2 /\ \A i \in 1..Len(y) : z[i] = y[i]
        /\ z[Len(y) + 1] = e /\ z[Len(y) + 2] = f
    BY <1>2, <1>3, <1>5, JoiningPair
  <1>8. Len(t) = Len(z) + 1 /\ (\A i \in 1..Len(z) : t[i] = z[i]) /\ t[Len(z) + 1] = g
    BY <1>2, <1>4, <1>5, JoiningOne
  <1>9. Len(x) = 2 /\ x[1] = a /\ x[2] = b
    BY <1>3
  <1>10. Len(y) = 4 /\ y[1] = a /\ y[2] = b /\ y[3] = c /\ y[4] = d
    BY <1>6, <1>9
  <1>11. /\ Len(z) = 6 /\ z[1] = a /\ z[2] = b /\ z[3] = c /\ z[4] = d
         /\ z[5] = e /\ z[6] = f
    BY <1>7, <1>10
  <1>12. /\ Len(t) = 7 /\ t[1] = a /\ t[2] = b /\ t[3] = c /\ t[4] = d
         /\ t[5] = e /\ t[6] = f /\ t[7] = g
    BY <1>8, <1>11
  <1> QED
    BY <1>1, <1>3, <1>5, <1>12, Zenon

-----------------------------------------------------------------------------
(* The rows that calls do not touch: those of the schema and the account.  *)
Sys(db)    == {r \in db : r[1] \notin Tables}
Created(t) == <<"tables", t, "created">>
Added(t)   == <<"columns", t, "added">>
Account(u, p) == <<"admin_users", u, p>>
SystemRows == {Created(t) : t \in Versioned} \union {Added(t) : t \in Versioned}
                \union {Account(u, p) : u \in Names, p \in Passwords}

(* They are the same inside and outside a transaction, a column comes with *)
(* its table, no name has two accounts, and what was found stays.          *)
SystemOK ==
    /\ Sys(work) = Sys(disk)
    /\ Sys(disk) \subseteq SystemRows
    /\ \A t \in Versioned : Added(t) \in disk => Created(t) \in disk
    /\ \A u \in Names, p, q \in Passwords : Account(u, p) \in disk /\ Account(u, q) \in disk => p = q
    /\ \A w \in Workers : Sys(found[w]) \subseteq disk

(* What is there once n statements of a boot under the name u have run.    *)
BootDone(n, u) ==
    /\ n >= 1 => Created("downstream_keys") \in disk
    /\ n >= 2 => Created("request_logs") \in disk
    /\ n >= 4 => Added("request_logs") \in disk
    /\ n >= 6 => Added("downstream_keys") \in disk
    /\ n >= 7 => \E p \in Passwords : Account(u, p) \in disk

BootOK(t, u, p) ==
    /\ t \in Seq(BootStatements(u, p)) /\ Len(t) <= 7
    /\ \A i \in 1..Len(t) : t[i] = BootProgram(u, p)[7 - Len(t) + i]
    /\ BootDone(7 - Len(t), u)

(* A call has left the end of its program to run.                          *)
StatementsOK(w) ==
    \/ call[w] = Nobody /\ todo[w] = <<>>
    \/ call[w] \in Calls /\ call[w].op # "boot" /\ (Alone(todo[w]) \/ Joined(todo[w]))
    \/ \E u \in Names, p \in Passwords : call[w] = Bootstrap(u, p) /\ BootOK(todo[w], u, p)

StoreInv ==
    /\ StoreTypeOK /\ SystemOK
    /\ DOMAIN todo = Workers /\ DOMAIN found = Workers
    /\ \A w \in Workers : StatementsOK(w)

LEMMA TablesMeaning ==
  /\ \A t \in Versioned : Created(t)[1] \notin Tables /\ Added(t)[1] \notin Tables
  /\ \A u, p : Account(u, p)[1] \notin Tables
  /\ \A db, t : Created(t) \in Sys(db) <=> Created(t) \in db
  /\ \A db, t : Added(t) \in Sys(db) <=> Added(t) \in db
  /\ \A db, u, p : Account(u, p) \in Sys(db) <=> Account(u, p) \in db
  BY DEF Created, Added, Account, Tables, Sys

(* A statement about data leaves the other rows alone.                     *)
LEMMA DataKeepsSystem ==
  ASSUME NEW s \in Data, NEW db
  PROVE  Sys(After(s, db)) = Sys(db)
  <1>1. \A x \in s.rows : x[1] \in Tables
    BY DEF Data, DataRows
  <1>2. \A r : Matches(r, s.rows) => r[1] \in Tables
    BY <1>1 DEF Matches
  <1> QED
    BY <1>1, <1>2 DEF After, Sys

(* What the ends of programs look like.                                    *)
LEMMA HeadOf ==
  ASSUME NEW S, NEW t \in Seq(S), t # <<>>
  PROVE  /\ Head(t) \in S /\ Head(t) = t[1] /\ t[Len(t)] \in S
         /\ Tail(t) \in Seq(S) /\ Len(t) \in Nat \ {0} /\ Len(Tail(t)) = Len(t) - 1
         /\ \A i \in 1..Len(t) - 1 : Tail(t)[i] = t[i + 1]
         /\ Tail(t) = <<>> => t[Len(t)] = Head(t)
         /\ Tail(t) # <<>> => Tail(t)[Len(Tail(t))] = t[Len(t)]
  <1>1. Len(t) \in Nat \ {0} /\ t[Len(t)] \in S
    OBVIOUS
  <1>2. Head(t) \in S /\ Head(t) = t[1]
    OBVIOUS
  <1>3. /\ Tail(t) \in Seq(S) /\ Len(Tail(t)) = Len(t) - 1
        /\ \A i \in 1..Len(t) - 1 : Tail(t)[i] = t[i + 1]
    OBVIOUS
  <1>4. Tail(t) = <<>> <=> Len(Tail(t)) = 0
    BY <1>3
  <1> QED
    BY <1>1, <1>2, <1>3, <1>4

LEMMA AloneRest ==
  ASSUME NEW t, Alone(t), t # <<>>
  PROVE  Alone(Tail(t)) /\ t[Len(t)] # Commit /\ Head(t) \in Data \union Queries
  <1>1. t[Len(t)] \in Data \union Queries /\ Head(t) \in Data \union Queries
        /\ Tail(t) \in Seq(Data \union Queries)
    BY HeadOf DEF Alone
  <1>2. Commit \notin Data \union Queries
    BY Kinds DEF Changes
  <1> QED
    BY <1>1, <1>2 DEF Alone

LEMMA JoinedRest ==
  ASSUME NEW t, Joined(t)
  PROVE  /\ Head(t) \in Data \union {Begin, Commit}
         /\ t # <<>> /\ t[Len(t)] = Commit
         /\ Head(t) # Commit => Joined(Tail(t))
         /\ Joined(Tail(t)) \/ Tail(t) = <<>>
  <1>1. /\ Head(t) \in Data \union {Begin, Commit}
        /\ Tail(t) \in Seq(Data \union {Begin, Commit})
        /\ Tail(t) = <<>> => t[Len(t)] = Head(t)
        /\ Tail(t) # <<>> => Tail(t)[Len(Tail(t))] = t[Len(t)]
    BY HeadOf DEF Joined
  <1> QED
    BY <1>1 DEF Joined

-----------------------------------------------------------------------------
(* What a boot has done stays done.                                        *)
LEMMA DoneStays ==
  ASSUME NEW n \in Int, NEW u, BootDone(n, u), Sys(disk) \subseteq disk'
  PROVE  BootDone(n, u)'
  <1>1. \A x : x[1] \notin Tables /\ x \in disk => x \in disk'
    BY DEF Sys
  <1>2. /\ Created("downstream_keys")[1] \notin Tables /\ Created("request_logs")[1] \notin Tables
        /\ Added("downstream_keys")[1] \notin Tables /\ Added("request_logs")[1] \notin Tables
        /\ \A p : Account(u, p)[1] \notin Tables
    BY DEF Created, Added, Account, Tables
  <1> QED
    BY <1>1, <1>2 DEF BootDone

(* A call that is not the one that moves keeps its place.                  *)
LEMMA OthersKeep ==
  ASSUME NEW v \in Workers, StatementsOK(v), Sys(disk) \subseteq disk',
         call'[v] = call[v], todo'[v] = todo[v]
  PROVE  StatementsOK(v)'
  <1>2. \A t, u, p : BootOK(t, u, p) => BootOK(t, u, p)'
    <2> SUFFICES ASSUME NEW t, NEW u, NEW p, BootOK(t, u, p) PROVE BootOK(t, u, p)'
      OBVIOUS
    <2>1. 7 - Len(t) \in Int
      BY DEF BootOK
    <2> QED
      BY <2>1, DoneStays, Zenon DEF BootOK
  <1> QED
    BY <1>2, Zenon DEF StatementsOK, Alone, Joined

LEMMA OthersKeepAll ==
  ASSUME StoreInv, NEW w, Sys(disk) \subseteq disk',
         \A v \in Workers \ {w} : call'[v] = call[v] /\ todo'[v] = todo[v]
  PROVE  \A v \in Workers \ {w} : StatementsOK(v)'
  BY OthersKeep DEF StoreInv

LEMMA StoreStarts ==
  ASSUME StoreInv, NEW w \in Workers, NEW c \in Calls, Start(w, c, Program(c))
  PROVE  StoreInv' /\ Sys(disk) \subseteq disk'
  <1> USE DEF Start, Idle
  <1>1. Sys(disk) \subseteq disk'
    BY DEF Sys
  <1>2. \A v \in Workers \ {w} : call'[v] = call[v] /\ todo'[v] = todo[v]
    BY DEF StoreInv, StoreTypeOK
  <1>3. call'[w] = c /\ todo'[w] = Program(c)
    BY DEF StoreInv, StoreTypeOK
  <1>4. SystemOK'
    BY DEF StoreInv, SystemOK
  <1>5. c # Nobody
    BY NobodyAssumption
  <1>6. StatementsOK(w)'
    <2>1. CASE c.op # "boot"
      BY <1>3, <2>1, ProgramsFit DEF StatementsOK, Alone, Joined
    <2>2. CASE c.op = "boot"
      <3>1. PICK u \in Names, p \in Passwords : c = Bootstrap(u, p)
        BY <2>2, CallsAssumption
        DEF AdminCalls, SignIn, Look, Add, Remove, Revoke, Record, Found, Verdict, Call
      <3>2. PICK t : t = Program(c)
        OBVIOUS
      <3>3. t = BootProgram(u, p)
        BY <3>1, <3>2 DEF Program, Bootstrap, Call
      <3>4. t \in Seq(BootStatements(u, p)) /\ Len(t) = 7
        BY <3>3, BootFits
      <3>5. BootDone(0, u)'
        BY DEF BootDone
      <3>6. BootOK(t, u, p)'
        <4>1. \A i \in 1..Len(t) : t[i] = BootProgram(u, p)[7 - Len(t) + i]
          BY <3>3, <3>4
        <4>2. BootDone(7 - Len(t), u)'
          BY <3>4, <3>5 DEF BootDone
        <4> QED
          BY <3>4, <4>1, <4>2 DEF BootOK
      <3> QED
        BY <1>3, <3>1, <3>2, <3>6 DEF StatementsOK
    <2> QED
      BY <2>1, <2>2
  <1>7. StoreTypeOK'
    <2>1. call' \in [Workers -> Calls \union {Nobody}]
      BY DEF StoreInv, StoreTypeOK
    <2>2. \A v \in Workers : todo'[v] # <<>> => call'[v] # Nobody
      BY <1>2, <1>3, <1>5 DEF StoreInv, StoreTypeOK
    <2>3. work # disk => conn \in Workers /\ conn # w
      BY DEF StoreInv, StoreTypeOK
    <2>4. work # disk => conn # Nobody /\ todo'[conn] = todo[conn]
      BY <1>2, <2>3, NobodyAssumption
    <2> QED
      BY <2>1, <2>2, <2>4 DEF StoreInv, StoreTypeOK, InTransaction
  <1>8. \A v \in Workers : StatementsOK(v)'
    BY <1>1, <1>2, <1>6, OthersKeepAll
  <1> QED
    BY <1>1, <1>4, <1>7, <1>8 DEF StoreInv

LEMMA StoreAcquires ==
  ASSUME StoreInv, NEW w \in Workers, Acquire(w)
  PROVE  StoreInv' /\ Sys(disk) \subseteq disk'
  <1>1. Sys(disk) \subseteq disk' /\ work = disk
    BY DEF Acquire, Sys, StoreInv, StoreTypeOK
  <1>2. \A v \in Workers : StatementsOK(v)'
    BY <1>1, OthersKeep DEF Acquire, StoreInv
  <1> QED
    BY <1>1, <1>2 DEF Acquire, StoreInv, StoreTypeOK, SystemOK, Idle

(* A call that ends leaves nothing to run.                                 *)
LEMMA StoreEnds ==
  ASSUME StoreInv, NEW w \in Workers, Succeed(w) \/ Fail(w)
  PROVE  StoreInv' /\ Sys(disk) \subseteq disk'
  <1>1. /\ Sys(disk) \subseteq disk' /\ disk' = disk
        /\ \A v \in Workers \ {w} : call'[v] = call[v] /\ todo'[v] = todo[v]
        /\ call'[w] = Nobody /\ todo'[w] = <<>>
    BY DEF Succeed, Fail, Sys, StoreInv, StoreTypeOK
  <1>2. \A v \in Workers : StatementsOK(v)'
    BY <1>1, OthersKeepAll DEF StatementsOK
  <1>3. SystemOK'
    <2>1. \A v \in Workers : found'[v] = {} \/ found'[v] = found[v]
      BY DEF Succeed, Fail, StoreInv
    <2>2. work' = work \/ work' = disk
      BY DEF Succeed, Fail
    <2> QED
      BY <1>1, <2>1, <2>2 DEF StoreInv, SystemOK, Sys
  <1>4. StoreTypeOK'
    <2>1. call' \in [Workers -> Calls \union {Nobody}] /\ conn' \in Workers \union {Nobody}
      BY DEF Succeed, Fail, StoreInv, StoreTypeOK
    <2>2. \A v \in Workers : todo'[v] # <<>> => ~Idle(v)'
      BY <1>1 DEF StoreInv, StoreTypeOK, Idle
    <2>3. SUFFICES ASSUME work' # disk'
                   PROVE  conn' # Nobody /\ todo'[conn'] # <<>> /\ InTransaction(conn)'
      BY <2>1, <2>2 DEF StoreTypeOK
    <2>4. work # disk /\ conn' = conn
      BY <2>3 DEF Succeed, Fail
    <2>5. conn \in Workers /\ todo[conn] # <<>> /\ InTransaction(conn)
      BY <2>4 DEF StoreInv, StoreTypeOK
    <2>6. conn # w
      BY <2>3, <2>5 DEF Succeed, Fail
    <2>7. todo'[conn'] = todo[conn]
      BY <1>1, <2>4, <2>5, <2>6
    <2> QED
      BY <2>4, <2>5, <2>7, NobodyAssumption DEF InTransaction
  <1> QED
    BY <1>1, <1>2, <1>3, <1>4 DEF StoreInv, Succeed, Fail

LEMMA StoreDies ==
  ASSUME StoreInv, Die
  PROVE  StoreInv' /\ Sys(disk) \subseteq disk'
  <1>1. \A v \in Workers : call'[v] = Nobody /\ todo'[v] = <<>> /\ found'[v] = {}
    BY DEF Die
  <1>2. \A v \in Workers : StatementsOK(v)'
    BY <1>1 DEF StatementsOK
  <1>3. SystemOK'
    BY <1>1 DEF Die, StoreInv, SystemOK, Sys
  <1>4. StoreTypeOK'
    BY <1>1 DEF Die, StoreTypeOK, Idle
  <1> QED
    BY <1>2, <1>3, <1>4 DEF Die, StoreInv, Sys

-----------------------------------------------------------------------------
(* The types after a statement of w that leaves the rest of its program.   *)
LEMMA RestTyped ==
  ASSUME StoreInv, NEW w \in Workers, conn = w, todo[w] # <<>>,
         Rest(w), call' = call, conn' \in {conn, Nobody}, DOMAIN found' = Workers,
         work' = disk' \/ (conn' = conn /\ Joined(Tail(todo[w])))
  PROVE  StoreTypeOK' /\ DOMAIN todo' = Workers /\ DOMAIN found' = Workers
  <1>1. /\ DOMAIN todo' = Workers /\ todo'[w] = Tail(todo[w])
        /\ \A v \in Workers \ {w} : todo'[v] = todo[v]
    BY DEF Rest, StoreInv
  <1>2. \A v \in Workers : todo'[v] # <<>> => ~Idle(v)'
    BY <1>1 DEF StoreInv, StoreTypeOK, Idle
  <1>3. work' # disk' => conn' # Nobody /\ todo'[conn'] # <<>> /\ InTransaction(conn)'
    BY <1>1, NobodyAssumption DEF Joined, InTransaction
  <1> QED
    BY <1>1, <1>2, <1>3 DEF StoreInv, StoreTypeOK

(* The program of a call whose next statement is about data, or begins,    *)
(* reads or commits.                                                       *)
LEMMA PlainRest ==
  ASSUME StoreInv, NEW w \in Workers, todo[w] # <<>>, Rest(w), call' = call,
         Alone(todo[w]) \/ Joined(todo[w]), call[w].op # "boot", call[w] # Nobody
  PROVE  StatementsOK(w)'
  <1>1. todo'[w] = Tail(todo[w]) /\ call[w] \in Calls
    BY DEF Rest, StoreInv, StoreTypeOK
  <1>2. Alone(<<>>)
    BY DEF Alone
  <1>3. Alone(Tail(todo[w])) \/ Joined(Tail(todo[w]))
    BY <1>2, AloneRest, JoinedRest
  <1> QED
    BY <1>1, <1>3, Zenon DEF StatementsOK, Alone, Joined

LEMMA StatementsOf ==
  ASSUME StoreInv, NEW w \in Workers, todo[w] # <<>>
  PROVE  /\ call[w] # Nobody
         /\ \/ call[w].op # "boot" /\ (Alone(todo[w]) \/ Joined(todo[w]))
            \/ \E u \in Names, p \in Passwords : call[w] = Bootstrap(u, p) /\ BootOK(todo[w], u, p)
  BY DEF StoreInv, StoreTypeOK, StatementsOK, Idle

(* A boot moves on by a statement of its own.                              *)
LEMMA BootRest ==
  ASSUME StoreInv, NEW w \in Workers, todo[w] # <<>>, Rest(w), call' = call,
         NEW u \in Names, NEW p \in Passwords, call[w] = Bootstrap(u, p), BootOK(todo[w], u, p),
         NEW n, n = 8 - Len(todo[w]), BootDone(n, u)'
  PROVE  StatementsOK(w)'
  <1>1. PICK t : t = todo[w]
    OBVIOUS
  <1>2. /\ t \in Seq(BootStatements(u, p)) /\ Len(t) <= 7
        /\ \A i \in 1..Len(t) : t[i] = BootProgram(u, p)[7 - Len(t) + i]
        /\ t # <<>>
    BY <1>1, Zenon DEF BootOK
  <1>9. Len(t) \in Nat \ {0}
    BY <1>2, HeadOf
  <1>3. PICK r : r = Tail(t)
    OBVIOUS
  <1>4. /\ r \in Seq(BootStatements(u, p)) /\ Len(r) = Len(t) - 1
        /\ \A i \in 1..Len(t) - 1 : r[i] = t[i + 1]
    BY <1>1, <1>2, <1>3, HeadOf
  <1>5. \A i \in 1..Len(r) : r[i] = BootProgram(u, p)[7 - Len(r) + i]
    <2> SUFFICES ASSUME NEW i \in 1..Len(r) PROVE r[i] = BootProgram(u, p)[7 - Len(r) + i]
      OBVIOUS
    <2>1. i \in 1..Len(t) - 1 /\ i + 1 \in 1..Len(t)
      BY <1>4, <1>9
    <2>2. r[i] = BootProgram(u, p)[7 - Len(t) + (i + 1)]
      BY <1>2, <1>4, <2>1
    <2>3. 7 - Len(t) + (i + 1) = 7 - Len(r) + i
      BY <1>4, <1>9, <2>1
    <2> QED
      BY <2>2, <2>3
  <1>6. n = 7 - Len(r) /\ Len(r) <= 7
    BY <1>1, <1>2, <1>4, <1>9
  <1>7. BootOK(r, u, p)'
    BY <1>1, <1>4, <1>5, <1>6, Zenon DEF BootOK
  <1>8. todo'[w] = r
    BY <1>1, <1>3 DEF Rest, StoreInv
  <1> QED
    BY <1>7, <1>8 DEF StatementsOK

(* What runs on its own finds no transaction open.                         *)
LEMMA NoneOpen ==
  ASSUME StoreInv, NEW w \in Workers, Runs(w),
         Alone(todo[w]) \/ \E u, p : BootOK(todo[w], u, p)
  PROVE  ~InTransaction(w) /\ work = disk
  <1>1. todo[w] # <<>> /\ conn = w
    BY DEF Runs
  <1>2. CASE Alone(todo[w])
    BY <1>1, <1>2, AloneRest DEF InTransaction, StoreInv, StoreTypeOK
  <1>3. CASE \E u, p : BootOK(todo[w], u, p)
    <2> PICK u, p : BootOK(todo[w], u, p)
      BY <1>3
    <2>1. todo[w][Len(todo[w])] \in BootStatements(u, p)
      BY <1>1, HeadOf DEF BootOK
    <2>2. todo[w][Len(todo[w])] # Commit
      BY <2>1, Kinds
    <2> QED
      BY <1>1, <2>2 DEF InTransaction, StoreInv, StoreTypeOK
  <1> QED
    BY <1>2, <1>3

(* Where a boot is tells its next statement.                               *)
LEMMA BootHead ==
  ASSUME NEW u, NEW p, NEW t, BootOK(t, u, p), t # <<>>
  PROVE  \E n \in 1..7 : /\ n = 8 - Len(t) /\ BootDone(n - 1, u)
                         /\ Head(t) = BootProgram(u, p)[n]
  <1>1. Len(t) \in Nat \ {0} /\ Head(t) = t[1]
    BY HeadOf DEF BootOK
  <1>2. PICK n : n = 8 - Len(t)
    OBVIOUS
  <1>3. n \in 1..7 /\ 7 - Len(t) = n - 1
    BY <1>1, <1>2 DEF BootOK
  <1>4. t[1] = BootProgram(u, p)[7 - Len(t) + 1] /\ BootDone(7 - Len(t), u)
    BY <1>1 DEF BootOK
  <1>5. 7 - Len(t) + 1 = n
    BY <1>1, <1>2
  <1> QED
    BY <1>1, <1>2, <1>3, <1>4, <1>5, Zenon

LEMMA BootReads ==
  ASSUME NEW u, NEW p, NEW n \in {3, 5}
  PROVE  BootProgram(u, p)[n].kind = "select"
  <1>1. PICK t : t = BootProgram(u, p)
    OBVIOUS
  <1>2. /\ t[3] = Select({<<"columns", "request_logs">>})
        /\ t[5] = Select({<<"columns", "downstream_keys">>})
    BY <1>1, BootFits
  <1>3. t[3].kind = "select" /\ t[5].kind = "select"
    BY <1>2 DEF Select
  <1> QED
    BY <1>1, <1>3

LEMMA BootKinds ==
  ASSUME NEW u, NEW p, NEW n \in {1, 2, 4, 6, 7}
  PROVE  BootProgram(u, p)[n].kind = "ensure"
  <1>1. PICK t : t = BootProgram(u, p)
    OBVIOUS
  <1>2. /\ t[1] = CreateTable("downstream_keys") /\ t[2] = CreateTable("request_logs")
        /\ t[4] = AddColumn("request_logs") /\ t[6] = AddColumn("downstream_keys")
        /\ t[7] = Ensure("admin_users", u, p)
    BY <1>1, BootFits
  <1>3. /\ t[1].kind = "ensure" /\ t[2].kind = "ensure" /\ t[4].kind = "ensure"
        /\ t[6].kind = "ensure" /\ t[7].kind = "ensure"
    BY <1>2 DEF CreateTable, AddColumn, Ensure
  <1> QED
    BY <1>1, <1>3

LEMMA StoreReads ==
  ASSUME StoreInv, NEW w \in Workers, Read(w)
  PROVE  StoreInv' /\ Sys(disk) \subseteq disk'
  <1>1. /\ Runs(w) /\ conn = w /\ todo[w] # <<>> /\ Rest(w) /\ call' = call
        /\ Head(todo[w]).kind \in {"select", "get"} /\ conn' = Nobody
        /\ disk' = disk /\ work' = work
    BY DEF Read, Runs
  <1>2. ~Joined(todo[w])
    <2>1. {"select", "get"} \intersect (Changes \union {"begin", "commit"}) = {}
      BY DEF Changes
    <2> QED
      BY <1>1, <2>1, JoinedRest, Kinds
  <1>3. work = disk
    BY <1>1, <1>2, StatementsOf, NoneOpen
  <1>4. StatementsOK(w)'
    <2>1. CASE call[w].op # "boot" /\ Alone(todo[w])
      BY <1>1, <2>1, StatementsOf, PlainRest
    <2>2. CASE \E u \in Names, p \in Passwords : call[w] = Bootstrap(u, p) /\ BootOK(todo[w], u, p)
      <3>1. PICK u \in Names, p \in Passwords : call[w] = Bootstrap(u, p) /\ BootOK(todo[w], u, p)
        BY <2>2
      <3>2. PICK n \in 1..7 : /\ n = 8 - Len(todo[w]) /\ BootDone(n - 1, u)
                              /\ Head(todo[w]) = BootProgram(u, p)[n]
        BY <1>1, <3>1, BootHead
      <3>3. n \in {3, 5}
        <4>1. BootProgram(u, p)[n].kind # "ensure"
          BY <1>1, <3>2
        <4>2. n \in {1, 2, 4, 6, 7} => BootProgram(u, p)[n].kind = "ensure"
          BY BootKinds
        <4> QED
          BY <4>1, <4>2, <3>2
      <3>4. BootDone(n, u)'
        BY <1>1, <3>2, <3>3 DEF BootDone
      <3> QED
        BY <1>1, <3>1, <3>2, <3>4, BootRest
    <2> QED
      BY <1>1, <1>2, <2>1, <2>2, StatementsOf
  <1>5. /\ Sys(disk) \subseteq disk'
        /\ \A v \in Workers \ {w} : call'[v] = call[v] /\ todo'[v] = todo[v]
    BY <1>1 DEF Sys, Rest, StoreInv
  <1>6. \A v \in Workers : StatementsOK(v)'
    BY <1>4, <1>5, OthersKeepAll
  <1>7. DOMAIN found' = Workers /\ SystemOK'
    <2>1. \A v \in Workers : found'[v] = found[v] \/ found'[v] \subseteq work
      BY DEF Read, StoreInv
    <2> QED
      BY <1>1, <1>3, <2>1 DEF Read, StoreInv, SystemOK, Sys
  <1>8. StoreTypeOK' /\ DOMAIN todo' = Workers
    BY <1>1, <1>3, <1>7, RestTyped
  <1> QED
    BY <1>5, <1>6, <1>7, <1>8 DEF StoreInv

(* A transaction begins or is committed.                                   *)
LEMMA StoreTransacts ==
  ASSUME StoreInv, NEW w \in Workers, BeginTx(w) \/ CommitTx(w)
  PROVE  StoreInv' /\ Sys(disk) \subseteq disk'
  <1>1. /\ Runs(w) /\ conn = w /\ todo[w] # <<>> /\ Rest(w) /\ call' = call
        /\ found' = found /\ work' = work
    BY DEF BeginTx, CommitTx, Runs
  <1>2. Head(todo[w]).kind \in {"begin", "commit"}
    BY Kinds DEF BeginTx, CommitTx
  <1>3. Joined(todo[w]) /\ call[w].op # "boot" /\ call[w] # Nobody
    <2>1. ~Alone(todo[w])
      BY <1>1, <1>2, AloneRest, Kinds DEF Changes
    <2>2. \A u, p : ~BootOK(todo[w], u, p)
      BY <1>1, <1>2, HeadOf, Kinds DEF BootOK
    <2> QED
      BY <1>1, <2>1, <2>2, StatementsOf
  <1>4. StatementsOK(w)'
    BY <1>1, <1>3, PlainRest
  <1>5. SystemOK' /\ Sys(disk) \subseteq disk'
    <2>1. disk' = disk \/ disk' = work
      BY DEF BeginTx, CommitTx
    <2>2. Sys(disk') = Sys(disk) /\ \A x \in Sys(disk) : x \in disk'
      BY <2>1 DEF StoreInv, SystemOK, Sys
    <2>3. \A t \in Versioned : /\ Created(t) \in disk <=> Created(t) \in disk'
                               /\ Added(t) \in disk <=> Added(t) \in disk'
      BY <2>2, TablesMeaning
    <2>4. \A u, p : Account(u, p) \in disk <=> Account(u, p) \in disk'
      BY <2>2, TablesMeaning
    <2>5. \A v \in Workers : Sys(found[v]) \subseteq disk'
      BY <2>2 DEF StoreInv, SystemOK, Sys
    <2> QED
      BY <1>1, <2>2, <2>3, <2>4, <2>5 DEF StoreInv, SystemOK
  <1>6. \A v \in Workers \ {w} : call'[v] = call[v] /\ todo'[v] = todo[v]
    BY <1>1 DEF Rest, StoreInv
  <1>7. \A v \in Workers : StatementsOK(v)'
    BY <1>4, <1>5, <1>6, OthersKeepAll
  <1>8. StoreTypeOK' /\ DOMAIN todo' = Workers /\ DOMAIN found' = Workers
    <2>1. CASE BeginTx(w)
      <3>1. conn' = conn /\ Joined(Tail(todo[w]))
        BY <1>3, <2>1, JoinedRest, Kinds DEF BeginTx
      <3> QED
        BY <1>1, <3>1, RestTyped DEF StoreInv
    <2>2. CASE CommitTx(w)
      BY <1>1, <2>2, RestTyped DEF CommitTx, StoreInv
    <2> QED
      BY <2>1, <2>2
  <1> QED
    BY <1>5, <1>7, <1>8 DEF StoreInv

(* What a boot writes is there then, and it writes nothing but what the    *)
(* server takes for the schema and the account.                            *)
LEMMA CreateWrites ==
  ASSUME SystemOK, NEW t \in Versioned, NEW db, db = After(CreateTable(t), disk)
  PROVE  /\ disk \subseteq db
         /\ db \subseteq disk \union {Created(t), Added(t)}
         /\ Created(t) \in db
         /\ Added(t) \in db \ disk => Created(t) \in db
  <1>1. CreateTable(t).kind = "ensure" /\ CreateTable(t).rows = {Created(t), Added(t)}
    BY DEF CreateTable, Created, Added
  <1>2. CASE Hits(CreateTable(t), disk)
    <2>1. PICK r \in disk : Matches(r, {Created(t), Added(t)})
      BY <1>1, <1>2 DEF Hits
    <2>2. r[1] \in {"tables", "columns"} /\ r[2] = t
      BY <2>1 DEF Matches, Created, Added
    <2>3. r \in SystemRows
      BY <2>2 DEF SystemOK, Sys, Tables
    <2>4. r = Created(t) \/ r = Added(t)
      BY <2>2, <2>3 DEF SystemRows, Created, Added, Account
    <2>5. Created(t) \in disk
      BY <2>1, <2>4 DEF SystemOK
    <2> QED
      BY <1>1, <1>2, <2>5 DEF After
  <1>3. CASE ~Hits(CreateTable(t), disk)
    BY <1>1, <1>3 DEF After
  <1> QED
    BY <1>2, <1>3

LEMMA ColumnWrites ==
  ASSUME SystemOK, NEW t \in Versioned, NEW db, db = After(AddColumn(t), disk)
  PROVE  disk \subseteq db /\ db \subseteq disk \union {Added(t)} /\ Added(t) \in db
  <1>1. AddColumn(t).kind = "ensure" /\ AddColumn(t).rows = {Added(t)}
    BY DEF AddColumn, Ensure, Added
  <1>2. CASE Hits(AddColumn(t), disk)
    <2>1. PICK r \in disk : Matches(r, {Added(t)})
      BY <1>1, <1>2 DEF Hits
    <2>2. r[1] = "columns" /\ r[2] = t
      BY <2>1 DEF Matches, Added
    <2>3. r \in SystemRows
      BY <2>2 DEF SystemOK, Sys, Tables
    <2>4. r = Added(t)
      BY <2>2, <2>3 DEF SystemRows, Created, Added, Account
    <2> QED
      BY <1>1, <1>2, <2>4 DEF After
  <1>3. CASE ~Hits(AddColumn(t), disk)
    BY <1>1, <1>3 DEF After
  <1> QED
    BY <1>2, <1>3

LEMMA AccountWrites ==
  ASSUME SystemOK, NEW u \in Names, NEW p \in Passwords,
         NEW db, db = After(Ensure("admin_users", u, p), disk)
  PROVE  /\ disk \subseteq db /\ db \subseteq disk \union {Account(u, p)}
         /\ \E q \in Passwords : Account(u, q) \in db
         /\ Account(u, p) \in db => \A q \in Passwords : Account(u, q) \in disk => q = p
  <1>1. PICK s : s = Ensure("admin_users", u, p)
    OBVIOUS
  <1>2. s.kind = "ensure" /\ s.rows = {Account(u, p)}
    BY <1>1 DEF Ensure, Account
  <1>3. CASE Hits(s, disk)
    <2>1. PICK r \in disk : Matches(r, {Account(u, p)})
      BY <1>2, <1>3 DEF Hits
    <2>2. r[1] = "admin_users" /\ r[2] = u
      BY <2>1 DEF Matches, Account
    <2>3. r \in SystemRows
      BY <2>2 DEF SystemOK, Sys, Tables
    <2>4. \E q \in Passwords : r = Account(u, q)
      BY <2>2, <2>3 DEF SystemRows, Created, Added, Account
    <2>5. db = disk
      BY <1>1, <1>2, <1>3 DEF After
    <2> QED
      BY <2>4, <2>5 DEF SystemOK
  <1>4. CASE ~Hits(s, disk)
    <2>1. db = disk \union {Account(u, p)}
      BY <1>1, <1>2, <1>4 DEF After
    <2>2. \A q : Account(u, q) \in disk => Matches(Account(u, q), {Account(u, p)})
      BY DEF Matches, Account
    <2>3. \A q : Account(u, q) \notin disk
      BY <1>2, <1>4, <2>2 DEF Hits
    <2> QED
      BY <2>1, <2>3
  <1> QED
    BY <1>3, <1>4

LEMMA BootWrites ==
  ASSUME SystemOK, NEW u \in Names, NEW p \in Passwords, NEW n \in {1, 2, 4, 6, 7}, BootDone(n - 1, u),
         work = disk, work' = disk', found' = found,
         disk' = After(BootProgram(u, p)[n], disk)
  PROVE  SystemOK' /\ Sys(disk) \subseteq disk' /\ BootDone(n, u)'
  <1>1. PICK t : t = BootProgram(u, p)
    OBVIOUS
  <1>2. /\ t[1] = CreateTable("downstream_keys") /\ t[2] = CreateTable("request_logs")
        /\ t[4] = AddColumn("request_logs") /\ t[6] = AddColumn("downstream_keys")
        /\ t[7] = Ensure("admin_users", u, p)
    BY <1>1, BootFits
  <1>3. /\ "downstream_keys" \in Versioned /\ "request_logs" \in Versioned
        /\ \A v \in Versioned : v \in {"downstream_keys", "request_logs"}
    BY DEF Versioned
  <1>4. n = 1 => /\ disk \subseteq disk' /\ Created("downstream_keys") \in disk'
                 /\ disk' \subseteq disk \union {Created("downstream_keys"), Added("downstream_keys")}
    BY <1>1, <1>2, <1>3, CreateWrites
  <1>5. n = 2 => /\ disk \subseteq disk' /\ Created("request_logs") \in disk'
                 /\ disk' \subseteq disk \union {Created("request_logs"), Added("request_logs")}
    BY <1>1, <1>2, <1>3, CreateWrites
  <1>6. n = 4 => /\ disk \subseteq disk' /\ Added("request_logs") \in disk'
                 /\ disk' \subseteq disk \union {Added("request_logs")}
    BY <1>1, <1>2, <1>3, ColumnWrites
  <1>7. n = 6 => /\ disk \subseteq disk' /\ Added("downstream_keys") \in disk'
                 /\ disk' \subseteq disk \union {Added("downstream_keys")}
    BY <1>1, <1>2, <1>3, ColumnWrites
  <1>8. n = 7 => /\ disk \subseteq disk' /\ disk' \subseteq disk \union {Account(u, p)}
                 /\ \E q \in Passwords : Account(u, q) \in disk'
                 /\ Account(u, p) \in disk' => \A q \in Passwords : Account(u, q) \in disk => q = p
    BY <1>1, <1>2, AccountWrites
  <1>9. disk \subseteq disk'
    BY <1>4, <1>5, <1>6, <1>7, <1>8
  <1>10. BootDone(n, u)'
    BY <1>4, <1>5, <1>6, <1>7, <1>8, <1>9 DEF BootDone
  <1>11. Sys(disk') \subseteq SystemRows
    <2>1. /\ Created("downstream_keys") \in SystemRows /\ Created("request_logs") \in SystemRows
          /\ Added("downstream_keys") \in SystemRows /\ Added("request_logs") \in SystemRows
          /\ Account(u, p) \in SystemRows
      BY <1>3 DEF SystemRows, Created, Added
    <2>2. disk' \subseteq disk \union SystemRows
      BY <1>4, <1>5, <1>6, <1>7, <1>8, <2>1
    <2> QED
      BY <2>2 DEF SystemOK, Sys
  <1>12. \A v \in Versioned : Added(v) \in disk' => Created(v) \in disk'
    <2> SUFFICES ASSUME NEW v \in Versioned, Added(v) \in disk', Added(v) \notin disk
                 PROVE  Created(v) \in disk'
      BY <1>9 DEF SystemOK
    <2>1. n = 7 => FALSE
      BY <1>8 DEF Added, Account
    <2>2. n \in {1, 6} => v = "downstream_keys"
      BY <1>4, <1>7 DEF Added, Created
    <2>3. n \in {2, 4} => v = "request_logs"
      BY <1>5, <1>6 DEF Added, Created
    <2>4. n = 1 => Created("downstream_keys") \in disk'
      BY <1>4
    <2>5. n = 2 => Created("request_logs") \in disk'
      BY <1>5
    <2>6. n = 4 => Created("request_logs") \in disk'
      BY <1>9 DEF BootDone
    <2>7. n = 6 => Created("downstream_keys") \in disk'
      BY <1>9 DEF BootDone
    <2> QED
      BY <2>1, <2>2, <2>3, <2>4, <2>5, <2>6, <2>7
  <1>13. \A v \in Names, q, r \in Passwords :
            Account(v, q) \in disk' /\ Account(v, r) \in disk' => q = r
    <2>1. n # 7 => \A v, q : Account(v, q) \in disk' => Account(v, q) \in disk
      BY <1>4, <1>5, <1>6, <1>7 DEF Account, Added, Created
    <2>2. n = 7 => \A v, q : Account(v, q) \in disk' =>
                     Account(v, q) \in disk \/ (v = u /\ q = p)
      BY <1>8 DEF Account
    <2>3. n = 7 => \A v \in Names, q \in Passwords : Account(v, q) \in disk' =>
                     \/ Account(v, q) \in disk /\ (v = u => Account(u, p) \notin disk')
                     \/ v = u /\ q = p
      BY <1>8, <2>2
    <2> QED
      BY <1>8, <2>1, <2>3 DEF SystemOK
  <1> QED
    BY <1>9, <1>10, <1>11, <1>12, <1>13 DEF SystemOK, Sys

(* A statement of the data leaves schema and account as they are.          *)
LEMMA DataWrites ==
  ASSUME SystemOK, NEW s \in Data, work' = After(s, work), found' = found,
         disk' \in {disk, work'}
  PROVE  SystemOK' /\ Sys(disk) \subseteq disk'
  <1>1. Sys(work') = Sys(disk)
    BY DataKeepsSystem DEF SystemOK
  <1>2. Sys(disk') = Sys(disk) /\ \A x \in Sys(disk) : x \in disk'
    BY <1>1 DEF Sys
  <1>3. \A t \in Versioned : /\ Created(t) \in disk <=> Created(t) \in disk'
                             /\ Added(t) \in disk <=> Added(t) \in disk'
    BY <1>2, TablesMeaning
  <1>4. \A u, p : Account(u, p) \in disk <=> Account(u, p) \in disk'
    BY <1>2, TablesMeaning
  <1>5. \A v \in Workers : Sys(found[v]) \subseteq disk'
    BY <1>2 DEF SystemOK, Sys
  <1> QED
    BY <1>1, <1>2, <1>3, <1>4, <1>5 DEF SystemOK

LEMMA StoreWrites ==
  ASSUME StoreInv, NEW w \in Workers, Write(w)
  PROVE  StoreInv' /\ Sys(disk) \subseteq disk'
  <1>1. PICK s : s = Head(todo[w])
    OBVIOUS
  <1>2. /\ Runs(w) /\ conn = w /\ todo[w] # <<>> /\ Rest(w) /\ call' = call
        /\ found' = found /\ work' = After(s, work)
        /\ s.kind \in {"insert", "ensure", "set", "count", "delete", "remove"}
    BY <1>1 DEF Write, Runs
  <1>3. \/ InTransaction(w) /\ disk' = disk /\ conn' = conn
        \/ ~InTransaction(w) /\ disk' = work' /\ conn' = Nobody
    BY DEF Write
  <1>4. ASSUME call[w].op # "boot" /\ (Alone(todo[w]) \/ Joined(todo[w]))
         PROVE  /\ SystemOK' /\ Sys(disk) \subseteq disk' /\ StatementsOK(w)'
                /\ work' = disk' \/ (conn' = conn /\ Joined(Tail(todo[w])))
    <2>1. s \in Data
      BY <1>1, <1>2, <1>4, AloneRest, JoinedRest, Kinds
    <2>2. SystemOK' /\ Sys(disk) \subseteq disk'
      BY <1>2, <1>3, <2>1, DataWrites DEF StoreInv
    <2>3. StatementsOK(w)'
      BY <1>2, <1>4, PlainRest, StatementsOf
    <2>4. work' = disk' \/ (conn' = conn /\ Joined(Tail(todo[w])))
      <3>1. CASE InTransaction(w)
        <4>1. Joined(todo[w])
          BY <1>2, <1>4, <3>1, AloneRest DEF InTransaction
        <4>2. s # Commit
          BY <1>2, Kinds
        <4> QED
          BY <1>1, <1>3, <3>1, <4>1, <4>2, JoinedRest
      <3>2. CASE ~InTransaction(w)
        BY <1>3, <3>2
      <3> QED
        BY <3>1, <3>2
    <2> QED
      BY <2>2, <2>3, <2>4
  <1>5. ASSUME \E u \in Names, p \in Passwords : call[w] = Bootstrap(u, p) /\ BootOK(todo[w], u, p)
         PROVE  /\ SystemOK' /\ Sys(disk) \subseteq disk' /\ StatementsOK(w)'
                /\ work' = disk' \/ (conn' = conn /\ Joined(Tail(todo[w])))
    <2>1. PICK u \in Names, p \in Passwords : call[w] = Bootstrap(u, p) /\ BootOK(todo[w], u, p)
      BY <1>5
    <2>2. ~InTransaction(w) /\ work = disk
      BY <1>2, <2>1, NoneOpen
    <2>3. PICK n \in 1..7 : /\ n = 8 - Len(todo[w]) /\ BootDone(n - 1, u)
                            /\ s = BootProgram(u, p)[n]
      BY <1>1, <1>2, <2>1, BootHead
    <2>4. n \in {1, 2, 4, 6, 7}
      <3>1. n \in {3, 5} => BootProgram(u, p)[n].kind = "select"
        BY BootReads
      <3> QED
        BY <1>2, <2>3, <3>1
    <2>5. SystemOK' /\ Sys(disk) \subseteq disk' /\ BootDone(n, u)'
      BY <1>2, <1>3, <2>2, <2>3, <2>4, BootWrites DEF StoreInv
    <2>6. StatementsOK(w)'
      BY <1>2, <2>1, <2>3, <2>5, BootRest
    <2> QED
      BY <1>3, <2>2, <2>5, <2>6
  <1>6. /\ SystemOK' /\ Sys(disk) \subseteq disk' /\ StatementsOK(w)'
        /\ work' = disk' \/ (conn' = conn /\ Joined(Tail(todo[w])))
    BY <1>2, <1>4, <1>5, StatementsOf, Zenon
  <1>7. \A v \in Workers \ {w} : call'[v] = call[v] /\ todo'[v] = todo[v]
    BY <1>2 DEF Rest, StoreInv
  <1>8. \A v \in Workers : StatementsOK(v)'
    BY <1>6, <1>7, OthersKeepAll
  <1>9. StoreTypeOK' /\ DOMAIN todo' = Workers /\ DOMAIN found' = Workers
    BY <1>2, <1>3, <1>6, RestTyped DEF StoreInv
  <1> QED
    BY <1>6, <1>8, <1>9 DEF StoreInv

-----------------------------------------------------------------------------
(* What the server does to the store is to run these programs.             *)
StoreStep ==
    \/ \E w \in Workers :
          \/ \E c \in Calls : Start(w, c, Program(c))
          \/ Acquire(w) \/ Statement(w) \/ Succeed(w) \/ Fail(w)
    \/ Die

LEMMA StoreKept ==
  ASSUME StoreInv, StoreStep \/ UNCHANGED storeVars
  PROVE  StoreInv' /\ Sys(disk) \subseteq disk'
  <1>1. CASE UNCHANGED storeVars
    <2>1. Sys(disk) \subseteq disk'
      BY <1>1 DEF storeVars, Sys
    <2>2. \A v \in Workers : StatementsOK(v)'
      BY <1>1, <2>1, OthersKeep DEF storeVars, StoreInv
    <2> QED
      BY <1>1, <2>1, <2>2
      DEF storeVars, StoreInv, StoreTypeOK, SystemOK, Idle, InTransaction
  <1>2. CASE StoreStep
    BY <1>2, StoreStarts, StoreAcquires, StoreReads, StoreTransacts, StoreWrites, StoreEnds,
       StoreDies DEF StoreStep, Statement
  <1> QED
    BY <1>1, <1>2

LEMMA CallPrograms ==
  /\ \A u \in Names, p \in Passwords :
        /\ Bootstrap(u, p) \in Calls
        /\ Program(Bootstrap(u, p)) = Migrate \o EnsureDefaultAdmin(u, p)
        /\ SignIn(u, p) \in Calls /\ Program(SignIn(u, p)) = Authenticate(u)
  /\ Look \in Calls /\ Program(Look) = TokenStats \o Overview
  /\ \A k \in Keys : Add(k) \in Calls /\ Program(Add(k)) = CreateKey(k)
  /\ \A k \in Keys : Remove(k) \in Calls /\ Program(Remove(k)) = DeleteKey(k)
  /\ \A d \in Tokens : Revoke(d) \in Calls /\ Program(Revoke(d)) = RevokeKey(d)
  /\ \A k \in Keys, v \in Verdicts :
        Verdict(k, v) \in Calls /\ Program(Verdict(k, v)) = MarkProbe(k, v)
  /\ \A k \in Keys, q \in Requests, d \in Presented :
        Record(k, q, d) \in Calls /\ Program(Record(k, q, d)) = InsertLog(k, q, d)
  /\ \A k \in Keys, ms \in ModelLists :
        Found(k, ms) \in Calls /\ Program(Found(k, ms)) = ReplaceForKey(k, ms)
  <1> USE CallsAssumption DEF Program, Call, BootProgram, AdminCalls
  <1>1. \A u \in Names, p \in Passwords :
          /\ Bootstrap(u, p) \in Calls
          /\ Program(Bootstrap(u, p)) = Migrate \o EnsureDefaultAdmin(u, p)
    BY DEF Bootstrap
  <1>2. \A u \in Names, p \in Passwords :
          SignIn(u, p) \in Calls /\ Program(SignIn(u, p)) = Authenticate(u)
    BY DEF SignIn
  <1>3. Look \in Calls /\ Program(Look) = TokenStats \o Overview
    BY DEF Look
  <1>4. \A k \in Keys : Add(k) \in Calls /\ Program(Add(k)) = CreateKey(k)
    BY DEF Add
  <1>5. \A k \in Keys : Remove(k) \in Calls /\ Program(Remove(k)) = DeleteKey(k)
    BY DEF Remove
  <1>6. \A k \in Keys, v \in Verdicts :
          Verdict(k, v) \in Calls /\ Program(Verdict(k, v)) = MarkProbe(k, v)
    BY DEF Verdict
  <1>7. \A k \in Keys, q \in Requests, d \in Presented :
          /\ Record(k, q, d) \in Calls
          /\ Program(Record(k, q, d)) = InsertLog(k, q, d)
    BY DEF Record
  <1>9. \A d \in Tokens : Revoke(d) \in Calls /\ Program(Revoke(d)) = RevokeKey(d)
    BY DEF Revoke
  <1>8. \A k \in Keys, ms \in ModelLists :
          Found(k, ms) \in Calls /\ Program(Found(k, ms)) = ReplaceForKey(k, ms)
    BY DEF Found
  <1> QED
    BY <1>1, <1>2, <1>3, <1>4, <1>5, <1>6, <1>7, <1>8, <1>9

LEMMA ServerStores == [Next]_vars => StoreStep \/ UNCHANGED storeVars
  <1> SUFFICES ASSUME Next PROVE StoreStep \/ UNCHANGED storeVars
    BY DEF vars, storeVars
  <1> USE DEF StoreStep
  <1>1. Starter \in Workers /\ Browsers \subseteq Workers /\ Requests \subseteq Workers
    BY WorkersAssumption
  <1>2. ASSUME NEW s, NEW u \in Names, NEW p \in Passwords, Boot(s, u, p) PROVE StoreStep
    BY <1>1, <1>2, CallPrograms, Zenon DEF Boot
  <1>3. CASE Close \/ Exit
    BY <1>3 DEF Close, Exit
  <1>4. ASSUME NEW w \in Workers,
               GetConnection(w) \/ Step(w) \/ Returns(w) \/ Refused(w) \/ Cancel(w)
        PROVE  StoreStep
    BY <1>1, <1>4 DEF GetConnection, Step, Returns, Finish, LoggedIn, Serve, Refused, Cancel
  <1>5. ASSUME NEW b \in Browsers,
               \/ \E u \in Names, p \in Passwords : Login(b, u, p)
               \/ Dashboard(b) \/ \E k \in Keys : AddKey(b, k) \/ RemoveKey(b, k)
               \/ \E d \in Tokens : RemoveToken(b, d)
        PROVE  StoreStep
    BY <1>1, <1>5, CallPrograms, Zenon DEF Login, Dashboard, AddKey, RemoveKey, RemoveToken
  <1>6. ASSUME NEW k \in Keys, \/ \E q \in Requests, d \in Presented : Log(q, k, d)
                               \/ \E v \in Verdicts : Mark(k, v)
                               \/ \E ms \in ModelLists : Probe(k, ms)
        PROVE  StoreStep
    BY <1>1, <1>6, CallPrograms, Zenon DEF Log, Mark, Probe
  <1>7. ASSUME NEW b \in Browsers, Logout(b) PROVE UNCHANGED storeVars
    BY <1>7 DEF Logout
  <1>8. ASSUME \E s \in Secrets, u \in Names, p \in Passwords : Boot(s, u, p) PROVE StoreStep
    BY <1>2, <1>8
  <1> QED
    BY <1>3, <1>4, <1>5, <1>6, <1>7, <1>8, Zenon DEF Next

-----------------------------------------------------------------------------
(* Every cookie was set by a login with the password of the account.       *)
CookieInv ==
    /\ SessionTypeOK
    /\ \A b \in Browsers : cookie[b] # NoCookie =>
          /\ cookie[b].exp = Second(cookie[b].born + TTL)
          /\ cookie[b].born <= clock
          /\ Account(cookie[b].name, cookie[b].by) \in disk

SessionStep ==
    \/ UNCHANGED sessionVars
    \/ \E b \in Browsers : \E u, p : SetCookie(b, u, p) /\ Account(u, p) \in found[b]
    \/ \E b \in Browsers : Clear(b)
    \/ \E s \in Secrets : Configure(s)
    \/ Tick

LEMMA ServerSessions == [Next]_vars => SessionStep
  <1> SUFFICES ASSUME Next PROVE SessionStep
    BY DEF vars, SessionStep
  <1> USE DEF SessionStep
  <1>1. ASSUME NEW s \in Secrets, NEW u, NEW p, Boot(s, u, p) PROVE SessionStep
    BY <1>1 DEF Boot
  <1>2. CASE Close \/ Exit
    BY <1>2 DEF Close, Exit
  <1>3. ASSUME NEW w \in Workers,
               GetConnection(w) \/ Step(w) \/ Finish(w) \/ Serve \/ Refused(w) \/ Cancel(w)
        PROVE  SessionStep
    BY <1>3 DEF GetConnection, Step, Finish, Serve, Refused, Cancel
  <1>4. ASSUME NEW b \in Browsers, LoggedIn(b) PROVE SessionStep
    BY <1>4 DEF LoggedIn, Account
  <1>5. ASSUME NEW b \in Browsers,
               \/ \E u \in Names, p \in Passwords : Login(b, u, p)
               \/ Dashboard(b) \/ \E k \in Keys : AddKey(b, k) \/ RemoveKey(b, k)
               \/ \E d \in Tokens : RemoveToken(b, d)
        PROVE  SessionStep
    BY <1>5 DEF Login, Dashboard, AddKey, RemoveKey, RemoveToken, Admit
  <1>6. ASSUME NEW k \in Keys, \/ \E q \in Requests, d \in Presented : Log(q, k, d)
                               \/ \E v \in Verdicts : Mark(k, v)
                               \/ \E ms \in ModelLists : Probe(k, ms)
        PROVE  SessionStep
    BY <1>6 DEF Log, Mark, Probe
  <1>7. ASSUME NEW b \in Browsers, Logout(b) \/ Expire(b) PROVE SessionStep
    BY <1>7 DEF Logout, Expire
  <1>8. ASSUME \E s \in Secrets, u \in Names, p \in Passwords : Boot(s, u, p) PROVE SessionStep
    BY <1>1, <1>8
  <1> QED
    BY <1>2, <1>3, <1>4, <1>5, <1>6, <1>7, <1>8 DEF Next, Returns

LEMMA CookiesKept ==
  ASSUME StoreInv, CookieInv, SessionStep, Sys(disk) \subseteq disk'
  PROVE  CookieInv'
  <1>1. \A u, p : Account(u, p) \in disk => Account(u, p) \in disk'
    BY TablesMeaning
  <1> USE DEF CookieInv, SessionTypeOK
  <1>2. CASE UNCHANGED sessionVars
    BY <1>1, <1>2 DEF sessionVars
  <1>3. ASSUME NEW b \in Browsers, NEW u, NEW p, SetCookie(b, u, p), Account(u, p) \in found[b]
        PROVE  CookieInv'
    <2>1. b \in Workers
      BY WorkersAssumption
    <2>2. Account(u, p) \in Sys(disk)
      BY <1>3, <2>1, TablesMeaning DEF StoreInv, SystemOK, Sys
    <2>3. u \in Names /\ p \in Passwords
      <3>1. Account(u, p) \in SystemRows
        BY <2>2 DEF StoreInv, SystemOK
      <3> QED
        BY <3>1 DEF SystemRows, Created, Added, Account
    <2>4. /\ Token(u, p) \in Cookie /\ Token(u, p).born = clock
          /\ Token(u, p).name = u /\ Token(u, p).by = p
          /\ Token(u, p).exp = Second(clock + TTL)
      <3>1. clock + TTL \in Nat
        BY TTLAssumption
      <3>2. Second(clock + TTL) \in Nat
        BY <3>1, SecondMeaning
      <3> QED
        BY <2>3, <3>2 DEF Token, Cookie
    <2>5. Account(u, p) \in disk'
      BY <1>1, <2>2 DEF Sys
    <2>6. /\ cookie' = [cookie EXCEPT ![b] = Token(u, p)] /\ clock' = clock /\ secret' = secret
      BY <1>3 DEF SetCookie
    <2>7. cookie'[b] = Token(u, p) /\ \A d \in Browsers \ {b} : cookie'[d] = cookie[d]
      BY <2>6
    <2>8. SessionTypeOK'
      BY <2>4, <2>6
    <2> HIDE DEF CookieInv, SessionTypeOK
    <2>9. \A d \in Browsers : cookie'[d] # NoCookie =>
            /\ cookie'[d].exp = Second(cookie'[d].born + TTL)
            /\ cookie'[d].born <= clock'
            /\ Account(cookie'[d].name, cookie'[d].by) \in disk'
      <3> SUFFICES ASSUME NEW d \in Browsers, cookie'[d] # NoCookie
                   PROVE  /\ cookie'[d].exp = Second(cookie'[d].born + TTL)
                          /\ cookie'[d].born <= clock'
                          /\ Account(cookie'[d].name, cookie'[d].by) \in disk'
        OBVIOUS
      <3>1. CASE d = b
        <4>1. clock \in Nat
          BY DEF CookieInv, SessionTypeOK
        <4> QED
          BY <3>1, <4>1, <2>4, <2>5, <2>6, <2>7
      <3>2. CASE d # b
        BY <1>1, <2>6, <2>7, <3>2 DEF CookieInv
      <3> QED
        BY <3>1, <3>2
    <2> QED
      BY <2>8, <2>9 DEF CookieInv, Second
  <1>4. ASSUME NEW b \in Browsers, Clear(b) PROVE CookieInv'
    BY <1>1, <1>4 DEF Clear
  <1>5. ASSUME NEW s \in Secrets, Configure(s) PROVE CookieInv'
    BY <1>1, <1>5 DEF Configure
  <1>6. CASE Tick
    <2>1. clock' = clock + 1 /\ secret' = secret /\ cookie' = cookie
      BY <1>6 DEF Tick
    <2>2. \A b \in Browsers : cookie[b] # NoCookie => cookie[b].born \in Nat
      BY DEF Cookie
    <2> QED
      BY <1>1, <2>1, <2>2
  <1> QED
    BY <1>2, <1>3, <1>4, <1>5, <1>6 DEF SessionStep

-----------------------------------------------------------------------------
(* Who may be calling in which phase, and that a boot is done before its   *)
(* process serves.                                                         *)
PhaseInv ==
    /\ phase \in {"down", "boot", "up", "closing"}
    /\ admin \in Names
    /\ used \subseteq Requests \union Keys \union Tokens
    /\ phase = "down" => \A w \in Workers : Idle(w)
    /\ phase = "boot" => /\ ~Idle(Starter) /\ call[Starter].op = "boot"
                         /\ call[Starter].key = admin
                         /\ \A w \in Workers \ {Starter} : Idle(w)
    /\ phase \in {"up", "closing"} => \E u : u = admin /\ BootDone(7, u)

ServerInv == StoreInv /\ CookieInv /\ PhaseInv

LEMMA PhaseStep ==
  ASSUME StoreInv, PhaseInv, [Next]_vars, Sys(disk) \subseteq disk'
  PROVE  PhaseInv'
  <1> USE DEF PhaseInv, Idle
  <1>1. \A u : BootDone(7, u) => BootDone(7, u)'
    BY DoneStays
  <1>2. CASE UNCHANGED vars
    BY <1>1, <1>2 DEF vars, storeVars, serverVars
  <1>3. /\ Starter \in Workers /\ Browsers \subseteq Workers /\ Requests \subseteq Workers
        /\ call \in [Workers -> Calls \union {Nobody}]
    BY WorkersAssumption DEF StoreInv, StoreTypeOK
  <1>4. ASSUME NEW s, NEW u \in Names, NEW p \in Passwords, Boot(s, u, p) PROVE PhaseInv'
    <2>1. Bootstrap(u, p) # Nobody /\ Bootstrap(u, p).op = "boot" /\ Bootstrap(u, p).key = u
      BY CallPrograms, NobodyAssumption DEF Bootstrap, Call
    <2> QED
      BY <1>3, <1>4, <2>1 DEF Boot, Start
  <1>5. CASE Serve
    <2>1. /\ todo[Starter] = <<>> /\ call[Starter] # Nobody /\ phase = "boot" /\ phase' = "up"
          /\ admin' = admin
      BY <1>5 DEF Serve, Succeed
    <2>2. PICK u, p : BootOK(todo[Starter], u, p) /\ u = admin
      BY <1>3, <2>1 DEF StoreInv, StatementsOK, Bootstrap, Call
    <2>3. BootDone(7, u)
      <3>1. PICK n : n = Len(todo[Starter])
        OBVIOUS
      <3>2. n = 0
        BY <2>1, <3>1
      <3>3. BootDone(7 - n, u)
        BY <2>2, <3>1 DEF BootOK
      <3> QED
        BY <3>2, <3>3
    <2> QED
      BY <1>1, <1>5, <2>1, <2>2, <2>3 DEF Serve
  <1>6. CASE Close
    BY <1>1, <1>6 DEF Close, storeVars
  <1>7. CASE Exit
    BY <1>7 DEF Exit, Die
  <1>8. ASSUME NEW w \in Workers, GetConnection(w) \/ Step(w) PROVE PhaseInv'
    BY <1>1, <1>8 DEF GetConnection, Acquire, Step, Statement, BeginTx, Read, Write, CommitTx, serverVars
  <1>9. ASSUME NEW w \in Workers, Finish(w) \/ LoggedIn(w) PROVE PhaseInv'
    <2>1. call[w] # Nobody /\ call[w].op # "boot"
      BY <1>9 DEF Finish, LoggedIn
    <2>2. phase \in {"up", "closing"}
      BY <1>3, <2>1
    <2> QED
      BY <1>1, <1>9, <2>2 DEF Finish, LoggedIn, Succeed, serverVars
  <1>10. ASSUME NEW w \in Workers, Refused(w) PROVE PhaseInv'
    BY <1>1, <1>10 DEF Refused, serverVars
  <1>11. ASSUME NEW w \in Workers, Cancel(w) PROVE PhaseInv'
    BY <1>1, <1>3, <1>11 DEF Cancel, Fail
  <1>12. ASSUME NEW b \in Browsers, NEW u, NEW p, Login(b, u, p) PROVE PhaseInv'
    BY <1>1, <1>12 DEF Login, serverVars
  <1>13. ASSUME NEW b \in Browsers, NEW k \in Keys, AddKey(b, k) \/ RemoveKey(b, k)
         PROVE  PhaseInv'
    BY <1>1, <1>13 DEF AddKey, RemoveKey, serverVars
  <1>14. ASSUME NEW b \in Browsers, Dashboard(b) PROVE PhaseInv'
    BY <1>1, <1>14 DEF Dashboard, serverVars
  <1>23. ASSUME NEW b \in Browsers, NEW d, RemoveToken(b, d) PROVE PhaseInv'
    BY <1>1, <1>23 DEF RemoveToken, serverVars
  <1>15. ASSUME NEW k \in Keys, NEW q \in Requests, NEW d, Log(q, k, d) PROVE PhaseInv'
    BY <1>1, <1>15 DEF Log
  <1>16. ASSUME NEW k \in Keys, (\E v \in Verdicts : Mark(k, v)) \/ \E ms \in ModelLists : Probe(k, ms) PROVE PhaseInv'
    BY <1>1, <1>16 DEF Mark, Probe, serverVars
  <1>17. ASSUME NEW b \in Browsers, Logout(b) PROVE PhaseInv'
    BY <1>1, <1>17 DEF Logout, storeVars, serverVars
  <1>18. CASE Tick /\ UNCHANGED <<storeVars, serverVars>>
    BY <1>1, <1>18 DEF storeVars, serverVars
  <1>19. ASSUME NEW w \in Workers, Returns(w) PROVE PhaseInv'
    BY <1>5, <1>9, <1>19 DEF Returns
  <1>20. ASSUME NEW w \in Workers,
                GetConnection(w) \/ Step(w) \/ Returns(w) \/ Refused(w) \/ Cancel(w)
         PROVE  PhaseInv'
    BY <1>8, <1>10, <1>11, <1>19, <1>20
  <1>21. ASSUME NEW b \in Browsers,
                \/ \E u \in Names, p \in Passwords : Login(b, u, p)
                \/ Dashboard(b) \/ Logout(b)
                \/ Expire(b) /\ UNCHANGED <<storeVars, serverVars>>
                \/ \E k \in Keys : AddKey(b, k) \/ RemoveKey(b, k)
                \/ \E d \in Tokens : RemoveToken(b, d)
         PROVE  PhaseInv'
    <2>1. CASE \E u \in Names, p \in Passwords : Login(b, u, p)
      BY <1>12, <2>1
    <2>2. CASE Dashboard(b)
      BY <1>14, <2>2
    <2>3. CASE Logout(b)
      BY <1>17, <2>3
    <2>5. CASE Expire(b) /\ UNCHANGED <<storeVars, serverVars>>
      BY <1>1, <2>5 DEF storeVars, serverVars
    <2>4. CASE \E k \in Keys : AddKey(b, k) \/ RemoveKey(b, k)
      BY <1>13, <2>4
    <2>6. CASE \E d \in Tokens : RemoveToken(b, d)
      BY <1>23, <2>6
    <2> QED
      BY <1>21, <2>1, <2>2, <2>3, <2>4, <2>5, <2>6, Zenon
  <1>22. ASSUME NEW k \in Keys, \/ \E q \in Requests, d \in Presented : Log(q, k, d)
                                \/ \E v \in Verdicts : Mark(k, v)
                                \/ \E ms \in ModelLists : Probe(k, ms)
         PROVE  PhaseInv'
    BY <1>15, <1>16, <1>22
  <1>24. ASSUME \E s \in Secrets, u \in Names, p \in Passwords : Boot(s, u, p) PROVE PhaseInv'
    BY <1>4, <1>24
  <1> QED
    BY <1>2, <1>6, <1>7, <1>18, <1>20, <1>21, <1>22, <1>24, Zenon DEF Next

LEMMA ServerInvInit == Init => ServerInv
  <1> SUFFICES ASSUME Init PROVE ServerInv
    OBVIOUS
  <1>1. Sys(disk) \subseteq {Created(t) : t \in Versioned}
    BY DEF Init, OldDisk, Sys, Created, Versioned, Tables
  <1>2. \A t \in Versioned : Added(t) \notin disk
    <2>1. \A r \in disk : r[1] = "tables" \/ r[1] \in Tables
      BY <1>1 DEF Sys, Created
    <2> QED
      BY <2>1 DEF Added, Tables
  <1>3. \A u, p : Account(u, p) \notin disk
    <2>1. \A r \in disk : r[1] = "tables" \/ r[1] \in Tables
      BY <1>1 DEF Sys, Created
    <2> QED
      BY <2>1 DEF Account, Tables
  <1>4. SystemOK
    BY <1>1, <1>2, <1>3 DEF Init, StoreInit, SystemOK, SystemRows, Sys
  <1>5. StoreInv
    BY <1>4 DEF Init, StoreInit, StoreInv, StoreTypeOK, StatementsOK, Idle
  <1>6. CookieInv
    BY DEF Init, SessionInit, CookieInv, SessionTypeOK
  <1>7. PhaseInv
    BY DEF Init, StoreInit, PhaseInv, Idle
  <1> QED
    BY <1>5, <1>6, <1>7 DEF ServerInv

LEMMA ServerInvStep == ServerInv /\ [Next]_vars => ServerInv'
  BY ServerStores, StoreKept, ServerSessions, CookiesKept, PhaseStep DEF ServerInv

LEMMA ServerInvariant == Spec => []ServerInv
  BY ServerInvInit, ServerInvStep, PTL DEF Spec

(* Whoever calls the store in which order, fails or dies: what the         *)
(* connection sees is the file, but for the transaction of its holder, and *)
(* nobody calls a process that is down.                                    *)
THEOREM TypeCorrect == Spec => []TypeOK
  <1>1. ServerInv => TypeOK
    BY DEF ServerInv, StoreInv, CookieInv, PhaseInv, TypeOK
  <1> QED
    BY <1>1, ServerInvariant, PTL

(* However often a start is cut short, and from whichever version: what    *)
(* is served has a complete schema, an account for the configured name and *)
(* at most one for every name, those of earlier starts included.           *)
THEOREM ServesWhenReady == Spec => []ReadyWhenUp
  <1>1. ServerInv => ReadyWhenUp
    <2> SUFFICES ASSUME ServerInv, phase \in {"up", "closing"}
                 PROVE  /\ \A t \in {"request_logs", "downstream_keys"} :
                              /\ <<"tables", t, "created">> \in disk
                              /\ <<"columns", t, "added">> \in disk
                        /\ \E p \in Passwords : <<"admin_users", admin, p>> \in disk
                        /\ \A u \in Names, p, other \in Passwords :
                              {<<"admin_users", u, p>>, <<"admin_users", u, other>>} \subseteq disk
                                  => p = other
      BY DEF ReadyWhenUp
    <2>1. BootDone(7, admin)
      BY DEF ServerInv, PhaseInv
    <2>2. \E p \in Passwords : <<"admin_users", admin, p>> \in disk
      BY <2>1 DEF BootDone, Account
    <2>3. \A u \in Names, p, other \in Passwords :
            Account(u, p) \in disk /\ Account(u, other) \in disk => p = other
      BY DEF ServerInv, StoreInv, SystemOK
    <2> QED
      BY <2>1, <2>2, <2>3 DEF BootDone, Created, Added, Account
  <1> QED
    BY <1>1, ServerInvariant, PTL

(* For every length of a session and of a second, a login lasts at least   *)
(* as long as configured, and no cookie a browser still sends is refused   *)
(* for its age.                                                            *)
THEOREM SessionsLastTheirTime == Spec => []SessionsLast
  <1>1. ServerInv => SessionsLast
    <2> SUFFICES ASSUME ServerInv, NEW b \in Browsers, cookie[b] # NoCookie,
                        cookie[b].secret = secret
                 PROVE  /\ clock <= cookie[b].born + TTL => Opens(cookie[b])
                        /\ clock < DropsAt(cookie[b]) => Opens(cookie[b])
      BY DEF SessionsLast
    <2>1. PICK n : n = cookie[b].born
      OBVIOUS
    <2>2. n \in Nat /\ clock \in Nat /\ TTL \in Nat /\ n + TTL \in Nat
      BY <2>1, TTLAssumption DEF ServerInv, CookieInv, SessionTypeOK, Cookie
    <2>3. cookie[b].exp = Second(n + TTL) /\ Second(n + TTL) \in Nat
      BY <2>1, <2>2, SecondMeaning DEF ServerInv, CookieInv
    <2>4. Opens(cookie[b]) <=> Second(clock) <= Second(n + TTL)
      BY <2>3 DEF Opens
    <2>5. clock <= n + TTL => Second(clock) <= Second(n + TTL)
      BY <2>2, SecondMonotone
    <2>6. clock < n + Second(TTL) * PerSecond => clock <= n + TTL
      <3>1. Second(TTL) * PerSecond <= TTL /\ Second(TTL) * PerSecond \in Nat
        BY <2>2, SecondMeaning, PerSecondAssumption
      <3> QED
        BY <2>2, <3>1
    <2>7. clock < Second(n + TTL) * PerSecond => Second(clock) <= Second(n + TTL)
      BY <2>2, <2>3, EndMeaning
    <2> QED
      BY <2>1, <2>4, <2>5, <2>6, <2>7 DEF DropsAt
  <1> QED
    BY <1>1, ServerInvariant, PTL

-----------------------------------------------------------------------------
(* Only a browser that is let in starts a call of the administrator.       *)
LEMMA AdminStarts ==
  ASSUME StoreInv, Next, NEW b \in Browsers, Idle(b), call'[b] \in AdminCalls
  PROVE  Opens(cookie[b])
  <1>1. /\ Starter \in Workers /\ b \in Workers /\ Requests \subseteq Workers
        /\ Browsers \subseteq Workers
        /\ call \in [Workers -> Calls \union {Nobody}]
    BY WorkersAssumption DEF StoreInv, StoreTypeOK
  <1>2. /\ call[b] = Nobody /\ Nobody \notin AdminCalls
        /\ \A c \in AdminCalls : c.op \in {"dashboard", "create", "delete", "revoke"}
    BY CallsAssumption, NobodyAssumption DEF Idle, AdminCalls, Look, Add, Remove, Revoke, Call
  <1>3. call'[b] # Nobody /\ call'[b] # call[b]
    BY <1>2
  <1>4. ASSUME NEW s, NEW u, NEW p, Boot(s, u, p) PROVE FALSE
    BY <1>1, <1>2, <1>3, <1>4 DEF Boot, Start, Bootstrap, Call
  <1>5. ASSUME NEW w \in Workers,
               GetConnection(w) \/ Step(w) \/ Returns(w) \/ Refused(w) \/ Cancel(w)
        PROVE  FALSE
    <2>1. call' = call \/ \E v : call' = [call EXCEPT ![v] = Nobody]
      BY <1>5 DEF GetConnection, Acquire, Step, Statement, BeginTx, Read, Write, CommitTx,
                  Returns, Finish, LoggedIn, Serve, Succeed, Refused, Cancel, Fail
    <2> QED
      BY <1>1, <1>3, <2>1
  <1>6. CASE Close \/ Exit
    BY <1>1, <1>3, <1>6 DEF Close, Exit, Die, storeVars
  <1>7. ASSUME NEW d \in Browsers, NEW u, NEW p, Login(d, u, p) PROVE FALSE
    BY <1>1, <1>2, <1>3, <1>7 DEF Login, Start, SignIn, Call
  <1>8. ASSUME NEW d \in Browsers, NEW k \in Keys, AddKey(d, k) \/ RemoveKey(d, k)
        PROVE  Opens(cookie[b])
    <2>1. Opens(cookie[d]) /\ \E c : call' = [call EXCEPT ![d] = c]
      BY <1>8 DEF AddKey, RemoveKey, Start, Admit
    <2> QED
      BY <1>1, <1>3, <2>1
  <1>14. ASSUME NEW d \in Browsers, NEW k, RemoveToken(d, k) PROVE Opens(cookie[b])
    <2>1. Opens(cookie[d]) /\ \E c : call' = [call EXCEPT ![d] = c]
      BY <1>14 DEF RemoveToken, Start, Admit
    <2> QED
      BY <1>1, <1>3, <2>1
  <1>9. ASSUME NEW d \in Browsers, Dashboard(d) PROVE Opens(cookie[b])
    <2>1. Opens(cookie[d]) /\ \E c : call' = [call EXCEPT ![d] = c]
      BY <1>9 DEF Dashboard, Start, Admit
    <2> QED
      BY <1>1, <1>3, <2>1
  <1>10. ASSUME NEW k \in Keys, \/ \E q \in Requests, d \in Presented : Log(q, k, d)
                                \/ \E v \in Verdicts : Mark(k, v)
                                \/ \E ms \in ModelLists : Probe(k, ms)
         PROVE  FALSE
    <2>1. ASSUME NEW q \in Requests, NEW d, Log(q, k, d) PROVE FALSE
      BY <1>1, <1>2, <1>3, <2>1 DEF Log, Start, Record, Call
    <2>2. ASSUME NEW v, Mark(k, v) PROVE FALSE
      BY <1>1, <1>2, <1>3, <2>2 DEF Mark, Start, Verdict, Call
    <2>3. ASSUME NEW ms \in ModelLists, Probe(k, ms) PROVE FALSE
      BY <1>1, <1>2, <1>3, <2>3 DEF Probe, Start, Found, Call
    <2> QED
      BY <1>10, <2>1, <2>2, <2>3
  <1>11. ASSUME NEW d \in Browsers, Logout(d) PROVE FALSE
    BY <1>3, <1>11 DEF Logout, storeVars
  <1>12. ASSUME UNCHANGED <<storeVars, serverVars>> PROVE FALSE
    BY <1>3, <1>12 DEF storeVars
  <1>13. ASSUME NEW d \in Browsers,
                \/ \E u \in Names, p \in Passwords : Login(d, u, p)
                \/ Dashboard(d) \/ Logout(d)
                \/ Expire(d) /\ UNCHANGED <<storeVars, serverVars>>
                \/ \E k \in Keys : AddKey(d, k) \/ RemoveKey(d, k)
                \/ \E k \in Tokens : RemoveToken(d, k)
         PROVE  Opens(cookie[b])
    <2>1. CASE \E u \in Names, p \in Passwords : Login(d, u, p)
      BY <1>7, <2>1
    <2>2. CASE Dashboard(d)
      BY <1>9, <2>2
    <2>3. CASE Logout(d)
      BY <1>11, <2>3
    <2>4. CASE Expire(d) /\ UNCHANGED <<storeVars, serverVars>>
      BY <1>12, <2>4
    <2>5. CASE \E k \in Keys : AddKey(d, k) \/ RemoveKey(d, k)
      BY <1>8, <2>5
    <2>6. CASE \E k \in Tokens : RemoveToken(d, k)
      BY <1>14, <2>6
    <2> QED
      BY <1>13, <2>1, <2>2, <2>3, <2>4, <2>5, <2>6, Zenon
  <1>15. ASSUME \E s \in Secrets, u \in Names, p \in Passwords : Boot(s, u, p) PROVE FALSE
    BY <1>4, <1>15
  <1> QED
    BY <1>5, <1>6, <1>10, <1>12, <1>13, <1>15, Zenon DEF Next

(* Whoever is let in has signed in, under the secret of this process, no   *)
(* longer ago than the TTL and a second, with the password that still is   *)
(* the one of the account, through every restart and reconfiguration.      *)
THEOREM AdmissionsEarned == Spec => AdmissionEarned
  <1> DEFINE Earned ==
        \A b \in Browsers :
          Idle(b) /\ call'[b] \in AdminCalls =>
              /\ cookie[b] # NoCookie
              /\ cookie[b].secret = secret
              /\ clock < cookie[b].born + TTL + PerSecond
              /\ <<"admin_users", cookie[b].name, cookie[b].by>> \in disk
  <1>1. ServerInv /\ [Next]_vars => [Earned]_vars
    <2> SUFFICES ASSUME ServerInv, Next, NEW b \in Browsers, Idle(b), call'[b] \in AdminCalls
                 PROVE  /\ cookie[b] # NoCookie
                        /\ cookie[b].secret = secret
                        /\ clock < cookie[b].born + TTL + PerSecond
                        /\ <<"admin_users", cookie[b].name, cookie[b].by>> \in disk
      OBVIOUS
    <2>1. cookie[b] # NoCookie /\ cookie[b].secret = secret /\ Second(clock) <= cookie[b].exp
      BY AdminStarts DEF Opens, ServerInv
    <2>2. PICK n : n = cookie[b].born + TTL
      OBVIOUS
    <2>3. cookie[b].exp = Second(n) /\ n \in Nat /\ clock \in Nat
      BY <2>1, <2>2, TTLAssumption DEF ServerInv, CookieInv, SessionTypeOK, Cookie
    <2>4. /\ Second(clock) \in Nat /\ Second(n) \in Nat /\ PerSecond \in Nat
          /\ clock < Second(clock) * PerSecond + PerSecond /\ Second(n) * PerSecond <= n
      BY <2>3, SecondMeaning, PerSecondAssumption
    <2>5. Second(clock) <= Second(n)
      BY <2>1, <2>3
    <2>6. Second(clock) * PerSecond <= Second(n) * PerSecond
      BY <2>4, <2>5
    <2>7. clock < n + PerSecond
      BY <2>3, <2>4, <2>6
    <2> QED
      BY <2>1, <2>2, <2>7 DEF ServerInv, CookieInv, Account
  <1> QED
    BY <1>1, ServerInvariant, PTL DEF Spec, AdmissionEarned

-----------------------------------------------------------------------------
(* Who holds the connection has a statement to run on it, and who may be   *)
(* waiting for which answer.                                               *)
HolderInv == conn # Nobody => todo[conn] # <<>>

CallerInv ==
    \A w \in Workers : ~Idle(w) =>
        /\ call[w].op = "login" => w \in Browsers
        /\ call[w].op = "boot" => w = Starter /\ phase = "boot"

(* A transaction has a statement left until it is committed.               *)
LEMMA TransactionLeft ==
  ASSUME StoreInv, NEW w \in Workers, todo[w] # <<>>, Head(todo[w]) # Commit,
         InTransaction(w) \/ Head(todo[w]) = Begin
  PROVE  Tail(todo[w]) # <<>>
  <1>1. ASSUME NEW u, NEW p, BootOK(todo[w], u, p) PROVE FALSE
    <2>1. /\ Head(todo[w]) \in BootStatements(u, p)
          /\ todo[w][Len(todo[w])] \in BootStatements(u, p)
      BY <1>1, HeadOf DEF BootOK
    <2> QED
      BY <2>1, Kinds DEF InTransaction
  <1>2. ASSUME Alone(todo[w]) PROVE FALSE
    <2>1. Begin \notin Data \union Queries
      BY Kinds DEF Changes
    <2> QED
      BY <1>2, <2>1, AloneRest DEF InTransaction
  <1>3. Joined(todo[w])
    BY <1>1, <1>2, StatementsOf
  <1> QED
    BY <1>3, JoinedRest DEF Joined

LEMMA HolderStep ==
  ASSUME StoreInv, HolderInv, StoreStep \/ UNCHANGED storeVars
  PROVE  HolderInv'
  <1> USE NobodyAssumption DEF HolderInv
  <1>1. CASE UNCHANGED storeVars
    BY <1>1 DEF storeVars
  <1>2. DOMAIN todo = Workers /\ conn \in Workers \union {Nobody}
    BY DEF StoreInv, StoreTypeOK
  <1>3. ASSUME NEW w \in Workers, NEW c, NEW t, Start(w, c, t) PROVE HolderInv'
    <2>1. todo[w] = <<>> /\ conn' = conn /\ todo' = [todo EXCEPT ![w] = t]
      BY <1>3 DEF Start, Idle, StoreInv, StoreTypeOK
    <2> QED
      BY <1>2, <2>1
  <1>4. ASSUME NEW w \in Workers, Acquire(w) PROVE HolderInv'
    BY <1>4 DEF Acquire
  <1>5. ASSUME NEW w \in Workers, BeginTx(w) PROVE HolderInv'
    <2>1. conn' = conn /\ conn = w /\ todo[w] # <<>> /\ Head(todo[w]) = Begin
          /\ todo'[w] = Tail(todo[w])
      BY <1>2, <1>5 DEF BeginTx, Runs, Rest
    <2>2. Begin # Commit
      BY Kinds
    <2> QED
      BY <2>1, <2>2, TransactionLeft
  <1>6. ASSUME NEW w \in Workers, Read(w) \/ CommitTx(w) PROVE HolderInv'
    BY <1>6 DEF Read, CommitTx
  <1>7. ASSUME NEW w \in Workers, Write(w) PROVE HolderInv'
    <2>1. conn = w /\ todo[w] # <<>> /\ Head(todo[w]) # Commit /\ todo'[w] = Tail(todo[w])
      BY <1>2, <1>7, Kinds DEF Write, Runs, Rest
    <2>2. CASE InTransaction(w)
      BY <1>7, <2>1, <2>2, TransactionLeft DEF Write
    <2>3. CASE ~InTransaction(w)
      BY <1>7, <2>3 DEF Write
    <2> QED
      BY <2>2, <2>3
  <1>8. ASSUME NEW w \in Workers, Succeed(w) \/ Fail(w) PROVE HolderInv'
    <2>1. CASE conn = w
      BY <1>8, <2>1 DEF Succeed, Fail
    <2>2. CASE conn # w
      BY <1>2, <1>8, <2>2 DEF Succeed, Fail
    <2> QED
      BY <2>1, <2>2
  <1>9. CASE Die
    BY <1>9 DEF Die
  <1> QED
    BY <1>1, <1>3, <1>4, <1>5, <1>6, <1>7, <1>8, <1>9 DEF StoreStep, Statement

(* A call is made by who makes such calls.                                 *)
LEMMA CallerStep ==
  ASSUME StoreInv, PhaseInv, CallerInv, [Next]_vars
  PROVE  CallerInv'
  <1> USE DEF Idle
  <1>1. /\ Starter \in Workers /\ Browsers \subseteq Workers /\ Requests \subseteq Workers
        /\ call \in [Workers -> Calls \union {Nobody}]
    BY WorkersAssumption DEF StoreInv, StoreTypeOK
  <1>2. ASSUME call' = call \/ (\E w : call' = [call EXCEPT ![w] = Nobody]),
               phase' = phase \/ (\A w \in Workers : call[w] # Nobody => call[w].op # "boot")
        PROVE  CallerInv'
    BY <1>1, <1>2 DEF CallerInv
  <1>3. ASSUME NEW w \in Workers, NEW c, call' = [call EXCEPT ![w] = c], phase' = phase,
               c.op \notin {"login", "boot"} \/ (c.op = "login" /\ w \in Browsers)
        PROVE  CallerInv'
    BY <1>1, <1>3 DEF CallerInv
  <1>4. phase # "boot" => \A w \in Workers : call[w] # Nobody => call[w].op # "boot"
    BY DEF CallerInv
  <1>5. CASE UNCHANGED vars
    BY <1>2, <1>5 DEF vars, storeVars, serverVars
  <1>6. ASSUME NEW s, NEW u, NEW p, Boot(s, u, p) PROVE CallerInv'
    <2>1. Bootstrap(u, p).op = "boot" /\ \A w \in Workers : call[w] = Nobody
      BY <1>6 DEF Boot, Bootstrap, Call, PhaseInv
    <2>2. call' = [call EXCEPT ![Starter] = Bootstrap(u, p)] /\ phase' = "boot"
      BY <1>6 DEF Boot, Start
    <2> QED
      BY <1>1, <2>1, <2>2 DEF CallerInv
  <1>7. CASE Serve
    <2>1. call' = [call EXCEPT ![Starter] = Nobody] /\ phase = "boot" /\ phase' = "up"
      BY <1>7 DEF Serve, Succeed
    <2>2. \A w \in Workers : call'[w] = Nobody
      BY <1>1, <2>1 DEF PhaseInv
    <2> QED
      BY <2>2 DEF CallerInv
  <1>8. CASE Close
    <2>1. phase = "up" /\ call' = call
      BY <1>8 DEF Close, storeVars
    <2> QED
      BY <1>2, <1>4, <2>1
  <1>9. CASE Exit
    BY <1>9 DEF Exit, Die, CallerInv
  <1>10. ASSUME NEW w \in Workers, GetConnection(w) \/ Step(w) \/ Finish(w) \/ LoggedIn(w) \/ Refused(w)
         PROVE  CallerInv'
    <2>1. phase' = phase
      BY <1>10 DEF GetConnection, Step, Finish, LoggedIn, Refused, serverVars
    <2>2. call' = call \/ call' = [call EXCEPT ![w] = Nobody]
      BY <1>10 DEF GetConnection, Acquire, Step, Statement, BeginTx, Read, Write, CommitTx,
                   Finish, LoggedIn, Succeed, Refused, Fail
    <2> QED
      BY <1>2, <2>1, <2>2
  <1>11. ASSUME NEW w \in Workers, Cancel(w) PROVE CallerInv'
    <2>1. call' = [call EXCEPT ![w] = Nobody] /\ call[w] # Nobody
      BY <1>11 DEF Cancel, Fail
    <2>2. CASE phase # "boot"
      BY <1>2, <1>11, <2>1, <2>2 DEF Cancel
    <2>3. CASE phase = "boot"
      <3>1. \A v \in Workers : call'[v] = Nobody
        BY <1>1, <2>1, <2>3 DEF PhaseInv
      <3> QED
        BY <3>1 DEF CallerInv
    <2> QED
      BY <2>2, <2>3
  <1>12. ASSUME NEW b \in Browsers, NEW u, NEW p, Login(b, u, p) PROVE CallerInv'
    <2>1. call' = [call EXCEPT ![b] = SignIn(u, p)] /\ phase' = phase /\ SignIn(u, p).op = "login"
      BY <1>12 DEF Login, Start, serverVars, SignIn, Call
    <2> QED
      BY <1>1, <1>3, <2>1
  <1>13. ASSUME NEW b \in Browsers, NEW k, AddKey(b, k) \/ RemoveKey(b, k) PROVE CallerInv'
    <2>1. PICK c \in {Add(k), Remove(k)} : call' = [call EXCEPT ![b] = c]
      BY <1>13 DEF AddKey, RemoveKey, Start
    <2>3. c.op \in {"create", "delete"}
      BY <2>1 DEF Add, Remove, Call
    <2>2. phase' = phase
      BY <1>13 DEF AddKey, RemoveKey, serverVars
    <2> QED
      BY <1>1, <1>3, <2>1, <2>2, <2>3
  <1>14. ASSUME NEW b \in Browsers, Dashboard(b) PROVE CallerInv'
    <2>1. call' = [call EXCEPT ![b] = Look] /\ phase' = phase /\ Look.op = "dashboard"
      BY <1>14 DEF Dashboard, Start, serverVars, Look, Call
    <2> QED
      BY <1>1, <1>3, <2>1
  <1>19. ASSUME NEW b \in Browsers, NEW d, RemoveToken(b, d) PROVE CallerInv'
    <2>1. /\ call' = [call EXCEPT ![b] = Revoke(d)] /\ phase' = phase
          /\ Revoke(d).op = "revoke"
      BY <1>19 DEF RemoveToken, Start, serverVars, Revoke, Call
    <2> QED
      BY <1>1, <1>3, <2>1
  <1>15. ASSUME NEW k \in Keys, \/ \E q \in Requests, d \in Presented : Log(q, k, d)
                                \/ \E v \in Verdicts : Mark(k, v)
                                \/ \E ms \in ModelLists : Probe(k, ms)
         PROVE  CallerInv'
    <2>1. PICK w \in Workers :
            \E c : call' = [call EXCEPT ![w] = c] /\ c.op \in {"log", "mark", "replace"}
      BY <1>1, <1>15 DEF Log, Mark, Probe, Start, Record, Verdict, Found, Call
    <2>2. phase' = phase
      BY <1>15 DEF Log, Mark, Probe, serverVars
    <2> QED
      BY <1>3, <2>1, <2>2
  <1>16. ASSUME UNCHANGED <<storeVars, serverVars>> PROVE CallerInv'
    BY <1>2, <1>16 DEF storeVars, serverVars
  <1>17. ASSUME NEW b \in Browsers,
                \/ \E u \in Names, p \in Passwords : Login(b, u, p)
                \/ Dashboard(b) \/ Logout(b)
                \/ Expire(b) /\ UNCHANGED <<storeVars, serverVars>>
                \/ \E k \in Keys : AddKey(b, k) \/ RemoveKey(b, k)
                \/ \E d \in Tokens : RemoveToken(b, d)
         PROVE  CallerInv'
    <2>1. CASE Logout(b)
      BY <1>16, <2>1 DEF Logout
    <2> QED
      BY <1>12, <1>13, <1>14, <1>16, <1>17, <1>19, <2>1, Zenon
  <1>18. ASSUME NEW w \in Workers,
                GetConnection(w) \/ Step(w) \/ Returns(w) \/ Refused(w) \/ Cancel(w)
         PROVE  CallerInv'
    BY <1>7, <1>10, <1>11, <1>18, Zenon DEF Returns
  <1>20. ASSUME \E s \in Secrets, u \in Names, p \in Passwords : Boot(s, u, p) PROVE CallerInv'
    BY <1>6, <1>20
  <1> QED
    BY <1>5, <1>8, <1>9, <1>15, <1>16, <1>17, <1>18, <1>20, Zenon DEF Next

LEMMA GoInvariant == Spec => [](ServerInv /\ HolderInv /\ CallerInv)
  <1>1. Init => ServerInv /\ HolderInv /\ CallerInv
    BY ServerInvInit DEF Init, StoreInit, HolderInv, CallerInv, Idle
  <1>2. ServerInv /\ HolderInv /\ CallerInv /\ [Next]_vars
          => (ServerInv /\ HolderInv /\ CallerInv)'
    BY ServerInvStep, ServerStores, HolderStep, CallerStep DEF ServerInv
  <1> QED
    BY <1>1, <1>2, PTL DEF Spec

(* However many call whom, leave, fail and are shut down: the connection   *)
(* is never kept by a call that has ended or that waits for it, so that    *)
(* one of those still waiting for an answer can always go on.              *)
THEOREM NeverStuck == Spec => []SomeoneGoesOn
  <1>1. ServerInv /\ HolderInv /\ CallerInv => SomeoneGoesOn
    <2> SUFFICES ASSUME ServerInv, HolderInv, CallerInv, NEW w \in Workers, ~Idle(w)
                 PROVE  \E v \in Workers : MayGoOn(v)
      BY DEF SomeoneGoesOn
    <2>1. StoreInv /\ PhaseInv /\ conn \in Workers \union {Nobody} /\ Nobody \notin Workers
      BY NobodyAssumption DEF ServerInv, StoreInv, StoreTypeOK
    <2>2. CASE conn # Nobody
      <3>1. conn \in Workers /\ todo[conn] # <<>>
        BY <2>1, <2>2 DEF HolderInv
      <3>2. Head(todo[conn]).kind \in
              {"begin", "commit", "select", "get", "insert", "ensure", "set", "count",
               "delete", "remove"}
        <4>1. CASE Alone(todo[conn])
          BY <3>1, <4>1, AloneRest, Kinds DEF Changes
        <4>2. CASE Joined(todo[conn])
          BY <3>1, <4>2, JoinedRest, Kinds DEF Changes
        <4>3. ASSUME NEW u, NEW p, BootOK(todo[conn], u, p)
              PROVE  Head(todo[conn]).kind \in {"ensure", "select"}
          BY <3>1, <4>3, HeadOf, Kinds DEF BootOK
        <4> QED
          BY <2>1, <3>1, <4>1, <4>2, <4>3, StatementsOf
      <3> QED
        BY <3>1, <3>2 DEF MayGoOn, Runs
    <2>3. CASE conn = Nobody /\ todo[w] # <<>>
      BY <2>1, <2>3 DEF MayGoOn
    <2>4. CASE conn = Nobody /\ todo[w] = <<>>
      <3>1. call[w] \in Calls /\ call[w].op = "login" => w \in Browsers
        BY DEF CallerInv
      <3>2. call[w] \in Calls /\ (call[w].op = "boot" => w = Starter /\ phase = "boot")
        BY <2>1 DEF CallerInv, StoreInv, StoreTypeOK, Idle
      <3>3. call[w].op \in {"login", "dashboard", "create", "delete", "revoke", "log",
                            "replace", "mark", "boot"}
        BY <3>2, CallsAssumption
        DEF AdminCalls, SignIn, Look, Add, Remove, Revoke, Record, Found, Verdict, Bootstrap,
            Call
      <3> QED
        BY <2>4, <3>1, <3>2, <3>3 DEF MayGoOn
    <2> QED
      BY <2>1, <2>2, <2>3, <2>4
  <1> QED
    BY <1>1, GoInvariant, PTL

(* What the call of w has left to do: a statement, and to wait for the     *)
(* connection before it, and to return.                                    *)
Pending(w) ==
    IF Idle(w) THEN 0 ELSE 2 * Len(todo[w]) + (IF conn = w THEN 1 ELSE 2)

(* An open call never has more to do than it had, and less after each step *)
(* of its own.                                                             *)
CallAdvances(w) ==
    /\ Idle(w) \/ Pending(w)' <= Pending(w)
    /\ GetConnection(w) \/ Step(w) \/ Returns(w) \/ Refused(w) \/ Cancel(w)
          => Pending(w)' < Pending(w)

LEMMA ProgramLength ==
  ASSUME StoreInv, NEW w \in Workers
  PROVE  /\ Len(todo[w]) \in Nat
         /\ todo[w] # <<>> => Len(todo[w]) > 0 /\ Len(Tail(todo[w])) = Len(todo[w]) - 1
  <1>1. \E S : todo[w] \in Seq(S)
    <2>1. CASE todo[w] = <<>>
      BY <2>1
    <2>2. CASE todo[w] # <<>>
      BY <2>2 DEF StoreInv, StatementsOK, Alone, Joined, BootOK
    <2> QED
      BY <2>1, <2>2
  <1>2. PICK S : todo[w] \in Seq(S)
    BY <1>1
  <1>3. Len(todo[w]) \in Nat
    BY <1>2
  <1> QED
    BY <1>2, <1>3, HeadOf

LEMMA PendingNatural ==
  ASSUME StoreInv, NEW w \in Workers
  PROVE  Pending(w) \in Nat /\ (~Idle(w) => Pending(w) > 0)
  <1>1. PICK n \in Nat : n = Len(todo[w])
    BY ProgramLength
  <1>2. CASE Idle(w)
    BY <1>2 DEF Pending
  <1>3. CASE ~Idle(w) /\ conn = w
    <2>1. Pending(w) = 2 * n + 1
      BY <1>1, <1>3 DEF Pending
    <2> QED
      BY <1>3, <2>1
  <1>4. CASE ~Idle(w) /\ conn # w
    <2>1. Pending(w) = 2 * n + 2
      BY <1>1, <1>4 DEF Pending
    <2> QED
      BY <1>4, <2>1
  <1> QED
    BY <1>2, <1>3, <1>4

(* A step of the call of w takes it one statement or one wait further, or  *)
(* ends it.                                                                *)
LEMMA OwnStepAdvances ==
  ASSUME StoreInv, NEW w \in Workers,
         Acquire(w) \/ Statement(w) \/ Succeed(w) \/ Fail(w)
  PROVE  Pending(w)' \in Nat /\ Pending(w)' < Pending(w)
  <1>1. /\ call \in [Workers -> Calls \union {Nobody}] /\ DOMAIN todo = Workers
        /\ Nobody \notin Workers
        /\ todo[w] # <<>> => ~Idle(w)
    BY NobodyAssumption DEF StoreInv, StoreTypeOK
  <1>2. PICK n \in Nat :
          /\ n = Len(todo[w])
          /\ todo[w] # <<>> => n > 0 /\ Len(Tail(todo[w])) = n - 1
    BY ProgramLength
  <1>3. CASE Acquire(w)
    <2>1. ~Idle(w) /\ conn # w /\ conn' = w /\ call' = call /\ todo' = todo
      BY <1>1, <1>3, Zenon DEF Acquire
    <2>2. Pending(w) = 2 * n + 2
      BY <1>2, <2>1 DEF Pending
    <2>3. Pending(w)' = 2 * n + 1
      BY <1>2, <2>1 DEF Pending, Idle
    <2> QED
      BY <2>2, <2>3
  <1>4. CASE Statement(w)
    <2>1. /\ todo[w] # <<>> /\ conn = w /\ call' = call /\ todo'[w] = Tail(todo[w])
      BY <1>1, <1>4 DEF Statement, BeginTx, Read, Write, CommitTx, Runs, Rest
    <2>2. Pending(w) = 2 * n + 1
      BY <1>1, <1>2, <2>1 DEF Pending
    <2>3. Pending(w)' \in {2 * (n - 1) + 1, 2 * (n - 1) + 2}
      <3>1. call'[w] # Nobody /\ Len(todo'[w]) = n - 1
        BY <1>1, <1>2, <2>1 DEF Idle
      <3> QED
        BY <3>1 DEF Pending, Idle
    <2> QED
      BY <1>2, <2>1, <2>2, <2>3
  <1>5. CASE Succeed(w) \/ Fail(w)
    <2>1. ~Idle(w) /\ call'[w] = Nobody
      BY <1>1, <1>5 DEF Succeed, Fail
    <2> QED
      BY <2>1, PendingNatural DEF Pending, Idle
  <1> QED
    BY <1>3, <1>4, <1>5

(* The call of w does not notice the steps of others.                      *)
LEMMA OthersStepKeeps ==
  ASSUME StoreInv, NEW w \in Workers, ~Idle(w), NEW v \in Workers, v # w,
         \/ Acquire(v) \/ Statement(v) \/ Succeed(v) \/ Fail(v)
         \/ \E c, t : Start(v, c, t)
  PROVE  Pending(w)' = Pending(w)
  <1>1. DOMAIN todo = Workers /\ DOMAIN call = Workers /\ Nobody \notin Workers
    BY NobodyAssumption DEF StoreInv, StoreTypeOK
  <1>2. call'[w] = call[w] /\ todo'[w] = todo[w]
    BY <1>1 DEF Acquire, Statement, BeginTx, Read, Write, CommitTx, Runs, Rest, Succeed, Fail, Start
  <1>3. conn' = w <=> conn = w
    BY <1>1 DEF Acquire, Statement, BeginTx, Read, Write, CommitTx, Runs, Rest, Succeed, Fail, Start
  <1> QED
    BY <1>2, <1>3 DEF Pending, Idle

LEMMA CallAdvance ==
  ASSUME StoreInv, [Next]_vars, NEW w \in Workers
  PROVE  CallAdvances(w)
  <1>1. GetConnection(w) \/ Step(w) \/ Returns(w) \/ Refused(w) \/ Cancel(w)
            => Pending(w)' < Pending(w)
    BY OwnStepAdvances DEF GetConnection, Step, Returns, Finish, LoggedIn, Serve, Refused, Cancel
  <1>2. ASSUME ~Idle(w) PROVE Pending(w)' <= Pending(w)
    <2>1. Pending(w) \in Nat /\ Pending(w) > 0
      BY <1>2, PendingNatural
    <2>2. CASE UNCHANGED storeVars
      <3>1. call' = call /\ todo' = todo /\ conn' = conn
        BY <2>2 DEF storeVars
      <3>2. Pending(w)' = Pending(w)
        BY <3>1 DEF Pending, Idle
      <3> QED
        BY <2>1, <3>2
    <2>3. CASE Die
      <3>1. call'[w] = Nobody
        BY <2>3 DEF Die
      <3>2. Pending(w)' = 0
        BY <3>1 DEF Pending, Idle
      <3> QED
        BY <2>1, <3>2
    <2>4. ASSUME NEW v \in Workers,
                 \/ Acquire(v) \/ Statement(v) \/ Succeed(v) \/ Fail(v)
                 \/ \E c, t : Start(v, c, t)
          PROVE  Pending(w)' <= Pending(w)
      <3>1. CASE v # w
        BY <1>2, <2>1, <2>4, <3>1, OthersStepKeeps
      <3>2. CASE v = w
        <4>1. Acquire(w) \/ Statement(w) \/ Succeed(w) \/ Fail(w)
          BY <1>2, <2>4, <3>2 DEF Start
        <4> QED
          BY <2>1, <4>1, OwnStepAdvances
      <3> QED
        BY <3>1, <3>2
    <2> QED
      BY <2>2, <2>3, <2>4, ServerStores DEF StoreStep
  <1> QED
    BY <1>1, <1>2 DEF CallAdvances

(* No call of the store goes round in circles, nor can another set it      *)
(* back: each of its steps takes from a natural number that nothing adds   *)
(* to before it has returned.  With NeverStuck, calls can only last while  *)
(* new ones keep coming.                                                   *)
THEOREM CallsRunOut ==
  /\ Spec => [](\A w \in Workers : Pending(w) \in Nat)
  /\ Spec => [][\A w \in Workers : CallAdvances(w)]_vars
  <1>1. ServerInv => StoreInv
    BY DEF ServerInv
  <1>2. StoreInv => \A w \in Workers : Pending(w) \in Nat
    BY PendingNatural
  <1>3. StoreInv /\ [Next]_vars => [\A w \in Workers : CallAdvances(w)]_vars
    BY CallAdvance
  <1> QED
    BY <1>1, <1>2, <1>3, ServerInvariant, PTL DEF Spec
=============================================================================
