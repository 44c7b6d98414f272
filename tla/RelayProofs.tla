----------------------------- MODULE RelayProofs -----------------------------
(* What Relay guarantees for every set of requests and of chunks, and      *)
(* streams of any length.                                                  *)
EXTENDS Relay, GatewayProofs, SequenceTheorems

-----------------------------------------------------------------------------
(* Each step of the relay is one of the gateway, or none.                  *)

(* What r does on its own, with its upstream and its client.               *)
Acts(r) == Runs(r) \/ Writes(r) \/ Upstream(r) \/ Client(r)

LEMMA ActsStep ==
  ASSUME NEW r \in Requests, Acts(r)
  PROVE  Step(r) \/ Outside(r) \/ UNCHANGED gatewayVars
  <1>1. CASE Runs(r)
    BY <1>1 DEF Runs, StartStream, ReadFails, LogUsage, Return, Step, Outside
  <1>2. CASE Writes(r)
    BY <1>2 DEF Writes, Write, WriteFails, Step, Outside
  <1>3. CASE Upstream(r)
    BY <1>3 DEF Upstream, Connect, ReadEnd, ReadChunk, ReadWhole, ReadAnswer, Outside
  <1>4. CASE Client(r)
    BY <1>4 DEF Client, Outside
  <1> QED
    BY <1>1, <1>2, <1>3, <1>4 DEF Acts

LEMMA RelayStep == [RelayNext]_vars => [Next]_gatewayVars
  <1> SUFFICES ASSUME [RelayNext]_vars PROVE [Next]_gatewayVars
    OBVIOUS
  <1>1. CASE \E r \in Requests : Acts(r)
    BY <1>1, ActsStep DEF Next
  <1>2. CASE \/ \E k \in Keys : DeleteKey(k)
             \/ \E p \in Probers : ProbeMark(p)
             \/ Restart \/ Tick
    BY <1>2 DEF Next, World
  <1>3. CASE UNCHANGED vars
    BY <1>3 DEF vars
  <1> QED
    BY <1>1, <1>2, <1>3 DEF RelayNext, Acts

(* The relay implements the gateway: what is proved of Gateway holds of it *)
(* with streams, their chunks, and clients that hold up their writes.      *)
THEOREM RelayImplementsGateway == RelaySpec => ImplementsGateway
  <1>1. RelayInit => Init
    BY DEF RelayInit
  <1> QED
    BY <1>1, RelayStep, PTL DEF RelaySpec, ImplementsGateway, Spec

(* So beside streams, fallbacks and clients that hold up their writes, the *)
(* counters stay exact, cooldowns and deletions are respected, the log     *)
(* tells what happened, no key is cooled but by its upstream, and requests *)
(* find what they need to go on.                                           *)
THEOREM GatewayCarriesOver ==
  RelaySpec => /\ []TypeOK /\ []InflightExact
               /\ []CooldownRespected /\ []DeletedNeverUsed /\ []LogFaithful
               /\ OnlyVerdictsCool /\ []NoDeadEnd
  <1>1. RelaySpec => Spec
    BY RelayImplementsGateway DEF ImplementsGateway
  <1> QED
    BY <1>1, GatewayTyped, SlotsExact, CooldownsRespected, DeletedKeysUnused, LogsTell,
       VerdictsOnly, RequestsGoOn

-----------------------------------------------------------------------------
(* What a client gets of a stream.                                         *)

ClosedPcs == {"log", "mark", "marking", "answer", "leave"}

(* The items that make the whole stream, as far as it was read.            *)
Stream(l, s) == IF l = "events" THEN Append(s, Done) ELSE Fallback

(* All that is written begins the stream, what is queued comes next.       *)
Begins(w, s) == Len(w) <= Len(s) /\ \A i \in 1..Len(w) : w[i] = s[i]
Continues(q, w, s) ==
    /\ Len(w) + Len(q) <= Len(s)
    /\ \A i \in 1..Len(q) : q[i] = s[Len(w) + i]

(* What was answered, once the upstream is done with.                      *)
Answered(r) ==
    /\ reply[r].outcome \in {"ok", "error"}
    /\ reply[r].outcome = "ok" => /\ written[r] # <<>>
                                  /\ reply[r].answer \in {"ok", "partial"}
                                  /\ r \notin gone => reply[r].answer = "ok"
    /\ reply[r].outcome = "error" =>
          \/ /\ written[r] = <<>>
             /\ reply[r].answer = IF At(r, "leave") THEN "error" ELSE "none"
          \/ /\ reply[r].answer = "partial"
             /\ written[r] # <<>> \/ r \in gone

RelayTyped ==
    /\ link \in [Requests -> {"none", "events", "whole"}]
    /\ queue \in [Requests -> Seq(Item)]
    /\ sent \in [Requests -> Seq(Item)]
    /\ written \in [Requests -> Seq(Item)]

LinkInv(r) ==
    /\ pc[r] \in RoutingPcs \cup {"new"} => reply[r].answer = "none"
    /\ pc[r] \notin HoldingPcs => link[r] = "none"
    /\ link[r] = "none" => sent[r] = <<>>
    /\ link[r] = "none" \/ ~reply[r].stream => queue[r] = <<>> /\ written[r] = <<>>
    /\ link[r] = "events" =>
          reply[r].stream /\ \A i \in 1..Len(sent[r]) : sent[r][i].kind = "chunk"

StreamInv(r) ==
    reply[r].stream /\ pc[r] \in HoldingPcs =>
        LET s == Stream(link[r], sent[r]) IN
        /\ Begins(written[r], s) /\ Continues(queue[r], written[r], s)
        /\ reply[r].outcome = "ok" <=> Len(written[r]) = Len(s)
        /\ Open(r) /\ link[r] # "none" =>
              Len(written[r]) + Len(queue[r]) >= IF link[r] = "events" THEN Len(sent[r]) ELSE 3
        /\ pc[r] \in ClosedPcs => queue[r] = <<>> /\ Answered(r)
        /\ At(r, "upstream") => written[r] = <<>> /\ reply[r].answer = "none"
        /\ At(r, "streaming") => /\ reply[r].answer = "partial" /\ link[r] # "none"
                                 /\ written[r] # <<>> \/ queue[r] # <<>>

RelayInv == RequestInv /\ RelayTyped /\ \A r \in Requests : LinkInv(r) /\ StreamInv(r)

(* [DONE] ends the stream and is nowhere else in it.                       *)
LEMMA ItemsTyped == /\ Done \in Item /\ Fallback \in Seq(Item) /\ Len(Fallback) = 3
                    /\ \A u \in Report : Full(u) \in Item
                    /\ \A c \in Chunks : c \in Item /\ c.kind = "chunk" /\ c.usage \in Report
  <1>1. Nothing \in Report
    BY DEF Nothing, Report
  <1>2. \A k \in Kinds : Plain(k) \in Item
    BY <1>1 DEF Plain, Item
  <1>3. Plain("role") \in Item /\ Plain("stop") \in Item /\ Plain("done") \in Item
    BY <1>2 DEF Kinds
  <1> QED
    BY <1>3, ChunksAssumption DEF Done, Fallback, Full, Item, Kinds

LEMMA StreamFacts ==
  ASSUME NEW l, NEW s \in Seq(Item), l = "events" => \A i \in 1..Len(s) : s[i].kind = "chunk",
         NEW t, t = Stream(l, s)
  PROVE  /\ t \in Seq(Item) /\ Len(t) \in Nat \ {0}
         /\ \A i \in 1..Len(t) : t[i] = Done <=> i = Len(t)
         /\ l = "events" => Len(t) = Len(s) + 1 /\ \A i \in 1..Len(s) : t[i] = s[i]
  <1>1. CASE l = "events"
    <2>1. t = Append(s, Done)
      BY <1>1 DEF Stream
    <2>2. t \in Seq(Item) /\ Len(t) = Len(s) + 1 /\ t[Len(t)] = Done
          /\ \A i \in 1..Len(s) : t[i] = s[i]
      BY <2>1, ItemsTyped
    <2>3. \A i \in 1..Len(s) : t[i] # Done
      BY <1>1, <2>2 DEF Done, Plain
    <2> QED
      BY <2>2, <2>3
  <1>2. CASE l # "events"
    <2>1. t = Fallback
      BY <1>2 DEF Stream
    <2>2. t[1] # Done /\ t[2] # Done /\ t[3] = Done
      BY <2>1 DEF Fallback, Done, Plain
    <2>3. Len(t) = 3 /\ t \in Seq(Item)
      BY <2>1, ItemsTyped
    <2> QED
      BY <1>2, <2>2, <2>3
  <1> QED
    BY <1>1, <1>2

(* An item is written.                                                     *)
LEMMA WriteOne ==
  ASSUME NEW w \in Seq(Item), NEW q \in Seq(Item), NEW s \in Seq(Item), q # <<>>,
         Begins(w, s), Continues(q, w, s), NEW h, h = Head(q)
  PROVE  /\ Append(w, h) \in Seq(Item) /\ Tail(q) \in Seq(Item) /\ h \in Item
         /\ Len(Append(w, h)) = Len(w) + 1 /\ Len(Tail(q)) = Len(q) - 1
         /\ h = s[Len(w) + 1] /\ Len(w) + 1 <= Len(s)
         /\ Begins(Append(w, h), s) /\ Continues(Tail(q), Append(w, h), s)
  <1>1. Len(q) \in Nat \ {0} /\ h = q[1] /\ h \in Item /\ Len(w) \in Nat /\ Len(s) \in Nat
    OBVIOUS
  <1>2. h = s[Len(w) + 1] /\ Len(w) + 1 <= Len(s)
    BY <1>1 DEF Continues
  <1>3. PICK v : v = Append(w, h)
    OBVIOUS
  <1>4. v \in Seq(Item) /\ Len(v) = Len(w) + 1 /\ v[Len(w) + 1] = h /\ \A i \in 1..Len(w) : v[i] = w[i]
    BY <1>1, <1>3
  <1>5. PICK t : t = Tail(q)
    OBVIOUS
  <1>6. t \in Seq(Item) /\ Len(t) = Len(q) - 1 /\ \A i \in 1..Len(t) : t[i] = q[i + 1]
    BY <1>1, <1>5
  <1>7. Begins(v, s)
    BY <1>1, <1>2, <1>4 DEF Begins
  <1>8. Continues(t, v, s)
    <2>1. Len(v) + Len(t) <= Len(s)
      BY <1>1, <1>4, <1>6 DEF Continues
    <2>2. ASSUME NEW i \in 1..Len(t) PROVE t[i] = s[Len(v) + i]
      <3>1. i + 1 \in 1..Len(q) /\ t[i] = q[i + 1] /\ Len(w) + (i + 1) = Len(v) + i
        BY <1>1, <1>4, <1>6
      <3>2. q[i + 1] = s[Len(w) + (i + 1)]
        BY <3>1 DEF Continues
      <3> QED
        BY <3>1, <3>2
    <2> QED
      BY <2>1, <2>2 DEF Continues
  <1> QED
    BY <1>1, <1>2, <1>3, <1>4, <1>5, <1>6, <1>7, <1>8

-----------------------------------------------------------------------------
(* The others keep what they have.                                         *)
Same(q) == /\ link'[q] = link[q] /\ queue'[q] = queue[q]
           /\ sent'[q] = sent[q] /\ written'[q] = written[q]

LEMMA RelayKept ==
  ASSUME NEW q \in Requests, LinkInv(q), StreamInv(q), Same(q), pc'[q] = pc[q],
         reply'[q] = reply[q], gone \subseteq gone'
  PROVE  LinkInv(q)' /\ StreamInv(q)'
  <1> USE DEF Same, At
  <1>1. LinkInv(q)'
    BY DEF LinkInv
  <1>2. Answered(q) => Answered(q)'
    BY DEF Answered
  <1>3. Open(q)' <=> Open(q)
    BY DEF Open
  <1>4. StreamInv(q)'
    BY <1>2, <1>3 DEF StreamInv
  <1> QED
    BY <1>1, <1>4

(* Nothing is relayed of a request that is not in flight.                  *)
LEMMA NoneRelayed ==
  ASSUME NEW r \in Requests, pc'[r] \notin HoldingPcs, link'[r] = "none",
         queue'[r] = <<>>, sent'[r] = <<>>, written'[r] = <<>>,
         pc'[r] \in RoutingPcs \cup {"new"} => reply'[r].answer = "none"
  PROVE  LinkInv(r)' /\ StreamInv(r)'
  BY DEF LinkInv, StreamInv

LEMMA TypedStep ==
  ASSUME RelayTyped, [RelayNext]_vars
  PROVE  RelayTyped'
  <1> USE DEF RelayTyped
  <1>1. ASSUME NEW r \in Requests, Runs(r) PROVE RelayTyped'
    <2>1. CASE UNCHANGED relayVars
      BY <2>1 DEF relayVars
    <2>2. CASE LogUsage(r)
      BY <2>2 DEF LogUsage
    <2>3. CASE Return(r)
      BY <2>3 DEF Return, Forget
    <2> QED
      BY <1>1, <2>1, <2>2, <2>3 DEF Runs, StartStream, ReadFails
  <1>2. ASSUME NEW r \in Requests, Writes(r) PROVE RelayTyped'
    <2>1. CASE Write(r)
      <3>1. queue[r] \in Seq(Item) /\ queue[r] # <<>> /\ written[r] \in Seq(Item)
        BY <2>1 DEF Write, Writing
      <3>2. Append(written[r], Head(queue[r])) \in Seq(Item) /\ Tail(queue[r]) \in Seq(Item)
        BY <3>1
      <3> QED
        BY <2>1, <3>2 DEF Write
    <2>2. CASE WriteFails(r)
      BY <2>2 DEF WriteFails
    <2>3. CASE Answer(r) /\ UNCHANGED relayVars
      BY <2>3 DEF relayVars
    <2> QED
      BY <1>2, <2>1, <2>2, <2>3 DEF Writes
  <1>3. ASSUME NEW r \in Requests, Upstream(r) PROVE RelayTyped'
    <2> USE ItemsTyped
    <2>1. CASE Connect(r)
      BY <2>1 DEF Connect
    <2>2. CASE ReadEnd(r)
      BY <2>2 DEF ReadEnd
    <2>3. ASSUME NEW c \in Chunks, ReadChunk(r, c) PROVE RelayTyped'
      <3>1. c \in Item /\ <<c>> \in Seq(Item) /\ Append(sent[r], c) \in Seq(Item)
        OBVIOUS
      <3> QED
        BY <2>3, <3>1 DEF ReadChunk
    <2>4. ASSUME NEW p \in Providers, NEW u \in Usages, ReadWhole(r, p, u) \/ ReadAnswer(r, p, u)
          PROVE  RelayTyped'
      <3>1. u \in Report
        BY DEF Usages
      <3>2. <<Full(u)>> \in Seq(Item)
        BY <3>1
      <3> QED
        BY <2>4, <3>2 DEF ReadWhole, ReadAnswer
    <2> QED
      BY <1>3, <2>1, <2>2, <2>3, <2>4 DEF Upstream
  <1>4. CASE UNCHANGED relayVars
    BY <1>4 DEF relayVars
  <1>5. CASE Forget(Requests)
    BY <1>5 DEF Forget
  <1> QED
    BY <1>1, <1>2, <1>3, <1>4, <1>5 DEF RelayNext, Client, vars

LEMMA EmptyLen ==
  ASSUME NEW q \in Seq(Item)
  PROVE  Len(q) \in Nat /\ (q = <<>> <=> Len(q) = 0)
  OBVIOUS

(* What is known of the stream of r.                                       *)
LEMMA Known ==
  ASSUME RelayInv, NEW r \in Requests
  PROVE  /\ LinkInv(r) /\ StreamInv(r) /\ OutcomeInv(r)
         /\ pc \in [Requests -> Pcs] /\ reply \in [Requests -> Reply]
         /\ link \in [Requests -> {"none", "events", "whole"}]
         /\ queue \in [Requests -> Seq(Item)]
         /\ sent \in [Requests -> Seq(Item)]
         /\ written \in [Requests -> Seq(Item)]
  BY DEF RelayInv, RequestInv, TypeOK, SlotTypeOK, RelayTyped

(* What it takes to show that the stream of r is in order.                 *)
LEMMA StreamShown ==
  ASSUME NEW r \in Requests, NEW s, Stream(link'[r], sent'[r]) = s,
         Begins(written'[r], s), Continues(queue'[r], written'[r], s),
         reply'[r].outcome = "ok" <=> Len(written'[r]) = Len(s),
         Open(r)' /\ link'[r] # "none" =>
             Len(written'[r]) + Len(queue'[r]) >= IF link'[r] = "events" THEN Len(sent'[r]) ELSE 3,
         reply'[r].stream /\ pc'[r] \in ClosedPcs => queue'[r] = <<>> /\ Answered(r)',
         At(r, "upstream")' => written'[r] = <<>> /\ reply'[r].answer = "none",
         At(r, "streaming")' => /\ reply'[r].answer = "partial" /\ link'[r] # "none"
                                /\ written'[r] # <<>> \/ queue'[r] # <<>>
  PROVE  StreamInv(r)'
  BY Zenon DEF StreamInv

(* What a request in flight on a stream has written.                       *)
LEMMA WrittenFacts ==
  ASSUME RelayInv, NEW r \in Requests, reply[r].stream, pc[r] \in HoldingPcs,
         NEW s, s = Stream(link[r], sent[r])
  PROVE  /\ written[r] \in Seq(Item) /\ s \in Seq(Item) /\ Begins(written[r], s)
         /\ Len(s) \in Nat \ {0} /\ \A i \in 1..Len(s) : s[i] = Done <=> i = Len(s)
         /\ reply[r].outcome = "ok" <=> Len(written[r]) = Len(s)
         /\ pc[r] \in ClosedPcs => Answered(r)
         /\ pc[r] = "upstream" => written[r] = <<>>
         /\ pc[r] = "streaming" => reply[r].answer = "partial"
  <1>1. LinkInv(r) /\ StreamInv(r) /\ written[r] \in Seq(Item) /\ sent[r] \in Seq(Item)
    BY Known
  <1>2. link[r] = "events" => \A i \in 1..Len(sent[r]) : sent[r][i].kind = "chunk"
    BY <1>1 DEF LinkInv
  <1>3. s \in Seq(Item) /\ Len(s) \in Nat \ {0} /\ \A i \in 1..Len(s) : s[i] = Done <=> i = Len(s)
    BY <1>1, <1>2, StreamFacts
  <1>4. /\ Begins(written[r], s) /\ (reply[r].outcome = "ok" <=> Len(written[r]) = Len(s))
        /\ pc[r] \in ClosedPcs => Answered(r)
        /\ pc[r] = "upstream" => written[r] = <<>>
        /\ pc[r] = "streaming" => reply[r].answer = "partial"
    BY <1>1 DEF StreamInv, At
  <1> QED
    BY <1>1, <1>3, <1>4

(* The routing of a request relays nothing ...                             *)
LEMMA RoutingRelays ==
  ASSUME RelayInv, NEW r \in Requests, Routing(r), UNCHANGED relayVars
  PROVE  LinkInv(r)' /\ StreamInv(r)'
  <1>1. pc[r] \in RoutingPcs
    BY DEF Routing, EnsureCandidate, QueryCandidates, ReadClock, ReadInflight, Select,
           NoHealthyKeys, GetKey, RoutingFails, Enter, At, RoutingPcs
  <1>2. /\ link'[r] = "none" /\ queue'[r] = <<>> /\ sent'[r] = <<>> /\ written'[r] = <<>>
        /\ reply[r].answer = "none" /\ reply[r].outcome = "none"
    BY <1>1, Known DEF LinkInv, OutcomeInv, RoutingPcs, HoldingPcs, relayVars
  <1>3. CASE Enter(r)
    <2>1. pc'[r] = "upstream" /\ reply' = reply
      BY <1>3, Known DEF Enter, Goto
    <2>2. Begins(<<>>, Fallback) /\ Continues(<<>>, <<>>, Fallback) /\ Len(Fallback) = 3
      BY ItemsTyped DEF Begins, Continues
    <2>3. Stream(link'[r], sent'[r]) = Fallback
      BY <1>2 DEF Stream
    <2>4. /\ pc'[r] \notin ClosedPcs /\ pc'[r] \notin RoutingPcs \cup {"new"} /\ pc'[r] # "streaming"
          /\ reply'[r].outcome # "ok" /\ reply'[r].answer = "none"
      BY <1>2, <2>1 DEF ClosedPcs, RoutingPcs
    <2>5. Len(written'[r]) = 0
      BY <1>2
    <2>6. Begins(written'[r], Fallback) /\ Continues(queue'[r], written'[r], Fallback)
      BY <1>2, <2>2
    <2>7. StreamInv(r)'
      <3>1. reply'[r].outcome = "ok" <=> Len(written'[r]) = Len(Fallback)
        BY <2>2, <2>4, <2>5
      <3> QED
        BY <1>2, <2>1, <2>3, <2>4, <2>6, <3>1, StreamShown DEF At
    <2> QED
      BY <1>2, <2>4, <2>7 DEF LinkInv
  <1>4. CASE ~Enter(r)
    <2>1. \/ pc'[r] \in RoutingPcs /\ reply' = reply
          \/ pc'[r] = "done"
      <3>1. CASE EnsureCandidate(r)
        BY <3>1, Known DEF EnsureCandidate, Goto, RoutingPcs
      <3>2. CASE QueryCandidates(r) \/ ReadClock(r) \/ ReadInflight(r) \/ Select(r)
        BY <3>2, Known DEF QueryCandidates, ReadClock, ReadInflight, Select, Goto, RoutingPcs
      <3>3. CASE NoHealthyKeys(r) \/ GetKey(r) \/ RoutingFails(r)
        BY <3>3, Known DEF NoHealthyKeys, GetKey, RoutingFails, Goto, Reject, RoutingPcs
      <3> QED
        BY <1>4, <3>1, <3>2, <3>3 DEF Routing
    <2>2. pc'[r] \notin HoldingPcs
      BY <2>1 DEF RoutingPcs, HoldingPcs
    <2>3. pc'[r] \in RoutingPcs \cup {"new"} => reply'[r].answer = "none"
      BY <1>2, <2>1 DEF RoutingPcs
    <2> QED
      BY <1>2, <2>2, <2>3, NoneRelayed
  <1> QED
    BY <1>3, <1>4

(* ... and nothing is after the upstream is done with.                     *)
LEMMA ClosedKept ==
  ASSUME NEW r \in Requests, LinkInv(r), StreamInv(r), Same(r),
         pc[r] \in ClosedPcs, pc'[r] \in ClosedPcs, reply'[r].stream = reply[r].stream,
         reply'[r].outcome = reply[r].outcome,
         reply[r].stream /\ Answered(r) => Answered(r)'
  PROVE  LinkInv(r)' /\ StreamInv(r)'
  <1>1. pc[r] \in HoldingPcs /\ pc'[r] \in HoldingPcs
    BY DEF ClosedPcs, HoldingPcs
  <1>2. ~Open(r)' /\ ~At(r, "upstream")' /\ ~At(r, "streaming")'
    BY DEF ClosedPcs, Open, At
  <1>3. StreamInv(r)'
    BY <1>1, <1>2 DEF StreamInv, Same
  <1>4. LinkInv(r)'
    BY <1>1 DEF LinkInv, Same, ClosedPcs, RoutingPcs
  <1> QED
    BY <1>3, <1>4

LEMMA ClosedStep ==
  ASSUME RelayInv, NEW r \in Requests, Log(r) \/ Marking(r) \/ Answer(r), Same(r)
  PROVE  LinkInv(r)' /\ StreamInv(r)'
  <1> USE Known DEF Same, At, Goto, Private
  <1>1. CASE Log(r) \/ Marking(r)
    <2>1. /\ pc[r] \in ClosedPcs \ {"leave"} /\ pc'[r] \in ClosedPcs \ {"leave"}
          /\ reply' = reply /\ gone' = gone
      <3>1. CASE Log(r)
        BY <3>1 DEF Log, ClosedPcs
      <3>2. CASE Mark(r)
        BY <3>2 DEF Mark, ClosedPcs
      <3>3. CASE MarkGoesOn(r)
        BY <3>3 DEF MarkGoesOn, ClosedPcs
      <3> QED
        BY <1>1, <3>1, <3>2, <3>3 DEF Marking
    <2>2. Answered(r) => Answered(r)'
      BY <2>1 DEF Answered
    <2> QED
      BY <2>1, <2>2, ClosedKept DEF ClosedPcs
  <1>2. CASE Answer(r)
    <2>1. /\ pc[r] = "answer" /\ pc'[r] = "leave" /\ gone' = gone
          /\ reply' = IF reply[r].answer # "none" THEN reply
                      ELSE [reply EXCEPT ![r].answer = reply[r].outcome]
      BY <1>2 DEF Answer
    <2>2. reply[r].outcome \in {"ok", "error"}
      BY <2>1 DEF OutcomeInv, Reply
    <2>3. reply'[r].stream = reply[r].stream /\ reply'[r].outcome = reply[r].outcome
      BY <2>1 DEF Reply
    <2>4. reply'[r].answer = IF reply[r].answer # "none" THEN reply[r].answer ELSE reply[r].outcome
      BY <2>1 DEF Reply
    <2>5. Answered(r) => Answered(r)'
      BY <2>1, <2>2, <2>3, <2>4 DEF Answered
    <2> QED
      BY <2>1, <2>3, <2>5, ClosedKept DEF ClosedPcs
  <1> QED
    BY <1>1, <1>2

(* An upstream fails before all of its stream is written.                  *)
LEMMA FailStep ==
  ASSUME RelayInv, NEW r \in Requests, UpstreamFails(r), link'[r] = link[r], sent'[r] = sent[r],
         written'[r] = written[r], queue'[r] = <<>>,
         \/ Called(r) \/ Scanning(r)
         \/ At(r, "streaming") /\ queue[r] # <<>> /\ r \in gone
  PROVE  LinkInv(r)' /\ StreamInv(r)'
  <1>0. /\ LinkInv(r) /\ StreamInv(r) /\ OutcomeInv(r)
        /\ pc \in [Requests -> Pcs] /\ reply \in [Requests -> Reply]
        /\ link \in [Requests -> {"none", "events", "whole"}]
        /\ queue \in [Requests -> Seq(Item)] /\ sent \in [Requests -> Seq(Item)]
        /\ written \in [Requests -> Seq(Item)]
    BY Known
  <1> USE <1>0 DEF At
  <1>1. /\ pc[r] \in {"upstream", "streaming"} /\ pc'[r] = "log" /\ gone' = gone
        /\ reply'[r] = [reply[r] EXCEPT !.outcome = "error"]
    BY DEF UpstreamFails, Goto
  <1>2. /\ reply'[r].stream = reply[r].stream /\ reply'[r].outcome = "error"
        /\ reply'[r].answer = reply[r].answer
    BY <1>1 DEF Reply
  <1>3. pc[r] \in HoldingPcs /\ pc'[r] \in HoldingPcs /\ pc'[r] \in ClosedPcs
        /\ ~Open(r)' /\ pc'[r] \notin RoutingPcs \cup {"new"}
    BY <1>1 DEF HoldingPcs, ClosedPcs, Open, RoutingPcs
  <1>4. LinkInv(r)'
    BY <1>1, <1>2, <1>3 DEF LinkInv
  <1>5. CASE reply[r].stream
    <2>1. PICK s : s = Stream(link[r], sent[r])
      OBVIOUS
    <2>2. Begins(written[r], s) /\ Len(written[r]) # Len(s)
      BY <1>1, <1>3, <1>5, <2>1 DEF StreamInv, OutcomeInv
    <2>3. Continues(<<>>, written[r], s)
      <3>1. Len(written[r]) <= Len(s) /\ Len(written[r]) \in Nat
        BY <2>2 DEF Begins
      <3> QED
        BY <3>1 DEF Continues
    <2>4. Answered(r)'
      BY <1>1, <1>2, <1>3, <1>5 DEF Answered, StreamInv, Called, Scanning
    <2>5. Stream(link'[r], sent'[r]) = s /\ written'[r] = written[r] /\ queue'[r] = <<>>
      BY <2>1
    <2>6. /\ reply'[r].outcome = "ok" <=> Len(written'[r]) = Len(s)
          /\ Begins(written'[r], s) /\ Continues(queue'[r], written'[r], s)
      BY <1>2, <2>2, <2>3, <2>5
    <2>7. StreamInv(r)'
      BY <1>1, <1>3, <2>4, <2>5, <2>6, StreamShown
    <2> QED
      BY <1>4, <2>7
  <1>6. CASE ~reply[r].stream
    BY <1>2, <1>4, <1>6 DEF StreamInv
  <1> QED
    BY <1>5, <1>6

(* Once it is read to its end, the queue holds the rest of the stream.     *)
LEMMA WriteStep ==
  ASSUME RelayInv, NEW r \in Requests, Write(r)
  PROVE  LinkInv(r)' /\ StreamInv(r)'
  <1>0. /\ LinkInv(r) /\ StreamInv(r) /\ OutcomeInv(r)
        /\ pc \in [Requests -> Pcs] /\ reply \in [Requests -> Reply]
        /\ link \in [Requests -> {"none", "events", "whole"}]
        /\ queue \in [Requests -> Seq(Item)] /\ sent \in [Requests -> Seq(Item)]
        /\ written \in [Requests -> Seq(Item)]
    BY Known
  <1> USE <1>0 DEF At
  <1>1. /\ pc[r] = "streaming" /\ queue[r] # <<>> /\ link'[r] = link[r] /\ sent'[r] = sent[r]
        /\ written'[r] = Append(written[r], Head(queue[r])) /\ queue'[r] = Tail(queue[r])
    BY DEF Write, Writing
  <1>2. reply[r].stream /\ link[r] # "none" /\ pc[r] \in HoldingPcs /\ reply[r].outcome = "none"
    BY <1>1 DEF LinkInv, HoldingPcs, OutcomeInv, Reply
  <1>3. PICK h : h = Head(queue[r])
    OBVIOUS
  <1>4. PICK s : s = Stream(link[r], sent[r])
    OBVIOUS
  <1>5. /\ s \in Seq(Item) /\ Len(s) \in Nat \ {0}
        /\ \A i \in 1..Len(s) : s[i] = Done <=> i = Len(s)
    BY <1>2, <1>4, WrittenFacts
  <1>6. Begins(written[r], s) /\ Continues(queue[r], written[r], s) /\ Len(written[r]) # Len(s)
        /\ Len(written[r]) + Len(queue[r]) >= IF link[r] = "events" THEN Len(sent[r]) ELSE 3
    BY <1>1, <1>2, <1>4 DEF StreamInv, Open
  <1>7. PICK v : v = Append(written[r], h)
    OBVIOUS
  <1>8. PICK t : t = Tail(queue[r])
    OBVIOUS
  <1>w. PICK w \in Seq(Item) : w = written[r]
    OBVIOUS
  <1>q. PICK q \in Seq(Item) : q = queue[r]
    OBVIOUS
  <1>9. /\ v \in Seq(Item) /\ t \in Seq(Item) /\ Begins(v, s) /\ Continues(t, v, s)
        /\ Len(v) = Len(w) + 1 /\ Len(t) = Len(q) - 1
        /\ h = s[Len(w) + 1] /\ Len(w) + 1 <= Len(s)
    BY <1>1, <1>3, <1>5, <1>6, <1>7, <1>8, <1>w, <1>q, WriteOne
  <1>e. /\ Len(v) \in Nat /\ Len(t) \in Nat /\ Len(w) \in Nat /\ Len(q) \in Nat
        /\ (t = <<>> <=> Len(t) = 0) /\ (v = <<>> <=> Len(v) = 0)
    BY <1>9, EmptyLen
  <1>10. /\ Len(v) \in Nat \ {0} /\ Len(t) \in Nat /\ v # <<>>
         /\ t = <<>> <=> Len(t) = 0
         /\ Len(v) + Len(t) >= IF link[r] = "events" THEN Len(sent[r]) ELSE 3
         /\ h = Done <=> Len(v) = Len(s)
    <2>1. Len(w) + Len(q) = Len(v) + Len(t) /\ Len(v) \in Nat \ {0}
      <3>1. Len(v) = Len(w) + 1 /\ Len(t) = Len(q) - 1
        BY <1>9
      <3> QED
        BY <3>1, <1>e
    <2>2. Len(w) + 1 \in 1..Len(s)
      BY <1>5, <1>9, <1>e
    <2>3. h = Done <=> Len(w) + 1 = Len(s)
      BY <1>5, <1>9, <2>2
    <2>4. Len(v) = Len(w) + 1
      BY <1>9
    <2>5. Len(v) + Len(t) >= IF link[r] = "events" THEN Len(sent[r]) ELSE 3
      BY <1>6, <1>w, <1>q, <2>1
    <2> QED
      BY <1>e, <2>1, <2>3, <2>4, <2>5
  <1>11. written'[r] = v /\ queue'[r] = t /\ Stream(link'[r], sent'[r]) = s
    BY <1>1, <1>3, <1>4, <1>7, <1>8
  <1>12. CASE h = Done
    <2>1. UpstreamSucceeds(r)
      BY <1>3, <1>12 DEF Write
    <2>2. /\ pc'[r] = "log" /\ gone' = gone /\ reply'[r].stream /\ reply'[r].outcome = "ok"
          /\ reply'[r].answer = IF r \notin gone THEN "ok" ELSE reply[r].answer
      <3>1. /\ pc' = [pc EXCEPT ![r] = "log"] /\ gone' = gone
            /\ reply' = [reply EXCEPT ![r].outcome = "ok",
                              ![r].answer = IF r \notin gone THEN "ok" ELSE @]
        BY <1>2, <2>1 DEF UpstreamSucceeds, Goto
      <3> QED
        BY <1>2, <3>1 DEF Reply
    <2>3. reply[r].answer = "partial"
      BY <1>1, <1>2 DEF StreamInv
    <2>4. Len(v) = Len(s) /\ t = <<>>
      <3>1. Len(v) + Len(t) <= Len(s)
        BY <1>9 DEF Continues
      <3> QED
        BY <1>5, <1>10, <1>12, <3>1
    <2>5. Answered(r)'
      BY <1>10, <1>11, <2>2, <2>3 DEF Answered
    <2>6. pc'[r] \in HoldingPcs \ RoutingPcs /\ pc'[r] # "new" /\ ~Open(r)'
      BY <2>2 DEF HoldingPcs, RoutingPcs, Open
    <2>7. reply'[r].outcome = "ok" <=> Len(written'[r]) = Len(s)
      BY <1>11, <2>2, <2>4
    <2>8. StreamInv(r)'
      BY <1>9, <1>11, <2>2, <2>4, <2>5, <2>6, <2>7, StreamShown
    <2> QED
      BY <1>1, <1>2, <2>2, <2>6, <2>8 DEF LinkInv
  <1>13. CASE h # Done
    <2>1. UNCHANGED <<pc, reply>>
      BY <1>3, <1>13 DEF Write, gatewayVars
    <2>2. pc'[r] \notin ClosedPcs /\ reply'[r].answer = "partial" /\ reply'[r].outcome # "ok"
      BY <1>1, <1>2, <2>1 DEF StreamInv, ClosedPcs
    <2>3. reply'[r].outcome = "ok" <=> Len(written'[r]) = Len(s)
      BY <1>10, <1>11, <1>13, <2>2
    <2>4. Len(written'[r]) + Len(queue'[r]) >= IF link'[r] = "events" THEN Len(sent'[r]) ELSE 3
      BY <1>1, <1>10, <1>11
    <2>5. StreamInv(r)'
      BY <1>1, <1>2, <1>9, <1>10, <1>11, <2>1, <2>2, <2>3, <2>4, StreamShown
    <2> QED
      BY <1>1, <1>2, <2>1, <2>5 DEF LinkInv, RoutingPcs
  <1> QED
    BY <1>12, <1>13

(* The relay reads only when all it has read is written.                   *)
LEMMA AllWritten ==
  ASSUME RelayInv, NEW r \in Requests, Scanning(r), reply[r].stream
  PROVE  Len(written[r]) = Len(sent[r]) /\ Begins(written[r], Append(sent[r], Done))
  <1>1. /\ LinkInv(r) /\ StreamInv(r) /\ OutcomeInv(r)
        /\ sent[r] \in Seq(Item) /\ written[r] \in Seq(Item)
    BY Known
  <1>2. /\ pc[r] \in HoldingPcs /\ Open(r) /\ link[r] = "events" /\ queue[r] = <<>>
        /\ reply[r].outcome = "none"
    BY <1>1 DEF Scanning, Open, HoldingPcs, OutcomeInv
  <1>3. Stream(link[r], sent[r]) = Append(sent[r], Done)
    BY <1>2 DEF Stream
  <1>4. /\ Begins(written[r], Append(sent[r], Done))
        /\ reply[r].outcome = "ok" <=> Len(written[r]) = Len(Append(sent[r], Done))
        /\ Len(written[r]) + Len(queue[r]) >= IF link[r] = "events" THEN Len(sent[r]) ELSE 3
    BY <1>1, <1>2, <1>3, Zenon DEF StreamInv
  <1>5. Len(queue[r]) = 0
    BY <1>2
  <1>6. Len(written[r]) <= Len(Append(sent[r], Done))
    BY <1>4 DEF Begins
  <1>7. /\ Len(Append(sent[r], Done)) = Len(sent[r]) + 1
        /\ Len(sent[r]) \in Nat /\ Len(written[r]) \in Nat
    BY <1>1
  <1>8. Len(written[r]) = Len(sent[r])
    BY <1>2, <1>4, <1>5, <1>6, <1>7
  <1> QED
    BY <1>4, <1>8

(* What is read next follows what is written.                              *)
LEMMA QueueOne ==
  ASSUME NEW w \in Seq(Item), NEW s \in Seq(Item), NEW h \in Item,
         Len(w) + 1 <= Len(s), s[Len(w) + 1] = h
  PROVE  Continues(<<h>>, w, s)
  <1>1. Len(<<h>>) = 1 /\ <<h>>[1] = h
    OBVIOUS
  <1> QED
    BY <1>1 DEF Continues

LEMMA QueueAll ==
  /\ Begins(<<>>, Fallback) /\ Continues(Fallback, <<>>, Fallback) /\ Len(Fallback) = 3
  /\ Begins(<<>>, <<Done>>) /\ Continues(<<>>, <<>>, <<Done>>)
  <1>1. Fallback \in Seq(Item) /\ Len(Fallback) = 3
    BY ItemsTyped
  <1>2. Len(<<Done>>) = 1
    OBVIOUS
  <1>3. Begins(<<>>, Fallback) /\ Continues(Fallback, <<>>, Fallback)
    BY <1>1 DEF Begins, Continues
  <1>4. Begins(<<>>, <<Done>>) /\ Continues(<<>>, <<>>, <<Done>>)
    BY <1>2 DEF Begins, Continues
  <1> QED
    BY <1>1, <1>3, <1>4

LEMMA UpstreamStep ==
  ASSUME RelayInv, NEW r \in Requests, Upstream(r)
  PROVE  LinkInv(r)' /\ StreamInv(r)'
  <1>0. /\ LinkInv(r) /\ StreamInv(r) /\ OutcomeInv(r)
        /\ pc \in [Requests -> Pcs] /\ reply \in [Requests -> Reply]
        /\ link \in [Requests -> {"none", "events", "whole"}]
        /\ queue \in [Requests -> Seq(Item)] /\ sent \in [Requests -> Seq(Item)]
        /\ written \in [Requests -> Seq(Item)]
    BY Known
  <1> USE <1>0 DEF At
  <1>a. ASSUME Open(r) PROVE /\ pc[r] \in HoldingPcs \ ClosedPcs /\ pc[r] \notin RoutingPcs \cup {"new"}
                             /\ reply[r].outcome = "none"
    BY <1>a DEF Open, HoldingPcs, ClosedPcs, RoutingPcs, OutcomeInv
  <1>b. ASSUME Called(r), reply[r].stream
        PROVE  /\ Open(r) /\ pc[r] = "upstream" /\ link[r] = "none" /\ sent[r] = <<>>
               /\ queue[r] = <<>> /\ written[r] = <<>> /\ reply[r].answer = "none"
    BY <1>b DEF Called, Open, LinkInv, StreamInv, HoldingPcs
  <1>1. CASE Connect(r)
    <2>1. /\ Called(r) /\ reply[r].stream /\ pc' = pc /\ reply' = reply
          /\ link'[r] = "events" /\ queue'[r] = queue[r] /\ sent'[r] = sent[r]
          /\ written'[r] = written[r]
      BY <1>1 DEF Connect, gatewayVars
    <2>2. Stream(link'[r], sent'[r]) = <<Done>>
      BY <1>b, <2>1 DEF Stream
    <2>3. /\ Len(written'[r]) = 0 /\ Len(queue'[r]) = 0 /\ Len(sent'[r]) = 0 /\ Len(<<Done>>) = 1
      BY <1>b, <2>1
    <2>4. /\ reply'[r].outcome = "ok" <=> Len(written'[r]) = Len(<<Done>>)
          /\ Len(written'[r]) + Len(queue'[r]) >= IF link'[r] = "events" THEN Len(sent'[r]) ELSE 3
      BY <1>a, <1>b, <2>1, <2>3
    <2>5. Begins(written'[r], <<Done>>) /\ Continues(queue'[r], written'[r], <<Done>>)
      BY <1>b, <2>1, QueueAll
    <2>6. pc'[r] = "upstream" /\ pc'[r] \notin ClosedPcs /\ pc'[r] \in HoldingPcs
          /\ pc'[r] \notin RoutingPcs \cup {"new"}
      BY <1>a, <1>b, <2>1
    <2>7. StreamInv(r)'
      BY <1>b, <2>1, <2>2, <2>4, <2>5, <2>6, StreamShown
    <2>8. LinkInv(r)'
      BY <1>b, <2>1, <2>6 DEF LinkInv
    <2> QED
      BY <2>7, <2>8
  <1>s. ASSUME Scanning(r)
        PROVE  /\ Open(r) /\ link[r] = "events" /\ queue[r] = <<>> /\ reply[r].stream
               /\ Len(written[r]) = Len(sent[r]) /\ Begins(written[r], Append(sent[r], Done))
               /\ \A i \in 1..Len(sent[r]) : sent[r][i].kind = "chunk"
               /\ pc[r] = "upstream" => written[r] = <<>> /\ reply[r].answer = "none"
               /\ pc[r] = "streaming" => reply[r].answer = "partial"
    <2>1. Open(r) /\ link[r] = "events" /\ queue[r] = <<>>
      BY <1>s DEF Scanning
    <2>2. reply[r].stream /\ \A i \in 1..Len(sent[r]) : sent[r][i].kind = "chunk"
      BY <2>1 DEF LinkInv
    <2>3. /\ pc[r] = "upstream" => written[r] = <<>> /\ reply[r].answer = "none"
          /\ pc[r] = "streaming" => reply[r].answer = "partial"
      BY <1>a, <2>1, <2>2 DEF StreamInv
    <2> QED
      BY <1>s, <2>1, <2>2, <2>3, AllWritten
  <1>q. ASSUME Scanning(r), UNCHANGED <<pc, reply, link, written>>, NEW h \in Item, queue'[r] = <<h>>,
               NEW s \in Seq(Item), Append(sent'[r], Done) = s,
               Len(sent[r]) + 1 <= Len(s), s[Len(sent[r]) + 1] = h, Begins(written[r], s),
               Len(sent'[r]) <= Len(sent[r]) + 1, Len(sent'[r]) \in Nat
        PROVE  StreamInv(r)'
    <2>1. Stream(link'[r], sent'[r]) = s
      BY <1>q, <1>s DEF Stream
    <2>2. Continues(queue'[r], written'[r], s) /\ Begins(written'[r], s)
      <3>1. PICK w \in Seq(Item) : w = written[r]
        OBVIOUS
      <3>2. Len(w) = Len(sent[r])
        BY <1>q, <1>s, <3>1
      <3>3. Continues(<<h>>, w, s)
        BY <1>q, <3>2, QueueOne
      <3> QED
        BY <1>q, <3>1, <3>3
    <2>3. Len(written'[r]) = Len(sent[r]) /\ Len(queue'[r]) = 1 /\ queue'[r] # <<>>
      BY <1>q, <1>s
    <2>4. PICK m \in Nat, n \in Nat, k \in Nat : m = Len(sent[r]) /\ n = Len(s) /\ k = Len(sent'[r])
      BY <1>q
    <2>5. reply'[r].outcome = "ok" <=> Len(written'[r]) = Len(s)
      <3>1. reply'[r].outcome # "ok"
        BY <1>a, <1>q, <1>s
      <3>2. Len(written'[r]) # Len(s)
        BY <1>q, <2>3, <2>4
      <3> QED
        BY <3>1, <3>2
    <2>6. Len(written'[r]) + Len(queue'[r]) >= IF link'[r] = "events" THEN Len(sent'[r]) ELSE 3
      BY <1>q, <1>s, <2>3, <2>4
    <2>7. pc'[r] \notin ClosedPcs
      BY <1>a, <1>q, <1>s
    <2> QED
      BY <1>q, <1>s, <2>1, <2>2, <2>3, <2>5, <2>6, <2>7, StreamShown
  <1>2. CASE ReadEnd(r)
    <2>1. /\ Scanning(r) /\ UNCHANGED <<pc, reply, link, written, sent>>
          /\ queue'[r] = <<Done>>
      BY <1>2 DEF ReadEnd, gatewayVars
    <2>2. PICK s : s = Append(sent[r], Done)
      OBVIOUS
    <2>3. s \in Seq(Item) /\ Len(s) = Len(sent[r]) + 1 /\ s[Len(sent[r]) + 1] = Done
          /\ Len(sent[r]) \in Nat
      BY <2>2, ItemsTyped
    <2>4. Begins(written[r], s)
      BY <1>s, <2>1, <2>2
    <2>5. Append(sent'[r], Done) = s /\ Len(sent'[r]) = Len(sent[r])
      BY <2>1, <2>2
    <2>6. Len(sent[r]) + 1 <= Len(s) /\ Len(sent'[r]) <= Len(sent[r]) + 1 /\ Len(sent'[r]) \in Nat
      BY <2>3, <2>5
    <2>7. StreamInv(r)'
      BY <1>q, <2>1, <2>3, <2>4, <2>5, <2>6, ItemsTyped
    <2>8. LinkInv(r)'
      BY <1>a, <1>s, <2>1 DEF LinkInv
    <2> QED
      BY <2>7, <2>8
  <1>3. ASSUME NEW c \in Chunks, ReadChunk(r, c) PROVE LinkInv(r)' /\ StreamInv(r)'
    <2>1. /\ Scanning(r) /\ UNCHANGED <<pc, reply, link, written>>
          /\ queue'[r] = <<c>> /\ sent'[r] = Append(sent[r], c)
      BY <1>3 DEF ReadChunk, gatewayVars
    <2>c. c \in Item /\ c.kind = "chunk"
      BY ItemsTyped
    <2>2. PICK v : v = Append(sent[r], c)
      OBVIOUS
    <2>3. /\ v \in Seq(Item) /\ Len(v) = Len(sent[r]) + 1 /\ v[Len(sent[r]) + 1] = c
          /\ \A i \in 1..Len(sent[r]) : v[i] = sent[r][i]
      BY <2>c, <2>2
    <2>4. PICK s : s = Append(v, Done)
      OBVIOUS
    <2>5. /\ s \in Seq(Item) /\ Len(s) = Len(v) + 1 /\ \A i \in 1..Len(v) : s[i] = v[i]
      BY <2>3, <2>4, ItemsTyped
    <2>6. Len(sent[r]) \in Nat /\ Len(v) \in Nat
      BY <2>3
    <2>n. PICK n \in Nat : n = Len(sent[r])
      BY <2>6
    <2>m. PICK x : x = sent[r]
      OBVIOUS
    <2>o. Len(v) = n + 1 /\ v[n + 1] = c /\ \A i \in 1..n : v[i] = x[i]
      BY <2>3, <2>n, <2>m
    <2>p. Len(s) = (n + 1) + 1 /\ \A i \in 1..(n + 1) : s[i] = v[i]
      BY <2>5, <2>o
    <2>q. n + 1 <= Len(s) /\ s[n + 1] = c /\ \A i \in 1..n : s[i] = x[i]
      BY <2>o, <2>p
    <2>7. Len(sent[r]) + 1 <= Len(s) /\ s[Len(sent[r]) + 1] = c
          /\ \A i \in 1..Len(sent[r]) : s[i] = sent[r][i]
      BY <2>q, <2>n, <2>m
    <2>8. Begins(written[r], s)
      <3>1. PICK a : a = Append(sent[r], Done)
        OBVIOUS
      <3>2. Len(a) = Len(sent[r]) + 1 /\ \A i \in 1..Len(sent[r]) : a[i] = sent[r][i]
        BY <3>1, ItemsTyped
      <3>3. Len(written[r]) = Len(sent[r]) /\ Begins(written[r], a)
        BY <1>s, <2>1, <3>1
      <3>4. \A i \in 1..Len(written[r]) : written[r][i] = a[i]
        BY <3>3 DEF Begins
      <3>5. \A i \in 1..Len(written[r]) : written[r][i] = s[i]
        BY <2>7, <3>2, <3>3, <3>4
      <3> QED
        BY <2>6, <2>7, <3>3, <3>5 DEF Begins
    <2>9. sent'[r] = v /\ Append(sent'[r], Done) = s
      BY <2>1, <2>2, <2>4
    <2>10. Len(sent'[r]) <= Len(sent[r]) + 1 /\ Len(sent'[r]) \in Nat
      BY <2>3, <2>6, <2>9
    <2>11. StreamInv(r)'
      BY <1>q, <2>1, <2>c, <2>5, <2>7, <2>8, <2>9, <2>10
    <2>12. \A i \in 1..Len(v) : v[i].kind = "chunk"
      <3>1. \A i \in 1..n : x[i].kind = "chunk"
        BY <1>s, <2>1, <2>n, <2>m
      <3>2. ASSUME NEW i \in 1..(n + 1) PROVE v[i].kind = "chunk"
        <4>1. i \in 1..n \/ i = n + 1
          OBVIOUS
        <4> QED
          BY <2>c, <2>o, <3>1, <4>1
      <3> QED
        BY <2>o, <3>2
    <2>13. LinkInv(r)'
      BY <1>a, <1>s, <2>1, <2>9, <2>12 DEF LinkInv
    <2> QED
      BY <2>11, <2>13
  <1>4. ASSUME NEW p \in Providers, NEW u \in Usages, ReadWhole(r, p, u) PROVE LinkInv(r)' /\ StreamInv(r)'
    <2>1. /\ Called(r) /\ reply[r].stream /\ pc' = pc /\ reply' = reply
          /\ link'[r] = "whole" /\ queue'[r] = Fallback /\ written'[r] = written[r]
      BY <1>4 DEF ReadWhole, gatewayVars
    <2>2. Stream(link'[r], sent'[r]) = Fallback
      BY <2>1 DEF Stream
    <2>3. Len(written'[r]) = 0 /\ Len(queue'[r]) = 3 /\ Len(Fallback) = 3
      BY <1>b, <2>1, QueueAll
    <2>4. /\ reply'[r].outcome = "ok" <=> Len(written'[r]) = Len(Fallback)
          /\ Len(written'[r]) + Len(queue'[r]) >= IF link'[r] = "events" THEN Len(sent'[r]) ELSE 3
      BY <1>a, <1>b, <2>1, <2>3
    <2>5. Begins(written'[r], Fallback) /\ Continues(queue'[r], written'[r], Fallback)
      BY <1>b, <2>1, QueueAll
    <2>6. pc'[r] = "upstream" /\ pc'[r] \notin ClosedPcs /\ pc'[r] \in HoldingPcs
          /\ pc'[r] \notin RoutingPcs \cup {"new"}
      BY <1>a, <1>b, <2>1
    <2>7. StreamInv(r)'
      BY <1>b, <2>1, <2>2, <2>4, <2>5, <2>6, StreamShown
    <2>8. LinkInv(r)'
      BY <1>b, <2>1, <2>6 DEF LinkInv
    <2> QED
      BY <2>7, <2>8
  <1>5. ASSUME NEW p \in Providers, NEW u \in Usages, ReadAnswer(r, p, u) PROVE LinkInv(r)' /\ StreamInv(r)'
    <2>1. /\ pc[r] = "upstream" /\ ~reply[r].stream /\ pc'[r] = "log" /\ ~reply'[r].stream
          /\ link'[r] = "whole" /\ queue'[r] = queue[r] /\ written'[r] = written[r]
      BY <1>5 DEF ReadAnswer, UpstreamSucceeds, Called, Goto, Reply
    <2>2. pc'[r] \in HoldingPcs /\ pc'[r] \notin RoutingPcs \cup {"new"}
      BY <2>1 DEF HoldingPcs, RoutingPcs
    <2>3. queue[r] = <<>> /\ written[r] = <<>>
      BY <2>1 DEF LinkInv
    <2> QED
      BY <2>1, <2>2, <2>3 DEF LinkInv, StreamInv
  <1> QED
    BY <1>1, <1>2, <1>3, <1>4, <1>5 DEF Upstream

LEMMA RunsStep ==
  ASSUME RelayInv, NEW r \in Requests, Runs(r)
  PROVE  LinkInv(r)' /\ StreamInv(r)'
  <1>0. /\ LinkInv(r) /\ StreamInv(r) /\ OutcomeInv(r)
        /\ pc \in [Requests -> Pcs] /\ reply \in [Requests -> Reply]
        /\ link \in [Requests -> {"none", "events", "whole"}]
        /\ queue \in [Requests -> Seq(Item)] /\ sent \in [Requests -> Seq(Item)]
        /\ written \in [Requests -> Seq(Item)]
    BY Known
  <1> USE <1>0 DEF At
  <1>1. CASE Routing(r) /\ UNCHANGED relayVars
    BY <1>1, RoutingRelays
  <1>2. CASE \/ Marking(r) /\ UNCHANGED relayVars
             \/ LogUsage(r)
    BY <1>2, ClosedStep DEF LogUsage, relayVars, Same
  <1>3. CASE StartStream(r)
    <2>1. /\ pc[r] = "upstream" /\ pc'[r] = "streaming" /\ queue[r] # <<>> /\ Same(r)
          /\ reply[r].stream /\ reply'[r] = [reply[r] EXCEPT !.answer = "partial"]
      BY <1>3 DEF StartStream, StreamStarts, Writing, Goto, relayVars, Same
    <2>2. reply'[r].outcome = reply[r].outcome /\ reply'[r].answer = "partial" /\ reply'[r].stream
      BY <2>1 DEF Reply
    <2>3. link[r] # "none"
      BY <2>1 DEF LinkInv
    <2>4. pc[r] \in HoldingPcs /\ pc'[r] \in HoldingPcs /\ pc'[r] \notin ClosedPcs
          /\ Open(r) /\ pc'[r] \notin RoutingPcs \cup {"new"}
      BY <2>1 DEF HoldingPcs, ClosedPcs, Open, RoutingPcs
    <2>5. LinkInv(r)'
      BY <2>1, <2>2, <2>4 DEF LinkInv, Same
    <2>6. StreamInv(r)'
      BY <2>1, <2>2, <2>3, <2>4 DEF StreamInv, Same
    <2> QED
      BY <2>5, <2>6
  <1>4. CASE ReadFails(r)
    <2>1. UpstreamFails(r) /\ (Called(r) \/ Scanning(r)) /\ UNCHANGED relayVars
      BY <1>4 DEF ReadFails
    <2>2. queue[r] = <<>>
      BY <2>1 DEF Called, Scanning, LinkInv
    <2> QED
      BY <2>1, <2>2, FailStep DEF relayVars
  <1>5. CASE Return(r)
    <2>1. pc'[r] = "done"
      BY <1>5 DEF Return, Leave, Goto
    <2> QED
      BY <1>5, <2>1, NoneRelayed DEF Return, Forget, HoldingPcs, RoutingPcs
  <1> QED
    BY <1>1, <1>2, <1>3, <1>4, <1>5 DEF Runs

LEMMA WritesStep ==
  ASSUME RelayInv, NEW r \in Requests, Writes(r)
  PROVE  LinkInv(r)' /\ StreamInv(r)'
  <1>1. CASE WriteFails(r)
    <2>1. queue'[r] = <<>>
      BY <1>1, Known DEF WriteFails
    <2> QED
      BY <1>1, <2>1, FailStep DEF WriteFails, Writing
  <1>2. CASE Answer(r) /\ UNCHANGED relayVars
    BY <1>2, ClosedStep DEF relayVars, Same
  <1> QED
    BY <1>1, <1>2, WriteStep DEF Writes

LEMMA ClientStep ==
  ASSUME RelayInv, NEW r \in Requests, Client(r)
  PROVE  LinkInv(r)' /\ StreamInv(r)'
  <1>0. /\ LinkInv(r) /\ StreamInv(r)
        /\ pc \in [Requests -> Pcs] /\ reply \in [Requests -> Reply] /\ UNCHANGED relayVars
    BY Known DEF Client
  <1> USE <1>0 DEF At
  <1>1. CASE ClientLeaves(r)
    BY <1>1, RelayKept DEF ClientLeaves, Same, relayVars
  <1>2. CASE pc[r] = "new" /\ (pc'[r] = "done" \/ (pc'[r] = "ensure" /\ reply'[r].answer = reply[r].answer))
    <2>1. /\ pc[r] \notin HoldingPcs /\ pc'[r] \notin HoldingPcs
          /\ reply[r].answer = "none"
      BY <1>2 DEF HoldingPcs, LinkInv
    <2>2. link[r] = "none" /\ sent[r] = <<>> /\ queue[r] = <<>> /\ written[r] = <<>>
      BY <2>1 DEF LinkInv
    <2>3. pc'[r] \in RoutingPcs \cup {"new"} => reply'[r].answer = "none"
      BY <1>2, <2>1 DEF RoutingPcs
    <2> QED
      BY <2>1, <2>2, <2>3, NoneRelayed DEF relayVars
  <1>3. ASSUME NEW s \in BOOLEAN, NEW ids \in SUBSET Keys, Arrive(r, s, ids)
        PROVE  pc[r] = "new" /\ pc'[r] = "ensure" /\ reply'[r].answer = reply[r].answer
    BY <1>3 DEF Arrive, Goto, Reply
  <1>4. CASE NoKeyForModel(r)
    BY <1>2, <1>4 DEF NoKeyForModel, Reject, Goto
  <1> QED
    BY <1>1, <1>2, <1>3, <1>4 DEF Client

-----------------------------------------------------------------------------
LEMMA ActsAlone ==
  ASSUME NEW r \in Requests, Acts(r), NEW q \in Requests, q # r
  PROVE  Same(q) /\ merged'[q] = merged[q] /\ booked'[q] = booked[q] /\ gone \subseteq gone'
  <1> DEFINE Alone == Same(q) /\ merged'[q] = merged[q] /\ booked'[q] = booked[q] /\ gone \subseteq gone'
  <1> USE DEF Same
  <1>1. CASE Runs(r)
    <2>1. CASE Routing(r) /\ UNCHANGED relayVars
      BY <2>1 DEF relayVars, Routing, EnsureCandidate, QueryCandidates, ReadClock, ReadInflight,
                  Select, NoHealthyKeys, GetKey, RoutingFails, Enter, Reject
    <2>2. CASE Marking(r) /\ UNCHANGED relayVars
      BY <2>2 DEF relayVars, Marking, Mark, MarkGoesOn
    <2>3. CASE StartStream(r) \/ ReadFails(r)
      BY <2>3 DEF relayVars, StartStream, ReadFails, StreamStarts, UpstreamFails
    <2>4. CASE LogUsage(r)
      BY <2>4 DEF LogUsage, Log
    <2>5. CASE Return(r)
      BY <2>5 DEF Return, Leave, Forget
    <2> QED
      BY <1>1, <2>1, <2>2, <2>3, <2>4, <2>5 DEF Runs
  <1>2. CASE Writes(r)
    <2>1. CASE Write(r)
      BY <2>1 DEF Write, UpstreamSucceeds, gatewayVars
    <2>2. CASE WriteFails(r)
      BY <2>2 DEF WriteFails, UpstreamFails
    <2>3. CASE Answer(r) /\ UNCHANGED relayVars
      BY <2>3 DEF Answer, relayVars
    <2> QED
      BY <1>2, <2>1, <2>2, <2>3 DEF Writes
  <1>3. CASE Upstream(r)
    <2>0. CASE Connect(r)
      BY <2>0 DEF Connect, gatewayVars
    <2>1. CASE ReadEnd(r)
      BY <2>1 DEF ReadEnd, gatewayVars
    <2>2. ASSUME NEW c \in Chunks, ReadChunk(r, c) PROVE Alone
      BY <2>2 DEF ReadChunk, gatewayVars
    <2>3. ASSUME NEW p \in Providers, NEW u \in Usages, ReadWhole(r, p, u)
          PROVE  Alone
      BY <2>3 DEF ReadWhole, gatewayVars
    <2>4. ASSUME NEW p \in Providers, NEW u \in Usages, ReadAnswer(r, p, u)
          PROVE  Alone
      BY <2>4 DEF ReadAnswer, UpstreamSucceeds
    <2>5. \/ Connect(r) \/ ReadEnd(r) \/ \E c \in Chunks : ReadChunk(r, c)
          \/ \E p \in Providers, u \in Usages : ReadWhole(r, p, u)
          \/ \E p \in Providers, u \in Usages : ReadAnswer(r, p, u)
      BY <1>3, Zenon DEF Upstream
    <2> QED
      BY <2>0, <2>1, <2>2, <2>3, <2>4, <2>5, Zenon
  <1>4. CASE Client(r)
    BY <1>4 DEF Client, Arrive, NoKeyForModel, Reject, ClientLeaves, relayVars
  <1> QED
    BY <1>1, <1>2, <1>3, <1>4 DEF Acts

LEMMA OthersRelayed ==
  ASSUME RelayInv, NEW r \in Requests, Acts(r), NEW q \in Requests, q # r
  PROVE  LinkInv(q)' /\ StreamInv(q)'
  <1>1. TypeOK
    BY DEF RelayInv, RequestInv
  <1>2. pc'[q] = pc[q] /\ reply'[q] = reply[q]
    <2>1. CASE Step(r) \/ Outside(r)
      BY <1>1, <2>1, OthersWait DEF Still
    <2>2. CASE UNCHANGED gatewayVars
      BY <2>2 DEF gatewayVars
    <2> QED
      BY <2>1, <2>2, ActsStep
  <1> QED
    BY <1>2, ActsAlone, RelayKept, Known

LEMMA RelayInvInit == RelayInit => RelayInv
  <1> SUFFICES ASSUME RelayInit PROVE RelayInv
    OBVIOUS
  <1>1. RequestInv
    BY RequestInvInit DEF RelayInit
  <1>2. RelayTyped
    BY DEF RelayInit, RelayTyped
  <1>3. ASSUME NEW r \in Requests PROVE LinkInv(r) /\ StreamInv(r)
    <2>1. pc[r] = "new" /\ reply[r].answer = "none" /\ link[r] = "none" /\ queue[r] = <<>>
          /\ sent[r] = <<>> /\ written[r] = <<>>
      BY DEF RelayInit, Init, NoReply
    <2> QED
      BY <2>1 DEF LinkInv, StreamInv, HoldingPcs
  <1> QED
    BY <1>1, <1>2, <1>3 DEF RelayInv

LEMMA RelayInvStep == RelayInv /\ [RelayNext]_vars => RelayInv'
  <1> SUFFICES ASSUME RelayInv, [RelayNext]_vars PROVE RelayInv'
    OBVIOUS
  <1>1. RequestInv'
    BY RelayStep, RequestInvStep DEF RelayInv
  <1>2. RelayTyped'
    BY TypedStep DEF RelayInv
  <1>3. ASSUME NEW r \in Requests, Acts(r), NEW q \in Requests PROVE LinkInv(q)' /\ StreamInv(q)'
    <2>1. CASE q = r
      BY <1>3, <2>1, RunsStep, WritesStep, UpstreamStep, ClientStep DEF Acts
    <2>2. CASE q # r
      BY <1>3, <2>2, OthersRelayed
    <2> QED
      BY <2>1, <2>2
  <1>4. ASSUME UNCHANGED <<relayVars, pc, reply, gone>>, NEW q \in Requests
        PROVE  LinkInv(q)' /\ StreamInv(q)'
    BY <1>4, Known, RelayKept DEF Same, relayVars
  <1>5. CASE \/ (\E k \in Keys : DeleteKey(k)) /\ UNCHANGED relayVars
             \/ (\E p \in Probers : ProbeMark(p)) /\ UNCHANGED relayVars
             \/ Tick /\ UNCHANGED relayVars
             \/ UNCHANGED vars
    <2>1. UNCHANGED <<relayVars, pc, reply, gone>>
      BY <1>5 DEF DeleteKey, ProbeMark, Tick, requestVars, vars, gatewayVars
    <2> QED
      BY <1>1, <1>2, <1>4, <2>1 DEF RelayInv
  <1>6. ASSUME Restart, Forget(Requests), NEW q \in Requests PROVE LinkInv(q)' /\ StreamInv(q)'
    <2>1. pc'[q] = (IF pc[q] = "new" THEN "new" ELSE "done") /\ reply' = reply
      BY <1>6 DEF Restart, At
    <2>2. pc'[q] \in {"new", "done"} /\ (pc'[q] = "new" => reply'[q].answer = "none")
      BY <2>1, Known DEF LinkInv
    <2>3. link'[q] = "none" /\ queue'[q] = <<>> /\ sent'[q] = <<>> /\ written'[q] = <<>>
      BY <1>6 DEF Forget
    <2>4. pc'[q] \notin HoldingPcs /\ (pc'[q] \in RoutingPcs \cup {"new"} => reply'[q].answer = "none")
      BY <2>2 DEF HoldingPcs, RoutingPcs
    <2> QED
      BY <2>3, <2>4, NoneRelayed
  <1> QED
    BY <1>1, <1>2, <1>3, <1>5, <1>6 DEF RelayNext, Acts, RelayInv

LEMMA RelayInvariant == RelaySpec => []RelayInv
  BY RelayInvInit, RelayInvStep, PTL DEF RelaySpec

LEMMA BeginsAll ==
  ASSUME NEW w \in Seq(Item), NEW s \in Seq(Item), Begins(w, s)
  PROVE  /\ Len(w) <= Len(s) /\ w = SubSeq(s, 1, Len(w))
         /\ Len(w) = Len(s) => w = s
  <1>1. Len(w) <= Len(s) /\ \A i \in 1..Len(w) : w[i] = s[i]
    BY DEF Begins
  <1>2. Len(w) \in Nat /\ Len(s) \in Nat
    OBVIOUS
  <1>3. PICK v : v = SubSeq(s, 1, Len(w))
    OBVIOUS
  <1>4. v \in Seq(Item) /\ Len(v) = Len(w) /\ \A i \in 1..Len(w) : v[i] = s[i]
    BY <1>1, <1>2, <1>3, SubSeqProperties
  <1>5. w = v
    BY <1>1, <1>4, SeqEqual
  <1>6. ASSUME Len(w) = Len(s) PROVE w = s
    BY <1>1, <1>6, SeqEqual
  <1> QED
    BY <1>1, <1>3, <1>5, <1>6

(* Of every stream, however long and whoever leaves or fails when, the     *)
(* client reads what the upstream sent, in order and from the start, and   *)
(* all of it if the stream is booked as a success.                         *)
THEOREM StreamsInOrder == RelaySpec => []RelayedInOrder
  <1>1. RelayInv => RelayedInOrder
    <2> SUFFICES ASSUME RelayInv, NEW r \in Requests, reply[r].stream, pc[r] \in HoldingPcs,
                        NEW s, s = Stream(link[r], sent[r])
                 PROVE  /\ Len(written[r]) <= Len(s)
                        /\ written[r] = SubSeq(s, 1, Len(written[r]))
                        /\ reply[r].outcome = "ok" => written[r] = s
      BY DEF RelayedInOrder, Stream
    <2> QED
      BY WrittenFacts, BeginsAll
  <1> QED
    BY <1>1, RelayInvariant, PTL

(* A stream ends with [DONE] exactly if it is booked as a success, and no  *)
(* client that stays is left without [DONE], an error or a stream that     *)
(* broke off.                                                              *)
THEOREM EndsTell == RelaySpec => []EndTellsOutcome
  <1>1. RelayInv => EndTellsOutcome
    <2> SUFFICES ASSUME RelayInv, NEW r \in Requests, reply[r].stream, pc[r] \in HoldingPcs,
                        NEW w, w = written[r]
                 PROVE  /\ \A i \in 1..Len(w) : w[i] = Done <=> i = Len(w) /\ reply[r].outcome = "ok"
                        /\ w # <<>> => reply[r].answer \in {"partial", "ok"}
                        /\ At(r, "leave") /\ r \notin gone =>
                              \/ reply[r].answer = "ok" /\ w # <<>>
                              \/ reply[r].answer = "error" /\ w = <<>>
                              \/ /\ reply[r].answer = "partial" /\ w # <<>>
                                 /\ reply[r].outcome = "error"
      BY DEF EndTellsOutcome
    <2>1. PICK s : s = Stream(link[r], sent[r])
      OBVIOUS
    <2>2. /\ w \in Seq(Item) /\ s \in Seq(Item) /\ Begins(w, s)
          /\ Len(s) \in Nat \ {0} /\ \A i \in 1..Len(s) : s[i] = Done <=> i = Len(s)
          /\ reply[r].outcome = "ok" <=> Len(w) = Len(s)
          /\ pc[r] \in ClosedPcs => Answered(r)
          /\ pc[r] = "upstream" => w = <<>>
          /\ pc[r] = "streaming" => reply[r].answer = "partial"
      BY <2>1, WrittenFacts
    <2>3. ASSUME NEW i \in 1..Len(w) PROVE w[i] = Done <=> i = Len(w) /\ reply[r].outcome = "ok"
      <3>1. PICK m \in Nat, n \in Nat : m = Len(w) /\ n = Len(s)
        BY <2>2
      <3>2. m <= n /\ i \in 1..m /\ i \in 1..n /\ w[i] = s[i]
        BY <2>2, <2>3, <3>1 DEF Begins
      <3>3. w[i] = Done <=> i = n
        BY <2>2, <3>1, <3>2
      <3>4. reply[r].outcome = "ok" <=> m = n
        BY <2>2, <3>1
      <3>5. i = n <=> i = m /\ m = n
        BY <3>2
      <3> QED
        BY <3>1, <3>3, <3>4, <3>5
    <2>4. pc[r] \in ClosedPcs \/ pc[r] = "upstream" \/ pc[r] = "streaming"
      BY DEF HoldingPcs, ClosedPcs
    <2>5. w # <<>> => reply[r].answer \in {"partial", "ok"}
      BY <2>2, <2>4 DEF Answered
    <2>6. ASSUME At(r, "leave"), r \notin gone
          PROVE  \/ reply[r].answer = "ok" /\ w # <<>>
                 \/ reply[r].answer = "error" /\ w = <<>>
                 \/ /\ reply[r].answer = "partial" /\ w # <<>>
                    /\ reply[r].outcome = "error"
      <3>1. Answered(r)
        BY <2>2, <2>6 DEF At, ClosedPcs
      <3> QED
        BY <2>6, <3>1 DEF Answered
    <2> QED
      BY <2>3, <2>5, <2>6
  <1> QED
    BY <1>1, RelayInvariant, PTL

-----------------------------------------------------------------------------
(* What is booked for a request.                                           *)

(* The reports in what was read that can be decoded, and none.             *)
Reported(s) ==
    {Nothing} \cup {c.usage : c \in {s[i] : i \in {j \in 1..Len(s) : s[j].readable}}}

(* m is the largest of each count of the reports in S.                     *)
Largest(m, S) ==
    /\ \A u \in S : m.prompt >= u.prompt /\ m.completion >= u.completion /\ m.total >= u.total
    /\ \E u \in S : m.prompt = u.prompt
    /\ \E u \in S : m.completion = u.completion
    /\ \E u \in S : m.total = u.total

(* b counts what the reports in S say, each once.                          *)
Counts(b, S) ==
    /\ \A u \in S : b.prompt >= u.prompt /\ b.completion >= u.completion
    /\ \E u, v \in S : b.total \in {u.total, Clamp(u.prompt) + Clamp(v.completion)}

CountTyped == merged \in [Requests -> Report] /\ booked \in [Requests -> Booked]

MergedInv(r) ==
    IF link[r] = "whole"
    THEN \E p \in Providers, u \in Report : merged[r] = Parsed(p, u) /\ sent[r] = <<Full(u)>>
    ELSE Largest(merged[r], Reported(sent[r]))

BookedInv(r) ==
    pc[r] \in {"mark", "marking", "answer", "leave"} /\ logs[r] # "none" =>
        booked[r] = Normalize(merged[r])

CountInv == RelayInv /\ CountTyped /\ \A r \in Requests : MergedInv(r) /\ BookedInv(r)

LEMMA NormalizeCounts ==
  ASSUME NEW u \in Report
  PROVE  /\ Normalize(u) \in Booked
         /\ Normalize(u).prompt >= u.prompt /\ Normalize(u).completion >= u.completion
         /\ Normalize(u).total \in {u.total, Clamp(u.prompt) + Clamp(u.completion)}
         /\ u.total = u.prompt + u.completion =>
               Normalize(u).total = Clamp(u.prompt) + Clamp(u.completion)
  <1> DEFINE p == Clamp(u.prompt)
             c == Clamp(u.completion)
             t == IF Clamp(u.total) = 0 THEN p + c ELSE Clamp(u.total)
  <1>0. u.prompt \in Int /\ u.completion \in Int /\ u.total \in Int
    BY DEF Report
  <1>1. /\ p \in Nat /\ c \in Nat /\ t \in Nat /\ p >= u.prompt /\ c >= u.completion
        /\ (t > 0 \/ p + c = 0) /\ t \in {u.total, p + c}
        /\ p > 0 => p = u.prompt
        /\ c > 0 => c = u.completion
    BY <1>0 DEF Clamp
  <1>2. u.total = u.prompt + u.completion =>
           t = p + c \/ (p = 0 /\ t <= c) \/ (c = 0 /\ t <= p)
    BY <1>0 DEF Clamp
  <1> HIDE DEF p, c, t
  <1> DEFINE completion == IF p + c = 0 THEN t
                           ELSE IF c = 0 /\ p < t THEN t - p ELSE c
             prompt     == IF p = 0 /\ 0 < completion /\ completion < t
                           THEN t - completion ELSE p
  <1>3. completion \in Nat /\ prompt \in Nat
    BY <1>1
  <1>4. prompt >= p /\ completion >= c
    BY <1>1
  <1>5. prompt + completion \in {t, p + c} /\ (prompt + completion = 0 => t = 0)
    BY <1>1
  <1>6. u.total = u.prompt + u.completion => prompt + completion = p + c
    BY <1>1, <1>2
  <1>7. Normalize(u) = [prompt |-> prompt, completion |-> completion,
                        total |-> IF prompt + completion > 0 THEN prompt + completion ELSE t]
    BY DEF Normalize, p, c, t
  <1> HIDE DEF prompt, completion
  <1>8. Normalize(u).total = prompt + completion
    BY <1>1, <1>3, <1>5, <1>7
  <1>9. Normalize(u).total \in {u.total, p + c}
    BY <1>1, <1>3, <1>5, <1>8
  <1>10. Normalize(u) \in Booked /\ Normalize(u).prompt = prompt /\ Normalize(u).completion = completion
    BY <1>1, <1>3, <1>5, <1>7 DEF Booked
  <1>11. Normalize(u).prompt >= u.prompt /\ Normalize(u).completion >= u.completion
    BY <1>0, <1>1, <1>3, <1>4, <1>10
  <1> QED
    BY <1>6, <1>8, <1>9, <1>10, <1>11 DEF p, c

LEMMA ParsedTyped ==
  ASSUME NEW p, NEW u \in Report
  PROVE  Parsed(p, u) \in Report
  <1>1. u.prompt + u.completion \in Int
    BY DEF Report
  <1> QED
    BY <1>1 DEF Parsed, Report

LEMMA NothingReported == Nothing \in Report /\ Reported(<<>>) = {Nothing} /\ Largest(Nothing, {Nothing})
  <1>1. Nothing \in Report
    BY DEF Nothing, Report
  <1>2. Reported(<<>>) = {Nothing}
    BY DEF Reported
  <1>3. Largest(Nothing, {Nothing})
    BY DEF Largest, Nothing
  <1> QED
    BY <1>1, <1>2, <1>3

(* Merging keeps the largest of each count.                                *)
LEMMA MergeLargest ==
  ASSUME NEW m \in Report, NEW u \in Report, NEW S \in SUBSET Report, Largest(m, S)
  PROVE  Merge(m, u) \in Report /\ Largest(Merge(m, u), S \cup {u})
  <1>1. /\ m.prompt \in Int /\ m.completion \in Int /\ m.total \in Int
        /\ u.prompt \in Int /\ u.completion \in Int /\ u.total \in Int
        /\ \A v \in S : v.prompt \in Int /\ v.completion \in Int /\ v.total \in Int
    BY DEF Report
  <1>2. PICK n : n = Merge(m, u)
    OBVIOUS
  <1>3. /\ n \in Report
        /\ n.prompt = Larger(m.prompt, u.prompt)
        /\ n.completion = Larger(m.completion, u.completion)
        /\ n.total = Larger(m.total, u.total)
    BY <1>1, <1>2 DEF Merge, Larger, Report
  <1>4. \A v \in S \cup {u} : n.prompt >= v.prompt /\ n.completion >= v.completion /\ n.total >= v.total
    BY <1>1, <1>3 DEF Largest, Larger
  <1>5. \E v \in S \cup {u} : n.prompt = v.prompt
    BY <1>3 DEF Largest, Larger
  <1>6. \E v \in S \cup {u} : n.completion = v.completion
    BY <1>3 DEF Largest, Larger
  <1>7. \E v \in S \cup {u} : n.total = v.total
    BY <1>3 DEF Largest, Larger
  <1> QED
    BY <1>2, <1>3, <1>4, <1>5, <1>6, <1>7 DEF Largest

(* One more chunk is one more report, if it can be decoded.                *)
LEMMA ReportedMore ==
  ASSUME NEW s \in Seq(Item), NEW c \in Item
  PROVE  /\ Reported(s) \subseteq Report
         /\ Reported(Append(s, c)) = Reported(s) \cup (IF c.readable THEN {c.usage} ELSE {})
  <1>1. PICK n \in Nat : n = Len(s)
    OBVIOUS
  <1>2. PICK v : v = Append(s, c)
    OBVIOUS
  <1>3. Len(v) = n + 1 /\ v[n + 1] = c /\ \A i \in 1..n : v[i] = s[i] /\ s[i] \in Item
    BY <1>1, <1>2
  <1>4. Reported(s) = {Nothing} \cup {c2.usage : c2 \in {s[i] : i \in {j \in 1..n : s[j].readable}}}
    BY <1>1 DEF Reported
  <1>5. Reported(v) = {Nothing} \cup {c2.usage : c2 \in {v[i] : i \in {j \in 1..(n + 1) : v[j].readable}}}
    BY <1>3 DEF Reported
  <1>6. \A i : i \in 1..(n + 1) <=> i \in 1..n \/ i = n + 1
    BY <1>1
  <1>7. Reported(s) \subseteq Report
    BY <1>3, <1>4, NothingReported DEF Item
  <1>8. ASSUME NEW x \in Reported(v) PROVE x \in Reported(s) \cup (IF c.readable THEN {c.usage} ELSE {})
    BY <1>3, <1>4, <1>5, <1>6, <1>8
  <1>9. ASSUME NEW x \in Reported(s) PROVE x \in Reported(v)
    BY <1>3, <1>4, <1>5, <1>6, <1>9
  <1>10. c.readable => c.usage \in Reported(v)
    BY <1>3, <1>5, <1>6
  <1> QED
    BY <1>2, <1>7, <1>8, <1>9, <1>10

(* What is booked of the merged counts says what was reported.             *)
LEMMA BookedCounts ==
  ASSUME NEW r \in Requests, RelayTyped, CountTyped, MergedInv(r)
  PROVE  Counts(Normalize(merged[r]), Reported(sent[r]))
  <1>1. PICK m : m = merged[r]
    OBVIOUS
  <1>2. PICK S : S = Reported(sent[r])
    OBVIOUS
  <1>3. PICK b : b = Normalize(m)
    OBVIOUS
  <1>4. m \in Report /\ sent[r] \in Seq(Item)
    BY <1>1 DEF CountTyped, RelayTyped
  <1>5. S \subseteq Report
    <2>1. Done \in Item
      BY ItemsTyped
    <2> QED
      BY <1>2, <1>4, <2>1, ReportedMore
  <1>6. /\ b \in Booked /\ b.prompt >= m.prompt /\ b.completion >= m.completion
        /\ b.total \in {m.total, Clamp(m.prompt) + Clamp(m.completion)}
        /\ m.total = m.prompt + m.completion =>
              b.total = Clamp(m.prompt) + Clamp(m.completion)
    BY <1>3, <1>4, NormalizeCounts
  <1>7. CASE link[r] = "whole"
    <2>1. PICK p \in Providers, u \in Report : m = Parsed(p, u) /\ sent[r] = <<Full(u)>>
      BY <1>1, <1>7 DEF MergedInv
    <2>2. S = {Nothing, u}
      <3>1. Full(u) \in Item /\ Full(u).readable /\ Full(u).usage = u
        BY <2>1, ItemsTyped DEF Full
      <3>2. <<Full(u)>> = Append(<<>>, Full(u)) /\ <<>> \in Seq(Item)
        OBVIOUS
      <3>3. Reported(Append(<<>>, Full(u))) =
                Reported(<<>>) \cup (IF Full(u).readable THEN {Full(u).usage} ELSE {})
        BY <3>1, <3>2, ReportedMore
      <3>4. Reported(<<Full(u)>>) = {Nothing} \cup {u}
        BY <3>1, <3>2, <3>3, NothingReported
      <3> QED
        BY <1>2, <2>1, <3>4
    <2>3. /\ m.prompt = u.prompt /\ m.completion = u.completion
          /\ m.total = u.total \/ m.total = u.prompt + u.completion
      BY <2>1 DEF Parsed, Report
    <2>4. /\ Nothing.prompt = 0 /\ Nothing.completion = 0
          /\ b.prompt \in Nat /\ b.completion \in Nat
      BY <1>6 DEF Nothing, Booked
    <2>5. \A v \in S : b.prompt >= v.prompt /\ b.completion >= v.completion
      BY <1>6, <2>2, <2>3, <2>4
    <2>6. b.total \in {u.total, Clamp(u.prompt) + Clamp(u.completion)}
      BY <1>6, <2>3
    <2> QED
      BY <1>1, <1>2, <1>3, <2>2, <2>5, <2>6 DEF Counts
  <1>8. CASE link[r] # "whole"
    <2>1. Largest(m, S)
      BY <1>1, <1>2, <1>8 DEF MergedInv
    <2>2. ASSUME NEW v \in S PROVE b.prompt >= v.prompt /\ b.completion >= v.completion
      <3>1. /\ v.prompt \in Int /\ v.completion \in Int /\ m.prompt \in Int /\ m.completion \in Int
            /\ b.prompt \in Int /\ b.completion \in Int
        BY <1>4, <1>5, <1>6 DEF Report, Booked
      <3>2. m.prompt >= v.prompt /\ m.completion >= v.completion
        BY <2>1 DEF Largest
      <3> QED
        BY <1>6, <3>1, <3>2
    <2>3. PICK u \in S, v \in S : b.total \in {u.total, Clamp(u.prompt) + Clamp(v.completion)}
      <3>1. PICK u1 \in S, v1 \in S, w1 \in S :
              m.prompt = u1.prompt /\ m.completion = v1.completion /\ m.total = w1.total
        BY <2>1 DEF Largest
      <3> QED
        BY <1>6, <3>1
    <2> QED
      BY <1>1, <1>2, <1>3, <2>2, <2>3 DEF Counts
  <1> QED
    BY <1>7, <1>8

LatePcs == {"mark", "marking", "answer", "leave"}

(* Nothing is read or booked.                                              *)
LEMMA CountKept ==
  ASSUME NEW r \in Requests, MergedInv(r), BookedInv(r), link'[r] = link[r], sent'[r] = sent[r],
         merged'[r] = merged[r], booked'[r] = booked[r],
         pc'[r] \in LatePcs => pc[r] \in LatePcs, logs'[r] \in {logs[r], "none"}
  PROVE  MergedInv(r)' /\ BookedInv(r)'
  BY DEF MergedInv, BookedInv, LatePcs

LEMMA CountForgotten ==
  ASSUME NEW r \in Requests, Forget({r}) \/ Forget(Requests), pc'[r] \notin LatePcs
  PROVE  MergedInv(r)' /\ BookedInv(r)'
  <1>1. link'[r] = "none" /\ merged'[r] = Nothing /\ sent'[r] = <<>>
    BY DEF Forget
  <1> QED
    BY <1>1, NothingReported DEF MergedInv, BookedInv, LatePcs

(* What a request's own steps make of its counts.                          *)
LEMMA OwnCounts ==
  ASSUME CountInv, NEW r \in Requests, Acts(r)
  PROVE  MergedInv(r)' /\ BookedInv(r)'
  <1>0. /\ MergedInv(r) /\ BookedInv(r) /\ OutcomeInv(r) /\ LinkInv(r)
        /\ pc \in [Requests -> Pcs] /\ logs \in [Requests -> {"none", "ok", "error"}]
        /\ reply \in [Requests -> Reply]
        /\ link \in [Requests -> {"none", "events", "whole"}]
        /\ sent \in [Requests -> Seq(Item)]
        /\ merged \in [Requests -> Report] /\ booked \in [Requests -> Booked]
    BY Known DEF CountInv, RelayInv, RequestInv, TypeOK, CountTyped
  <1> USE <1>0 DEF At, Goto, Private
  <1>1. CASE Runs(r)
    <2>1. CASE Routing(r) /\ UNCHANGED relayVars
      <3>1. pc'[r] \notin LatePcs /\ logs' = logs
        BY <2>1 DEF Routing, EnsureCandidate, QueryCandidates, ReadClock, ReadInflight, Select,
                    NoHealthyKeys, GetKey, RoutingFails, Enter, Reject, LatePcs
      <3> QED
        BY <2>1, <3>1, CountKept DEF relayVars
    <2>2. CASE Marking(r) /\ UNCHANGED relayVars
      <3>1. pc[r] \in LatePcs /\ logs' = logs
        BY <2>2 DEF Marking, Mark, MarkGoesOn, LatePcs
      <3> QED
        BY <2>2, <3>1, CountKept DEF relayVars
    <2>3. CASE StartStream(r) \/ ReadFails(r)
      <3>1. pc'[r] \notin LatePcs /\ logs' = logs /\ UNCHANGED relayVars
        BY <2>3 DEF StartStream, StreamStarts, ReadFails, UpstreamFails, LatePcs
      <3> QED
        BY <3>1, CountKept DEF relayVars
    <2>4. CASE LogUsage(r)
      <3>1. /\ pc[r] = "log" /\ logs[r] = "none" /\ link'[r] = link[r] /\ sent'[r] = sent[r]
            /\ merged'[r] = merged[r]
            /\ logs' = IF r \in gone THEN logs ELSE [logs EXCEPT ![r] = reply[r].outcome]
            /\ booked' = IF r \in gone THEN booked ELSE [booked EXCEPT ![r] = Normalize(merged[r])]
        BY <2>4 DEF LogUsage, Log, OutcomeInv
      <3>2. MergedInv(r)'
        BY <3>1 DEF MergedInv
      <3>3. logs'[r] # "none" => booked'[r] = Normalize(merged'[r])
        BY <3>1
      <3> QED
        BY <3>2, <3>3 DEF BookedInv
    <2>5. CASE Return(r)
      <3>1. pc'[r] \notin LatePcs
        BY <2>5 DEF Return, Leave, LatePcs
      <3> QED
        BY <2>5, <3>1, CountForgotten DEF Return
    <2> QED
      BY <1>1, <2>1, <2>2, <2>3, <2>4, <2>5 DEF Runs
  <1>2. CASE Writes(r)
    <2>1. CASE Write(r)
      <3>1. /\ pc'[r] \notin LatePcs /\ logs' = logs /\ link' = link /\ sent' = sent
            /\ merged' = merged /\ booked' = booked
        BY <2>1 DEF Write, UpstreamSucceeds, gatewayVars, LatePcs
      <3> QED
        BY <3>1, CountKept
    <2>2. CASE WriteFails(r)
      <3>1. /\ pc'[r] \notin LatePcs /\ logs' = logs /\ link' = link /\ sent' = sent
            /\ merged' = merged /\ booked' = booked
        BY <2>2 DEF WriteFails, UpstreamFails, LatePcs
      <3> QED
        BY <3>1, CountKept
    <2>3. CASE Answer(r) /\ UNCHANGED relayVars
      BY <2>3, CountKept DEF Answer, relayVars, LatePcs
    <2> QED
      BY <1>2, <2>1, <2>2, <2>3 DEF Writes
  <1>3. CASE Upstream(r)
    <2>1. CASE Connect(r)
      <3>1. /\ link[r] = "none" /\ link'[r] = "events" /\ UNCHANGED <<sent, merged>>
            /\ pc[r] = "upstream" /\ pc' = pc
        BY <2>1 DEF Connect, Called, gatewayVars
      <3> QED
        BY <3>1 DEF MergedInv, BookedInv
    <2>2. CASE ReadEnd(r)
      BY <2>2, CountKept DEF ReadEnd, gatewayVars
    <2>3. ASSUME NEW c \in Chunks, ReadChunk(r, c) PROVE MergedInv(r)' /\ BookedInv(r)'
      <3>1. /\ link[r] = "events" /\ link' = link /\ pc[r] \notin LatePcs /\ pc' = pc
            /\ sent'[r] = Append(sent[r], c)
            /\ merged'[r] = IF c.readable THEN Merge(merged[r], c.usage) ELSE merged[r]
        BY <2>3 DEF ReadChunk, Scanning, Open, gatewayVars, LatePcs
      <3>2. c \in Item /\ c.usage \in Report
        BY ItemsTyped
      <3>3. /\ Reported(sent[r]) \subseteq Report
            /\ Reported(sent'[r]) = Reported(sent[r]) \cup (IF c.readable THEN {c.usage} ELSE {})
        BY <3>1, <3>2, ReportedMore
      <3>4. Largest(merged[r], Reported(sent[r]))
        BY <3>1 DEF MergedInv
      <3>5. Largest(merged'[r], Reported(sent'[r]))
        <4>1. CASE c.readable
          <5>1. merged'[r] = Merge(merged[r], c.usage)
            BY <3>1, <4>1
          <5>2. Reported(sent'[r]) = Reported(sent[r]) \cup {c.usage}
            BY <3>3, <4>1
          <5>3. Largest(Merge(merged[r], c.usage), Reported(sent[r]) \cup {c.usage})
            BY <3>2, <3>3, <3>4, MergeLargest
          <5> QED
            BY <5>1, <5>2, <5>3
        <4>2. CASE ~c.readable
          <5>1. merged'[r] = merged[r]
            BY <3>1, <4>2
          <5>2. Reported(sent'[r]) = Reported(sent[r])
            BY <3>3, <4>2
          <5> QED
            BY <3>4, <5>1, <5>2
        <4> QED
          BY <4>1, <4>2
      <3> QED
        BY <3>1, <3>5 DEF MergedInv, BookedInv, LatePcs
    <2>4. ASSUME NEW p \in Providers, NEW u \in Usages, ReadWhole(r, p, u) \/ ReadAnswer(r, p, u)
          PROVE  MergedInv(r)' /\ BookedInv(r)'
      <3>1. u \in Report
        BY ItemsTyped DEF Usages
      <3>2. /\ link'[r] = "whole" /\ merged'[r] = Parsed(p, u) /\ sent'[r] = <<Full(u)>>
        BY <2>4 DEF ReadWhole, ReadAnswer
      <3>3. pc'[r] \notin LatePcs
        BY <2>4 DEF ReadWhole, ReadAnswer, Called, UpstreamSucceeds, gatewayVars, LatePcs
      <3> QED
        BY <3>1, <3>2, <3>3 DEF MergedInv, BookedInv, LatePcs
    <2> QED
      BY <1>3, <2>1, <2>2, <2>3, <2>4 DEF Upstream
  <1>4. CASE Client(r)
    <2>1. /\ pc'[r] \in LatePcs => pc[r] \in LatePcs
          /\ logs' = logs /\ UNCHANGED relayVars
      BY <1>4 DEF Client, Arrive, NoKeyForModel, Reject, ClientLeaves, LatePcs
    <2> QED
      BY <2>1, CountKept DEF relayVars
  <1> QED
    BY <1>1, <1>2, <1>3, <1>4 DEF Acts

LEMMA CountTypedStep ==
  ASSUME RelayTyped, CountTyped, [RelayNext]_vars
  PROVE  CountTyped'
  <1> USE DEF RelayTyped, CountTyped
  <1>1. ASSUME NEW r \in Requests, Runs(r) PROVE CountTyped'
    <2>1. CASE LogUsage(r)
      <3>1. Normalize(merged[r]) \in Booked
        BY NormalizeCounts
      <3> QED
        BY <2>1, <3>1 DEF LogUsage
    <2>2. CASE Return(r)
      <3>1. Nothing \in Report /\ Nothing \in Booked
        BY DEF Nothing, Report, Booked
      <3> QED
        BY <2>2, <3>1 DEF Return, Forget
    <2>3. CASE UNCHANGED relayVars
      BY <2>3 DEF relayVars
    <2> QED
      BY <1>1, <2>1, <2>2, <2>3 DEF Runs, StartStream, ReadFails
  <1>2. ASSUME NEW r \in Requests, Writes(r) PROVE CountTyped'
    BY <1>2 DEF Writes, Write, WriteFails, relayVars
  <1>3. ASSUME NEW r \in Requests, Upstream(r) PROVE CountTyped'
    <2>1. CASE Connect(r) \/ ReadEnd(r)
      BY <2>1 DEF Connect, ReadEnd
    <2>2. ASSUME NEW c \in Chunks, ReadChunk(r, c) PROVE CountTyped'
      <3>1. Merge(merged[r], c.usage) \in Report
        BY ItemsTyped DEF Merge, Larger, Report
      <3> QED
        BY <2>2, <3>1 DEF ReadChunk
    <2>3. ASSUME NEW p \in Providers, NEW u \in Usages, ReadWhole(r, p, u) \/ ReadAnswer(r, p, u)
          PROVE  CountTyped'
      <3>1. u \in Report
        BY ItemsTyped DEF Usages
      <3>2. Parsed(p, u) \in Report
        BY <3>1, ParsedTyped
      <3> QED
        BY <2>3, <3>2 DEF ReadWhole, ReadAnswer
    <2> QED
      BY <1>3, <2>1, <2>2, <2>3 DEF Upstream
  <1>4. CASE UNCHANGED relayVars
    BY <1>4 DEF relayVars
  <1>5. CASE Forget(Requests)
    <2>1. Nothing \in Report /\ Nothing \in Booked
      BY DEF Nothing, Report, Booked
    <2> QED
      BY <1>5, <2>1 DEF Forget
  <1> QED
    BY <1>1, <1>2, <1>3, <1>4, <1>5 DEF RelayNext, Client, vars

LEMMA CountInvInit == RelayInit => CountInv
  <1> SUFFICES ASSUME RelayInit PROVE CountInv
    OBVIOUS
  <1>1. RelayInv
    BY RelayInvInit
  <1>2. CountTyped
    BY DEF RelayInit, CountTyped, Nothing, Report, Booked
  <1>3. ASSUME NEW r \in Requests PROVE MergedInv(r) /\ BookedInv(r)
    <2>1. pc[r] = "new" /\ link[r] = "none" /\ merged[r] = Nothing /\ sent[r] = <<>>
      BY DEF RelayInit, Init
    <2> QED
      BY <2>1, NothingReported DEF MergedInv, BookedInv
  <1> QED
    BY <1>1, <1>2, <1>3 DEF CountInv

LEMMA CountInvStep == CountInv /\ [RelayNext]_vars => CountInv'
  <1> SUFFICES ASSUME CountInv, [RelayNext]_vars PROVE CountInv'
    OBVIOUS
  <1>1. RelayInv'
    BY RelayInvStep DEF CountInv
  <1>2. CountTyped'
    BY CountTypedStep DEF CountInv, RelayInv
  <1>3. ASSUME NEW r \in Requests, Acts(r), NEW q \in Requests PROVE MergedInv(q)' /\ BookedInv(q)'
    <2>1. CASE q = r
      BY <1>3, <2>1, OwnCounts
    <2>2. CASE q # r
      <3>1. pc'[q] = pc[q] /\ logs'[q] = logs[q]
        <4>1. TypeOK
          BY DEF CountInv, RelayInv, RequestInv
        <4>2. CASE Step(r) \/ Outside(r)
          BY <2>2, <4>1, <4>2, OthersWait DEF Still
        <4>3. CASE UNCHANGED gatewayVars
          BY <4>3 DEF gatewayVars
        <4> QED
          BY <1>3, <4>2, <4>3, ActsStep
      <3>2. Same(q) /\ merged'[q] = merged[q] /\ booked'[q] = booked[q]
        BY <1>3, <2>2, ActsAlone
      <3> QED
        BY <3>1, <3>2, CountKept DEF Same, CountInv
    <2> QED
      BY <2>1, <2>2
  <1>4. ASSUME UNCHANGED <<relayVars, pc>>, NEW q \in Requests, logs'[q] \in {logs[q], "none"}
        PROVE  MergedInv(q)' /\ BookedInv(q)'
    BY <1>4, CountKept DEF relayVars, CountInv
  <1>5. CASE \/ (\E k \in Keys : DeleteKey(k)) /\ UNCHANGED relayVars
             \/ (\E p \in Probers : ProbeMark(p)) /\ UNCHANGED relayVars
             \/ Tick /\ UNCHANGED relayVars
             \/ UNCHANGED vars
    <2>1. UNCHANGED <<relayVars, pc>> /\ \A q \in Requests : logs'[q] \in {logs[q], "none"}
      BY <1>5 DEF DeleteKey, ProbeMark, Tick, requestVars, vars, gatewayVars
    <2> QED
      BY <1>1, <1>2, <1>4, <2>1 DEF CountInv
  <1>6. ASSUME Restart, Forget(Requests), NEW q \in Requests PROVE MergedInv(q)' /\ BookedInv(q)'
    <2>1. pc'[q] \notin LatePcs
      BY <1>6 DEF Restart, At, LatePcs
    <2> QED
      BY <1>6, <2>1, CountForgotten
  <1> QED
    BY <1>1, <1>2, <1>3, <1>5, <1>6 DEF RelayNext, Acts, CountInv

LEMMA CountInvariant == RelaySpec => []CountInv
  BY CountInvInit, CountInvStep, PTL DEF RelaySpec

(* However a stream ends, its log row counts each half of what the         *)
(* upstream has reported until then, and what chunks repeat only once.     *)
THEOREM UsageBooked == RelaySpec => []UsageCounted
  <1>1. CountInv => UsageCounted
    <2> SUFFICES ASSUME CountInv, NEW r \in Requests, pc[r] \in LatePcs, logs[r] # "none"
                 PROVE  Counts(booked[r], Reported(sent[r]))
      BY DEF UsageCounted, Counts, Reported, LatePcs
    <2>1. booked[r] = Normalize(merged[r])
      BY DEF CountInv, BookedInv, LatePcs
    <2> QED
      BY <2>1, BookedCounts DEF CountInv, RelayInv
  <1> QED
    BY <1>1, CountInvariant, PTL

(* The variables of the gateway and of the relay keep their types, and     *)
(* only the stream of a request that is with its upstream has anything to  *)
(* write.                                                                  *)
THEOREM RelayTypes == RelaySpec => []RelayTypeOK
  <1>1. CountInv => StreamTypeOK
    <2> SUFFICES ASSUME CountInv PROVE StreamTypeOK
      OBVIOUS
    <2>1. RelayTyped /\ CountTyped
      BY DEF CountInv, RelayInv
    <2>2. ASSUME NEW r \in Requests, queue[r] # <<>> PROVE Open(r) /\ reply[r].stream
      <3>1. LinkInv(r) /\ StreamInv(r)
        BY DEF CountInv, RelayInv
      <3>2. link[r] # "none" /\ reply[r].stream /\ pc[r] \in HoldingPcs
        BY <2>2, <3>1 DEF LinkInv
      <3>3. pc[r] \notin ClosedPcs
        BY <2>2, <3>1, <3>2 DEF StreamInv
      <3> QED
        BY <3>2, <3>3 DEF Open, HoldingPcs, ClosedPcs
    <2> QED
      BY <2>1, <2>2 DEF StreamTypeOK, RelayTyped, CountTyped
  <1> QED
    BY <1>1, CountInvariant, GatewayCarriesOver, PTL DEF RelayTypeOK
=============================================================================
