-------------------------------- MODULE Relay --------------------------------
(***************************************************************************)
(* What Gateway leaves out between the slot and the log row: the relay of  *)
(* a stream (app/streaming.go) and the token counts of an answer (the      *)
(* proxy functions of app/handlers_gateway.go).                            *)
(*                                                                         *)
(* An OpenAI upstream sends chunks, which are written to the client one by *)
(* one.  The others answer in full, and the relay makes a stream of three  *)
(* items of it.  Lines without data are skipped; their reads are left out. *)
(* A client that neither reads nor leaves keeps a write waiting.           *)
(***************************************************************************)
EXTENDS Gateway, Usage, Sequences

CONSTANTS
    Chunks,       \* the chunks an upstream may send
    MaxChunks     \* bound: the chunks of one stream

Kinds == {"chunk", "answer", "role", "stop", "done"}
Item  == [kind : Kinds, usage : Report, readable : BOOLEAN]

ASSUME ChunksAssumption ==
    Chunks \subseteq [kind : {"chunk"}, usage : Report, readable : BOOLEAN]
ASSUME MaxChunksAssumption == MaxChunks \in Nat

VARIABLES
    link,         \* link[r]: how the upstream of r answers, if it has begun
    queue,        \* queue[r]: the items to write before the next read
    merged,       \* merged[r]: the usage so far
    sent,         \* history, sent[r]: what was read from the upstream
    written,      \* history, written[r]: what was written to the client
    booked        \* booked[r]: the counts in the log row of r, until r ends

relayVars == <<link, queue, merged, sent, written, booked>>
vars      == <<gatewayVars, relayVars>>

-----------------------------------------------------------------------------
Nothing    == [prompt |-> 0, completion |-> 0, total |-> 0]
Plain(kind) == [kind |-> kind, usage |-> Nothing, readable |-> TRUE]
Done       == Plain("done")
Fallback   == <<Plain("role"), Plain("stop"), Done>>
Full(u)    == [kind |-> "answer", usage |-> u, readable |-> TRUE]

(* Bug: the counts of the last chunk replace those before.                 *)
MergeLast(current, u) == IF u = Nothing THEN current ELSE u

Larger(m, n) == IF n > m THEN n ELSE m

(* mergeUsageTokens: the largest of each count, a missing one is 0.        *)
Merge(current, u) ==
    [prompt     |-> Larger(current.prompt, u.prompt),
     completion |-> Larger(current.completion, u.completion),
     total      |-> Larger(current.total, u.total)]

(* The counts the proxy functions take from an answer: Anthropic reports   *)
(* no total, Gemini may leave it out.                                      *)
Parsed(provider, u) ==
    IF provider = "anthropic" \/ (provider = "gemini" /\ u.total = 0)
    THEN [u EXCEPT !.total = u.prompt + u.completion] ELSE u

RelayInit ==
    /\ Init
    /\ link = [r \in Requests |-> "none"]
    /\ queue = [r \in Requests |-> <<>>]
    /\ merged = [r \in Requests |-> Nothing]
    /\ sent = [r \in Requests |-> <<>>]
    /\ written = [r \in Requests |-> <<>>]
    /\ booked = [r \in Requests |-> Nothing]

-----------------------------------------------------------------------------
Open(r)      == pc[r] \in {"upstream", "streaming"}
Called(r)    == At(r, "upstream") /\ link[r] = "none"
Scanning(r)  == Open(r) /\ link[r] = "events" /\ queue[r] = <<>>
Writing(r)   == Open(r) /\ queue[r] # <<>>

(* streamOpenAI: the upstream has answered 2xx, its body is yet to come.   *)
Connect(r) ==
    /\ Called(r) /\ reply[r].stream
    /\ link' = [link EXCEPT ![r] = "events"]
    /\ UNCHANGED <<gatewayVars, queue, merged, sent, written, booked>>

(* A chunk is relayed as it is; if it cannot be decoded in full, which one *)
(* count that is not a number is enough for, its usage is not looked at.   *)
ReadChunk(r, c) ==
    /\ Scanning(r) /\ Len(sent[r]) < MaxChunks
    /\ sent' = [sent EXCEPT ![r] = Append(@, c)]
    /\ merged' = [merged EXCEPT ![r] = IF c.readable THEN Merge(@, c.usage) ELSE @]
    /\ queue' = [queue EXCEPT ![r] = <<c>>]
    /\ UNCHANGED <<gatewayVars, link, written, booked>>

(* Bug: a body that ends without [DONE] ends the stream as it is.          *)
ReadEndAsIs(r) ==
    /\ Scanning(r)
    /\ \/ queue' = [queue EXCEPT ![r] = <<Done>>] /\ UNCHANGED gatewayVars
       \/ UpstreamSucceeds(r) /\ UNCHANGED queue
    /\ UNCHANGED <<link, merged, sent, written, booked>>

(* [DONE], or the end of the body without it, which the relay completes.   *)
ReadEnd(r) ==
    /\ Scanning(r)
    /\ queue' = [queue EXCEPT ![r] = <<Done>>]
    /\ UNCHANGED <<gatewayVars, link, merged, sent, written, booked>>

(* streamFromSingleResponse: a full answer becomes a stream.               *)
ReadWhole(r, provider, u) ==
    /\ Called(r) /\ reply[r].stream
    /\ provider \in {"anthropic", "gemini"}
    /\ link' = [link EXCEPT ![r] = "whole"]
    /\ queue' = [queue EXCEPT ![r] = Fallback]
    /\ merged' = [merged EXCEPT ![r] = Parsed(provider, u)]
    /\ sent' = [sent EXCEPT ![r] = <<Full(u)>>]
    /\ UNCHANGED <<gatewayVars, written, booked>>

(* proxyChatCompletion for a client that asked for no stream.              *)
ReadAnswer(r, provider, u) ==
    /\ Called(r) /\ ~reply[r].stream
    /\ UpstreamSucceeds(r)
    /\ link' = [link EXCEPT ![r] = "whole"]
    /\ merged' = [merged EXCEPT ![r] = Parsed(provider, u)]
    /\ sent' = [sent EXCEPT ![r] = <<Full(u)>>]
    /\ UNCHANGED <<queue, written, booked>>

(* Bug: the upstream client has no timeout, and an upstream that neither   *)
(* answers nor fails is waited for until the client leaves.                *)
ReadHangs(r) ==
    /\ Called(r) \/ Scanning(r)
    /\ r \in gone
    /\ UpstreamFails(r)
    /\ UNCHANGED relayVars

(* The call or a read fails: an error answer, one that is not JSON, a line *)
(* that is too long, the 60 s, or the client has left.  The usage so far   *)
(* is kept.                                                                *)
ReadFails(r) ==
    /\ Called(r) \/ Scanning(r)
    /\ UpstreamFails(r)
    /\ UNCHANGED relayVars

(* WriteData: the header goes first, and Started() tells so from then on.  *)
StartStream(r) ==
    /\ Writing(r) /\ StreamStarts(r)
    /\ UNCHANGED relayVars

(* The write returns: it may do so after the client has left, as long as   *)
(* its connection takes it.                                                *)
Write(r) ==
    /\ Writing(r) /\ At(r, "streaming")
    /\ written' = [written EXCEPT ![r] = Append(@, Head(queue[r]))]
    /\ queue' = [queue EXCEPT ![r] = Tail(@)]
    /\ IF Head(queue[r]) = Done THEN UpstreamSucceeds(r) ELSE UNCHANGED gatewayVars
    /\ UNCHANGED <<link, merged, sent, booked>>

(* Bug: the relay does not look whether the write failed.                  *)
WriteFailsUnseen(r) ==
    /\ Writing(r) /\ At(r, "streaming") /\ r \in gone
    /\ queue' = [queue EXCEPT ![r] = Tail(@)]
    /\ IF Head(queue[r]) = Done THEN UpstreamSucceeds(r) ELSE UNCHANGED gatewayVars
    /\ UNCHANGED <<link, merged, sent, written, booked>>

(* Bug: the handler is left without a log row.                             *)
WriteFailsUnlogged(r) ==
    /\ Writing(r) /\ At(r, "streaming") /\ r \in gone
    /\ Goto(r, "leave")
    /\ queue' = [queue EXCEPT ![r] = <<>>]
    /\ UNCHANGED <<route, key, reply, gone>> /\ Private
    /\ UNCHANGED <<link, merged, sent, written, booked>>

(* It fails, and the relay with it.                                        *)
WriteFails(r) ==
    /\ Writing(r) /\ At(r, "streaming") /\ r \in gone
    /\ UpstreamFails(r)
    /\ queue' = [queue EXCEPT ![r] = <<>>]
    /\ UNCHANGED <<link, merged, sent, written, booked>>

(* The counts are normalised and go into the log row.                      *)
LogUsage(r) ==
    /\ Log(r)
    /\ booked' = IF r \in gone THEN booked
                 ELSE [booked EXCEPT ![r] = Normalize(merged[r])]
    /\ UNCHANGED <<link, queue, merged, sent, written>>

Forget(S) ==
    /\ link' = [r \in Requests |-> IF r \in S THEN "none" ELSE link[r]]
    /\ queue' = [r \in Requests |-> IF r \in S THEN <<>> ELSE queue[r]]
    /\ merged' = [r \in Requests |-> IF r \in S THEN Nothing ELSE merged[r]]
    /\ sent' = [r \in Requests |-> IF r \in S THEN <<>> ELSE sent[r]]
    /\ written' = [r \in Requests |-> IF r \in S THEN <<>> ELSE written[r]]
    /\ booked' = [r \in Requests |-> IF r \in S THEN Nothing ELSE booked[r]]

Return(r) == Leave(r) /\ Forget({r})

-----------------------------------------------------------------------------
Usages    == {c.usage : c \in Chunks}
Providers == {"openai", "anthropic", "gemini"}

(* What the process does on its own.                                       *)
Runs(r) ==
    \/ (Routing(r) \/ Marking(r)) /\ UNCHANGED relayVars
    \/ StartStream(r) \/ ReadFails(r) \/ LogUsage(r) \/ Return(r)

(* What a client that does not read holds up.                              *)
Writes(r) == Write(r) \/ WriteFails(r) \/ (Answer(r) /\ UNCHANGED relayVars)

(* What is up to the upstream ...                                          *)
Upstream(r) ==
    \/ Connect(r) \/ ReadEnd(r) \/ \E c \in Chunks : ReadChunk(r, c)
    \/ \E p \in Providers, u \in Usages : ReadWhole(r, p, u) \/ ReadAnswer(r, p, u)

(* ... and to the client.                                                  *)
Client(r) ==
    /\ \/ \E s \in BOOLEAN, ids \in SUBSET Keys : Arrive(r, s, ids)
       \/ NoKeyForModel(r) \/ ClientLeaves(r)
    /\ UNCHANGED relayVars

RelayNext ==
    \/ \E r \in Requests : Runs(r) \/ Writes(r) \/ Upstream(r) \/ Client(r)
    \/ (\E k \in Keys : DeleteKey(k)) /\ UNCHANGED relayVars
    \/ (\E p \in Probers : ProbeMark(p)) /\ UNCHANGED relayVars
    \/ Restart /\ Forget(Requests)
    \/ Tick /\ UNCHANGED relayVars

RelaySpec == RelayInit /\ [][RelayNext]_vars

(* Each statement returns; a write does once its client has left.          *)
RelayFairSpec ==
    /\ RelaySpec
    /\ \A r \in Requests : WF_vars(Runs(r)) /\ WF_vars(r \in gone /\ Writes(r))

-----------------------------------------------------------------------------
(* The variables of the relay have their types, and only a stream that is  *)
(* open has anything left to write.                                        *)
StreamTypeOK ==
    /\ link \in [Requests -> {"none", "events", "whole"}]
    /\ merged \in [Requests -> Report] /\ booked \in [Requests -> Booked]
    /\ \A r \in Requests :
          /\ queue[r] \in Seq(Item) /\ sent[r] \in Seq(Item) /\ written[r] \in Seq(Item)
          /\ queue[r] # <<>> => Open(r) /\ reply[r].stream

(* Every variable has its type, those of the gateway beside the relay's.   *)
RelayTypeOK == TypeOK /\ StreamTypeOK

(* A client reads [DONE] as the last item if and only if its stream is     *)
(* booked as a success, an error is answered only if nothing was streamed, *)
(* and a client that stays is never left without the one or the other      *)
(* unless the upstream broke off a stream that had begun.                  *)
EndTellsOutcome ==
    \A r \in Requests :
        LET w == written[r] IN
        reply[r].stream /\ pc[r] \in HoldingPcs =>
            /\ \A i \in 1..Len(w) : w[i] = Done <=> i = Len(w) /\ reply[r].outcome = "ok"
            /\ w # <<>> => reply[r].answer \in {"partial", "ok"}
            /\ At(r, "leave") /\ r \notin gone =>
                  \/ reply[r].answer = "ok" /\ w # <<>>
                  \/ reply[r].answer = "error" /\ w = <<>>
                  \/ reply[r].answer = "partial" /\ w # <<>> /\ reply[r].outcome = "error"

(* What a client reads is what the upstream sent, in order and from the    *)
(* start, all of it if the stream is booked as a success.                  *)
RelayedInOrder ==
    \A r \in Requests :
        LET w    == written[r]
            full == IF link[r] = "events" THEN Append(sent[r], Done) ELSE Fallback
        IN  reply[r].stream /\ pc[r] \in HoldingPcs =>
                /\ Len(w) <= Len(full) /\ w = SubSeq(full, 1, Len(w))
                /\ reply[r].outcome = "ok" => w = full

(* However a stream ends, its log row counts each half of what the         *)
(* upstream has reported until then, and no more tokens than that: what    *)
(* chunks repeat is not added up.                                          *)
UsageCounted ==
    \A r \in Requests :
        LET reported == {Nothing} \cup {c.usage : c \in {sent[r][i] : i \in
                                            {j \in 1..Len(sent[r]) : sent[r][j].readable}}}
            b        == booked[r]
        IN  pc[r] \in {"mark", "marking", "answer", "leave"} /\ logs[r] # "none" =>
                /\ \A u \in reported : b.prompt >= u.prompt /\ b.completion >= u.completion
                /\ \E u, v \in reported :
                      b.total \in {u.total, Clamp(u.prompt) + Clamp(v.completion)}

(* The relay implements the gateway, whose upstreams just succeed or fail. *)
ImplementsGateway == Spec

Stalled(r) == r \notin gone /\ ((Writing(r) /\ At(r, "streaming")) \/ At(r, "answer"))

(* Every request that arrives ends and gives its slot back, unless its     *)
(* client stops reading for good and stays all the same.                   *)
RequestsEnd ==
    \A r \in Requests : []<>~Stalled(r) => (~At(r, "new") ~> At(r, "done"))
=============================================================================
