------------------------------ MODULE AiStream ------------------------------
(* The response side of ai-proxy: the provider's answer arrives in chunks of  *)
(* any size, is decoded, cut into events, observed for usage and for the end  *)
(* of the stream, and forwarded, re-encoded for the client's protocol, or     *)
(* rebuilt as Responses events.                                               *)
(*                                                                            *)
(* A wire is a sequence of units, the pieces a chunk boundary can separate:   *)
(* the head of an event, the lead and the continuation byte of a two-byte     *)
(* character in its text, a byte no UTF-8 text has, and line feeds.           *)
EXTENDS Naturals, Sequences, SequencesExt, FiniteSets, TLC

CONSTANTS
  None,
  Answers,     \* [path, provider, client, wanted, streaming, ok, events, cut]: wanted says the
               \* client asked for a stream, ok that the status is 200
  MaxI64       \* the largest i64, for token counts

VARIABLES
  answer,      \* the provider's answer
  pos,         \* how many of its units body_filter has seen
  bytes,       \* stream_utf8_buffer
  buffer,      \* the parser's buffer, or response_buffer when not streaming
  st,          \* the other fields of AiRequestState, the hint of the lifecycle
               \* and (out) what the client has been sent
  ended,       \* end_of_stream has been handled
  split        \* ghost: a chunk boundary fell inside a character

streamVars == <<answer, pos, bytes, buffer, st, ended, split>>

(***************************************************************************)
(* The wire                                                                *)
(***************************************************************************)
Unit(i, part) == [e |-> i, part |-> part]
Body(i, kind) ==
  <<Unit(i, "head")>> \o
  CASE kind \in {"text", "whole"} -> <<Unit(i, "lead"), Unit(i, "cont")>>
    [] kind = "broken" -> <<Unit(i, "bad")>>
    [] OTHER -> <<>>
LF == Unit(0, "lf")
Wire(a) ==
  LET whole == FlattenSeq([i \in DOMAIN a.events |->
                 Body(i, a.events[i].kind) \o (IF a.streaming THEN <<LF, LF>> ELSE <<>>)])
  IN SubSeq(whole, 1, Len(whole) - a.cut)

(***************************************************************************)
(* decode_stream_chunk                                                     *)
(***************************************************************************)
\* The first place where the bytes stop being UTF-8: 0 when they never do.
Stops(b, i) == \/ b[i].part \in {"bad"}
               \/ b[i].part = "lead" /\ (i = Len(b) \/ b[i + 1].part # "cont")
               \/ b[i].part = "cont" /\ (i = 1 \/ b[i - 1].part # "lead")
ValidUpTo(b) ==
  LET bad == {i \in DOMAIN b : Stops(b, i)}
  IN IF bad = {} THEN Len(b) ELSE (CHOOSE i \in bad : \A j \in bad : i <= j) - 1
\* error_len() is None: the character may still be completed.
Incomplete(b) == ValidUpTo(b) = Len(b) - 1 /\ Last(b).part = "lead"

\* Mutant: the tail of a character is dropped with the chunk.
Decode_DropsTail(held, chunk) ==
  LET b == held \o chunk IN
  [text |-> SubSeq(b, 1, ValidUpTo(b)), held |-> <<>>,
   invalid |-> ValidUpTo(b) < Len(b) /\ ~Incomplete(b)]

\* What follows an invalid byte in its chunk is lost.
Decode(held, chunk) ==
  LET b == held \o chunk IN
  [text |-> SubSeq(b, 1, ValidUpTo(b)),
   held |-> IF Incomplete(b) THEN <<Last(b)>> ELSE <<>>,
   invalid |-> ValidUpTo(b) < Len(b) /\ ~Incomplete(b)]

(***************************************************************************)
(* SseParser                                                               *)
(***************************************************************************)
\* The event type line of a named event is part of its head.
IsNamed(a) == a.provider = "anthropic" \/ a.path = "responses_raw"
LineStart(t, i) == t[i].part = "head" /\ (i = 1 \/ t[i - 1] = LF)
TypeLine(a, t) ==
  LET heads == {i \in DOMAIN t : LineStart(t, i)} IN
  IF ~IsNamed(a) \/ heads = {} THEN "message"
  ELSE a.events[t[CHOOSE i \in heads : \A j \in heads : j <= i].e].kind

\* parse_single_event of a text that has no boundary in it: no data line gives
\* no event, anything but one whole event gives data that is not JSON.
ParseSingleEvent(a, text) ==
  LET t == SelectSeq(text, LAMBDA u : u # LF)
      heads == {i \in DOMAIN text : LineStart(text, i)}
      e == text[CHOOSE i \in heads : TRUE].e
  IN CASE heads = {} -> <<>>
       [] heads # {} /\ t = Body(e, a.events[e].kind) /\ a.events[e].kind # "garbage" ->
            <<[i |-> e, kind |-> a.events[e].kind, usage |-> a.events[e].usage,
               name |-> a.events[e].kind]>>
       [] OTHER -> <<[i |-> 0, kind |-> "garbage", usage |-> None, name |-> TypeLine(a, text)]>>

Boundaries(b) == {i \in 1..(Len(b) - 1) : b[i] = LF /\ b[i + 1] = LF}
\* The boundaries parse_standard cuts at: find() takes the leftmost pair of line
\* feeds and goes on after it.
Cuts(b) == LET R[i \in 0..Len(b)] ==
                 IF i < 2 THEN {}
                 ELSE IF (i - 1) \in Boundaries(b) /\ (i - 1) \notin R[i - 1] THEN R[i - 1] \cup {i}
                 ELSE R[i - 1]
           IN SetToSortSeq(R[Len(b)], <)
Feed(a, b) ==
  LET c == Cuts(b)
      from(k) == IF k = 1 THEN 1 ELSE c[k - 1] + 1
  IN [events |-> FlattenSeq([k \in DOMAIN c |-> ParseSingleEvent(a, SubSeq(b, from(k), c[k]))]),
      rest |-> IF c = <<>> THEN b ELSE SubSeq(b, Last(c) + 1, Len(b))]
Flush(a, b) == ParseSingleEvent(a, b)

(***************************************************************************)
(* Observation of provider events                                          *)
(***************************************************************************)
Failures == {"error", "failed"}
Endings == {"stop", "completed", "incomplete"}

Valid(a, ev) ==
  /\ ev.kind \notin {"ping", "garbage"}
  /\ a.provider = "anthropic" => ev.kind \in {"start", "tool", "text", "args", "finish"}
  /\ a.provider = "gemini" => ev.kind \in {"text", "tool", "finish", "usage"}

\* observe_stream_event
Observe(a, s, ev) ==
  CASE ev.kind = "done" -> [s EXCEPT !.term = "Complete"]
    [] ev.kind # "done" /\ ev.name \in Failures -> [s EXCEPT !.term = "ProviderFailed"]
    [] ev.kind # "done" /\ ev.name \in Endings -> [s EXCEPT !.term = "Complete"]
    [] OTHER ->
         IF ~Valid(a, ev) THEN s
         ELSE [s EXCEPT !.seen = TRUE,
                        !.term = IF a.provider = "gemini" /\ ev.kind = "finish" THEN "Complete" ELSE @]

NoUsage == [prompt |-> None, completion |-> None, total |-> None, cached |-> None, invalid |-> FALSE]

\* merge_token_usage: a field the event reports replaces the earlier one.
MergeTokenUsage(u, o) ==
  LET pick(f) == IF o[f] # None THEN o[f] ELSE u[f] IN
  [prompt |-> pick("prompt"), completion |-> pick("completion"), total |-> pick("total"),
   cached |-> pick("cached"), invalid |-> u.invalid \/ o.invalid]
TakeUsage(s, ev) ==
  IF ev.usage = None THEN s ELSE [s EXCEPT !.usage = MergeTokenUsage(@, ev.usage)]

\* derive_total_if_missing: two i64 counts never overflow the u64 sum.
DeriveTotal(s) ==
  IF s.usage.total # None \/ None \in {s.usage.prompt, s.usage.completion} THEN s
  ELSE [s EXCEPT !.usage.total = s.usage.prompt + s.usage.completion]

\* A hint of the lifecycle gives way only to one of higher priority.
Rank(h) == CASE h = "none" -> 0 [] h = "semantic" -> 1 [] h = "gateway" -> 2
Mark(s, h) == [s EXCEPT !.hint = IF Rank(h) > Rank(@) THEN h ELSE @]
MarkTransformError(a, s) == IF a.ok THEN Mark(s, "gateway") ELSE s
MarkFailed(s) == IF s.term = "ProviderFailed" THEN Mark(s, "semantic") ELSE s

\* finalize_stream_completion_estimate; the estimate is kept as the text it counts.
FinalizeEstimate(s) ==
  IF s.term # "Complete" \/ s.usage.completion # None \/ s.invalid THEN s
  ELSE [s EXCEPT !.estimate = IF s.choices = <<>> THEN s.text ELSE s.choices[1]]

(***************************************************************************)
(* Drivers: transform_stream_event                                         *)
(***************************************************************************)
Chunk(ev, content, call) == [e |-> ev.i, content |-> content, call |-> call]
Skip == [e |-> 0, content |-> FALSE, call |-> "skip"]
Error == [e |-> 0, content |-> FALSE, call |-> "error"]

TransformOpenAi(ev) ==
  CASE ev.kind \in {"garbage", "error"} -> Error
    [] ev.kind = "tool" -> Chunk(ev, FALSE, "open")
    [] ev.kind = "args" -> Chunk(ev, FALSE, "more")
    [] ev.kind = "usage" -> Chunk(ev, FALSE, "no_choice")
    [] OTHER -> Chunk(ev, ev.kind = "text", "none")

TransformAnthropic(ev) ==
  CASE ev.kind = "garbage" -> Error
    [] ev.kind \in {"start", "finish"} -> Chunk(ev, FALSE, "none")
    [] ev.kind = "text" -> Chunk(ev, TRUE, "none")
    [] ev.kind = "tool" -> Chunk(ev, FALSE, "open")
    [] ev.kind = "args" -> Chunk(ev, FALSE, "more")
    [] OTHER -> Skip

\* An error object has no candidates: it becomes a chunk without text.
TransformGemini(ev) ==
  CASE ev.kind = "garbage" -> Error
    [] ev.kind = "tool" -> Chunk(ev, FALSE, "whole")
    [] OTHER -> Chunk(ev, ev.kind = "text", "none")

Transform(a, ev) ==
  CASE a.provider = "anthropic" -> TransformAnthropic(ev)
    [] a.provider = "gemini" -> TransformGemini(ev)
    [] OTHER -> TransformOpenAi(ev)

\* append_chat_stream_completion_text, for the one choice of these chunks
AppendChatText(s, c) ==
  IF c.call = "no_choice" THEN s
  ELSE [s EXCEPT !.choices =
          <<(IF @ = <<>> THEN <<>> ELSE @[1]) \o
            (IF c.content \/ c.call \in {"more", "whole"} THEN <<c.e>> ELSE <<>>)>>]

\* remap_tool_call_index: the index of the tool call within the message
ToolIndex(s, c) ==
  CASE c.call \in {"open", "whole"} -> s.tools
    [] c.call = "more" -> IF s.tools = 0 THEN 0 ELSE s.tools - 1
    [] OTHER -> None
CountTool(s, c) == [s EXCEPT !.tools = IF c.call \in {"open", "whole"} THEN @ + 1 ELSE @]

Send(s, msgs) == [s EXCEPT !.out = @ \o msgs]

(***************************************************************************)
(* ResponsesEventState                                                     *)
(***************************************************************************)
Item(i, type) == [k |-> "added", item |-> i, type |-> type]
Delta(i, type, e) == [k |-> "delta", item |-> i, type |-> type, e |-> e]
ItemDone(i, item) == [k |-> "done", item |-> i, type |-> item.type, text |-> item.text]

OpenItem(s, type, phase) ==
  Send([s EXCEPT !.phase = phase, !.items = Append(@, [type |-> type, text |-> <<>>, done |-> FALSE])],
       <<Item(Len(s.items) + 1, type)>>)

\* close_current_content and close_current_tool_call
CloseCurrent(s, type) ==
  LET n == Len(s.items) IN
  IF n = 0 THEN s
  ELSE IF s.items[n].type # type \/ s.items[n].done THEN s
  ELSE Send([s EXCEPT !.items[n].done = TRUE], <<ItemDone(n, s.items[n])>>)

Streamed(s, type, e) ==
  LET n == Len(s.items) IN
  Send(IF n = 0 THEN s ELSE [s EXCEPT !.items[n].text = Append(@, e)],
       <<Delta(IF n = 0 THEN 1 ELSE n, type, e)>>)

ContentDelta(s, c) ==
  LET closed == IF s.phase = "ToolCall" THEN CloseCurrent(s, "function_call") ELSE s
      opened == IF s.phase = "Content" THEN closed ELSE OpenItem(closed, "message", "Content")
  IN Streamed(opened, "message", c.e)

\* Mutant: a tool call is opened over the item being streamed.
CallDelta_LeavesOpen(s, c) ==
  LET opened == IF c.call = "more" THEN s ELSE OpenItem(s, "function_call", "ToolCall")
  IN IF c.call = "open" THEN opened ELSE Streamed(opened, "function_call", c.e)

CallDelta(s, c) ==
  LET closed == CASE s.phase = "Content" -> CloseCurrent(s, "message")
                  [] s.phase = "ToolCall" -> CloseCurrent(s, "function_call")
                  [] OTHER -> s
      opened == IF c.call = "more" THEN s ELSE OpenItem(closed, "function_call", "ToolCall")
  IN IF c.call = "open" THEN opened ELSE Streamed(opened, "function_call", c.e)

ProcessChatChunk(s, c) ==
  LET begun == IF s.init THEN s
               ELSE Send([s EXCEPT !.init = TRUE], <<[k |-> "created"], [k |-> "in_progress"]>>)
      content == IF c.content THEN ContentDelta(begun, c) ELSE begun
  IN CASE c.call = "no_choice" -> s
       [] c.call = "none" -> content
       [] OTHER -> CallDelta(content, c)

\* process_done: close_all, then response.completed with the whole output
ProcessDone(s) ==
  LET closed == CASE s.phase = "Content" -> CloseCurrent(s, "message")
                  [] s.phase = "ToolCall" -> CloseCurrent(s, "function_call")
                  [] OTHER -> s
  IN IF s.phase = "Done" THEN s
     ELSE Send([closed EXCEPT !.phase = "Done"],
               <<[k |-> "completed", output |-> [i \in DOMAIN closed.items |-> closed.items[i].text],
                  total |-> LET z(f) == IF s.usage[f] = None THEN 0 ELSE s.usage[f]
                            IN IF s.usage.total # None THEN s.usage.total
                               ELSE z("prompt") + z("completion")]>>)

(***************************************************************************)
(* AnthropicCodec::encode_stream_event                                     *)
(***************************************************************************)
EncodeAnthropic(s, c) ==
  Send([s EXCEPT !.first = FALSE],
       (IF s.first THEN <<[k |-> "message_start"], [k |-> "content_block_start"]>> ELSE <<>>) \o
       (IF c.content THEN <<[k |-> "content_block_delta", e |-> c.e]>> ELSE <<>>))

(***************************************************************************)
(* body_filter, event by event                                             *)
(***************************************************************************)
AnthropicRawEvent(a, s, ev) ==
  LET o == TakeUsage(Observe(a, s, ev), ev) IN
  CASE ev.kind = "garbage" -> [o EXCEPT !.invalid = TRUE]
    [] ev.kind \in {"text", "args"} -> [o EXCEPT !.text = Append(@, ev.i)]
    [] OTHER -> o

\* The output of response.completed replaces the text observed so far.
ResponsesRawEvent(a, s, ev) ==
  LET o == MarkFailed(Observe(a, s, ev))
      t == CASE ev.kind \in {"text", "args"} -> [o EXCEPT !.text = Append(@, ev.i)]
             [] ev.kind \in {"completed", "incomplete"} ->
                  [o EXCEPT !.text = <<ev.i>>, !.invalid = FALSE]
             [] ev.kind = "garbage" -> [o EXCEPT !.invalid = TRUE]
             [] OTHER -> o
  IN TakeUsage(t, ev)

TransformFailed(a, s) ==
  LET i == [s EXCEPT !.invalid = TRUE]
  IN IF s.term = "ProviderFailed" THEN i ELSE MarkTransformError(a, i)

ResponsesEvent(a, s, ev) ==
  LET o == TakeUsage(MarkFailed(Observe(a, s, ev)), ev)
      c == Transform(a, ev)
  IN CASE ev.kind = "done" -> ProcessDone(o)
       [] ev.kind # "done" /\ c = Skip -> o
       [] ev.kind # "done" /\ c = Error -> TransformFailed(a, o)
       [] OTHER -> ProcessChatChunk(CountTool(AppendChatText(o, c), c), c)

ChatEvent(a, s, ev) ==
  LET o == MarkFailed(Observe(a, s, ev))
      u == TakeUsage(o, ev)
      c == Transform(a, ev)
      t == AppendChatText(u, c)
  IN CASE ev.kind = "done" /\ a.client = "anthropic" ->
            Send(o, <<[k |-> "message_delta"], [k |-> "message_stop"]>>)
       [] ev.kind = "done" /\ a.client # "anthropic" -> Send(o, <<[k |-> "[DONE]"]>>)
       [] ev.kind # "done" /\ c = Skip -> u
       [] ev.kind # "done" /\ c = Error -> TransformFailed(a, u)
       [] OTHER ->
            IF a.client = "anthropic" THEN EncodeAnthropic(CountTool(t, c), c)
            ELSE Send(CountTool(t, c), <<[k |-> "chunk", e |-> c.e, tool |-> ToolIndex(t, c)]>>)

HandleEvent(a, s, ev) ==
  CASE a.path = "anthropic_raw" -> AnthropicRawEvent(a, s, ev)
    [] a.path = "responses_raw" -> ResponsesRawEvent(a, s, ev)
    [] a.path = "responses" -> ResponsesEvent(a, s, ev)
    [] a.path = "chat" -> ChatEvent(a, s, ev)

IsRaw(a) == a.path \in {"anthropic_raw", "responses_raw"}
Undecodable(a, s, yes) ==
  IF ~yes THEN s
  ELSE LET i == [s EXCEPT !.invalid = TRUE] IN IF IsRaw(a) THEN i ELSE MarkTransformError(a, i)
ForwardRaw(a, s, chunk) ==
  IF IsRaw(a) /\ chunk # <<>> THEN Send(s, [i \in DOMAIN chunk |-> [k |-> "raw", u |-> chunk[i]]]) ELSE s

\* One call of body_filter while streaming: what it leaves of the buffers, and the state.
FilterStream(a, held, buf, s, chunk, eos) ==
  LET d == Decode(held, chunk)
      fed == Feed(a, buf \o d.text)
      events == fed.events \o (IF eos THEN Flush(a, fed.rest) ELSE <<>>)
      heard == Undecodable(a, ForwardRaw(a, s, chunk), d.invalid \/ (eos /\ d.held # <<>>))
      done == FoldLeft(LAMBDA r, ev : HandleEvent(a, r, ev), heard, events)
  IN [bytes |-> IF eos THEN <<>> ELSE d.held,
      buffer |-> IF eos THEN <<>> ELSE fed.rest,
      st |-> IF ~eos THEN done
             ELSE IF IsRaw(a) THEN FinalizeEstimate(done) ELSE DeriveTotal(FinalizeEstimate(done))]

(***************************************************************************)
(* body_filter of an answer that is not a stream                           *)
(***************************************************************************)
\* String::from_utf8_lossy of one chunk: half a character becomes U+FFFD.
Lossy(chunk) ==
  [i \in DOMAIN chunk |-> IF Stops(chunk, i) THEN Unit(chunk[i].e, "fffd") ELSE chunk[i]]
IsJson(a, b) == /\ \E i \in DOMAIN b : b[i].part = "head"
                /\ a.events[1].kind = "whole" /\ a.cut = 0
Settled(a, s, b) ==
  LET u == IF IsJson(a, b) /\ a.events[1].usage # None THEN [s EXCEPT !.usage = a.events[1].usage] ELSE s
      est == IF u.usage.completion # None THEN u ELSE [u EXCEPT !.estimate = b]
  IN CASE IsRaw(a) -> IF IsJson(a, b) THEN est ELSE u
       [] ~IsRaw(a) /\ a.ok /\ IsJson(a, b) -> Send(est, <<[k |-> a.path, body |-> b]>>)
       [] OTHER ->
            Send(MarkTransformError(a, u),
                 <<[k |-> IF a.path = "responses" THEN "responses_error" ELSE "verbatim",
                    body |-> IF a.path = "responses" THEN <<>> ELSE b]>>)

FilterWhole(a, buf, s, chunk, eos) ==
  LET b == buf \o Lossy(chunk) IN
  [bytes |-> <<>>, buffer |-> IF eos THEN <<>> ELSE b,
   st |-> LET f == ForwardRaw(a, s, chunk) IN IF eos THEN Settled(a, f, b) ELSE f]

Filter(a, held, buf, s, chunk, eos) ==
  IF a.streaming THEN FilterStream(a, held, buf, s, chunk, eos) ELSE FilterWhole(a, buf, s, chunk, eos)

(***************************************************************************)
(* The specification                                                       *)
(***************************************************************************)
\* AiRequestState as access and header_filter leave it
Fresh(a) ==
  [term |-> IF a.wanted THEN "Pending" ELSE "NotStreaming", seen |-> FALSE,
   usage |-> NoUsage, invalid |-> FALSE, text |-> <<>>, choices |-> <<>>, estimate |-> None,
   tools |-> 0, first |-> TRUE, phase |-> "Init", items |-> <<>>, init |-> FALSE,
   hint |-> "none", out |-> <<>>]

StreamInit ==
  /\ answer \in Answers
  /\ pos = 0 /\ bytes = <<>> /\ buffer = <<>> /\ ended = FALSE /\ split = FALSE
  /\ st = Fresh(answer)

\* A chunk of any length; the end may come with the last one or on its own,
\* with no body.
BodyFilter ==
  /\ ~ended
  /\ \E n \in pos..Len(Wire(answer)), eos \in BOOLEAN :
       /\ eos => n = Len(Wire(answer))
       /\ n = pos => eos
       /\ LET r == Filter(answer, bytes, buffer, st, SubSeq(Wire(answer), pos + 1, n), eos) IN
            bytes' = r.bytes /\ buffer' = r.buffer /\ st' = r.st
       /\ pos' = n
       /\ ended' = eos
       /\ split' = (split \/ (0 < n /\ n < Len(Wire(answer)) /\ Wire(answer)[n].part = "lead"))
  /\ UNCHANGED answer

(***************************************************************************)
(* Properties                                                              *)
(***************************************************************************)
Broken(a) == \E i \in DOMAIN a.events : a.events[i].kind = "broken"

\* However the network cuts the provider's answer into chunks, and whether the
\* end comes with the last one or alone, the client is sent the same messages
\* and the same usage, terminal state, estimate and error are recorded as when
\* the answer arrives at once.  Excepted are answers with bytes that are not
\* UTF-8 (the rest of their chunk is lost: the estimate is withheld and, when
\* translating, the request counts as a gateway error) and bodies that are not
\* streams and were cut inside a character (decoded chunk by chunk).
ChunkingTransparent ==
  ended =>
    IF Broken(answer)
    THEN answer.streaming /\ answer.path # "responses_raw" =>
           st.invalid /\ (answer.ok /\ ~IsRaw(answer) => st.hint = "gateway")
    ELSE answer.streaming \/ ~split =>
           st = Filter(answer, <<>>, <<>>, Fresh(answer), Wire(answer), TRUE).st

\* A client of /v1/responses whose provider speaks another protocol sees the
\* items of the output one at a time: each is added, receives the deltas of its
\* own type, is closed once with exactly the text of its deltas, and
\* response.completed comes after the last one is closed and repeats them all.
\* (A provider whose bytes are not UTF-8 may lose the event that opens an item.)
ResponsesWellFormed ==
  LET o == st.out
      At(k, i) == {p \in DOMAIN o : o[p].k = k /\ o[p].item = i}
      DeltaText(i) == LET d == SelectSeq(o, LAMBDA m : m.k = "delta" /\ m.item = i)
                      IN [p \in DOMAIN d |-> d[p].e]
      Numbered == {p \in DOMAIN o : o[p].k \in {"added", "delta", "done"}}
      Ids == {o[p].item : p \in Numbered}
      Ends == {p \in DOMAIN o : o[p].k = "completed"}
  IN answer.path = "responses" /\ answer.streaming /\ ~Broken(answer) =>
       /\ \A i \in Ids :
            /\ Cardinality(At("added", i)) = 1 /\ Cardinality(At("done", i)) <= 1
            /\ \A p \in At("delta", i), q \in At("added", i) : q < p /\ o[p].type = o[q].type
            /\ \A p \in At("done", i) :
                 o[p].text = DeltaText(i) /\ \A q \in At("delta", i) : q < p
            /\ \A j \in Ids : i < j => \A q \in At("added", j) : \E p \in At("done", i) : p < q
       /\ \A p \in Ends :
            /\ p = Len(o)
            /\ \A i \in Ids : At("done", i) # {}
            /\ o[p].output = [i \in 1..Cardinality(Ids) |-> DeltaText(i)]

\* A stream the provider completed reaches the client with the end of the
\* client's own protocol: [DONE], message_stop or response.completed.
ClientSeesTheEnd ==
  ended /\ answer.streaming /\ ~IsRaw(answer) /\ st.term = "Complete" =>
    \E p \in DOMAIN st.out : st.out[p].k \in {"[DONE]", "message_stop", "completed"}
=============================================================================
