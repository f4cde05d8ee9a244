---------------------------- MODULE AnswerStream ----------------------------
(***************************************************************************)
(* From sampled tokens to what the client of a completion reads:           *)
(* process_token, find_stopping_strings, send_partial_response and         *)
(* send_final_response (core/src/server/server-context.cpp) on the loop    *)
(* thread; task_result_state and the to_json of the results                *)
(* (server-task.cpp) on the thread of the handler, which takes the results *)
(* one at a time.                                                          *)
(*                                                                         *)
(* A byte is a symbol, of which only the number of bytes its character     *)
(* needs is known.  common_chat_parse and compute_diffs belong to          *)
(* llama.cpp and are external: a message is how much reasoning, content    *)
(* and arguments of tool calls it has, a parse of more text may show more  *)
(* of it, and the last parse may show what the partial ones held back.     *)
(*                                                                         *)
(* Abstracted: probabilities, timings and usage, several prompts in one    *)
(* request, drafts (UpdateSlots has them), errors (ResponseReader, GoBridge).  *)
(***************************************************************************)
EXTENDS Integers, Sequences, FiniteSets, SequencesExt, FiniteSetsExt

CONSTANTS
    Width(_),   \* bytes of the character a byte begins, 0 for a continuation
    NewLine, Space,
    Requests,   \* what may be asked, see RequestAssumption
    Earlier     \* tokens the slot may have counted for its previous task

(* type: "text" for /completion and OAI completions, or the API of a chat; *)
(* words: antiprompt; room: tokens until the context is full.              *)
Types == {"text", "chat", "resp", "anthropic"}
RequestAssumption(r) ==
    /\ r.type \in Types
    /\ {r.stream, r.progress, r.shift, r.timed, r.empty} \subseteq BOOLEAN
    /\ {r.predict, r.room, r.indent} \subseteq Nat
    /\ r.predict > 0
    /\ r.words \in Seq(Range(r.words))
    /\ \A i \in DOMAIN r.words : r.words[i] \in Seq(Range(r.words[i])) \ {<<>>}
    /\ \A p \in r.pieces : p \in Seq(Range(p))
ASSUME AnswerStreamAssumption ==
    Earlier \subseteq Nat /\ \A r \in Requests : RequestAssumption(r)

VARIABLES
    req,        \* the task of the slot
    slot,       \* its part of server_slot: state, text (generated_text), sent
                \* (n_sent_text), decoded, more (has_next_token), stop, word
                \* (stopping_word), newLine (has_new_line), lastNl (last_nl_pos)
    pieces,     \* the tokens sampled so far, as text
    results,    \* queue_results, for this task
    reader,     \* task_result_state: text, msg, thinking, started (text_block_started)
    events,     \* what the client has read
    late        \* the last parse showed more than the one before
vars == <<req, slot, pieces, results, reader, events, late>>

Raw == FlattenSeq(pieces)
Flag(b) == IF b THEN 1 ELSE 0
When(b, s) == IF b THEN s ELSE <<>>
NoMsg == [reasoning |-> 0, content |-> 0, tools |-> <<>>]

(* reset() leaves n_decoded as it is.                                       *)
Init ==
    /\ req \in Requests
    /\ \E n \in Earlier :
           slot = [state |-> "prompt", text |-> <<>>, sent |-> 0, decoded |-> n, more |-> TRUE,
                   stop |-> "none", word |-> <<>>, newLine |-> FALSE, lastNl |-> 0]
    /\ pieces = <<>> /\ results = <<>> /\ events = <<>> /\ late = FALSE
    /\ reader = [text |-> <<>>, msg |-> NoMsg, thinking |-> FALSE, started |-> FALSE]

-----------------------------------------------------------------------------
(* The text of the slot.                                                    *)

Incomplete(text) == \E i \in 1..Min({4, Len(text)}) : Width(text[Len(text) - i + 1]) > i

Unsent(s) == SubSeq(s.text, Min({s.sent, Len(s.text)}) + 1, Len(s.text))

(* Where `word` begins in `text`, looked for from `from` on (offsets).      *)
Occurrences(word, text, from) ==
    {p \in from..(Len(text) - Len(word)) : SubSeq(text, p + 1, p + Len(word)) = word}

LastTokenOnly(word, text, last) == Max({0, Len(text) - last})    \* mutant
SearchFrom(word, text, last) == Max({0, Len(text) - (Len(word) + last)})
FullStops(text, last) ==
    UNION {Occurrences(req.words[i], text, SearchFrom(req.words[i], text, last)) :
           i \in DOMAIN req.words}
StopWordAt(text, p) ==
    req.words[Min({i \in DOMAIN req.words : p \in Occurrences(req.words[i], text, 0)})]

(* The text ends with the beginning of a stop word.                         *)
HeldBack(text) ==
    \E i \in DOMAIN req.words : \E n \in 1..Len(req.words[i]) :
        IsSuffix(SubSeq(req.words[i], 1, n), text)

CutAtStop(s, last) ==
    LET hits == FullStops(Unsent(s), last)
    IN  IF Incomplete(s.text) \/ hits = {} THEN s
        ELSE [s EXCEPT !.text = SubSeq(@, 1, Len(@) - Len(Unsent(s)) + Min(hits)),
                       !.stop = "word", !.more = FALSE,
                       !.word = StopWordAt(Unsent(s), Min(hits))]

(* `before` and `s`: the slot before and after the search for stop words.   *)
SendsHalves(before, s, eog) == s.stop = "word" \/ eog \/ ~HeldBack(Unsent(before))    \* mutant
SendsText(before, s, eog) ==
    /\ ~Incomplete(before.text)
    /\ s.stop = "word" \/ eog \/ ~HeldBack(Unsent(before))
Chunk(before, s, eog) == When(SendsText(before, s, eog), Unsent(s))

ContextEnd(s) ==
    IF ~req.shift /\ s.decoded >= req.room THEN [s EXCEPT !.stop = "limit", !.more = FALSE] ELSE s
BudgetEnd(s) ==
    IF s.more /\ s.decoded >= req.predict THEN [s EXCEPT !.stop = "limit", !.more = FALSE] ELSE s

(* A stop word may have cut the text before last_nl_pos.                    *)
Indent(s) ==
    CHOOSE n \in 0..Max({0, Len(s.text) - s.lastNl}) :
        /\ \A i \in 1..n : s.text[s.lastNl + i] = Space
        /\ s.lastNl + n >= Len(s.text) \/ s.text[s.lastNl + n + 1] # Space
CutIndent(s) ==
    IF s.lastNl > 0 /\ s.lastNl + Indent(s) < Len(s.text) /\ Indent(s) < req.indent
    THEN [s EXCEPT !.stop = "limit", !.more = FALSE, !.text = SubSeq(@, 1, s.lastNl + Indent(s))]
    ELSE s
SkipsOne(s) ==      \* mutant: one symbol too far
    LET next == {i \in (s.lastNl + 1)..Len(s.text) : s.text[i] = NewLine}
    IN  IF next = {} THEN s ELSE [s EXCEPT !.lastNl = Min(next) + 1]
NextLine(s) ==
    LET next == {i \in (s.lastNl + 1)..Len(s.text) : s.text[i] = NewLine}
    IN  IF next = {} THEN s ELSE [s EXCEPT !.lastNl = Min(next)]
Indented(s) == IF s.newLine /\ req.indent > 0 THEN NextLine(CutIndent(s)) ELSE s

(* `overdue`: t_max_predict_ms has passed.                                  *)
LineEnd(s, shown, overdue) ==
    IF NewLine \notin Range(shown) THEN s
    ELSE IF overdue THEN [s EXCEPT !.newLine = TRUE, !.stop = "limit", !.more = FALSE]
    ELSE [s EXCEPT !.newLine = TRUE]
EosEnd(s, eog) == IF eog THEN [s EXCEPT !.stop = "eos", !.more = FALSE] ELSE s

-----------------------------------------------------------------------------
(* Results.                                                                 *)

Partial(content, decoded, progress) ==
    [final |-> FALSE, content |-> content, decoded |-> decoded, progress |-> progress,
     stop |-> "none"]
Final(s) ==
    [final |-> TRUE, content |-> When(~req.stream, s.text), decoded |-> s.decoded,
     progress |-> FALSE, stop |-> s.stop]

MaxProgress == 2    \* bound on the progress results a client has read
SendProgress ==
    /\ slot.state \in {"prompt", "done_prompt"} /\ req.stream /\ req.progress /\ ~req.empty
    /\ results = <<>> /\ Len(events) < MaxProgress
    /\ results' = Append(results, Partial(<<>>, slot.decoded, TRUE))
    /\ UNCHANGED <<req, slot, pieces, reader, events, late>>

(* The last token of the prompt is in the batch.                            *)
EndPrompt ==
    /\ slot.state = "prompt" /\ ~req.empty
    /\ slot' = [slot EXCEPT !.state = "done_prompt", !.decoded = 0]
    /\ UNCHANGED <<req, pieces, results, reader, events, late>>

AnswerEmptyPrompt ==
    /\ slot.state = "prompt" /\ req.empty
    /\ results' = Append(results, Final(slot))
    /\ slot' = [slot EXCEPT !.state = "idle"]
    /\ UNCHANGED <<req, pieces, reader, events, late>>

(* A token is sampled and goes through process_token; the last one is       *)
(* followed by the final result and the release of the slot.  A token that  *)
(* ends the generation (eog) may have a text, another one may have none.    *)
ProcessToken(piece, eog, overdue) ==
    LET added  == [slot EXCEPT !.state = "generating", !.decoded = @ + 1,
                               !.text = @ \o piece, !.more = TRUE]
        cut    == CutAtStop(added, Len(piece))
        chunk  == Chunk(added, cut, eog)
        sent   == [cut EXCEPT !.sent = @ + Len(chunk)]
        shown  == IF Incomplete(added.text) THEN piece ELSE chunk
        done   == EosEnd(LineEnd(Indented(BudgetEnd(ContextEnd(sent))), shown, overdue), eog)
    IN  /\ slot' = IF done.more THEN done ELSE [done EXCEPT !.state = "idle"]
        /\ results' = results
               \o When(req.stream /\ ~Incomplete(added.text),
                       <<Partial(chunk, added.decoded, FALSE)>>)
               \o When(~done.more, <<Final(done)>>)

Sample ==
    /\ slot.state \in {"done_prompt", "generating"}
    /\ \E piece \in req.pieces \cup {<<>>}, eog \in BOOLEAN, overdue \in {FALSE, req.timed} :
           /\ ProcessToken(piece, eog, overdue)
           /\ pieces' = Append(pieces, piece)
    /\ UNCHANGED <<req, reader, events, late>>

-----------------------------------------------------------------------------
(* The message parsed from the text, and what changes in it.                *)

Weight(m) == m.reasoning + m.content + FoldSeq(LAMBDA args, sum : 1 + args + sum, 0, m.tools)

MaxTools == 2   \* bound on the tool calls of a message
(* A tool call grows while it is the last one.                              *)
ToolsGrown(tools, n) ==
    {t \in BoundedSeq(0..n, MaxTools) :
        /\ Len(t) >= Len(tools)
        /\ \A i \in DOMAIN tools : t[i] >= tools[i] /\ (i < Len(tools) => t[i] = tools[i])}

(* External: what the parse of `n` symbols may make of message `m`;         *)
(* reasoning comes before content and content before the tool calls.        *)
Parses(m, n) ==
    {g \in [reasoning : m.reasoning..n, content : m.content..n, tools : ToolsGrown(m.tools, n)] :
        /\ Weight(g) <= n
        /\ g.reasoning > m.reasoning => m.content = 0 /\ m.tools = <<>>
        /\ g.content > m.content => m.tools = <<>>}
Reparsed(m, text, added, partial) ==
    IF req.type = "text" \/ (partial /\ added = <<>>) THEN {m} ELSE Parses(m, Len(text))

(* External: common_chat_msg_diff::compute_diffs.                           *)
Diff(kind, tool, named, n) == [kind |-> kind, tool |-> tool, named |-> named, n |-> n]
Diffs(old, new) ==
    LET last == Len(old.tools)
    IN  When(new.reasoning > old.reasoning,
             <<Diff("thinking", 0, FALSE, new.reasoning - old.reasoning)>>)
        \o When(new.content > old.content, <<Diff("text", 0, FALSE, new.content - old.content)>>)
        \o When(last > 0 /\ new.tools[last] > old.tools[last],
                <<Diff("tool", last, FALSE, new.tools[last] - old.tools[last])>>)
        \o [i \in 1..(Len(new.tools) - last) |-> Diff("tool", last + i, TRUE, new.tools[last + i])]

-----------------------------------------------------------------------------
(* The events of each API.  A block is a number the client knows it by: the *)
(* index of a content block, or one per output item.                        *)

Event(kind, of, block, n) == [kind |-> kind, of |-> of, block |-> block, n |-> n]
Start == Event("start", "message", 0, 0)
Concat(seqs) == FlattenSeq(seqs)
Each(diffs, F(_)) == Concat([i \in DOMAIN diffs |-> F(diffs[i])])

FinishReason(stop, msg) ==
    IF stop \notin {"word", "eos"} THEN "length"
    ELSE IF msg.tools = <<>> THEN "stop" ELSE "tool_calls"
Ending(reason) == <<Event("finish", reason, 0, 0), Event("done", "message", 0, 0)>>

(* Deltas without blocks.                                                   *)
Item(d) == CASE d.kind = "thinking" -> 0 [] d.kind = "text" -> 1 [] OTHER -> 1 + d.tool
Delta(d, block) == Event("delta", d.kind, block, d.n)

ChatPartial(r, diffs) ==
    When(r.decoded = 1 \/ r.progress, <<Start>>) \o Each(diffs, LAMBDA d : <<Delta(d, Item(d))>>)
ChatFinal(r, diffs, msg) ==
    Each(diffs, LAMBDA d : <<Delta(d, Item(d))>>)
    \o Ending(FinishReason(r.stop, msg))

(* Blocks that are opened before their first delta and closed at the end.   *)
Opened(d, block, isOpen) ==
    When(~isOpen, <<Event("open", d.kind, block, 0)>>) \o When(d.n > 0, <<Delta(d, block)>>)

RespPartial(r, diffs) ==
    When(r.decoded = 1, <<Start>>)
    \o Each(diffs, LAMBDA d :
           Opened(d, Item(d), CASE d.kind = "thinking" -> reader.thinking
                                [] d.kind = "text" -> reader.started
                                [] OTHER -> ~d.named))
Close(of, block, n) == Event("close", of, block, n)
RespFinal(r, msg) ==
    When(msg.reasoning > 0, <<Close("thinking", 0, msg.reasoning)>>)
    \o When(msg.content > 0, <<Close("text", 1, msg.content)>>)
    \o [i \in DOMAIN msg.tools |-> Close("tool", 1 + i, msg.tools[i])]
    \o Ending("completed")

(* thinking (0) -> text (0 or 1) -> tool_use                                *)
BlockIndex(d, hasThinking, hasText) ==
    CASE d.kind = "thinking" -> 0
      [] d.kind = "text" -> Flag(hasThinking)
      [] OTHER -> Flag(hasThinking) + Flag(hasText) + d.tool - 1
AnthropicPartial(r, diffs, msg) ==
    LET hasText == reader.started \/ \E i \in DOMAIN diffs : diffs[i].kind = "text"
    IN  When(r.decoded = 1, <<Start>>)
        \o Each(diffs, LAMBDA d :
               Opened(d, BlockIndex(d, msg.reasoning > 0, hasText),
                      CASE d.kind = "thinking" -> reader.thinking
                        [] d.kind = "text" -> reader.started
                        [] OTHER -> ~d.named))
AnthropicFinal(r, diffs, msg) ==
    LET hasThinking == msg.reasoning > 0
        hasText     == msg.content > 0
        Index(kind, tool) == BlockIndex(Diff(kind, tool, FALSE, 0), hasThinking, hasText)
    IN  Each(diffs, LAMBDA d : Opened(d, BlockIndex(d, hasThinking, hasText), FALSE))
        \o When(hasThinking, <<Close("thinking", 0, 0)>>)
        \o When(hasText, <<Close("text", Index("text", 0), 0)>>)
        \o [i \in DOMAIN msg.tools |-> Close("tool", Index("tool", i), 0)]
        \o Ending(FinishReason(r.stop, msg))

(* One answer for the whole text: the text itself when nothing was parsed.  *)
Shown(r, msg) == IF msg = NoMsg THEN [NoMsg EXCEPT !.content = Len(r.content)] ELSE msg
Whole(msg) ==
    When(msg.reasoning > 0, <<Event("delta", "thinking", 0, msg.reasoning)>>)
    \o When(msg.content > 0, <<Event("delta", "text", 1, msg.content)>>)
    \o [i \in DOMAIN msg.tools |-> Event("delta", "tool", 1 + i, msg.tools[i])]
WholeChat(r, msg) == Whole(Shown(r, msg)) \o Ending(FinishReason(r.stop, msg))
WholeResp(r, msg) == Whole(Shown(r, msg)) \o Ending("completed")

TextPartial(r) == <<Event("delta", "text", 1, Len(r.content))>>
TextFinal(r) ==
    When(r.content # <<>>, TextPartial(r))
    \o Ending(FinishReason(r.stop, NoMsg))

PartialEvents(r, diffs, msg) ==
    CASE req.type = "text"      -> TextPartial(r)
      [] req.type = "chat"      -> ChatPartial(r, diffs)
      [] req.type = "resp"      -> RespPartial(r, diffs)
      [] req.type = "anthropic" -> AnthropicPartial(r, diffs, msg)
FinalEvents(r, diffs, msg) ==
    CASE req.type = "text"      -> TextFinal(r)
      [] ~req.stream            -> IF req.type = "resp" THEN WholeResp(r, msg) ELSE WholeChat(r, msg)
      [] req.type = "chat"      -> ChatFinal(r, diffs, msg)
      [] req.type = "resp"      -> RespFinal(r, msg)
      [] req.type = "anthropic" -> AnthropicFinal(r, diffs, msg)

(* server_task_result_cmpl_partial::update and ..._final::update.           *)
ForgetsBlocks(r, msg, diffs) ==     \* mutant: the started flags are not kept
    [reader EXCEPT !.text = @ \o r.content, !.msg = msg]
KeepsOldMsg(r, msg, diffs) ==       \* mutant: chat_msg is not replaced
    LET Has(kind) == \E i \in DOMAIN diffs : diffs[i].kind = kind
    IN  [reader EXCEPT !.text = @ \o r.content, !.thinking = @ \/ Has("thinking"),
                       !.started = @ \/ Has("text")]
UpdatePartial(r, msg, diffs) ==
    LET Has(kind) == \E i \in DOMAIN diffs : diffs[i].kind = kind
    IN  [text |-> reader.text \o r.content, msg |-> msg,
         thinking |-> reader.thinking \/ Has("thinking"),
         started |-> reader.started \/ Has("text")]
UpdateFinal(r, msg) == [reader EXCEPT !.text = @ \o r.content, !.msg = msg]

(* The handler takes the next result and writes its events.                 *)
ReadPartial ==
    /\ results # <<>> /\ ~Head(results).final
    /\ LET r == Head(results)
       IN  \E msg \in Reparsed(reader.msg, reader.text \o r.content, r.content, TRUE) :
               LET diffs == Diffs(reader.msg, msg)
               IN  /\ reader' = UpdatePartial(r, msg, diffs)
                   /\ events' = events \o PartialEvents(r, diffs, msg)
    /\ results' = Tail(results)
    /\ UNCHANGED <<req, slot, pieces, late>>

ReadFinal ==
    /\ results # <<>> /\ Head(results).final
    /\ LET r == Head(results)
       IN  \E msg \in Reparsed(reader.msg, reader.text \o r.content, r.content, FALSE) :
               LET diffs == Diffs(reader.msg, msg)
               IN  /\ reader' = UpdateFinal(r, msg)
                   /\ events' = events \o FinalEvents(r, diffs, msg)
                   /\ late' = (diffs # <<>>)
    /\ results' = Tail(results)
    /\ UNCHANGED <<req, slot, pieces>>

Next == SendProgress \/ EndPrompt \/ AnswerEmptyPrompt \/ Sample \/ ReadPartial \/ ReadFinal
Spec == Init /\ [][Next]_vars

-----------------------------------------------------------------------------
(* Properties.                                                              *)

Symbols == UNION {Range(p) : p \in UNION {r.pieces : r \in Requests}}
TypeOK ==
    /\ req \in Requests
    /\ slot.state \in {"prompt", "done_prompt", "generating", "idle"}
    /\ slot.text \in Seq(Symbols) /\ slot.lastNl \in 0..Len(Raw)
    /\ slot.sent \in 0..Len(Raw) /\ slot.decoded \in Nat
    /\ slot.decoded = Len(pieces) \/ (pieces = <<>> /\ slot.state \in {"prompt", "idle"})
    /\ slot.stop \in {"none", "word", "limit", "eos"}
    /\ slot.more = (slot.state # "idle" \/ req.empty)
    /\ \A i \in DOMAIN results : results[i].final => i = Len(results) /\ slot.state = "idle"
    /\ late \in BOOLEAN

Content(rs) == Concat([i \in DOMAIN rs |-> rs[i].content])
Streamed == reader.text \o Content(results)

(* What a client has been sent, read or on its way, is the beginning of     *)
(* what the model generated, n_sent_text long: no character twice, none     *)
(* missing in the middle.  When generation has ended some of the answer is  *)
(* left behind only if what was not sent ended inside a character or a stop *)
(* word then (process_token).                                               *)
SentIsGenerated ==
    req.stream =>
        /\ Streamed = SubSeq(Raw, 1, slot.sent)
        /\ slot.state = "idle" /\ Len(slot.text) > slot.sent =>
               Incomplete(Raw) \/ HeldBack(SubSeq(Raw, slot.sent + 1, Len(Raw)))

(* A stop word is not part of the answer, streamed or whole: it is in the   *)
(* text sent only if the token that ended it also began a character (the    *)
(* search of find_stopping_strings then starts too late), and when it ended *)
(* the generation the answer stops where it begins.                         *)
TextUntil(k) == Concat(SubSeq(pieces, 1, k))
EndsAt(k, p) == Len(TextUntil(k - 1)) < p /\ p <= Len(TextUntil(k))
StopWordKept ==
    LET shown == IF req.stream THEN Streamed ELSE slot.text
    IN  \A i \in DOMAIN req.words :
            LET word == req.words[i]
            IN  /\ \A p \in Occurrences(word, shown, 0) :
                       \E k \in DOMAIN pieces :
                           /\ EndsAt(k, p + Len(word))
                           /\ Incomplete(TextUntil(k))
                /\ slot.stop = "word" => IsPrefix(slot.text \o slot.word, Raw)

At(kind, of, block) ==
    {i \in DOMAIN events :
        events[i].kind = kind /\ events[i].of = of /\ events[i].block = block}
Blocks == {<<events[i].of, events[i].block>> :
              i \in {k \in DOMAIN events : events[k].kind \in {"open", "delta", "close"}}}
IsDone == events # <<>> /\ Last(events).kind = "done"

(* In the APIs with blocks a delta lies between the start and the stop of   *)
(* its block, a number means one block only, the answer ends with every     *)
(* block closed once, and a block is opened once unless the last parse      *)
(* showed more than the partial ones (to_json_anthropic, _resp and their    *)
(* _stream forms keep the state of the blocks apart).                       *)
BlocksInOrder ==
    req.stream /\ req.type \in {"resp", "anthropic"} =>
        /\ \A b \in Blocks :
               LET opens  == At("open", b[1], b[2])
                   closes == At("close", b[1], b[2])
               IN  /\ \A d \in At("delta", b[1], b[2]) :
                          (\E o \in opens : o < d) /\ (\A c \in closes : d < c)
                   /\ ~late => Cardinality(opens) = 1
                   /\ Cardinality(closes) = Flag(IsDone)
        /\ \A b, c \in Blocks : b[2] = c[2] => b = c
        /\ \A i \in DOMAIN events : events[i].kind = "done" => i = Len(events)

(* The deltas a client has read add up to the message parsed so far, part   *)
(* by part; the Responses API does not send what the last parse adds.       *)
Total(of) ==
    FoldSeq(LAMBDA e, sum : sum + Flag(e.kind = "delta" /\ e.of = of) * e.n, 0, events)
DeltasAddUp ==
    CASE req.type = "text" -> Total("text") = Len(reader.text)
      [] req.type = "resp" /\ late -> TRUE
      [] reader.msg = NoMsg /\ ~req.stream -> TRUE
      [] OTHER ->
            /\ Total("thinking") = reader.msg.reasoning
            /\ Total("text") = reader.msg.content
            /\ Total("tool") = FoldSeq(LAMBDA n, sum : sum + n, 0, reader.msg.tools)

(* "We have to send an initial update to conform to openai behavior"        *)
(* (server-task.cpp): the first event of a streamed chat announces the      *)
(* message.  It is tied to n_decoded = 1, but a first token that ends       *)
(* inside a character gives no result, and an empty prompt no token.        *)
StreamStarts == req.stream /\ req.type # "text" /\ events # <<>> => events[1] = Start

(* "no send the stop word in the response" (process_token).                 *)
StopWordNeverSent ==
    \A i \in DOMAIN req.words : Occurrences(req.words[i], reader.text, 0) = {}

(* "in stream mode, content and tokens are already in last partial chunk"   *)
(* (send_final_response).                                                   *)
AllTextStreamed == req.stream /\ slot.state = "idle" => slot.sent >= Len(slot.text)

(* The started flags are there to "track output item / content block state  *)
(* across chunks" (server-task.h): a block is opened once, before its end.  *)
OpenedOnce ==
    \A b \in Blocks : req.stream /\ req.type \in {"resp", "anthropic"} =>
        Cardinality(At("open", b[1], b[2])) = 1
=============================================================================
