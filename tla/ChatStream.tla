----------------------------- MODULE ChatStream -----------------------------
(***************************************************************************)
(* One streamed response of a model: streaming_chat_response_handler of    *)
(* utils/middleware.py.  It collects the items of the response, runs the   *)
(* tools the model calls and asks the model again with their results, and  *)
(* so on up to a limit; then it does the same for the code the model has   *)
(* written, and stores the message.  It may be cancelled at any await.  A  *)
(* user may continue a response that has ended.                            *)
(*                                                                         *)
(* Of the provider's two streaming formats, "chat" (Chat Completions)      *)
(* delivers tool calls beside the text, "responses" (Responses API) as     *)
(* items among the others, addressed by their index in the response.       *)
(*                                                                         *)
(* Reasoning items hold no calls and are left out.  The arguments of a     *)
(* call, its batched display and citations are left out, too.              *)
(***************************************************************************)
EXTENDS Naturals, SequencesExt

CONSTANTS
    MaxCalls,      \* bound on the tool calls; each gets a new identifier
    Apis,          \* the formats the provider may use, of "chat" and "responses"
    RealtimeSaves, \* the values of ENABLE_REALTIME_CHAT_SAVE
    Limit,         \* CHAT_RESPONSE_MAX_TOOL_CALL_ITERATIONS
    MaxRetries,    \* MAX_RETRIES of the code interpreter
    MaxItems,      \* bound on the texts and calls of one stream
    MaxContinues   \* bound on the times the response is continued

VARIABLES
    api, realtime, \* the format and the setting
    pc,            \* where the handler is
    output, prior, \* items: of the current stream, of what came before it
    items,         \* the items of the current response (Responses API)
    streamed,      \* response_tool_calls: calls of the current stream
    queue,         \* tool_calls: the calls of each stream yet to be run
    turn, at,      \* the calls being run, how many have been
    iterations, retries,
    base, request, \* messages: of the continued response, last sent
    row,           \* the message in the database
    made, ran,     \* history: number of calls made, how often each was run
    recorded,      \* history: calls whose result was put into the output
    cuts,          \* history: where the handler was interrupted
    continues

config   == <<api, realtime>>
loop     == <<queue, turn, at, iterations, retries>>
asked    == <<base, request>>
history  == <<made, ran, recorded, cuts, continues>>
vars == <<config, pc, output, prior, items, streamed, loop, asked, row, history>>

Calls == 1..MaxCalls

Item(type, id) == [type |-> type, id |-> id]
Text   == Item("text", 0)
Blank  == Item("blank", 0)      \* a message item without text
Code   == Item("code", 0)
Call(c)   == Item("call", c)
Result(c) == Item("result", c)
ItemTypes == {"text", "blank", "code", "call", "result"}

\* The elements of a list that are in a set.
Sublist(s, T) ==
    LET f[i \in 0..Len(s)] ==
            IF i = 0 THEN <<>> ELSE IF s[i] \in T THEN Append(f[i - 1], s[i]) ELSE f[i - 1]
    IN  f[Len(s)]

Ids(type, out) == {i.id : i \in {j \in Range(out) : j.type = type}}

Streaming == {"first", "again", "coding"}

Init ==
    /\ api \in Apis /\ realtime \in RealtimeSaves
    /\ pc = "first"
    /\ output = <<>> /\ prior = <<>> /\ items = <<>> /\ streamed = <<>>
    /\ queue = <<>> /\ turn = <<>> /\ at = 0 /\ iterations = 0 /\ retries = 0
    /\ base = <<>> /\ request = <<>>
    /\ row = [output |-> <<>>, done |-> FALSE, error |-> FALSE]
    /\ made = 0 /\ ran = [c \in Calls |-> 0] /\ recorded = {} /\ cuts = {} /\ continues = 0
-----------------------------------------------------------------------------
(***************************************************************************)
(* convert_output_to_messages and reconcile_tool_pairs (utils/misc.py)     *)
(***************************************************************************)
Assistant(text, calls) == [role |-> "assistant", text |-> text, calls |-> calls]
Tool(c) == [role |-> "tool", text |-> TRUE, calls |-> <<c>>]

\* What is pending becomes an assistant message.
Flushed(acc) ==
    IF acc.calls = <<>> /\ ~acc.text THEN acc.messages
    ELSE Append(acc.messages, Assistant(acc.text, acc.calls))

Converted(acc, item) ==
    CASE item.type \in {"text", "code"} -> [acc EXCEPT !.text = TRUE]
      [] item.type = "call"   -> [acc EXCEPT !.calls = Append(@, item.id)]
      [] item.type = "result" -> [messages |-> Append(Flushed(acc), Tool(item.id)),
                                  text |-> FALSE, calls |-> <<>>]
      [] item.type = "blank"  -> acc

CallsIn(messages, role) ==
    UNION {Range(m.calls) : m \in {n \in Range(messages) : n.role = role}}

\* Mutant: only results without a call are dropped.
ReconciledResults(messages) ==
    Sublist(messages, {m \in Range(messages) : m.role = "tool" =>
                           Head(m.calls) \in CallsIn(messages, "assistant")})

\* Calls without a result go, and results without a call; an assistant message
\* that is left without calls stays for its text.
Reconciled(messages) ==
    LET requested == CallsIn(messages, "assistant")
        completed == CallsIn(messages, "tool")
        Valid(m)  == Sublist(m.calls, completed)
        kept == Sublist(messages, {m \in Range(messages) :
                    IF m.role = "tool" THEN Head(m.calls) \in requested
                    ELSE m.text \/ Valid(m) # <<>>})
    IN  [i \in DOMAIN kept |-> IF kept[i].role = "tool" THEN kept[i]
                               ELSE [kept[i] EXCEPT !.calls = Valid(kept[i])]]

\* One item after the other.
Conversion(out) ==
    LET f[i \in 0..Len(out)] ==
            IF i = 0 THEN [messages |-> <<>>, text |-> FALSE, calls |-> <<>>]
            ELSE Converted(f[i - 1], out[i])
    IN  f[Len(out)]

Messages(out) == Reconciled(Flushed(Conversion(out)))
-----------------------------------------------------------------------------
(***************************************************************************)
(* stream_body_handler                                                     *)
(***************************************************************************)
\* Chat Completions: text goes into the last item when that is a message.
WithText(out) ==
    IF out # <<>> /\ Last(out).type \in {"text", "blank"}
    THEN [out EXCEPT ![Len(out)] = Text] ELSE Append(out, Text)

Room == Len(items) + Len(streamed) < MaxItems

\* Each piece of text is saved at once if the setting says so.
StreamText ==
    /\ pc \in Streaming /\ api = "chat" /\ Room
    /\ output' = WithText(output) /\ output' # output
    /\ row' = IF realtime THEN [row EXCEPT !.output = prior \o output'] ELSE row
    /\ UNCHANGED <<config, pc, prior, items, streamed, loop, asked, history>>

StreamCall ==
    /\ pc \in Streaming /\ api = "chat" /\ Room
    /\ made < MaxCalls /\ made' = made + 1
    /\ streamed' = Append(streamed, made')
    /\ UNCHANGED <<config, pc, output, prior, items, loop, asked, row, ran, recorded, cuts, continues>>

\* Responses API: an item is added at the end, and its deltas and its completion
\* go to where its index points: to the end, if the output began empty.
StreamItem(item) ==
    /\ pc \in Streaming /\ api = "responses" /\ Room
    /\ \/ item = Text /\ UNCHANGED made
       \/ item = Call(made + 1) /\ made < MaxCalls /\ made' = made + 1
    /\ items' = Append(items, item)
    /\ output' = [Append(output, IF item = Text THEN Blank ELSE item)
                    EXCEPT ![Len(items')] = item]
    /\ UNCHANGED <<config, pc, prior, streamed, loop, asked, row, ran, recorded, cuts, continues>>

\* An empty message at the end is removed, unless there is nothing else.
Cleaned(out) ==
    IF Len(out) > 1 /\ Last(out).type = "blank" THEN Front(out) ELSE out

\* Mutant: results that are already there do not count.
UnhandledAll(out) ==
    LET all == Sublist(out, {Call(c) : c \in Calls})
    IN  [i \in DOMAIN all |-> all[i].id]

\* The calls of a stream that brought none beside the text: those of the output
\* that have no result yet.
Unhandled(out) ==
    LET open == Sublist(out, {Call(c) : c \in Calls \ Ids("result", prior \o out)})
    IN  [i \in DOMAIN open |-> open[i].id]

\* The stream is over, with or without a code block at its end.  (Once it is
\* complete the Responses API gives all its items again, which replace the output.)
StreamEnds(out) ==
    LET calls == IF streamed # <<>> THEN streamed ELSE Unhandled(Cleaned(out))
    IN  /\ queue' = IF calls = <<>> THEN queue ELSE Append(queue, calls)
        /\ output' = IF pc = "again" THEN prior \o Cleaned(out) ELSE Cleaned(out)
        /\ prior' = IF pc = "again" THEN <<>> ELSE prior
        /\ pc' = IF pc = "coding" THEN "code" ELSE "loop"
        /\ UNCHANGED <<config, items, streamed, turn, at, iterations, retries, asked, row, history>>

EndStream == pc \in Streaming /\ StreamEnds(IF api = "responses" THEN items ELSE output)

\* A closing code_interpreter tag ends the stream.
EndStreamWithCode ==
    /\ pc \in Streaming /\ api = "chat" /\ MaxRetries > 0 /\ Room
    /\ StreamEnds(Append(Cleaned(output), Code))

\* The connection breaks.  The first stream takes the handler with it, and the
\* message gets the error; the others only end their loop.
StreamRaises ==
    /\ pc \in Streaming
    /\ pc' = CASE pc = "first" -> "ended" [] pc = "again" -> "code" [] pc = "coding" -> "finish"
    /\ row' = IF pc = "first" THEN [row EXCEPT !.error = TRUE] ELSE row
    /\ cuts' = cuts \cup {pc}
    /\ UNCHANGED <<config, output, prior, items, streamed, loop, asked, made, ran, recorded, continues>>
-----------------------------------------------------------------------------
(***************************************************************************)
(* The tool loop                                                           *)
(***************************************************************************)
BeginTurn ==
    /\ pc = "loop" /\ queue # <<>> /\ iterations < Limit
    /\ iterations' = iterations + 1
    /\ turn' = Head(queue) /\ queue' = Tail(queue) /\ at' = 0
    /\ LET added == Sublist(turn', Calls \ Ids("call", output))
       IN  output' = output \o [i \in DOMAIN added |-> Call(added[i])]
    /\ pc' = "tools"
    /\ UNCHANGED <<config, prior, items, streamed, retries, asked, row, history>>

\* The calls of a stream are run one after the other.
RunTool ==
    /\ pc = "tools" /\ at < Len(turn)
    /\ at' = at + 1
    /\ ran' = [ran EXCEPT ![turn[at']] = @ + 1]
    /\ UNCHANGED <<config, pc, output, prior, items, streamed, queue, turn, iterations, retries,
                   asked, row, made, recorded, cuts, continues>>

\* When all have been, their results go to the output.
Record ==
    /\ pc = "tools" /\ at = Len(turn)
    /\ output' = output \o [i \in DOMAIN turn |-> Result(turn[i])] \o <<Blank>>
    /\ recorded' = recorded \cup Range(turn)
    /\ pc' = "ask"
    /\ UNCHANGED <<config, prior, items, streamed, loop, asked, row, made, ran, cuts, continues>>

\* The request carries the output so far.
Ask(next) ==
    /\ request' = base \o Messages(output)
    /\ pc' = next
    /\ items' = <<>> /\ streamed' = <<>>

\* Mutant: the output is emptied before it is copied.
AskAgainForgets ==
    /\ pc = "ask"
    /\ Ask("again")
    /\ output' = <<>> /\ prior' = output'
    /\ UNCHANGED <<config, loop, base, row, history>>

\* The model is asked again, and streams its answer into an empty output,
AskAgain ==
    /\ pc = "ask"
    /\ Ask("again")
    /\ prior' = IF Last(output).type = "blank" THEN Front(output) ELSE output
    /\ output' = <<>>
    /\ UNCHANGED <<config, loop, base, row, history>>

\* or the request fails, which ends the loop.
AskFails ==
    /\ pc \in {"ask", "askCode"}
    /\ pc' = IF pc = "ask" THEN "code" ELSE "finish"
    /\ UNCHANGED <<config, output, prior, items, streamed, loop, asked, row, history>>

\* The loop is over; the user is told if calls were left at the limit.
LeaveLoop ==
    /\ pc = "loop" /\ (queue = <<>> \/ iterations >= Limit)
    /\ row' = IF queue # <<>> THEN [row EXCEPT !.error = TRUE] ELSE row
    /\ pc' = "code"
    /\ UNCHANGED <<config, output, prior, items, streamed, loop, asked, history>>
-----------------------------------------------------------------------------
(***************************************************************************)
(* The code interpreter loop, and the end                                  *)
(***************************************************************************)
CodeIsLast == output # <<>> /\ Last(output) = Code /\ retries < MaxRetries

RunCode ==
    /\ pc = "code" /\ CodeIsLast
    /\ retries' = retries + 1
    /\ output' = Append(output, Blank)
    /\ pc' = "askCode"
    /\ UNCHANGED <<config, prior, items, streamed, queue, turn, at, iterations, asked, row, history>>

\* Unlike the tool loop, this one streams into the same output.
AskCode ==
    /\ pc = "askCode"
    /\ Ask("coding")
    /\ UNCHANGED <<config, output, prior, loop, base, row, history>>

Stored == [row EXCEPT !.done = TRUE, !.output = IF realtime THEN @ ELSE output]

Finish ==
    /\ pc = "finish" \/ (pc = "code" /\ ~CodeIsLast)
    /\ row' = Stored
    /\ pc' = "ended"
    /\ UNCHANGED <<config, output, prior, items, streamed, loop, asked, history>>

\* CancelledError at an await: save_cancelled_state.
Cancel ==
    /\ pc # "ended"
    /\ row' = Stored
    /\ cuts' = cuts \cup {pc}
    /\ pc' = "ended"
    /\ UNCHANGED <<config, output, prior, items, streamed, loop, asked, made, ran, recorded, continues>>

\* "Continue response": a new handler goes on from the stored output, which is
\* also part of the request.
Continue ==
    /\ pc = "ended" /\ row.done
    /\ continues < MaxContinues /\ continues' = continues + 1
    /\ row' = [row EXCEPT !.done = FALSE]
    /\ output' = row.output /\ prior' = <<>> /\ items' = <<>> /\ streamed' = <<>>
    /\ queue' = <<>> /\ turn' = <<>> /\ at' = 0 /\ iterations' = 0 /\ retries' = 0
    /\ base' = Messages(row.output) /\ request' = base'
    /\ pc' = "first"
    /\ UNCHANGED <<config, made, ran, recorded, cuts>>

Next ==
    \/ StreamText \/ EndStream \/ EndStreamWithCode \/ StreamRaises
    \/ StreamCall \/ StreamItem(Text) \/ StreamItem(Call(made + 1))
    \/ BeginTurn \/ RunTool \/ Record \/ AskAgain \/ AskFails \/ LeaveLoop
    \/ RunCode \/ AskCode \/ Finish \/ Cancel \/ Continue

Spec == Init /\ [][Next]_vars
-----------------------------------------------------------------------------
ItemSet == [type : ItemTypes, id : {0} \cup Calls]

TypeOK ==
    /\ api \in Apis /\ realtime \in BOOLEAN
    /\ pc \in Streaming \cup {"loop", "tools", "ask", "code", "askCode", "finish", "ended"}
    /\ {output, prior, items, row.output} \subseteq Seq(ItemSet)
    /\ {streamed, turn} \subseteq Seq(Calls) /\ queue \in Seq(Seq(Calls))
    /\ at \in 0..Len(turn) /\ iterations \in 0..Limit /\ retries \in 0..MaxRetries
    /\ row.done \in BOOLEAN /\ row.error \in BOOLEAN
    /\ made \in 0..MaxCalls /\ recorded \subseteq 1..made
    /\ ran \in [Calls -> Nat]
    /\ continues \in 0..MaxContinues

\* "Strict providers reject either direction of mismatch": in what a provider gets,
\* every call has a result further down and every result a call further up, whatever
\* the interruptions that left the stored output incomplete.
RequestsArePaired ==
    \A i \in DOMAIN request : \A c \in Range(request[i].calls) :
        \E j \in DOMAIN request :
            /\ c \in Range(request[j].calls)
            /\ IF request[i].role = "tool" THEN j < i /\ request[j].role = "assistant"
               ELSE i < j /\ request[j].role = "tool"

\* "so we don't re-process tool calls from a previous turn": a tool is run twice for
\* a call only if the handler was cancelled between running it and recording the
\* results of its turn, and the response is continued.
RunsOnce == \A c \in Calls : ran[c] > 1 => "tools" \in cuts

\* The results of a response are in the stored message when its handler has ended,
\* unless it was interrupted while the model was streaming after them.  (Saving in
\* real time stores only what came before a text; and a continued response loses
\* what it had when the Responses API completes.)
Kept == pc = "ended" => recorded \subseteq Ids("result", row.output)

KeptUnlessCut ==
    ~realtime /\ "again" \notin cuts /\ (api = "chat" \/ continues = 0) => Kept

\* "preserving output during model re-invocations"
OutputIsPreserved == Kept
=============================================================================
