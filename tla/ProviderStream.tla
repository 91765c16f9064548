--------------------------- MODULE ProviderStream ---------------------------
(***************************************************************************)
(* A streamed response of the OpenAI adapter on its way from the server to *)
(* the chat service: the bytes or frames that arrive, the transport that   *)
(* puts them together (OpenAiHttpTransport::stream over SSE lines, or the  *)
(* ResponsesEventAccumulator over websocket events), the chunks it yields, *)
(* and what stream_turn keeps of them.                                     *)
(*                                                                         *)
(* The server is external.  Item k of a response is an SSE line or a       *)
(* websocket event; a piece of text or of arguments is the number of the   *)
(* item that brought it.  A tool call is a number, one more than its index *)
(* in the response; a call nobody named is known by a placeholder, which   *)
(* is never positive.                                                      *)
(***************************************************************************)
EXTENDS Integers, Sequences, FiniteSets

CONSTANTS
  Call,      \* the tool calls of a response
  MaxItems   \* bound: items of a response

ASSUME StreamAssumption == Call \subseteq Nat \ {0} /\ MaxItems \in Nat

VARIABLES
  transport,  \* "sse" or "ws"
  parameter,  \* the token parameter of the request: 1 max_tokens, 2 max_completion_tokens
  pc,         \* where the stream stands
  sent,       \* the items the server sent
  position,   \* how many halves of items have arrived; a chunk may end within a line
  closed,     \* the server ended the body, or closed the socket
  parsed,     \* how many items the transport has handled
  text,       \* the text it has put together
  calls,      \* the tool calls it has, by index (SSE) or by id (websocket)
  final,      \* the message it completes the response with
  kept,       \* assistant_text and tool_calls of the chat turn
  yielded     \* history: the kinds of the chunks the stream yielded

vars == <<transport, parameter, pc, sent, position, closed, parsed, text, calls,
          final, kept, yielded>>

Ended == {"ended", "failed", "dropped"}

(* "other" stands for comments, roles, finish reasons, pings and unknown   *)
(* events, "bad" for what cannot be parsed and for error events; a failed, *)
(* incomplete or cancelled response is "completed" as well.                *)
Line ==
  [kind : {"text"}, wide : BOOLEAN]
  \cup [kind : {"call"}, of : Call, named : BOOLEAN, indexed : BOOLEAN]
  \cup [kind : {"done", "other", "bad"}]

Event ==
  [kind : {"text", "message", "other", "bad"}]
  \cup [kind : {"call"}, of : Call, named : BOOLEAN] \cup [kind : {"item"}, of : Call]
  \cup [kind : {"completed"}, output : BOOLEAN]

Item == IF transport = "sse" THEN Line ELSE Event

Nothing == [text |-> << >>, calls |-> << >>]

Init ==
  /\ transport \in {"sse", "ws"}
  /\ parameter = 1 /\ pc = "opening"
  /\ sent = << >> /\ position = 0 /\ closed = FALSE
  /\ parsed = 0 /\ text = << >> /\ calls = << >>
  /\ final = Nothing /\ kept = Nothing /\ yielded = << >>

-----------------------------------------------------------------------------
(* The server. *)

received == <<position, parsed, text, calls, final, kept, yielded>>

ServerSends ==
  /\ pc = "reading" /\ ~closed /\ Len(sent) < MaxItems
  /\ \E item \in Item : sent' = Append(sent, item)
  /\ UNCHANGED <<transport, parameter, pc, closed, received>>

ServerCloses ==
  /\ pc = "reading" /\ ~closed
  /\ closed' = TRUE
  /\ UNCHANGED <<transport, parameter, pc, sent, received>>

(* Some numbers, in order. *)
Ranked(i, S) == {k \in S : Cardinality({j \in S : j <= k}) = i}
Listing(S) == [i \in 1 .. Cardinality(S) |-> CHOOSE k \in Ranked(i, S) : TRUE]

(* What the server said in the first n items. *)
IsText(k) ==
  \/ sent[k].kind = "text"
  \/ sent[k].kind = "message" /\ \A j \in 1 .. k - 1 : sent[j].kind \notin {"text", "message"}

SaidText(n) == Listing({k \in 1 .. n : IsText(k)})

SaidArguments(c, n) == Listing({k \in 1 .. n : sent[k].kind = "call" /\ sent[k].of = c})

SaidIds(n) == {sent[k].of : k \in {j \in 1 .. n : sent[j].kind \in {"call", "item"}}}

SaidCalls(n) == [c \in SaidIds(n) |-> SaidArguments(c, n)]

-----------------------------------------------------------------------------
(* The request. *)

StreamKept == UNCHANGED <<transport, sent, closed, received>>

Opens ==
  /\ pc = "opening"
  /\ pc' = "reading"
  /\ UNCHANGED parameter /\ StreamKept

(* Faulty variant: the request is repeated whatever it was made with. *)
OpenAgain ==
  /\ pc = "opening" /\ transport = "sse"
  /\ parameter' = parameter + 1
  /\ UNCHANGED pc /\ StreamKept

(* The server refuses max_tokens and asks for max_completion_tokens. *)
OpenWithOtherParameter ==
  /\ pc = "opening" /\ transport = "sse" /\ parameter = 1
  /\ parameter' = 2
  /\ UNCHANGED pc /\ StreamKept

(* The request is refused, or the body or socket breaks while the transport *)
(* waits for more.                                                          *)
Fails ==
  /\ pc \in {"opening", "reading"} /\ parsed = position \div 2
  /\ pc' = "failed"
  /\ UNCHANGED parameter /\ StreamKept

-----------------------------------------------------------------------------
(* Bytes arrive.  The transport asks for more when it has handled every    *)
(* whole line it has.                                                      *)

CutsCharacter(p) ==
  /\ p % 2 = 1
  /\ LET item == sent[(p + 1) \div 2] IN item.kind = "text" /\ item.wide

Arrivals ==
  IF transport = "sse" THEN position + 1 .. 2 * Len(sent)
  ELSE {position + 2} \cap 1 .. 2 * Len(sent)

(* Faulty variant: what a chunk leaves over is not kept for the next. *)
ChunkWithoutRest ==
  /\ pc = "reading" /\ parsed = position \div 2
  /\ \E p \in Arrivals :
       /\ position' = p
       /\ pc' = IF transport = "sse" /\ CutsCharacter(p) THEN "failed" ELSE pc
  /\ parsed' = (position + 1) \div 2
  /\ UNCHANGED <<transport, parameter, sent, closed, text, calls, final, kept, yielded>>

(* Each chunk is decoded by itself: one that ends within a character of    *)
(* several bytes fails the stream, with the lines that came in it.         *)
Chunk ==
  /\ pc = "reading" /\ parsed = position \div 2
  /\ \E p \in Arrivals :
       /\ position' = p
       /\ pc' = IF transport = "sse" /\ CutsCharacter(p) THEN "failed" ELSE pc
  /\ UNCHANGED <<transport, parameter, sent, closed, parsed, text, calls, final, kept, yielded>>

-----------------------------------------------------------------------------
(* One item is handled. *)

Handles(kind) ==
  /\ pc = "reading" /\ parsed < position \div 2
  /\ sent[parsed + 1].kind = kind
  /\ parsed' = parsed + 1
  /\ UNCHANGED <<transport, parameter, sent, position, closed>>

Piece == parsed + 1
Handled == sent[parsed + 1]

(* An entry of a map takes the place of the one it had under its key, and  *)
(* the entries of one map those of another.                                *)
Over(new, map) ==
  [key \in DOMAIN new \cup DOMAIN map |-> IF key \in DOMAIN new THEN new[key] ELSE map[key]]

Insert(map, key, value) == Over([k \in {key} |-> value], map)

(* A delta is yielded; stream_turn keeps the text so far, and each call as *)
(* last shown.                                                             *)
YieldText ==
  /\ kept' = [kept EXCEPT !.text = Append(@, Piece)]
  /\ yielded' = Append(yielded, "delta")

YieldCall(entry) ==
  /\ kept' = [kept EXCEPT !.calls = Insert(@, entry.id, entry.arguments)]
  /\ yielded' = Append(yielded, "delta")

TextDelta ==
  /\ Handles("text")
  /\ text' = Append(text, Piece)
  /\ YieldText
  /\ UNCHANGED <<pc, calls, final>>

(* The key of a call, and the id it has until it is named.  A line without *)
(* an index is filed under the first index, whichever call it is of.       *)
FirstKey == 1

KeyOf(item) ==
  CASE transport = "sse" -> IF item.indexed THEN item.of ELSE FirstKey
    [] OTHER             -> IF item.named THEN item.of ELSE 0

Placeholder(key) == IF transport = "sse" THEN -key ELSE key

EntryOf(key) ==
  IF key \in DOMAIN calls THEN calls[key] ELSE [id |-> Placeholder(key), arguments |-> << >>]

ArgumentsDelta ==
  /\ Handles("call")
  /\ LET key == KeyOf(Handled)
         entry == [id        |-> IF Handled.named THEN Handled.of ELSE EntryOf(key).id,
                   arguments |-> Append(EntryOf(key).arguments, Piece)]
     IN  /\ calls' = Insert(calls, key, entry)
         /\ YieldCall(entry)
  /\ UNCHANGED <<pc, text, final>>

(* response.output_item.added and .done: a call with its arguments so far. *)
OutputItem ==
  /\ Handles("item")
  /\ LET entry == [id |-> Handled.of, arguments |-> SaidArguments(Handled.of, parsed)]
     IN  /\ calls' = Insert(calls, Handled.of, entry)
         /\ YieldCall(entry)
  /\ UNCHANGED <<pc, text, final>>

(* ... or a message; its text is taken if no delta brought any. *)
OutputMessage ==
  /\ Handles("message")
  /\ text' = IF text = << >> THEN SaidText(parsed + 1) ELSE text
  /\ UNCHANGED <<pc, calls, final, kept, yielded>>

Skip ==
  /\ Handles("other")
  /\ UNCHANGED <<pc, text, calls, final, kept, yielded>>

Unreadable ==
  /\ Handles("bad")
  /\ pc' = "failed"
  /\ UNCHANGED <<text, calls, final, kept, yielded>>

-----------------------------------------------------------------------------
(* The response is complete. *)

(* Of entries with one id, the turn keeps the last. *)
Accumulated ==
  [text  |-> text,
   calls |-> [id \in {calls[key].id : key \in DOMAIN calls} |->
                LET keys == {key \in DOMAIN calls : calls[key].id = id}
                IN  calls[CHOOSE key \in keys : \A k \in keys : k <= key].arguments]]

Complete(message) ==
  /\ final' = message
  /\ pc' = "message"
  /\ UNCHANGED <<text, calls, kept, yielded>>

Done ==
  /\ Handles("done")
  /\ Complete(Accumulated)

(* The output of the finished response goes before what was put together. *)
ResponseCompleted ==
  /\ Handles("completed")
  /\ Complete(IF ~Handled.output THEN Accumulated
              ELSE [text  |-> IF SaidText(parsed) = << >> THEN text ELSE SaidText(parsed),
                    calls |-> Over(SaidCalls(parsed), Accumulated.calls)])

AtEnd == pc = "reading" /\ closed /\ position = 2 * Len(sent) /\ parsed = Len(sent)

(* An SSE body that ends is complete, whether or not it said [DONE].  What *)
(* is left of a line without its newline is not looked at.                 *)
BodyEnds ==
  /\ pc = "reading" /\ transport = "sse" /\ closed
  /\ position >= 2 * Len(sent) - 1 /\ parsed = position \div 2
  /\ Complete(Accumulated)
  /\ UNCHANGED <<transport, parameter, sent, position, closed, parsed>>

(* Faulty variants: the end of the socket is the end of the stream, or of  *)
(* the response.                                                           *)
SocketEndsStream ==
  /\ AtEnd /\ transport = "ws"
  /\ pc' = "ended"
  /\ UNCHANGED parameter /\ StreamKept

SocketCompletes ==
  /\ AtEnd /\ transport = "ws"
  /\ Complete(Accumulated)
  /\ UNCHANGED <<transport, parameter, sent, position, closed, parsed>>

SocketCloses ==
  /\ AtEnd /\ transport = "ws"
  /\ pc' = "failed"
  /\ UNCHANGED parameter /\ StreamKept

MessageComplete ==
  /\ pc = "message"
  /\ pc' = "response"
  /\ kept' = [kept EXCEPT !.text = IF @ = << >> THEN final.text ELSE @]
  /\ yielded' = Append(yielded, "message")
  /\ UNCHANGED <<transport, parameter, sent, closed, position, parsed, text, calls, final>>

(* The stream yields None after it. *)
ResponseComplete ==
  /\ pc = "response"
  /\ pc' = "ended"
  /\ kept' = [text  |-> IF final.text = << >> THEN kept.text ELSE final.text,
              calls |-> Over(final.calls, kept.calls)]
  /\ yielded' = Append(yielded, "response")
  /\ UNCHANGED <<transport, parameter, sent, closed, position, parsed, text, calls, final>>

Dropped ==
  /\ pc \notin Ended
  /\ pc' = "dropped"
  /\ UNCHANGED parameter /\ StreamKept

-----------------------------------------------------------------------------
Next ==
  \/ ServerSends \/ ServerCloses
  \/ Opens \/ OpenWithOtherParameter \/ Fails
  \/ Chunk
  \/ TextDelta \/ ArgumentsDelta \/ OutputItem \/ OutputMessage \/ Skip \/ Unreadable
  \/ Done \/ ResponseCompleted \/ BodyEnds \/ SocketCloses
  \/ MessageComplete \/ ResponseComplete
  \/ Dropped

Spec == Init /\ [][Next]_vars

-----------------------------------------------------------------------------
Pieces == 1 .. MaxItems

(* What the variables may hold; the transport is never past what arrived,   *)
(* and a request is made with one of the two token parameters.              *)
TypeOK ==
  /\ transport \in {"sse", "ws"} /\ parameter \in 1 .. 2
  /\ pc \in {"opening", "reading", "message", "response"} \cup Ended
  /\ sent \in Seq(Item) /\ Len(sent) <= MaxItems
  /\ position \in 0 .. 2 * Len(sent) /\ parsed \in 0 .. position \div 2
  /\ closed \in BOOLEAN
  /\ text \in Seq(Pieces) /\ final.text \in Seq(Pieces) /\ kept.text \in Seq(Pieces)
  /\ \A key \in DOMAIN calls :
       calls[key].id \in Call \cup {Placeholder(key)} /\ calls[key].arguments \in Seq(Pieces)

(* Every call was named before, or as, its first arguments came. *)
NamedBy(n) ==
  \A k \in 1 .. n : sent[k].kind = "call" /\ ~sent[k].named =>
    transport = "sse" /\ \E j \in 1 .. k - 1 :
      sent[j].kind = "call" /\ sent[j].of = sent[k].of
        /\ \A i \in 1 .. j - 1 : sent[i].kind = "call" => sent[i].of # sent[j].of
        /\ sent[j].named

(* Every line of a call had its index, or was of the first call, whose     *)
(* index a missing one is taken for.                                        *)
IndexedBy(n) ==
  \A k \in 1 .. n : transport = "sse" /\ sent[k].kind = "call" =>
    sent[k].indexed \/ sent[k].of = FirstKey

ToldApart(n) == NamedBy(n) /\ IndexedBy(n)

(* However the response was cut into chunks, and whichever transport put it *)
(* together, the turn goes on with the text the server sent, and, if the    *)
(* server told its calls apart, with these calls and their whole arguments. *)
(* It claims nothing of the calls of other responses: those that are named  *)
(* late, or over a websocket in some events only, also leave a call under a *)
(* placeholder (transport.rs:252, responses_ws.rs:307), and two calls       *)
(* without an index become one (transport.rs:246).                          *)
KeptIsSaid ==
  pc = "ended" =>
    /\ kept.text = SaidText(parsed)
    /\ ToldApart(parsed) => kept.calls = SaidCalls(parsed)

(* "Completion milestones arrive after deltas", MessageComplete first, each  *)
(* once; and a stream that yields None has yielded both (stream.rs:25-31).   *)
MilestonesLast ==
  /\ \A i \in DOMAIN yielded :
       /\ yielded[i] = "message"  => i \in {Len(yielded) - 1, Len(yielded)}
       /\ yielded[i] = "response" => i = Len(yielded) /\ i > 1 /\ yielded[i - 1] = "message"
  /\ pc = "ended" => yielded # << >> /\ yielded[Len(yielded)] = "response"

(* Over the websocket a response is complete only if the server said so: a   *)
(* socket that closes fails the stream.  (An SSE body that ends before [DONE] *)
(* completes it, transport.rs:286.)                                          *)
CompleteMeansFinished ==
  pc \in {"message", "response", "ended"} =>
    \/ parsed > 0 /\ sent[parsed].kind \in {"completed", "done"}
    \/ transport = "sse" /\ closed

=============================================================================
