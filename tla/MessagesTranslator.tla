------------------------- MODULE MessagesTranslator -------------------------
(***************************************************************************)
(* AnthropicStreamTranslator (pkg/proxy/messages_translator.go): the state *)
(* machine that turns the chunks of an OpenAI completion stream into the   *)
(* events of a Messages stream.  A translation maps a state and a chunk to *)
(* the next state and the events to send.                                  *)
(***************************************************************************)
EXTENDS Integers, Sequences, FiniteSets

\* A piece of a content delta is a think tag or text.  A tool call item names a
\* function or has none, and carries arguments or not.
Pieces == {"<think>", "</think>", "text"}
Tools  == {"none", "name", "args"}

\* What follows "data:" in a block, other than [DONE]: something that is no JSON, a
\* chunk without a delta (usage), or a chunk with one.
Chunks == [json : BOOLEAN, delta : BOOLEAN, reasoning : BOOLEAN, content : Seq(Pieces),
           tools : Seq(Tools)]

Blocks == {"thinking", "text", "tool_use"}
States == [messageStarted : BOOLEAN, currentBlock : Blocks \union {"none"}, blockIndex : Nat,
           inThinkTag : BOOLEAN, doneEmitted : BOOLEAN]

NewTranslator == [messageStarted |-> FALSE, currentBlock |-> "none", blockIndex |-> 0,
                  inThinkTag |-> FALSE, doneEmitted |-> FALSE]

EventTypes == {"message_start", "content_block_start", "content_block_delta", "content_block_stop",
               "message_delta", "message_stop"}

Events == [type : EventTypes, block : Blocks \union {"none"}, index : Nat]

Event(type, block, index) == [type |-> type, block |-> block, index |-> index]

\* An intermediate result: the translator's state and the events so far.
With(st, events) == [st |-> st, events |-> events]

-----------------------------------------------------------------------------
Has(content, p)   == \E i \in DOMAIN content : content[i] = p
First(content, p) == CHOOSE i \in DOMAIN content : content[i] = p /\ \A j \in 1..(i - 1) : content[j] # p
Before(content, p) == SubSeq(content, 1, First(content, p) - 1)
After(content, p)  == SubSeq(content, First(content, p) + 1, Len(content))

\* strings.Replace(contentDelta, "<think>", "", 1)
WithoutTag(content) ==
  IF Has(content, "<think>") THEN Before(content, "<think>") \o After(content, "<think>") ELSE content

\* The fallback for raw think tags: the state of the tag, and what of the content
\* is reasoning and what is text.
SplitThinking(st, c) ==
  LET inside == st.inThinkTag \/ Has(c.content, "<think>")
      rest   == WithoutTag(c.content)
  IN  CASE c.reasoning \/ c.content = <<>> ->
             [inThinkTag |-> st.inThinkTag, thinking |-> c.reasoning, text |-> c.content # <<>>]
        [] ~c.reasoning /\ c.content # <<>> /\ ~inside ->
             [inThinkTag |-> FALSE, thinking |-> FALSE, text |-> TRUE]
        [] ~c.reasoning /\ c.content # <<>> /\ inside /\ Has(rest, "</think>") ->
             [inThinkTag |-> FALSE, thinking |-> Before(rest, "</think>") # <<>>,
              text |-> After(rest, "</think>") # <<>>]
        [] OTHER -> [inThinkTag |-> TRUE, thinking |-> rest # <<>>, text |-> FALSE]

-----------------------------------------------------------------------------
\* message_start, once.
StartMessage(r) ==
  IF r.st.messageStarted THEN r
  ELSE With([r.st EXCEPT !.messageStarted = TRUE],
            Append(r.events, Event("message_start", "none", 0)))

\* Mutant: a block that follows another reuses its index.
OpenBlockSameIndex(r, b) ==
  LET old == r.st.currentBlock
      i   == r.st.blockIndex
  IN  IF old = b THEN r
      ELSE With([r.st EXCEPT !.currentBlock = b],
                r.events \o (IF old = "none" THEN <<>> ELSE <<Event("content_block_stop", old, i)>>)
                         \o <<Event("content_block_start", b, i)>>)

\* Closes the current block unless it is of kind b, and opens the next.
OpenBlock(r, b) ==
  LET old  == r.st.currentBlock
      i    == r.st.blockIndex
      next == IF old = "none" THEN i ELSE i + 1
  IN  IF old = b THEN r
      ELSE With([r.st EXCEPT !.currentBlock = b, !.blockIndex = next],
                r.events \o (IF old = "none" THEN <<>> ELSE <<Event("content_block_stop", old, i)>>)
                         \o <<Event("content_block_start", b, next)>>)

\* n deltas of the block b.
Deltas(r, b, n) ==
  LET o == OpenBlock(r, b)
  IN  With(o.st, o.events \o [i \in 1..n |-> Event("content_block_delta", b, o.st.blockIndex)])

\* The items of one chunk share a block; those with arguments add a delta each.
ToolCalls(r, tools) ==
  IF \E i \in DOMAIN tools : tools[i] # "none"
  THEN Deltas(r, "tool_use", Cardinality({i \in DOMAIN tools : tools[i] = "args"}))
  ELSE r

\* ProcessOpenAIChunk for a payload other than [DONE].
Translate(st, c) ==
  LET t == SplitThinking(st, c)
      a == StartMessage(With(st, <<>>))
      b == With([a.st EXCEPT !.inThinkTag = t.inThinkTag], a.events)
      d == IF t.thinking THEN Deltas(b, "thinking", 1) ELSE b
      e == IF t.text THEN Deltas(d, "text", 1) ELSE d
  IN  IF ~c.json THEN With(st, <<>>) ELSE IF ~c.delta THEN a ELSE ToolCalls(e, c.tools)

\* ProcessOpenAIChunk for [DONE].
TranslateDone(st) ==
  IF st.doneEmitted THEN With(st, <<>>)
  ELSE With([st EXCEPT !.doneEmitted = TRUE, !.currentBlock = "none"],
            (IF st.currentBlock = "none" THEN <<>>
             ELSE <<Event("content_block_stop", st.currentBlock, st.blockIndex)>>)
            \o <<Event("message_delta", "none", 0), Event("message_stop", "none", 0)>>)

=============================================================================
