---------------------------- MODULE InferencePath ----------------------------
(***************************************************************************)
(* One encrypted inference exchange: the root handler of SetupProxyRoutes  *)
(* (pkg/proxy/server.go) after authentication, the reverse proxy, the      *)
(* Messages adapter (messages_translator.go), the encrypting response      *)
(* writer (hpke_middleware.go) and its session (pkg/crypto/hpke.go,        *)
(* hpke_proto.go).                                                         *)
(*                                                                         *)
(* The engine's answer is a sequence of tokens, handed to the writer in    *)
(* pieces of any size, and it may break off anywhere.  A token is a line   *)
(* that starts with "data:" ("D", or "Z" for [DONE]), other text ("X"), or *)
(* a line feed or carriage return ("n", "r").  RecordActivity, called with *)
(* every write, is an action of EngineSupervisor.                          *)
(***************************************************************************)
EXTENDS Integers, Sequences, FiniteSets, MessagesTranslator

CONSTANTS
  Streams,    \* the answers the engine may give
  Replies,    \* the chunks a data line may hold
  MaxBuffer,  \* maxSSEBufferSize, in tokens
  SeqLimit    \* the sequence number that is never used (0xFFFFFFFF)

Tokens == {"D", "Z", "X", "n", "r"}

ASSUME StreamAssumption == Streams \subseteq Seq(Tokens)
\* The engine sends no data after [DONE].
ASSUME DoneAssumption ==
  \A s \in Streams : \A i, j \in 1..Len(s) : s[i] = "Z" /\ s[j] \in {"D", "Z"} => j <= i
ASSUME ReplyAssumption  == Replies \subseteq Chunks
ASSUME BufferAssumption == MaxBuffer \in Nat
ASSUME SeqAssumption    == SeqLimit \in Nat /\ SeqLimit >= 2

VARIABLES
  pc,
  messages,     \* isMessages: a request to /v1/messages
  session,      \* the session's keys: "none", "live" or "zero"
  seqNum,       \* s.seqNum
  stream,       \* what the engine answers
  sent,         \* how much of it was handed to the writer
  code,         \* the status the engine or the error handler answered
  writerCode,   \* hpkeWriter.statusCode
  isStreaming,  \* the answer is an event stream
  buf,          \* the buffer of the outer writer: sseBuf, or the whole body
  ended,        \* the engine's answer is over, Finish is running
  translator,   \* messagesWriter.translator
  status,       \* the HTTP status written to the client, 0 before
  frames,       \* the frames written to the client
  blocks,       \* history: the blocks taken from the buffer
  events,       \* history: the events the adapter has produced
  forced        \* history: a block was cut at maxSSEBufferSize

sessionVars == <<session, seqNum, frames>>
replyVars   == <<stream, sent, code>>
writerVars  == <<writerCode, isStreaming, buf, ended, translator, status>>
historyVars == <<blocks, events, forced>>

vars == <<pc, messages, sessionVars, replyVars, writerVars, historyVars>>

OK          == 200
BadRequest  == 400
Unavailable == 503
Codes       == {OK, BadRequest, Unavailable}

\* A frame: its type, sequence number, the keys it was encrypted with, and the data.
FrameTypes == {"delta", "completion", "end", "error"}
Frames     == [type : FrameTypes, seq : Nat, key : {"none", "live", "zero"}, data : Seq(Tokens)]

TypeOK ==
  /\ pc \in {"unwrap", "ready", "convert", "proxy", "body", "process", "finish", "close", "erase",
            "done", "panicked"}
  /\ messages \in BOOLEAN
  /\ session \in {"none", "live", "zero"}
  /\ seqNum \in 0..SeqLimit
  /\ stream \in Streams
  /\ sent \in 0..Len(stream)
  /\ code \in Codes \union {0}
  /\ writerCode \in Codes
  /\ isStreaming \in BOOLEAN
  /\ buf \in Seq(Tokens)
  /\ ended \in BOOLEAN
  /\ translator \in States
  /\ status \in Codes \union {0}
  /\ frames \in Seq(Frames)
  /\ blocks \in Seq(Seq(Tokens))
  /\ events \in Seq(Events)
  /\ forced \in BOOLEAN

Init ==
  /\ pc = "unwrap"
  /\ messages \in BOOLEAN
  /\ session = "none"
  /\ seqNum = 0
  /\ stream \in Streams
  /\ sent = 0
  /\ code = 0
  /\ writerCode = OK
  /\ isStreaming = FALSE
  /\ buf = <<>>
  /\ ended = FALSE
  /\ translator = NewTranslator
  /\ status = 0
  /\ frames = <<>>
  /\ blocks = <<>>
  /\ events = <<>>
  /\ forced = FALSE

-----------------------------------------------------------------------------
(* The handler up to the reverse proxy                                     *)

\* The wrong media type, or a payload that cannot be decrypted: there is no session.
RefuseEnvelope ==
  /\ pc = "unwrap"
  /\ pc' = "done"
  /\ status' = BadRequest
  /\ UNCHANGED <<messages, sessionVars, replyVars, writerCode, isStreaming, buf, ended, translator,
                 historyVars>>

Unwrap ==
  /\ pc = "unwrap"
  /\ pc' = "ready"
  /\ session' = "live"
  /\ UNCHANGED <<messages, seqNum, frames, replyVars, writerVars, historyVars>>

\* A plain error to the client; the session is erased first.
RefuseWith(c) ==
  /\ pc' = "done"
  /\ session' = "zero"
  /\ status' = c
  /\ UNCHANGED <<messages, seqNum, frames, replyVars, writerCode, isStreaming, buf, ended,
                 translator, historyVars>>

\* Mutant: the session is kept when no engine is ready.
RefuseNotReadyKeepsKeys ==
  /\ pc = "ready"
  /\ pc' = "done"
  /\ status' = Unavailable
  /\ UNCHANGED <<messages, sessionVars, replyVars, writerCode, isStreaming, buf, ended,
                 translator, historyVars>>

RefuseNotReady == pc = "ready" /\ RefuseWith(Unavailable)

EngineIsReady ==
  /\ pc = "ready"
  /\ pc' = IF messages THEN "convert" ELSE "proxy"
  /\ UNCHANGED <<messages, sessionVars, replyVars, writerVars, historyVars>>

\* ConvertMessagesToOpenAI
RefuseConversion == pc = "convert" /\ RefuseWith(BadRequest)

Convert ==
  /\ pc = "convert"
  /\ pc' = "proxy"
  /\ UNCHANGED <<messages, sessionVars, replyVars, writerVars, historyVars>>

-----------------------------------------------------------------------------
(* The reverse proxy; WriteHeader of the two writers                       *)

\* The encrypting writer takes the status over, and sends it at once if the answer
\* is an event stream.
WriteHeader(c, sse) ==
  /\ isStreaming' = sse
  /\ writerCode' = c
  /\ status' = IF sse THEN c ELSE 0

\* The Messages adapter passes the status on for event streams only.
MessagesWriteHeader(c, sse) ==
  /\ isStreaming' = sse
  /\ writerCode' = IF sse THEN c ELSE writerCode
  /\ status' = IF sse THEN c ELSE 0

Header(c, sse) == IF messages THEN MessagesWriteHeader(c, sse) ELSE WriteHeader(c, sse)

\* The engine answers: a completion, an event stream, or an error of its own, which
\* it never sends as an event stream.
EngineAnswers(c, sse) ==
  /\ pc = "proxy"
  /\ sse => c = OK
  /\ pc' = "body"
  /\ code' = c
  /\ Header(c, sse)
  /\ UNCHANGED <<messages, sessionVars, stream, sent, buf, ended, translator, historyVars>>

\* ErrorHandler: the engine cannot be reached.  503 and a short text.
EngineUnreachable ==
  /\ pc = "proxy"
  /\ pc' = "finish"
  /\ code' = Unavailable
  /\ Header(Unavailable, FALSE)
  /\ buf' = <<"X">>
  /\ UNCHANGED <<messages, sessionVars, stream, sent, ended, translator, historyVars>>

\* ErrorHandler: the client has gone; nothing is written.
ClientGone ==
  /\ pc = "proxy"
  /\ pc' = "finish"
  /\ UNCHANGED <<messages, sessionVars, replyVars, writerVars, historyVars>>

\* The next k tokens of the body are written.
WriteBody(k) ==
  /\ pc = "body"
  /\ k > 0 /\ sent + k <= Len(stream)
  /\ sent' = sent + k
  /\ buf' = buf \o SubSeq(stream, sent + 1, sent + k)
  /\ pc' = IF isStreaming THEN "process" ELSE "body"
  /\ UNCHANGED <<messages, sessionVars, stream, code, writerCode, isStreaming, ended, translator,
                 status, historyVars>>

\* The reverse proxy's flusher.  The encrypting writer looks for blocks in a stream and
\* then flushes the client's connection, which sends status 200 if none was sent; the
\* adapter passes a flush on for event streams only.
Flush ==
  /\ pc = "body"
  /\ pc' = IF isStreaming THEN "process" ELSE "body"
  /\ status' = IF status = 0 /\ ~messages THEN OK ELSE status
  /\ UNCHANGED <<messages, sessionVars, replyVars, writerCode, isStreaming, buf, ended, translator,
                 historyVars>>

\* The body is over, or it breaks off and ServeHTTP panics: Finish is deferred and
\* cannot tell the two apart.
BodyEnds ==
  /\ pc = "body"
  /\ pc' = "finish"
  /\ UNCHANGED <<messages, sessionVars, replyVars, writerVars, historyVars>>

-----------------------------------------------------------------------------
(* Splitting the stream into blocks: processSSEBuffer and processSSE       *)

\* A delimiter of k tokens starts at position i.
DelimiterAt(b, i, k) ==
  \/ k = 2 /\ i + 1 <= Len(b) /\ b[i] = "n" /\ b[i + 1] = "n"
  \/ /\ k = 4 /\ i + 3 <= Len(b)
     /\ b[i] = "r" /\ b[i + 1] = "n" /\ b[i + 2] = "r" /\ b[i + 3] = "n"

FirstDelimiter(b, i, k) ==
  DelimiterAt(b, i, k) /\ \A j \in 1..(i - 1), l \in {2, 4} : ~DelimiterAt(b, j, l)

HasDelimiter(b) == \E i \in 1..Len(b), k \in {2, 4} : DelimiterAt(b, i, k)

\* A line starts here, carriage returns trimmed: at the start or after a line feed.
StartsLine(b, i) ==
  \E j \in 0..(i - 1) : (j = 0 \/ b[j] = "n") /\ \A l \in (j + 1)..(i - 1) : b[l] = "r"

\* The lines of a block that start with "data:".
DataLines(b) == {i \in 1..Len(b) : b[i] \in {"D", "Z"} /\ StartsLine(b, i)}

\* The payload is exactly [DONE]: one data line with nothing behind it.
IsDone(b) ==
  \E i \in DataLines(b) :
    /\ DataLines(b) = {i} /\ b[i] = "Z"
    /\ i < Len(b) => b[i + 1] \in {"n", "r"}

-----------------------------------------------------------------------------
(* Encrypting: EncryptFrame and EncryptProtoFrame                          *)

\* Mutant: the counter wraps around.
EncryptWrapping(types, data) ==
  /\ seqNum' = (seqNum + Len(types)) % SeqLimit
  /\ frames' = frames \o [i \in 1..Len(types) |->
                            [type |-> types[i], seq |-> (seqNum + i - 1) % SeqLimit,
                             key |-> session, data |-> data]]

\* Frames of these types are encrypted with what the session holds and written.  At
\* the limit encryption fails and the frame is dropped.
Encrypt(types, data) ==
  LET n == IF seqNum + Len(types) <= SeqLimit THEN Len(types) ELSE SeqLimit - seqNum
  IN  /\ seqNum' = seqNum + n
      /\ frames' = frames \o [i \in 1..n |-> [type |-> types[i], seq |-> seqNum + i - 1,
                                              key |-> session, data |-> data]]

\* writeEncryptedSSEBlock
EncryptBlock(b) ==
  IF DataLines(b) = {} THEN UNCHANGED <<seqNum, frames>>
  ELSE Encrypt(<<IF IsDone(b) THEN "end" ELSE "delta">>, b)

\* The events of a translation, each a block of its own for the encrypting writer,
\* and after those for [DONE] the end of the stream.
EncryptEvents(r, done) ==
  /\ translator' = r.st
  /\ events' = events \o r.events
  /\ Encrypt([i \in 1..Len(r.events) |-> "delta"] \o
             (IF done /\ r.events # <<>> THEN <<"end">> ELSE <<>>), <<>>)

\* The adapter's treatment of a block.
TranslateBlock(b) ==
  \/ DataLines(b) = {} /\ UNCHANGED <<seqNum, frames, translator, events>>
  \/ DataLines(b) # {} /\ IsDone(b) /\ EncryptEvents(TranslateDone(translator), TRUE)
  \/ /\ DataLines(b) # {} /\ ~IsDone(b)
     /\ \E c \in Replies : EncryptEvents(Translate(translator, c), FALSE)

SendBlock(b) ==
  IF messages THEN TranslateBlock(b) ELSE EncryptBlock(b) /\ UNCHANGED <<translator, events>>

-----------------------------------------------------------------------------
\* One turn of the loop: the buffer holds a complete block.
TakeBlock ==
  /\ pc = "process"
  /\ \E i \in 1..Len(buf), k \in {2, 4} :
       /\ FirstDelimiter(buf, i, k)
       /\ SendBlock(SubSeq(buf, 1, i - 1))
       /\ blocks' = Append(blocks, SubSeq(buf, 1, i - 1))
       /\ buf' = SubSeq(buf, i + k, Len(buf))
  /\ UNCHANGED <<pc, messages, session, replyVars, writerCode, isStreaming, ended, status, forced>>

\* The buffer is too long for a block that is not complete: it is sent as it is.
ForceFlush ==
  /\ pc = "process"
  /\ ~HasDelimiter(buf)
  /\ ~ended /\ ~messages /\ Len(buf) > MaxBuffer
  /\ EncryptBlock(buf)
  /\ blocks' = Append(blocks, buf)
  /\ forced' = TRUE
  /\ buf' = <<>>
  /\ pc' = "body"
  /\ UNCHANGED <<messages, session, replyVars, writerCode, isStreaming, ended, translator, status,
                 events>>

\* Mutant: a flush sends what there is of a block.
WaitForMoreDrains ==
  /\ pc = "process"
  /\ ~HasDelimiter(buf)
  /\ ~ended
  /\ EncryptBlock(buf)
  /\ blocks' = IF buf = <<>> THEN blocks ELSE Append(blocks, buf)
  /\ buf' = <<>>
  /\ pc' = "body"
  /\ UNCHANGED <<messages, session, replyVars, writerCode, isStreaming, ended, translator, status,
                 events, forced>>

\* The rest stays in the buffer until more is written.
WaitForMore ==
  /\ pc = "process"
  /\ ~HasDelimiter(buf)
  /\ ~ended /\ (messages \/ Len(buf) <= MaxBuffer)
  /\ pc' = "body"
  /\ UNCHANGED <<messages, sessionVars, replyVars, writerVars, historyVars>>

\* Mutant: the deferred function finishes the encrypting writer before the adapter.
DrainRestErased ==
  /\ pc = "process"
  /\ ~HasDelimiter(buf)
  /\ ended
  /\ IF buf = <<>> THEN UNCHANGED <<seqNum, frames, translator, events, blocks>>
     ELSE SendBlock(buf) /\ blocks' = Append(blocks, buf)
  /\ buf' = <<>>
  /\ session' = "zero"
  /\ pc' = IF messages THEN "close" ELSE "erase"
  /\ UNCHANGED <<messages, replyVars, writerCode, isStreaming, ended, status, forced>>

\* In Finish the rest is a block too.
DrainRest ==
  /\ pc = "process"
  /\ ~HasDelimiter(buf)
  /\ ended
  /\ IF buf = <<>> THEN UNCHANGED <<seqNum, frames, translator, events, blocks>>
     ELSE SendBlock(buf) /\ blocks' = Append(blocks, buf)
  /\ buf' = <<>>
  /\ pc' = IF messages THEN "close" ELSE "erase"
  /\ UNCHANGED <<messages, session, replyVars, writerCode, isStreaming, ended, status, forced>>

-----------------------------------------------------------------------------
(* The deferred Finish: first of the adapter, then of the encrypting writer *)

\* An event stream is drained in a last pass of the loop.
FinishStream ==
  /\ pc = "finish"
  /\ isStreaming
  /\ ended' = TRUE
  /\ pc' = "process"
  /\ UNCHANGED <<messages, sessionVars, replyVars, writerCode, isStreaming, buf, translator, status,
                 historyVars>>

\* The adapter closes a stream that did not end with [DONE] as if it had.
CloseStream ==
  /\ pc = "close"
  /\ EncryptEvents(TranslateDone(translator), TRUE)
  /\ pc' = "erase"
  /\ UNCHANGED <<messages, session, replyVars, writerCode, isStreaming, buf, ended, status, blocks,
                 forced>>

\* A whole body, for Messages requests converted or, when it does not parse, as it is:
\* one frame of the type the writer's status calls for, and the end.  A status that a
\* flush has sent stays.
FinishBody ==
  /\ pc = "finish"
  /\ ~isStreaming
  /\ ended' = TRUE
  /\ status' = IF status = 0 THEN writerCode ELSE status
  /\ IF buf = <<>> THEN UNCHANGED <<seqNum, frames>>
     ELSE Encrypt(<<IF writerCode >= 400 THEN "error" ELSE "completion", "end">>, buf)
  /\ pc' = "erase"
  /\ UNCHANGED <<messages, session, replyVars, writerCode, isStreaming, buf, translator, historyVars>>

\* The deferred Zeroize of the encrypting writer's Finish.
EraseSession ==
  /\ pc = "erase"
  /\ pc' = "done"
  /\ session' = "zero"
  /\ UNCHANGED <<messages, seqNum, frames, replyVars, writerVars, historyVars>>

\* ExtractThinkingFromContent cuts the content from the first <think> to the first
\* </think>, and panics when the closing tag comes first.  Only a whole completion
\* gets there.  The deferred function never comes to the encrypting writer's Finish.
ConversionPanics ==
  /\ pc = "finish"
  /\ messages /\ ~isStreaming
  /\ code = OK /\ buf # <<>> /\ sent = Len(stream)
  /\ pc' = "panicked"
  /\ UNCHANGED <<messages, sessionVars, replyVars, writerVars, historyVars>>

-----------------------------------------------------------------------------
Handle == RefuseEnvelope \/ Unwrap \/ RefuseNotReady \/ EngineIsReady \/ RefuseConversion \/ Convert

Proxy ==
  \/ \E c \in Codes, sse \in BOOLEAN : EngineAnswers(c, sse)
  \/ EngineUnreachable \/ ClientGone
  \/ \E k \in 1..Len(stream) : WriteBody(k)
  \/ Flush \/ BodyEnds

Process == TakeBlock \/ ForceFlush \/ WaitForMore \/ DrainRest

FinishReply == FinishStream \/ CloseStream \/ FinishBody \/ ConversionPanics \/ EraseSession

Next == Handle \/ Proxy \/ Process \/ FinishReply

Spec == Init /\ [][Next]_vars

-----------------------------------------------------------------------------
(* Properties                                                              *)

\* No two frames of a session share a sequence number, hence an AEAD nonce, and none
\* is skipped: the client sees 0, 1, 2, ... although frames come from the loop, from
\* Finish and from the adapter, and encryption fails for good at the last number.
FramesAreSequenced == \A i \in DOMAIN frames : frames[i].seq = i - 1

\* No frame is encrypted with erased keys: getOrInitRespAEAD would build a cipher from
\* zeros.  It depends on the order of the two Finish calls in the deferred function.
FramesUseSessionKeys == \A i \in DOMAIN frames : frames[i].key = "live"

\* However the exchange ends (refused, engine unreachable, client gone, cut off), the
\* keys of its session are erased when the handler returns.  The one way out that
\* leaves them is a panic in the conversion of a whole Messages body.
SessionIsErased ==
  /\ pc = "done" => session # "live"
  /\ pc = "panicked" => messages /\ ~isStreaming

\* A parser that reads one token of the answer after the other: the blocks it has found,
\* those of them with data, and what no delimiter has ended yet.
Unread == [blocks |-> <<>>, data |-> <<>>, rest |-> <<>>]

EndsWith(s, e) == Len(s) >= Len(e) /\ \A i \in 1..Len(e) : s[Len(s) - Len(e) + i] = e[i]

DelimiterLength(s) ==
  IF EndsWith(s, <<"n", "n">>) THEN 2 ELSE IF EndsWith(s, <<"r", "n", "r", "n">>) THEN 4 ELSE 0

ReadToken(p, t) ==
  LET rest  == Append(p.rest, t)
      cut   == DelimiterLength(rest)
      block == SubSeq(rest, 1, Len(rest) - cut)
  IN  IF cut = 0 THEN [p EXCEPT !.rest = rest]
      ELSE [blocks |-> Append(p.blocks, block),
            data   |-> IF DataLines(block) = {} THEN p.data ELSE Append(p.data, block),
            rest   |-> <<>>]

Parse(s) ==
  LET parse[i \in 0..Len(s)] == IF i = 0 THEN Unread ELSE ReadToken(parse[i - 1], s[i])
  IN  parse

\* What it has found in the part of the answer that was received.
Parsed == Parse(stream)[sent]

\* How the answer is cut into writes and flushes makes no difference: between two
\* writes the blocks taken and the buffer are what the sequential parser finds,
\* delimiters cut in half included, unless a block exceeded maxSSEBufferSize.
ChunkingIsInvisible ==
  pc = "body" /\ isStreaming /\ ~forced => blocks = Parsed.blocks /\ buf = Parsed.rest

\* A client that sees the end of a plain stream in which no block outgrew
\* maxSSEBufferSize has every data block the engine sent, in order: dropped frames, a
\* cut-off stream or a drained rest never come with an end frame.  It is not so where
\* processSSEBuffer cut a block by force: what follows the cut up to the next
\* delimiter does not start with "data:", is dropped, and the end frame is sent.
EndMeansComplete ==
  LET last == IF DataLines(Parsed.rest) = {} THEN <<>> ELSE <<Parsed.rest>>
  IN  /\ ~messages /\ isStreaming /\ ~forced
      /\ \E i \in DOMAIN frames : frames[i].type = "end"
      => [i \in DOMAIN frames |-> frames[i].data] = Parsed.data \o last

Count(type, i) == Cardinality({j \in 1..i : events[j].type = type})

\* The events of a Messages stream nest: blocks are numbered from 0, one is open at a
\* time, deltas and stops name the open block, and message_stop comes last, once,
\* with no block open, whatever mixture of reasoning, think tags, text and tool calls
\* the chunks hold and wherever the stream broke off.
EventsAreNested ==
  \A i \in DOMAIN events :
    LET e      == events[i]
        opened == Count("content_block_start", i - 1)
        closed == Count("content_block_stop", i - 1)
    IN  /\ e.type = "message_start" => i = 1
        /\ e.type = "content_block_start" => opened = closed /\ e.index = opened
        /\ e.type \in {"content_block_delta", "content_block_stop"} =>
              /\ opened = closed + 1 /\ e.index = closed
              /\ \E j \in 1..(i - 1) : events[j] = Event("content_block_start", e.block, e.index)
        /\ e.type = "message_stop" => opened = closed /\ i = Len(events)

\* A Messages stream that was answered 200 is always closed by message_stop and an end
\* frame, unless the sequence numbers ran out.
MessagesStreamIsClosed ==
  pc = "done" /\ messages /\ isStreaming =>
    /\ events # <<>> /\ events[Len(events)].type = "message_stop"
    /\ seqNum < SeqLimit => frames[Len(frames)].type = "end"

\* A Messages client gets a well-formed stream: its events nest, and it is closed.
MessagesStreamIsWellFormed == EventsAreNested /\ MessagesStreamIsClosed

\* TestReverseProxy: "upstream connection failure returns 503".  The code breaks it for
\* Messages requests: the adapter keeps the status to itself, and the encrypting
\* writer answers 200 with a completion frame.
ErrorIsRelayed == pc = "done" /\ code >= 400 => status >= 400

=============================================================================
