------------------------- MODULE InferencePathProofs -------------------------
(***************************************************************************)
(* One exchange, for every answer of the engine, every way of cutting it   *)
(* into writes and every limit of the sequence number.  Three invariants,  *)
(* each on top of the one before: IInv (frames are numbered 0, 1, 2, ...   *)
(* and encrypted with live keys, which are erased in the end), StreamInv   *)
(* (the blocks and the frames are what a sequential parser finds) and      *)
(* AdapterInv (the events of a Messages stream nest and are closed).       *)
(***************************************************************************)
EXTENDS InferencePath, SequenceTheorems, FiniteSetTheorems, WellFoundedInduction, TLAPS

\* The session has keys exactly while the handler works with it, or if it panicked,
\* which happens in the adapter only.
Working == {"ready", "convert", "proxy", "body", "process", "finish", "close", "erase",
            "panicked"}

SessionInv ==
  /\ pc \in Working <=> session = "live"
  /\ pc = "panicked" => messages /\ ~isStreaming

\* The counter is the number of frames, and every frame carries its position and was
\* encrypted with live keys.
FrameInv ==
  /\ Len(frames) = seqNum
  /\ \A i \in 1..Len(frames) : frames[i].seq = i - 1 /\ frames[i].key = "live"

IInv == TypeOK /\ SessionInv /\ FrameInv

-----------------------------------------------------------------------------
(* The translator                                                          *)

Results == [st : States, events : Seq(Events)]

\* Adding one event to a result.
LEMMA AddEvent ==
  ASSUME NEW s \in Seq(Events), NEW t \in EventTypes, NEW b \in Blocks \union {"none"}, NEW i \in Nat
  PROVE  Append(s, Event(t, b, i)) \in Seq(Events) /\ <<Event(t, b, i)>> \in Seq(Events)
  BY DEF Event, Events

LEMMA StartMessageType ==
  ASSUME NEW r \in Results
  PROVE  StartMessage(r) \in Results
<1>1. Append(r.events, Event("message_start", "none", 0)) \in Seq(Events)
  BY AddEvent DEF Results, EventTypes
<1> QED
  BY <1>1 DEF StartMessage, With, Results, States

\* The event that closes a block, if one is open.
LEMMA StopType ==
  ASSUME NEW b \in Blocks \union {"none"}, NEW i \in Nat
  PROVE  (IF b = "none" THEN <<>> ELSE <<Event("content_block_stop", b, i)>>) \in Seq(Events)
<1>1. CASE b = "none"
  BY <1>1
<1>2. CASE b # "none"
  <2>1. Event("content_block_stop", b, i) \in Events
    BY DEF Event, Events, EventTypes
  <2> QED
    BY <1>2, <2>1
<1> QED
  BY <1>1, <1>2

LEMMA OpenBlockType ==
  ASSUME NEW r \in Results, NEW b \in Blocks
  PROVE  OpenBlock(r, b) \in Results /\ OpenBlock(r, b).st.blockIndex \in Nat
<1> DEFINE old  == r.st.currentBlock
           i    == r.st.blockIndex
           next == IF old = "none" THEN i ELSE i + 1
           stop == IF old = "none" THEN <<>> ELSE <<Event("content_block_stop", old, i)>>
<1>1. r.st \in States /\ r.events \in Seq(Events)
  BY DEF Results
<1>2. old \in Blocks \union {"none"} /\ i \in Nat /\ next \in Nat
  BY <1>1 DEF States
<1>3. stop \in Seq(Events)
  BY <1>2, StopType
<1>4. <<Event("content_block_start", b, next)>> \in Seq(Events)
  BY <1>2 DEF Event, Events, EventTypes
<1>5. r.events \o stop \o <<Event("content_block_start", b, next)>> \in Seq(Events)
  <2> HIDE DEF stop, next
  <2> QED
    BY <1>1, <1>3, <1>4, ConcatProperties
<1>6. [r.st EXCEPT !.currentBlock = b, !.blockIndex = next] \in States
  BY <1>1, <1>2 DEF States
<1>7. OpenBlock(r, b) \in Results
  BY <1>5, <1>6 DEF OpenBlock, With, Results
<1> QED
  BY <1>7 DEF Results, States

LEMMA DeltasType ==
  ASSUME NEW r \in Results, NEW b \in Blocks, NEW n \in Nat
  PROVE  Deltas(r, b, n) \in Results
<1> DEFINE o == OpenBlock(r, b)
           more == [i \in 1..n |-> Event("content_block_delta", b, o.st.blockIndex)]
<1>1. o \in Results /\ o.st.blockIndex \in Nat
  BY OpenBlockType
<1> HIDE DEF o
<1>2. Event("content_block_delta", b, o.st.blockIndex) \in Events
  BY <1>1 DEF Event, Events, EventTypes
<1>3. more \in Seq(Events)
  BY <1>2
<1>4. o.st \in States /\ o.events \in Seq(Events)
  BY <1>1 DEF Results
<1>5. o.events \o more \in Seq(Events)
  <2> HIDE DEF more
  <2> QED
    BY <1>3, <1>4, ConcatProperties
<1> QED
  BY <1>4, <1>5 DEF Deltas, With, Results, o

LEMMA ToolCallsType ==
  ASSUME NEW r \in Results, NEW tools \in Seq(Tools)
  PROVE  ToolCalls(r, tools) \in Results
<1> DEFINE A == {i \in DOMAIN tools : tools[i] = "args"}
<1>1. IsFiniteSet(1..Len(tools))
  BY FS_Interval
<1>2. A \subseteq 1..Len(tools)
  OBVIOUS
<1>3. Cardinality(A) \in Nat
  BY <1>1, <1>2, FS_Subset, FS_CardinalityType
<1> QED
  BY <1>3, DeltasType DEF ToolCalls, Blocks

\* Every translation leads from a translator state to a translator state and yields
\* a sequence of events.
LEMMA TranslateType ==
  ASSUME NEW st \in States, NEW c \in Chunks
  PROVE  Translate(st, c) \in Results
<1> DEFINE t == SplitThinking(st, c)
           a == StartMessage(With(st, <<>>))
           b == With([a.st EXCEPT !.inThinkTag = t.inThinkTag], a.events)
           d == IF t.thinking THEN Deltas(b, "thinking", 1) ELSE b
           e == IF t.text THEN Deltas(d, "text", 1) ELSE d
<1>1. With(st, <<>>) \in Results
  BY DEF With, Results
<1>2. a \in Results
  BY <1>1, StartMessageType
<1>3. t.inThinkTag \in BOOLEAN
  BY DEF SplitThinking, States, Chunks
<1>4. b \in Results
  <2> HIDE DEF a, t
  <2> QED
    BY <1>2, <1>3 DEF With, Results, States
<1>5. d \in Results
  BY <1>4, DeltasType DEF Blocks
<1>6. e \in Results
  BY <1>5, DeltasType DEF Blocks
<1>7. ToolCalls(e, c.tools) \in Results
  <2> HIDE DEF e
  <2> QED
    BY <1>6, ToolCallsType DEF Chunks
<1> QED
  BY <1>1, <1>2, <1>7 DEF Translate

LEMMA TranslateDoneType ==
  ASSUME NEW st \in States
  PROVE  TranslateDone(st) \in Results
<1> DEFINE stop == IF st.currentBlock = "none" THEN <<>>
                   ELSE <<Event("content_block_stop", st.currentBlock, st.blockIndex)>>
           last == <<Event("message_delta", "none", 0), Event("message_stop", "none", 0)>>
<1>1. stop \in Seq(Events)
  BY StopType DEF States
<1>2. last \in Seq(Events)
  BY DEF Event, Events, EventTypes
<1>3. stop \o last \in Seq(Events)
  <2> HIDE DEF stop, last
  <2> QED
    BY <1>1, <1>2, ConcatProperties
<1>4. [st EXCEPT !.doneEmitted = TRUE, !.currentBlock = "none"] \in States
  BY DEF States
<1>5. TranslateDone(st) = IF st.doneEmitted THEN With(st, <<>>)
                          ELSE With([st EXCEPT !.doneEmitted = TRUE, !.currentBlock = "none"], stop \o last)
  BY DEF TranslateDone
<1> HIDE DEF stop, last
<1> QED
  BY <1>3, <1>4, <1>5 DEF With, Results

-----------------------------------------------------------------------------
(* Encrypting                                                              *)

\* Part of the invariant that encryption establishes.
FramesOK == seqNum \in 0..SeqLimit /\ frames \in Seq(Frames) /\ FrameInv

\* With live keys, frames of any types and data continue the numbering.
LEMMA EncryptKeepsFrames ==
  ASSUME FramesOK, session = "live",
         NEW types \in Seq(FrameTypes), NEW data \in Seq(Tokens), Encrypt(types, data)
  PROVE  FramesOK'
<1> DEFINE n == IF seqNum + Len(types) <= SeqLimit THEN Len(types) ELSE SeqLimit - seqNum
           more == [i \in 1..n |-> [type |-> types[i], seq |-> seqNum + i - 1,
                                    key |-> session, data |-> data]]
<1>1. seqNum \in Nat /\ n \in Nat /\ seqNum + n \in 0..SeqLimit /\ n <= Len(types)
  BY SeqAssumption DEF FramesOK
<1>2. seqNum' = seqNum + n /\ frames' = frames \o more
  BY DEF Encrypt
<1> HIDE DEF n
<1>3. \A i \in 1..n : more[i] \in Frames /\ more[i].seq = seqNum + i - 1 /\ more[i].key = "live"
  BY <1>1 DEF Frames
<1>4. more \in Seq(Frames) /\ Len(more) = n
  <2>1. \A i \in 1..n : [type |-> types[i], seq |-> seqNum + i - 1, key |-> session, data |-> data] \in Frames
    BY <1>3
  <2> QED
    BY <1>1, <2>1
<1> HIDE DEF more
<1>5. /\ frames' \in Seq(Frames)
      /\ Len(frames') = seqNum + n
      /\ \A i \in 1..(seqNum + n) : frames'[i] = IF i <= seqNum THEN frames[i] ELSE more[i - seqNum]
  BY <1>2, <1>4, ConcatProperties DEF FramesOK, FrameInv
<1>6. ASSUME NEW i \in 1..(seqNum + n)
      PROVE  frames'[i].seq = i - 1 /\ frames'[i].key = "live"
  <2>1. CASE i <= seqNum
    BY <1>1, <1>5, <2>1 DEF FramesOK, FrameInv
  <2>2. CASE i > seqNum
    <3>1. i - seqNum \in 1..n /\ seqNum + (i - seqNum) - 1 = i - 1 /\ i \in Int
      BY <1>1, <2>2
    <3>2. frames'[i] = more[i - seqNum]
      BY <1>1, <1>5, <2>2
    <3> QED
      BY <1>3, <3>1, <3>2
  <2> QED
    BY <1>1, <2>1, <2>2
<1> QED
  BY <1>1, <1>2, <1>5, <1>6 DEF FramesOK, FrameInv

\* A block that is encrypted as it is.
LEMMA EncryptBlockKeepsFrames ==
  ASSUME FramesOK, session = "live", NEW b \in Seq(Tokens), EncryptBlock(b)
  PROVE  FramesOK'
<1>1. CASE DataLines(b) = {}
  BY <1>1 DEF EncryptBlock, FramesOK, FrameInv
<1>2. CASE DataLines(b) # {}
  <2>1. <<IF IsDone(b) THEN "end" ELSE "delta">> \in Seq(FrameTypes)
    BY DEF FrameTypes
  <2> QED
    BY <1>2, <2>1, EncryptKeepsFrames DEF EncryptBlock
<1> QED
  BY <1>1, <1>2

AdapterOK == translator \in States /\ events \in Seq(Events)

\* The events of a translation.
LEMMA EncryptEventsKeepsFrames ==
  ASSUME FramesOK, AdapterOK, session = "live", NEW r \in Results, NEW done \in BOOLEAN,
         EncryptEvents(r, done)
  PROVE  FramesOK' /\ AdapterOK'
<1> DEFINE deltas == [i \in 1..Len(r.events) |-> "delta"]
           end    == IF done /\ r.events # <<>> THEN <<"end">> ELSE <<>>
<1>1. r.st \in States /\ r.events \in Seq(Events)
  BY DEF Results
<1>2. deltas \in Seq(FrameTypes)
  <2>1. Len(r.events) \in Nat
    BY <1>1
  <2> QED
    BY <2>1 DEF FrameTypes
<1>3. end \in Seq(FrameTypes)
  <2>1. CASE done /\ r.events # <<>>
    BY <2>1 DEF FrameTypes
  <2>2. CASE ~(done /\ r.events # <<>>)
    BY <2>2
  <2> QED
    BY <2>1, <2>2
<1>4. Encrypt(deltas \o end, <<>>) /\ translator' = r.st /\ events' = events \o r.events
  BY DEF EncryptEvents
<1> HIDE DEF deltas, end
<1>5. deltas \o end \in Seq(FrameTypes) /\ <<>> \in Seq(Tokens)
  BY <1>2, <1>3, ConcatProperties
<1>6. FramesOK'
  BY <1>4, <1>5, EncryptKeepsFrames
<1>7. events' \in Seq(Events)
  BY <1>1, <1>4, ConcatProperties DEF AdapterOK
<1> QED
  BY <1>1, <1>4, <1>6, <1>7 DEF AdapterOK

\* A block of either kind of stream.
LEMMA SendBlockKeepsFrames ==
  ASSUME FramesOK, AdapterOK, session = "live", NEW b \in Seq(Tokens), SendBlock(b)
  PROVE  FramesOK' /\ AdapterOK'
<1>1. CASE ~messages
  <2>1. EncryptBlock(b) /\ UNCHANGED <<translator, events>>
    BY <1>1 DEF SendBlock
  <2> QED
    BY <2>1, EncryptBlockKeepsFrames DEF AdapterOK
<1>2. CASE messages
  <2>1. TranslateBlock(b)
    BY <1>2 DEF SendBlock
  <2>2. CASE UNCHANGED <<seqNum, frames, translator, events>>
    BY <2>2 DEF FramesOK, FrameInv, AdapterOK
  <2>3. CASE EncryptEvents(TranslateDone(translator), TRUE)
    BY <2>3, TranslateDoneType, EncryptEventsKeepsFrames DEF AdapterOK
  <2>4. CASE \E c \in Replies : EncryptEvents(Translate(translator, c), FALSE)
    <3>1. PICK c \in Replies : EncryptEvents(Translate(translator, c), FALSE)
      BY <2>4
    <3>2. Translate(translator, c) \in Results
      BY TranslateType, ReplyAssumption DEF AdapterOK
    <3> QED
      BY <3>1, <3>2, EncryptEventsKeepsFrames
  <2> QED
    BY <2>1, <2>2, <2>3, <2>4 DEF TranslateBlock
<1> QED
  BY <1>1, <1>2

-----------------------------------------------------------------------------
(* The invariant                                                           *)

\* The rest of the type invariant.
ReplyOK ==
  /\ pc \in Working \union {"unwrap", "done"}
  /\ messages \in BOOLEAN
  /\ session \in {"none", "live", "zero"}
  /\ stream \in Streams
  /\ sent \in 0..Len(stream)
  /\ code \in Codes \union {0}
  /\ writerCode \in Codes
  /\ isStreaming \in BOOLEAN
  /\ buf \in Seq(Tokens)
  /\ ended \in BOOLEAN
  /\ status \in Codes \union {0}
  /\ blocks \in Seq(Seq(Tokens))
  /\ forced \in BOOLEAN

LEMMA IInvParts == IInv <=> ReplyOK /\ SessionInv /\ FramesOK /\ AdapterOK
  BY DEF IInv, TypeOK, ReplyOK, FramesOK, AdapterOK, Working

LEMMA IInvPartsNext == IInv' <=> ReplyOK' /\ SessionInv' /\ FramesOK' /\ AdapterOK'
  BY DEF IInv, TypeOK, ReplyOK, FramesOK, AdapterOK, Working

LEMMA InitIInv == Init => IInv
<1> SUFFICES ASSUME Init PROVE IInv
  OBVIOUS
<1>1. Len(stream) \in Nat /\ buf \in Seq(Tokens) /\ blocks \in Seq(Seq(Tokens))
  BY StreamAssumption DEF Init
<1>2. isStreaming \in BOOLEAN /\ ended \in BOOLEAN /\ forced \in BOOLEAN
  BY Zenon DEF Init
<1>3. ReplyOK
  BY <1>1, <1>2 DEF Init, ReplyOK, Codes
<1>4. SessionInv
  BY DEF Init, SessionInv, Working
<1>5. FramesOK
  <2>1. frames \in Seq(Frames) /\ Len(frames) = 0 /\ seqNum = 0
    BY DEF Init
  <2> QED
    BY <2>1, SeqAssumption DEF FramesOK, FrameInv
<1>6. AdapterOK
  BY DEF Init, AdapterOK, NewTranslator, States
<1> QED
  BY <1>3, <1>5, <1>6, <1>4, IInvParts

\* Steps that neither encrypt nor translate.
LEMMA QuietSteps ==
  ASSUME FramesOK, AdapterOK, UNCHANGED <<seqNum, frames, translator, events>>
  PROVE  FramesOK' /\ AdapterOK'
  BY DEF FramesOK, FrameInv, AdapterOK

LEMMA HandleIInv ==
  ASSUME IInv, Handle
  PROVE  IInv'
<1> USE IInvParts
<1>1. FramesOK' /\ AdapterOK'
  BY QuietSteps DEF Handle, RefuseEnvelope, Unwrap, RefuseNotReady, EngineIsReady, RefuseConversion,
     Convert, RefuseWith, sessionVars, writerVars, historyVars
<1>2. ReplyOK' /\ SessionInv'
  BY DEF Handle, RefuseEnvelope, Unwrap, RefuseNotReady, EngineIsReady, RefuseConversion,
     Convert, RefuseWith, sessionVars, replyVars, writerVars, historyVars, ReplyOK, SessionInv,
     Working, Codes, BadRequest, Unavailable
<1> QED
  BY <1>1, <1>2, IInvPartsNext

LEMMA ProxyIInv ==
  ASSUME IInv, Proxy
  PROVE  IInv'
<1> USE IInvParts
<1>1. FramesOK' /\ AdapterOK'
  BY QuietSteps DEF Proxy, EngineAnswers, EngineUnreachable, ClientGone, WriteBody, Flush, BodyEnds,
     sessionVars, writerVars, historyVars
<1>2. ASSUME NEW c \in Codes, NEW sse \in BOOLEAN, EngineAnswers(c, sse)
      PROVE  ReplyOK' /\ SessionInv'
  BY <1>2 DEF EngineAnswers, Header, WriteHeader, MessagesWriteHeader, sessionVars, historyVars,
     ReplyOK, SessionInv, Working
<1>3. ASSUME EngineUnreachable PROVE ReplyOK' /\ SessionInv'
  <2>1. <<"X">> \in Seq(Tokens)
    BY DEF Tokens
  <2>2. isStreaming' \in BOOLEAN
    BY <1>3, Zenon DEF EngineUnreachable, Header, WriteHeader, MessagesWriteHeader
  <2> QED
    BY <1>3, <2>1, <2>2 DEF EngineUnreachable, Header, WriteHeader, MessagesWriteHeader, sessionVars,
       historyVars, ReplyOK, SessionInv, Working, Codes, Unavailable
<1>4. ASSUME ClientGone \/ BodyEnds PROVE ReplyOK' /\ SessionInv'
  BY <1>4 DEF ClientGone, BodyEnds, sessionVars, replyVars, writerVars, historyVars, ReplyOK,
     SessionInv, Working
<1>5. ASSUME NEW k \in 1..Len(stream), WriteBody(k)
      PROVE  ReplyOK' /\ SessionInv'
  <2>1. stream \in Seq(Tokens)
    BY StreamAssumption DEF ReplyOK
  <2>2. sent \in Nat /\ k \in Nat /\ sent + k \in 0..Len(stream)
    BY <1>5, <2>1 DEF WriteBody, ReplyOK
  <2>3. \A i \in (sent + 1)..(sent + k) : stream[i] \in Tokens
    BY <2>1, <2>2
  <2>4. SubSeq(stream, sent + 1, sent + k) \in Seq(Tokens)
    BY <2>2, <2>3, SubSeqProperties
  <2>5. buf \o SubSeq(stream, sent + 1, sent + k) \in Seq(Tokens)
    BY <2>4, ConcatProperties DEF ReplyOK
  <2>6. sent' \in 0..Len(stream) /\ buf' \in Seq(Tokens)
    BY <1>5, <2>2, <2>5 DEF WriteBody
  <2>7. UNCHANGED <<messages, session, stream, code, writerCode, isStreaming, ended, status, blocks, forced>>
    BY <1>5 DEF WriteBody, sessionVars, historyVars
  <2>8. pc = "body" /\ pc' \in {"process", "body"}
    BY <1>5 DEF WriteBody
  <2> QED
    BY <2>6, <2>7, <2>8 DEF ReplyOK, SessionInv, Working
<1>6. ASSUME Flush PROVE ReplyOK' /\ SessionInv'
  <2>1. status' \in Codes \union {0}
    BY <1>6 DEF Flush, ReplyOK, Codes, OK
  <2> QED
    BY <1>6, <2>1 DEF Flush, sessionVars, replyVars, historyVars, ReplyOK, SessionInv, Working
<1>7. ReplyOK' /\ SessionInv'
  <2>1. CASE \E c \in Codes, sse \in BOOLEAN : EngineAnswers(c, sse)
    BY <1>2, <2>1
  <2>2. CASE \E k \in 1..Len(stream) : WriteBody(k)
    BY <1>5, <2>2
  <2> QED
    BY <1>3, <1>4, <1>6, <2>1, <2>2 DEF Proxy
<1> QED
  BY <1>1, <1>7, IInvPartsNext

LEMMA ProcessIInv ==
  ASSUME IInv, Process
  PROVE  IInv'
<1> USE IInvParts
<1>1. CASE TakeBlock
  <2>1. PICK i \in 1..Len(buf), k \in {2, 4} :
          /\ FirstDelimiter(buf, i, k)
          /\ SendBlock(SubSeq(buf, 1, i - 1))
          /\ blocks' = Append(blocks, SubSeq(buf, 1, i - 1))
          /\ buf' = SubSeq(buf, i + k, Len(buf))
    BY <1>1 DEF TakeBlock
  <2>2. buf \in Seq(Tokens) /\ i \in Nat /\ i <= Len(buf) /\ i >= 1
    BY DEF ReplyOK
  <2>3. SubSeq(buf, 1, i - 1) \in Seq(Tokens)
    <3>1. \A j \in 1..(i - 1) : buf[j] \in Tokens
      BY <2>2
    <3> QED
      BY <2>2, <3>1, SubSeqProperties
  <2>4. SubSeq(buf, i + k, Len(buf)) \in Seq(Tokens)
    <3>1. \A j \in (i + k)..Len(buf) : buf[j] \in Tokens
      BY <2>2
    <3> QED
      BY <2>2, <3>1, SubSeqProperties
  <2>5. session = "live"
    BY <1>1 DEF TakeBlock, SessionInv, Working
  <2>6. FramesOK' /\ AdapterOK'
    BY <2>1, <2>3, <2>5, SendBlockKeepsFrames
  <2>7. blocks' \in Seq(Seq(Tokens)) /\ buf' \in Seq(Tokens)
    BY <2>1, <2>3, <2>4 DEF ReplyOK
  <2>8. ReplyOK' /\ SessionInv'
    BY <1>1, <2>7 DEF TakeBlock, replyVars, ReplyOK, SessionInv, Working
  <2> QED
    BY <2>6, <2>8, IInvPartsNext
<1>2. CASE ForceFlush
  <2>1. session = "live" /\ buf \in Seq(Tokens)
    BY <1>2 DEF ForceFlush, SessionInv, Working, ReplyOK
  <2>2. FramesOK' /\ AdapterOK'
    BY <1>2, <2>1, EncryptBlockKeepsFrames DEF ForceFlush, AdapterOK
  <2>3. blocks' \in Seq(Seq(Tokens)) /\ buf' \in Seq(Tokens)
    BY <1>2, <2>1 DEF ForceFlush, ReplyOK
  <2>4. ReplyOK' /\ SessionInv'
    BY <1>2, <2>3 DEF ForceFlush, replyVars, ReplyOK, SessionInv, Working
  <2> QED
    BY <2>2, <2>4, IInvPartsNext
<1>3. CASE WaitForMore
  <2>1. FramesOK' /\ AdapterOK'
    BY <1>3, QuietSteps DEF WaitForMore, sessionVars, writerVars, historyVars
  <2>2. ReplyOK' /\ SessionInv'
    BY <1>3 DEF WaitForMore, sessionVars, replyVars, writerVars, historyVars, ReplyOK, SessionInv,
       Working
  <2> QED
    BY <2>1, <2>2, IInvPartsNext
<1>4. CASE DrainRest
  <2>1. session = "live" /\ buf \in Seq(Tokens)
    BY <1>4 DEF DrainRest, SessionInv, Working, ReplyOK
  <2>2. FramesOK' /\ AdapterOK' /\ blocks' \in Seq(Seq(Tokens))
    <3>1. CASE buf = <<>>
      BY <1>4, <3>1, QuietSteps DEF DrainRest, ReplyOK
    <3>2. CASE buf # <<>>
      <4>1. SendBlock(buf) /\ blocks' = Append(blocks, buf)
        BY <1>4, <3>2 DEF DrainRest
      <4> QED
        BY <2>1, <4>1, SendBlockKeepsFrames DEF ReplyOK
    <3> QED
      BY <3>1, <3>2
  <2>3. buf' \in Seq(Tokens)
    BY <1>4 DEF DrainRest
  <2>4. ReplyOK' /\ SessionInv'
    BY <1>4, <2>2, <2>3 DEF DrainRest, replyVars, ReplyOK, SessionInv, Working
  <2> QED
    BY <2>2, <2>4, IInvPartsNext
<1> QED
  BY <1>1, <1>2, <1>3, <1>4 DEF Process

LEMMA FinishIInv ==
  ASSUME IInv, FinishReply
  PROVE  IInv'
<1> USE IInvParts
<1>1. CASE FinishStream
  <2>1. FramesOK' /\ AdapterOK'
    BY <1>1, QuietSteps DEF FinishStream, sessionVars, historyVars
  <2>2. ReplyOK' /\ SessionInv'
    BY <1>1 DEF FinishStream, sessionVars, replyVars, historyVars, ReplyOK, SessionInv, Working
  <2> QED
    BY <2>1, <2>2, IInvPartsNext
<1>2. CASE CloseStream
  <2>1. session = "live"
    BY <1>2 DEF CloseStream, SessionInv, Working
  <2>2. FramesOK' /\ AdapterOK'
    BY <1>2, <2>1, TranslateDoneType, EncryptEventsKeepsFrames DEF CloseStream, AdapterOK
  <2>3. ReplyOK' /\ SessionInv'
    BY <1>2 DEF CloseStream, replyVars, ReplyOK, SessionInv, Working
  <2> QED
    BY <2>2, <2>3, IInvPartsNext
<1>3. CASE FinishBody
  <2>1. session = "live" /\ buf \in Seq(Tokens)
    BY <1>3 DEF FinishBody, SessionInv, Working, ReplyOK
  <2>2. FramesOK' /\ AdapterOK'
    <3>1. CASE buf = <<>>
      BY <1>3, <3>1, QuietSteps DEF FinishBody, historyVars
    <3>2. CASE buf # <<>>
      <4>1. <<IF writerCode >= 400 THEN "error" ELSE "completion", "end">> \in Seq(FrameTypes)
        BY DEF FrameTypes
      <4>2. Encrypt(<<IF writerCode >= 400 THEN "error" ELSE "completion", "end">>, buf)
        BY <1>3, <3>2 DEF FinishBody
      <4>3. FramesOK'
        BY <2>1, <4>1, <4>2, EncryptKeepsFrames
      <4> QED
        BY <1>3, <4>3 DEF FinishBody, historyVars, AdapterOK
    <3> QED
      BY <3>1, <3>2
  <2>3. ReplyOK' /\ SessionInv'
    BY <1>3 DEF FinishBody, replyVars, historyVars, ReplyOK, SessionInv, Working
  <2> QED
    BY <2>2, <2>3, IInvPartsNext
<1>4. CASE ConversionPanics
  <2>1. FramesOK' /\ AdapterOK'
    BY <1>4, QuietSteps DEF ConversionPanics, sessionVars, writerVars, historyVars
  <2>2. ReplyOK' /\ SessionInv'
    BY <1>4 DEF ConversionPanics, sessionVars, replyVars, writerVars, historyVars, ReplyOK,
       SessionInv, Working
  <2> QED
    BY <2>1, <2>2, IInvPartsNext
<1>5. CASE EraseSession
  <2>1. FramesOK' /\ AdapterOK'
    BY <1>5, QuietSteps DEF EraseSession, writerVars, historyVars
  <2>2. ReplyOK' /\ SessionInv'
    BY <1>5 DEF EraseSession, replyVars, writerVars, historyVars, ReplyOK, SessionInv, Working
  <2> QED
    BY <2>1, <2>2, IInvPartsNext
<1> QED
  BY <1>1, <1>2, <1>3, <1>4, <1>5 DEF FinishReply

LEMMA StutterIInv ==
  ASSUME IInv, UNCHANGED vars
  PROVE  IInv'
<1>1. FramesOK' /\ AdapterOK'
  BY IInvParts, QuietSteps DEF vars, sessionVars, writerVars, historyVars
<1>2. ReplyOK' /\ SessionInv'
  BY IInvParts DEF vars, sessionVars, replyVars, writerVars, historyVars, ReplyOK, SessionInv
<1> QED
  BY <1>1, <1>2, IInvPartsNext

\* The invariant of the exchange: types, keys while the handler works, frames numbered
\* by the counter.
THEOREM Invariance == Spec => []IInv
<1>1. IInv /\ [Next]_vars => IInv'
  BY HandleIInv, ProxyIInv, ProcessIInv, FinishIInv, StutterIInv DEF Next
<1> QED
  BY <1>1, InitIInv, PTL DEF Spec

\* Every reachable state of an exchange is well typed.
THEOREM TypeCorrect == Spec => []TypeOK
<1>1. IInv => TypeOK
  BY DEF IInv
<1> QED
  BY <1>1, Invariance, PTL

\* No two frames of an exchange share a sequence number and none is skipped, whatever
\* the engine sends and wherever the counter's limit is.
THEOREM NoncesAreFresh == Spec => []FramesAreSequenced
<1>1. IInv => FramesAreSequenced
  BY DEF IInv, TypeOK, FrameInv, FramesAreSequenced
<1> QED
  BY <1>1, Invariance, PTL

\* No frame is encrypted with erased keys.
THEOREM KeysAreLive == Spec => []FramesUseSessionKeys
<1>1. IInv => FramesUseSessionKeys
  BY DEF IInv, TypeOK, FrameInv, FramesUseSessionKeys
<1> QED
  BY <1>1, Invariance, PTL

\* When the handler has returned, the session holds no keys, unless the conversion of
\* a whole Messages body panicked.
THEOREM KeysAreErased == Spec => []SessionIsErased
<1>1. IInv => SessionIsErased
  BY DEF IInv, SessionInv, SessionIsErased, Working
<1> QED
  BY <1>1, Invariance, PTL
-----------------------------------------------------------------------------
(* The stream: blocks, data and events                                     *)

\* The tokens that have left the buffer.
Taken == sent - Len(buf)

\* The body is being received, or drained.
Pumping == isStreaming /\ pc \in {"body", "process", "finish"}

\* Before the engine answers nothing has happened to the stream.
NothingYet ==
  pc \in {"unwrap", "ready", "convert", "proxy"} =>
    ~isStreaming /\ sent = 0 /\ buf = <<>> /\ blocks = <<>> /\ frames = <<>>

\* The buffer is the last part of what was received, and between two writes it holds no
\* complete block.
BufferIsTail ==
  /\ Pumping => Len(buf) <= sent /\ \A i \in 1..Len(buf) : buf[i] = stream[Taken + i]
  /\ Pumping /\ pc = "body" => ~HasDelimiter(buf)

\* At the start of the buffer the parser has found the blocks that were taken, and no more.
ParserAgrees ==
  Pumping /\ ~forced => Parse(stream)[Taken].blocks = blocks /\ Parse(stream)[Taken].rest = <<>>

\* [DONE] has left the buffer, and no data comes behind it.
DonePassed == \E z \in 1..Taken : stream[z] = "Z"

Ends(f) == \E i \in DOMAIN f : f[i].type = "end"

\* The frames f are the blocks of d, up to where the sequence numbers ran out (n is the
\* next one); with an end frame they are all there.
Carries(f, n, d) ==
  /\ Len(f) <= Len(d) /\ \A i \in 1..Len(f) : f[i].data = d[i]
  /\ Len(f) = Len(d) \/ n = SeqLimit
  /\ Ends(f) => Len(f) = Len(d)

\* The frames are the data blocks taken; with an end frame they are all there will be.
FramesAreData ==
  Pumping /\ ~forced /\ ~messages =>
    Carries(frames, seqNum, Parse(stream)[Taken].data) /\ (Ends(frames) => DonePassed)

StreamInv ==
  /\ NothingYet
  /\ BufferIsTail
  /\ ParserAgrees
  /\ FramesAreData
  /\ pc \in {"close", "erase", "done"} => EndMeansComplete
  /\ pc = "close" => messages

-----------------------------------------------------------------------------
(* Induction                                                               *)

LessThan == {p \in Nat \X Nat : p[1] < p[2]}

LEMMA LessThanWellFounded == IsWellFoundedOn(LessThan, Nat)
  BY NatLessThanWellFounded DEF LessThan, OpToRel

\* Induction over the natural numbers, for a set of them.
LEMMA Induction ==
  ASSUME NEW S, 0 \in S, \A n \in Nat : n \in S => n + 1 \in S
  PROVE  Nat \subseteq S
<1> DEFINE T == Nat \ S
<1>1. SUFFICES ASSUME T # {} PROVE FALSE
  OBVIOUS
<1>2. PICK x \in T : \A y \in T : ~(<<y, x>> \in LessThan)
  <2>1. T \subseteq Nat
    OBVIOUS
  <2> HIDE DEF T
  <2> QED
    BY <1>1, <2>1, LessThanWellFounded, WFMin
<1>3. x # 0 /\ x \in Nat
  OBVIOUS
<1>4. x - 1 \in Nat /\ x - 1 < x
  BY <1>3
<1>5. x - 1 \in S
  BY <1>2, <1>3, <1>4 DEF LessThan
<1>6. (x - 1) + 1 \in S
  BY <1>4, <1>5
<1> QED
  BY <1>3, <1>6

-----------------------------------------------------------------------------
(* The sequential parser                                                   *)

\* f is what the parser finds in each prefix of s, up to n tokens.
Follows(s, n, f) == f = [i \in 0..n |-> IF i = 0 THEN Unread ELSE ReadToken(f[i - 1], s[i])]

LEMMA ParserExists ==
  ASSUME NEW s
  PROVE  \A n \in Nat : \E f : Follows(s, n, f)
<1> DEFINE S == {n \in Nat : \E f : Follows(s, n, f)}
<1>1. 0 \in S
  <2>1. Follows(s, 0, [i \in 0..0 |-> Unread])
    BY DEF Follows
  <2> QED
    BY <2>1
<1>2. ASSUME NEW n \in Nat, n \in S
      PROVE  n + 1 \in S
  <2>1. PICK f : Follows(s, n, f)
    BY <1>2
  <2> DEFINE g == [i \in 0..(n + 1) |-> IF i <= n THEN f[i] ELSE ReadToken(f[n], s[n + 1])]
  <2>2. ASSUME NEW i \in 0..(n + 1)
        PROVE  g[i] = IF i = 0 THEN Unread ELSE ReadToken(g[i - 1], s[i])
    <3>1. CASE i = 0
      BY <2>1, <3>1 DEF Follows
    <3>2. CASE i \in 1..n
      <4>1. g[i] = f[i] /\ g[i - 1] = f[i - 1]
        BY <3>2
      <4>2. f[i] = ReadToken(f[i - 1], s[i])
        BY <2>1, <3>2 DEF Follows
      <4> QED
        BY <3>2, <4>1, <4>2
    <3>3. CASE i = n + 1
      <4>1. g[i] = ReadToken(f[n], s[i]) /\ i - 1 = n
        BY <3>3
      <4>2. g[i - 1] = f[n]
        BY <4>1
      <4>3. i # 0
        BY <3>3
      <4> QED
        BY <4>1, <4>2, <4>3
    <3> QED
      BY <3>1, <3>2, <3>3
  <2>3. Follows(s, n + 1, g)
    <3>1. g = [i \in 0..(n + 1) |-> g[i]]
      OBVIOUS
    <3> HIDE DEF g
    <3> QED
      BY <2>2, <3>1 DEF Follows
  <2> QED
    BY <2>3
<1>3. Nat \subseteq S
  <2> HIDE DEF S
  <2> QED
    BY <1>1, <1>2, Induction
<1> QED
  BY <1>3

\* The parser reads one token after the other.
LEMMA ParserReads ==
  ASSUME NEW s \in Seq(Tokens)
  PROVE  /\ Parse(s)[0] = Unread
         /\ \A i \in 1..Len(s) : Parse(s)[i] = ReadToken(Parse(s)[i - 1], s[i])
<1>1. Len(s) \in Nat
  OBVIOUS
<1>2. Parse(s) = CHOOSE f : Follows(s, Len(s), f)
  BY DEF Parse, Follows
<1>3. Follows(s, Len(s), Parse(s))
  BY <1>1, <1>2, ParserExists
<1> QED
  BY <1>1, <1>3 DEF Follows

\* A prefix of a sequence of tokens.
LEMMA PrefixFacts ==
  ASSUME NEW b \in Seq(Tokens), NEW m \in 0..Len(b)
  PROVE  /\ SubSeq(b, 1, m) \in Seq(Tokens)
         /\ Len(SubSeq(b, 1, m)) = m
         /\ \A i \in 1..m : SubSeq(b, 1, m)[i] = b[i]
<1>1. Len(b) \in Nat /\ m \in Nat /\ \A i \in 1..m : b[i] \in Tokens
  OBVIOUS
<1>2. SubSeq(b, 1, m) \in Seq(Tokens)
  BY <1>1, SubSeqProperties
<1>3. Len(SubSeq(b, 1, m)) = m
  BY <1>1
<1>4. \A i \in 1..m : SubSeq(b, 1, m)[i] = b[i]
  BY <1>1
<1> QED
  BY <1>2, <1>3, <1>4

\* And what is left of it.
LEMMA SuffixFacts ==
  ASSUME NEW b \in Seq(Tokens), NEW m \in 0..Len(b)
  PROVE  /\ Len(SubSeq(b, m + 1, Len(b))) = Len(b) - m
         /\ \A j \in 1..(Len(b) - m) : SubSeq(b, m + 1, Len(b))[j] = b[m + j]
<1>1. Len(b) \in Nat /\ m \in Nat /\ m <= Len(b)
  OBVIOUS
<1>2. Len(SubSeq(b, m + 1, Len(b))) = Len(b) - m
  BY <1>1
<1>3. ASSUME NEW j \in 1..(Len(b) - m) PROVE SubSeq(b, m + 1, Len(b))[j] = b[m + j]
  BY <1>1
<1> QED
  BY <1>2, <1>3

\* Sequences of tokens are equal if they have the same elements.
LEMMA SameTokens ==
  ASSUME NEW s \in Seq(Tokens), NEW t \in Seq(Tokens), Len(s) = Len(t), \A i \in 1..Len(s) : s[i] = t[i]
  PROVE  s = t
  BY SeqEqual

LEMMA PrefixGrows ==
  ASSUME NEW b \in Seq(Tokens), NEW m \in Nat, m < Len(b)
  PROVE  Append(SubSeq(b, 1, m), b[m + 1]) = SubSeq(b, 1, m + 1)
<1> DEFINE p == SubSeq(b, 1, m)
           q == SubSeq(b, 1, m + 1)
<1>1. m \in 0..Len(b) /\ m + 1 \in 0..Len(b) /\ m + 1 \in 1..Len(b)
  OBVIOUS
<1>2. /\ p \in Seq(Tokens) /\ Len(p) = m /\ (\A i \in 1..m : p[i] = b[i])
      /\ q \in Seq(Tokens) /\ Len(q) = m + 1 /\ (\A i \in 1..(m + 1) : q[i] = b[i])
  BY <1>1, PrefixFacts
<1>3. b[m + 1] \in Tokens
  BY <1>1
<1> HIDE DEF p, q
<1> DEFINE a == Append(p, b[m + 1])
<1>4. a \in Seq(Tokens) /\ Len(a) = m + 1 /\ \A i \in 1..(m + 1) : a[i] = b[i]
  BY <1>2, <1>3
<1> HIDE DEF a
<1>5. a = q
  BY <1>2, <1>4, SameTokens
<1> QED
  BY <1>5 DEF a, p, q

Parses == [blocks : Seq(Seq(Tokens)), data : Seq(Seq(Tokens)), rest : Seq(Tokens)]

\* The number of tokens a delimiter at the end has.
LEMMA DelimiterRange ==
  ASSUME NEW s \in Seq(Tokens)
  PROVE  DelimiterLength(s) \in {0, 2, 4} /\ DelimiterLength(s) <= Len(s)
<1>1. Len(<<"n", "n">>) = 2 /\ Len(<<"r", "n", "r", "n">>) = 4 /\ Len(s) \in Nat
  OBVIOUS
<1> QED
  BY <1>1 DEF DelimiterLength, EndsWith

LEMMA ReadType ==
  ASSUME NEW p \in Parses, NEW t \in Tokens
  PROVE  ReadToken(p, t) \in Parses
<1> DEFINE rest  == Append(p.rest, t)
           cut   == DelimiterLength(rest)
           block == SubSeq(rest, 1, Len(rest) - cut)
<1>1. p.blocks \in Seq(Seq(Tokens)) /\ p.data \in Seq(Seq(Tokens)) /\ p.rest \in Seq(Tokens)
  BY DEF Parses
<1>2. rest \in Seq(Tokens)
  BY <1>1
<1> HIDE DEF rest
<1>3. cut \in {0, 2, 4} /\ cut <= Len(rest) /\ Len(rest) \in Nat
  BY <1>2, DelimiterRange
<1> HIDE DEF cut
<1>4. Len(rest) - cut \in 0..Len(rest)
  BY <1>3
<1>5. block \in Seq(Tokens)
  BY <1>2, <1>4, PrefixFacts
<1> HIDE DEF block
<1>6. Append(p.blocks, block) \in Seq(Seq(Tokens)) /\ Append(p.data, block) \in Seq(Seq(Tokens))
      /\ <<>> \in Seq(Tokens)
  BY <1>1, <1>5
<1>7. ReadToken(p, t) = IF cut = 0 THEN [p EXCEPT !.rest = rest]
        ELSE [blocks |-> Append(p.blocks, block),
              data |-> IF DataLines(block) = {} THEN p.data ELSE Append(p.data, block), rest |-> <<>>]
  BY DEF ReadToken, rest, cut, block
<1>8. CASE cut = 0
  BY <1>2, <1>7, <1>8 DEF Parses
<1>9. CASE cut # 0
  <2> DEFINE more == IF DataLines(block) = {} THEN p.data ELSE Append(p.data, block)
  <2>1. more \in Seq(Seq(Tokens))
    BY <1>1, <1>6
  <2>2. ReadToken(p, t) = [blocks |-> Append(p.blocks, block), data |-> more, rest |-> <<>>]
    BY <1>7, <1>9
  <2> HIDE DEF more
  <2> QED
    BY <1>6, <2>1, <2>2 DEF Parses
<1> QED
  BY <1>8, <1>9

LEMMA ParserType ==
  ASSUME NEW s \in Seq(Tokens)
  PROVE  \A i \in 0..Len(s) : Parse(s)[i] \in Parses
<1> DEFINE S == {n \in Nat : n <= Len(s) => Parse(s)[n] \in Parses}
<1>1. Len(s) \in Nat
  OBVIOUS
<1>2. 0 \in S
  <2>1. <<>> \in Seq(Seq(Tokens)) /\ <<>> \in Seq(Tokens)
    OBVIOUS
  <2>2. Unread \in Parses
    BY <2>1 DEF Unread, Parses
  <2> QED
    BY <2>2, ParserReads
<1>3. ASSUME NEW n \in Nat, n \in S
      PROVE  n + 1 \in S
  <2>1. SUFFICES ASSUME n + 1 <= Len(s)
                 PROVE  Parse(s)[n + 1] \in Parses
    OBVIOUS
  <2>2. n + 1 \in 1..Len(s) /\ (n + 1) - 1 = n /\ n <= Len(s)
    BY <1>1, <2>1
  <2>3. Parse(s)[n + 1] = ReadToken(Parse(s)[n], s[n + 1]) /\ s[n + 1] \in Tokens
    BY <2>2, ParserReads
  <2>4. Parse(s)[n] \in Parses
    BY <1>3, <2>2
  <2> QED
    BY <2>3, <2>4, ReadType
<1>4. Nat \subseteq S
  <2> HIDE DEF S
  <2> QED
    BY <1>2, <1>3, Induction
<1> QED
  BY <1>1, <1>4

\* A prefix ends with a delimiter where one ends in the sequence.
LEMMA DelimiterEnds ==
  ASSUME NEW b \in Seq(Tokens), NEW m \in 0..Len(b)
  PROVE  LET d == DelimiterLength(SubSeq(b, 1, m))
         IN  /\ d = 2 <=> m >= 2 /\ DelimiterAt(b, m - 1, 2)
             /\ d = 4 <=> m >= 4 /\ DelimiterAt(b, m - 3, 4)
             /\ d \in {0, 2, 4}
<1> DEFINE p == SubSeq(b, 1, m)
<1>1. p \in Seq(Tokens) /\ Len(p) = m /\ (\A i \in 1..m : p[i] = b[i]) /\ m \in Nat /\ Len(b) \in Nat /\ m <= Len(b)
  BY PrefixFacts
<1> HIDE DEF p
<1>2. EndsWith(p, <<"n", "n">>) <=> m >= 2 /\ DelimiterAt(b, m - 1, 2)
  <2>1. EndsWith(p, <<"n", "n">>) <=> m >= 2 /\ p[m - 1] = "n" /\ p[m] = "n"
    <3>1. EndsWith(p, <<"n", "n">>) <=> m >= 2 /\ p[m - 2 + 1] = "n" /\ p[m - 2 + 2] = "n"
      BY <1>1 DEF EndsWith
    <3>2. m - 2 + 1 = m - 1 /\ m - 2 + 2 = m
      BY <1>1
    <3> QED
      BY <3>1, <3>2
  <2>2. m >= 2 => p[m - 1] = b[m - 1] /\ p[m] = b[m] /\ (m - 1) + 1 = m
    BY <1>1
  <2> QED
    BY <1>1, <2>1, <2>2 DEF DelimiterAt
<1>3. EndsWith(p, <<"r", "n", "r", "n">>) <=> m >= 4 /\ DelimiterAt(b, m - 3, 4)
  <2>1. EndsWith(p, <<"r", "n", "r", "n">>)
          <=> m >= 4 /\ p[m - 3] = "r" /\ p[m - 2] = "n" /\ p[m - 1] = "r" /\ p[m] = "n"
    <3>1. EndsWith(p, <<"r", "n", "r", "n">>)
            <=> /\ m >= 4 /\ p[m - 4 + 1] = "r" /\ p[m - 4 + 2] = "n"
                /\ p[m - 4 + 3] = "r" /\ p[m - 4 + 4] = "n"
      BY <1>1 DEF EndsWith
    <3>2. m - 4 + 1 = m - 3 /\ m - 4 + 2 = m - 2 /\ m - 4 + 3 = m - 1 /\ m - 4 + 4 = m
      BY <1>1
    <3> QED
      BY <3>1, <3>2
  <2>2. m >= 4 => /\ p[m - 3] = b[m - 3] /\ p[m - 2] = b[m - 2] /\ p[m - 1] = b[m - 1] /\ p[m] = b[m]
                  /\ (m - 3) + 1 = m - 2 /\ (m - 3) + 2 = m - 1 /\ (m - 3) + 3 = m
    BY <1>1
  <2> QED
    BY <1>1, <2>1, <2>2 DEF DelimiterAt
<1>4. ~(m >= 4 /\ DelimiterAt(b, m - 3, 4) /\ DelimiterAt(b, m - 1, 2))
  <2>1. m >= 4 => (m - 3) + 2 = m - 1
    BY <1>1
  <2> QED
    BY <1>1, <2>1 DEF DelimiterAt
<1>5. DelimiterLength(p) = IF EndsWith(p, <<"n", "n">>) THEN 2
                           ELSE IF EndsWith(p, <<"r", "n", "r", "n">>) THEN 4 ELSE 0
  BY DEF DelimiterLength
<1>6. /\ DelimiterLength(p) = 2 <=> m >= 2 /\ DelimiterAt(b, m - 1, 2)
      /\ DelimiterLength(p) = 4 <=> m >= 4 /\ DelimiterAt(b, m - 3, 4)
      /\ DelimiterLength(p) \in {0, 2, 4}
  BY <1>1, <1>2, <1>3, <1>4, <1>5
<1> QED
  BY <1>6 DEF p

\* b is the part of s behind the first q tokens.
Window(s, q, b) ==
  /\ s \in Seq(Tokens) /\ b \in Seq(Tokens)
  /\ q \in Nat /\ q + Len(b) <= Len(s)
  /\ \A i \in 1..Len(b) : b[i] = s[q + i]

\* No delimiter of b ends within the first n tokens.
NoneEnds(b, n) == \A j \in 1..Len(b), k \in {2, 4} : DelimiterAt(b, j, k) => j + k - 1 > n

\* As long as no delimiter has ended, the parser collects.
LEMMA ParserCollects ==
  ASSUME NEW s, NEW q, NEW b, Window(s, q, b), Parse(s)[q].rest = <<>>,
         NEW n \in 0..Len(b), NoneEnds(b, n)
  PROVE  /\ Parse(s)[q + n].blocks = Parse(s)[q].blocks
         /\ Parse(s)[q + n].data = Parse(s)[q].data
         /\ Parse(s)[q + n].rest = SubSeq(b, 1, n)
<1> DEFINE P == Parse(s)[q]
           S == {m \in Nat : m <= n => Parse(s)[q + m] = [P EXCEPT !.rest = SubSeq(b, 1, m)]}
<1>1. /\ s \in Seq(Tokens) /\ b \in Seq(Tokens) /\ q \in Nat /\ Len(s) \in Nat /\ Len(b) \in Nat
      /\ n \in Nat /\ n <= Len(b) /\ q + Len(b) <= Len(s)
      /\ \A i \in 1..Len(b) : b[i] = s[q + i]
  BY DEF Window
<1>2. P \in Parses /\ P.rest = <<>>
  BY <1>1, ParserType
<1> HIDE DEF P
<1>3. 0 \in S
  <2>1. SubSeq(b, 1, 0) = <<>>
    BY <1>1
  <2>2. [P EXCEPT !.rest = <<>>] = P
    BY <1>2 DEF Parses
  <2>3. q + 0 = q
    BY <1>1
  <2> QED
    BY <2>1, <2>2, <2>3 DEF P
<1>4. ASSUME NEW m \in Nat, m \in S
      PROVE  m + 1 \in S
  <2>1. SUFFICES ASSUME m + 1 <= n
                 PROVE  Parse(s)[q + (m + 1)] = [P EXCEPT !.rest = SubSeq(b, 1, m + 1)]
    OBVIOUS
  <2>2. /\ m <= n /\ m < Len(b) /\ m + 1 \in 0..Len(b) /\ m + 1 \in 1..Len(b)
        /\ q + (m + 1) \in 1..Len(s) /\ (q + (m + 1)) - 1 = q + m
    BY <1>1, <2>1
  <2>3. Parse(s)[q + m] = [P EXCEPT !.rest = SubSeq(b, 1, m)]
    BY <1>4, <2>2
  <2>4. Parse(s)[q + (m + 1)] = ReadToken(Parse(s)[q + m], b[m + 1])
    BY <1>1, <2>2, ParserReads
  <2>5. Parse(s)[q + m].rest = SubSeq(b, 1, m)
    BY <1>2, <2>3 DEF Parses
  <2>6. Append(Parse(s)[q + m].rest, b[m + 1]) = SubSeq(b, 1, m + 1)
    BY <1>1, <2>2, <2>5, PrefixGrows
  <2>7. DelimiterLength(SubSeq(b, 1, m + 1)) = 0
    <3>1. ~(m + 1 >= 2 /\ DelimiterAt(b, (m + 1) - 1, 2))
      <4>1. SUFFICES ASSUME m + 1 >= 2, DelimiterAt(b, (m + 1) - 1, 2) PROVE FALSE
        OBVIOUS
      <4>2. (m + 1) - 1 \in 1..Len(b) /\ ~(((m + 1) - 1) + 2 - 1 > n)
        BY <1>1, <2>1, <2>2, <4>1
      <4> QED
        BY <4>1, <4>2 DEF NoneEnds
    <3>2. ~(m + 1 >= 4 /\ DelimiterAt(b, (m + 1) - 3, 4))
      <4>1. SUFFICES ASSUME m + 1 >= 4, DelimiterAt(b, (m + 1) - 3, 4) PROVE FALSE
        OBVIOUS
      <4>2. (m + 1) - 3 \in 1..Len(b) /\ ~(((m + 1) - 3) + 4 - 1 > n)
        BY <1>1, <2>1, <2>2, <4>1
      <4> QED
        BY <4>1, <4>2 DEF NoneEnds
    <3> QED
      BY <1>1, <2>2, <3>1, <3>2, DelimiterEnds
  <2>8. ReadToken(Parse(s)[q + m], b[m + 1]) = [Parse(s)[q + m] EXCEPT !.rest = SubSeq(b, 1, m + 1)]
    BY <2>6, <2>7 DEF ReadToken
  <2>9. [[P EXCEPT !.rest = SubSeq(b, 1, m)] EXCEPT !.rest = SubSeq(b, 1, m + 1)]
          = [P EXCEPT !.rest = SubSeq(b, 1, m + 1)]
    BY <1>2 DEF Parses
  <2> QED
    BY <2>3, <2>4, <2>8, <2>9
<1>5. Nat \subseteq S
  <2> HIDE DEF S
  <2> QED
    BY <1>3, <1>4, Induction
<1>6. n \in S
  BY <1>1, <1>5
<1>7. n <= n
  BY <1>1
<1>8. Parse(s)[q + n] = [P EXCEPT !.rest = SubSeq(b, 1, n)]
  BY <1>6, <1>7
<1>9. Parse(s)[q] = P
  BY DEF P
<1> QED
  BY <1>2, <1>8, <1>9 DEF Parses

\* A buffer without a delimiter is what the parser keeps.
LEMMA ParserKeeps ==
  ASSUME NEW s, NEW q, NEW b, Window(s, q, b), Parse(s)[q].rest = <<>>, ~HasDelimiter(b)
  PROVE  /\ Parse(s)[q + Len(b)].blocks = Parse(s)[q].blocks
         /\ Parse(s)[q + Len(b)].data = Parse(s)[q].data
         /\ Parse(s)[q + Len(b)].rest = b
<1>1. /\ b \in Seq(Tokens) /\ Len(b) \in 0..Len(b) /\ q \in 0..Len(s) /\ s \in Seq(Tokens)
  BY DEF Window
<1>2. NoneEnds(b, Len(b))
  BY DEF HasDelimiter, NoneEnds
<1>3. /\ Parse(s)[q + Len(b)].blocks = Parse(s)[q].blocks
      /\ Parse(s)[q + Len(b)].data = Parse(s)[q].data
      /\ Parse(s)[q + Len(b)].rest = SubSeq(b, 1, Len(b))
  <2>1. Len(b) \in 0..Len(b)
    BY <1>1
  <2> QED
    BY <1>2, <2>1, ParserCollects
<1>4. SubSeq(b, 1, Len(b)) = b
  BY <1>1, PrefixFacts, SameTokens
<1> QED
  BY <1>3, <1>4

\* The first delimiter to start is the first to end.
LEMMA FirstEnds ==
  ASSUME NEW b \in Seq(Tokens), NEW i \in 1..Len(b), NEW k \in {2, 4}, FirstDelimiter(b, i, k),
         NEW j \in 1..Len(b), NEW l \in {2, 4}, DelimiterAt(b, j, l)
  PROVE  j + l - 1 > i + k - 2 /\ i + k - 1 <= Len(b)
<1>1. Len(b) \in Nat /\ i \in Nat /\ j \in Nat
  OBVIOUS
<1>2. DelimiterAt(b, i, k) /\ j >= i
  BY <1>1 DEF FirstDelimiter
<1>3. i + k - 1 <= Len(b)
  BY <1>1, <1>2 DEF DelimiterAt
<1>4. CASE k = 2 \/ l = 4
  BY <1>1, <1>2, <1>3, <1>4
<1>5. CASE k = 4 /\ l = 2
  <2>1. b[i] = "r" /\ b[i + 1] = "n" /\ b[i + 2] = "r" /\ b[i + 3] = "n"
    BY <1>2, <1>5 DEF DelimiterAt
  <2>2. b[j] = "n" /\ b[j + 1] = "n"
    BY <1>5 DEF DelimiterAt
  <2>3. j # i
    BY <2>1, <2>2
  <2>4. j # i + 1
    <3>1. (i + 1) + 1 = i + 2
      BY <1>1
    <3> QED
      BY <2>1, <2>2, <3>1
  <2> QED
    BY <1>1, <1>2, <1>3, <1>5, <2>3, <2>4
<1> QED
  BY <1>4, <1>5

\* A block is added if it has data.
Added(d, b) == IF DataLines(b) = {} THEN d ELSE Append(d, b)

\* The n tokens behind the first q of s are a block and its delimiter.
FindsBlock(s, q, n, block) ==
  /\ Parse(s)[q + n].blocks = Append(Parse(s)[q].blocks, block)
  /\ Parse(s)[q + n].data = Added(Parse(s)[q].data, block)
  /\ Parse(s)[q + n].rest = <<>>

\* Where the loop takes a block, the parser finds it.
LEMMA ParserCuts ==
  ASSUME NEW s, NEW q, NEW b, Window(s, q, b), Parse(s)[q].rest = <<>>,
         NEW i \in 1..Len(b), NEW k \in {2, 4}, FirstDelimiter(b, i, k)
  PROVE  i + k - 1 <= Len(b) /\ FindsBlock(s, q, i + k - 1, SubSeq(b, 1, i - 1))
<1> DEFINE P == Parse(s)[q]
           n == i + k - 2
           c == SubSeq(b, 1, n + 1)
           block == SubSeq(b, 1, i - 1)
<1>1. /\ s \in Seq(Tokens) /\ b \in Seq(Tokens) /\ q \in Nat /\ Len(s) \in Nat /\ Len(b) \in Nat
      /\ q + Len(b) <= Len(s) /\ i \in Nat
      /\ \A j \in 1..Len(b) : b[j] = s[q + j]
  BY DEF Window
<1>2. DelimiterAt(b, i, k)
  BY DEF FirstDelimiter
<1>3. i + k - 1 <= Len(b) /\ NoneEnds(b, n)
  BY <1>1, <1>2, FirstEnds DEF NoneEnds
<1>4. /\ n \in 0..Len(b) /\ n \in Nat /\ n < Len(b) /\ n + 1 \in 0..Len(b) /\ n + 1 \in 1..Len(b)
      /\ q + (n + 1) \in 1..Len(s) /\ (q + (n + 1)) - 1 = q + n /\ n + 1 = i + k - 1
      /\ n + 1 - k = i - 1 /\ i - 1 \in 0..Len(b) /\ i - 1 <= n + 1
  BY <1>1, <1>3
<1> HIDE DEF n
<1>5. P \in Parses /\ P.rest = <<>>
  BY <1>1, ParserType
<1>6. /\ Parse(s)[q + n].blocks = Parse(s)[q].blocks
      /\ Parse(s)[q + n].data = Parse(s)[q].data
      /\ Parse(s)[q + n].rest = SubSeq(b, 1, n)
  <2>1. n \in 0..Len(b) /\ NoneEnds(b, n)
    BY <1>3, <1>4
  <2> QED
    BY <2>1, ParserCollects
<1> HIDE DEF P
<1>7. Parse(s)[q + n].rest = SubSeq(b, 1, n) /\ Parse(s)[q + n].blocks = P.blocks
      /\ Parse(s)[q + n].data = P.data
  BY <1>6 DEF P
<1>8. Parse(s)[q + (n + 1)] = ReadToken(Parse(s)[q + n], b[n + 1])
  BY <1>1, <1>4, ParserReads
<1>9. Append(Parse(s)[q + n].rest, b[n + 1]) = c
  BY <1>1, <1>4, <1>7, PrefixGrows
<1>10. DelimiterLength(c) = k
  <2>1. CASE k = 2
    <3>1. n + 1 >= 2 /\ (n + 1) - 1 = i
      BY <1>1, <1>4, <2>1
    <3> QED
      BY <1>1, <1>2, <1>4, <2>1, <3>1, DelimiterEnds
  <2>2. CASE k = 4
    <3>1. n + 1 >= 4 /\ (n + 1) - 3 = i
      BY <1>1, <1>4, <2>2
    <3> QED
      BY <1>1, <1>2, <1>4, <2>2, <3>1, DelimiterEnds
  <2> QED
    BY <2>1, <2>2
<1>11. c \in Seq(Tokens) /\ Len(c) = n + 1 /\ (\A j \in 1..(n + 1) : c[j] = b[j])
  BY <1>1, <1>4, PrefixFacts
<1> HIDE DEF c
<1>12. SubSeq(c, 1, Len(c) - k) = block
  <2> DEFINE x == SubSeq(c, 1, i - 1)
  <2>1. i - 1 \in 0..Len(c)
    BY <1>4, <1>11
  <2>2. x \in Seq(Tokens) /\ Len(x) = i - 1 /\ (\A j \in 1..(i - 1) : x[j] = c[j])
    BY <1>11, <2>1, PrefixFacts
  <2>3. block \in Seq(Tokens) /\ Len(block) = i - 1 /\ (\A j \in 1..(i - 1) : block[j] = b[j])
    BY <1>1, <1>4, PrefixFacts
  <2>4. \A j \in 1..(i - 1) : j \in 1..(n + 1)
    BY <1>1, <1>4
  <2> HIDE DEF x, block
  <2>5. x = block
    BY <1>11, <2>2, <2>3, <2>4, SameTokens
  <2>6. Len(c) - k = i - 1
    BY <1>1, <1>4, <1>11
  <2> QED
    BY <2>5, <2>6, Zenon DEF x
<1> HIDE DEF block
<1>13. k # 0
  OBVIOUS
<1>14. ReadToken(Parse(s)[q + n], b[n + 1])
         = [blocks |-> Append(P.blocks, block),
            data |-> IF DataLines(block) = {} THEN P.data ELSE Append(P.data, block), rest |-> <<>>]
  BY <1>7, <1>9, <1>10, <1>12, <1>13 DEF ReadToken
<1>15. Parse(s)[q + (i + k - 1)]
         = [blocks |-> Append(P.blocks, block),
            data |-> IF DataLines(block) = {} THEN P.data ELSE Append(P.data, block), rest |-> <<>>]
  BY <1>4, <1>8, <1>14
<1> QED
  BY <1>3, <1>15 DEF P, block, FindsBlock, Added

\* No data in a block.
Quiet(b) == \A i \in 1..Len(b) : b[i] \notin {"D", "Z"}

LEMMA QuietHasNoData ==
  ASSUME NEW b, Quiet(b)
  PROVE  DataLines(b) = {}
  BY DEF Quiet, DataLines

\* Reading a token without data adds no data.
LEMMA QuietRead ==
  ASSUME NEW p \in Parses, NEW t \in Tokens, Quiet(p.rest), t \notin {"D", "Z"}
  PROVE  ReadToken(p, t).data = p.data /\ Quiet(ReadToken(p, t).rest)
<1> DEFINE rest  == Append(p.rest, t)
           cut   == DelimiterLength(rest)
           block == SubSeq(rest, 1, Len(rest) - cut)
<1>1. p.rest \in Seq(Tokens)
  BY DEF Parses
<1>2. rest \in Seq(Tokens) /\ Quiet(rest) /\ Len(rest) \in Nat
  BY <1>1 DEF Quiet
<1>3. ReadToken(p, t) = IF cut = 0 THEN [p EXCEPT !.rest = rest]
        ELSE [blocks |-> Append(p.blocks, block),
              data |-> IF DataLines(block) = {} THEN p.data ELSE Append(p.data, block), rest |-> <<>>]
  BY DEF ReadToken
<1> HIDE DEF rest
<1>4. Len(rest) - cut \in 0..Len(rest)
  BY <1>2, DelimiterRange
<1>5. block \in Seq(Tokens) /\ Len(block) = Len(rest) - cut /\ \A i \in 1..(Len(rest) - cut) : block[i] = rest[i]
  BY <1>2, <1>4, PrefixFacts
<1>6. Quiet(block)
  <2> HIDE DEF cut, block
  <2> QED
    BY <1>2, <1>4, <1>5 DEF Quiet
<1>7. DataLines(block) = {}
  BY <1>6, QuietHasNoData
<1> HIDE DEF cut, block
<1>8. CASE cut = 0
  BY <1>2, <1>3, <1>8 DEF Parses
<1>9. CASE cut # 0
  <2>1. Quiet(<<>>)
    BY DEF Quiet
  <2> QED
    BY <1>3, <1>7, <1>9, <2>1
<1> QED
  BY <1>8, <1>9

\* Behind [DONE] there is no data to find.
LEMMA NoMoreData ==
  ASSUME NEW s \in Seq(Tokens), NEW q \in 0..Len(s), Parse(s)[q].rest = <<>>,
         \A j \in (q + 1)..Len(s) : s[j] \notin {"D", "Z"},
         NEW n \in q..Len(s)
  PROVE  Parse(s)[n].data = Parse(s)[q].data /\ Quiet(Parse(s)[n].rest)
<1> DEFINE S == {m \in Nat : q + m <= Len(s) =>
                   Parse(s)[q + m].data = Parse(s)[q].data /\ Quiet(Parse(s)[q + m].rest)}
<1>1. Len(s) \in Nat /\ q \in Nat /\ n \in Nat
  OBVIOUS
<1>2. 0 \in S
  <2>1. q + 0 = q
    BY <1>1
  <2>2. Quiet(<<>>)
    BY DEF Quiet
  <2> QED
    BY <2>1, <2>2
<1>3. ASSUME NEW m \in Nat, m \in S
      PROVE  m + 1 \in S
  <2>1. SUFFICES ASSUME q + (m + 1) <= Len(s)
                 PROVE  /\ Parse(s)[q + (m + 1)].data = Parse(s)[q].data
                        /\ Quiet(Parse(s)[q + (m + 1)].rest)
    OBVIOUS
  <2>2. /\ q + (m + 1) \in 1..Len(s) /\ (q + (m + 1)) - 1 = q + m /\ q + m \in 0..Len(s)
        /\ q + m <= Len(s) /\ q + (m + 1) \in (q + 1)..Len(s)
    BY <1>1, <2>1
  <2>3. /\ Parse(s)[q + (m + 1)] = ReadToken(Parse(s)[q + m], s[q + (m + 1)])
        /\ s[q + (m + 1)] \in Tokens /\ Parse(s)[q + m] \in Parses
    BY <2>2, ParserReads, ParserType
  <2>4. Parse(s)[q + m].data = Parse(s)[q].data /\ Quiet(Parse(s)[q + m].rest)
    BY <1>3, <2>2
  <2>5. s[q + (m + 1)] \notin {"D", "Z"}
    BY <2>2
  <2> QED
    BY <2>3, <2>4, <2>5, QuietRead
<1>4. Nat \subseteq S
  <2> HIDE DEF S
  <2> QED
    BY <1>2, <1>3, Induction
<1>5. n - q \in Nat /\ q + (n - q) = n
  BY <1>1
<1>6. n - q \in S
  BY <1>4, <1>5
<1>7. q + (n - q) <= Len(s)
  BY <1>1, <1>5
<1> QED
  BY <1>5, <1>6, <1>7

-----------------------------------------------------------------------------
(* The blocks and the frames                                               *)

\* The buffer is a window of the answer that ends where the answer was received.
LEMMA TailIsWindow ==
  ASSUME ReplyOK, BufferIsTail, Pumping
  PROVE  /\ Window(stream, Taken, buf)
         /\ Taken + Len(buf) = sent /\ Taken \in 0..Len(stream) /\ Taken \in Nat
         /\ sent \in 0..Len(stream) /\ Len(stream) \in Nat /\ Len(buf) \in Nat
<1>1. stream \in Seq(Tokens) /\ buf \in Seq(Tokens) /\ sent \in 0..Len(stream)
  BY StreamAssumption DEF ReplyOK
<1>2. Len(stream) \in Nat /\ Len(buf) \in Nat /\ Len(buf) <= sent
  BY <1>1 DEF BufferIsTail
<1>3. Taken \in Nat /\ Taken + Len(buf) = sent /\ Taken \in 0..Len(stream)
  BY <1>1, <1>2 DEF Taken
<1>4. \A i \in 1..Len(buf) : buf[i] = stream[Taken + i]
  BY DEF BufferIsTail
<1> QED
  BY <1>1, <1>2, <1>3, <1>4 DEF Window

\* Behind [DONE] there is no data.
LEMMA DoneIsLast ==
  ASSUME ReplyOK, DonePassed, Taken \in 0..Len(stream)
  PROVE  \A j \in (Taken + 1)..Len(stream) : stream[j] \notin {"D", "Z"}
<1>1. PICK z \in 1..Taken : stream[z] = "Z"
  BY DEF DonePassed
<1>2. stream \in Streams /\ Len(stream) \in Nat
  BY StreamAssumption DEF ReplyOK
<1>3. ASSUME NEW j \in (Taken + 1)..Len(stream), stream[j] \in {"D", "Z"} PROVE FALSE
  <2>1. z \in 1..Len(stream) /\ j \in 1..Len(stream) /\ ~(j <= z)
    BY <1>2
  <2> QED
    BY <1>1, <1>2, <1>3, <2>1, DoneAssumption
<1> QED
  BY <1>3

\* So there is none in the rest of the buffer.
LEMMA QuietBehindDone ==
  ASSUME ReplyOK, BufferIsTail, Pumping, DonePassed, NEW m \in 0..Len(buf)
  PROVE  DataLines(SubSeq(buf, 1, m)) = {} /\ DataLines(buf) = {}
<1>1. /\ Window(stream, Taken, buf) /\ Taken \in 0..Len(stream) /\ Taken \in Nat
      /\ Len(stream) \in Nat /\ Len(buf) \in Nat
  BY TailIsWindow
<1>2. \A j \in (Taken + 1)..Len(stream) : stream[j] \notin {"D", "Z"}
  BY <1>1, DoneIsLast
<1>3. \A i \in 1..Len(buf) : buf[i] \notin {"D", "Z"}
  <2> SUFFICES ASSUME NEW i \in 1..Len(buf) PROVE buf[i] \notin {"D", "Z"}
    OBVIOUS
  <2>1. buf[i] = stream[Taken + i] /\ Taken + Len(buf) <= Len(stream)
    BY <1>1 DEF Window
  <2>2. Taken + i \in (Taken + 1)..Len(stream)
    BY <1>1, <2>1
  <2> QED
    BY <1>2, <2>1, <2>2
<1>4. Quiet(buf)
  BY <1>3 DEF Quiet
<1>5. Quiet(SubSeq(buf, 1, m))
  <2>1. buf \in Seq(Tokens)
    BY DEF ReplyOK
  <2>2. Len(SubSeq(buf, 1, m)) = m /\ \A i \in 1..m : SubSeq(buf, 1, m)[i] = buf[i]
    BY <2>1, PrefixFacts
  <2> QED
    BY <1>1, <1>3, <2>2 DEF Quiet
<1> QED
  BY <1>4, <1>5, QuietHasNoData

\* A block becomes at most one frame.
LEMMA EncryptOne ==
  ASSUME FramesOK, NEW b \in Seq(Tokens), EncryptBlock(b)
  PROVE  \/ /\ DataLines(b) = {} \/ seqNum = SeqLimit
            /\ UNCHANGED <<seqNum, frames>>
         \/ /\ DataLines(b) # {} /\ seqNum < SeqLimit
            /\ Len(frames') = Len(frames) + 1
            /\ \A i \in 1..Len(frames) : frames'[i] = frames[i]
            /\ frames'[Len(frames) + 1].data = b
            /\ frames'[Len(frames) + 1].type = IF IsDone(b) THEN "end" ELSE "delta"
<1>1. CASE DataLines(b) = {}
  BY <1>1 DEF EncryptBlock
<1>2. CASE DataLines(b) # {}
  <2> DEFINE t == IF IsDone(b) THEN "end" ELSE "delta"
             n == IF seqNum + 1 <= SeqLimit THEN 1 ELSE SeqLimit - seqNum
             more == [i \in 1..n |-> [type |-> <<t>>[i], seq |-> seqNum + i - 1,
                                      key |-> session, data |-> b]]
  <2>1. seqNum' = seqNum + n /\ frames' = frames \o more
    <3>1. Len(<<t>>) = 1
      OBVIOUS
    <3>2. Encrypt(<<t>>, b)
      BY <1>2 DEF EncryptBlock
    <3> HIDE DEF t
    <3> QED
      BY <3>1, <3>2 DEF Encrypt
  <2>2. seqNum \in Nat /\ seqNum <= SeqLimit /\ SeqLimit \in Nat /\ frames \in Seq(Frames)
    BY SeqAssumption DEF FramesOK
  <2>3. CASE seqNum = SeqLimit
    <3>1. n = 0
      BY <2>2, <2>3
    <3> HIDE DEF n
    <3>2. more = <<>>
      BY <3>1
    <3> HIDE DEF more
    <3> QED
      BY <2>1, <2>2, <2>3, <3>1, <3>2
  <2>4. CASE seqNum < SeqLimit
    <3>1. n = 1
      BY <2>2, <2>4
    <3> HIDE DEF n
    <3> DEFINE f == [type |-> t, seq |-> seqNum + 1 - 1, key |-> session, data |-> b]
    <3>2. more = <<f>>
      BY <3>1
    <3>3. f.data = b /\ f.type = t
      OBVIOUS
    <3> HIDE DEF more, f
    <3>4. frames' = Append(frames, f)
      BY <2>1, <2>2, <3>2
    <3> QED
      BY <1>2, <2>2, <2>4, <3>3, <3>4
  <2> QED
    BY <2>2, <2>3, <2>4
<1> QED
  BY <1>1, <1>2

\* Sending a block, if none came after the end, keeps the frames in step with the data.
LEMMA CarriesBlock ==
  ASSUME FramesOK, NEW d \in Seq(Seq(Tokens)), Carries(frames, seqNum, d), NEW b \in Seq(Tokens),
         Ends(frames) => DataLines(b) = {}, session = "live", EncryptBlock(b)
  PROVE  Carries(frames', seqNum', Added(d, b)) /\ (Ends(frames') => Ends(frames) \/ IsDone(b))
<1>1. /\ Len(d) \in Nat /\ Len(frames) \in Nat /\ Len(frames) = seqNum /\ frames \in Seq(Frames)
      /\ DOMAIN frames = 1..Len(frames)
  BY DEF FramesOK, FrameInv
<1>2. DOMAIN frames' = 1..Len(frames')
  BY EncryptBlockKeepsFrames DEF FramesOK
<1>3. CASE (DataLines(b) = {} \/ seqNum = SeqLimit) /\ UNCHANGED <<seqNum, frames>>
  <2>1. Ends(frames') = Ends(frames)
    BY <1>3 DEF Ends
  <2>2. CASE DataLines(b) = {}
    BY <1>3, <2>1, <2>2 DEF Carries, Added
  <2>3. CASE DataLines(b) # {}
    <3>1. Added(d, b) = Append(d, b) /\ ~Ends(frames) /\ seqNum = SeqLimit
      BY <1>3, <2>3 DEF Added
    <3>2. Len(Append(d, b)) = Len(d) + 1 /\ \A i \in 1..Len(d) : Append(d, b)[i] = d[i]
      OBVIOUS
    <3> QED
      BY <1>1, <1>3, <2>1, <3>1, <3>2 DEF Carries
  <2> QED
    BY <2>2, <2>3
<1>4. CASE /\ DataLines(b) # {} /\ seqNum < SeqLimit
           /\ Len(frames') = Len(frames) + 1
           /\ \A i \in 1..Len(frames) : frames'[i] = frames[i]
           /\ frames'[Len(frames) + 1].data = b
           /\ frames'[Len(frames) + 1].type = IF IsDone(b) THEN "end" ELSE "delta"
  <2>1. Added(d, b) = Append(d, b) /\ ~Ends(frames) /\ Len(frames) = Len(d)
    BY <1>1, <1>4, SeqAssumption DEF Added, Carries
  <2>2. /\ Len(Append(d, b)) = Len(d) + 1 /\ \A i \in 1..Len(d) : Append(d, b)[i] = d[i]
        /\ Append(d, b)[Len(d) + 1] = b
    OBVIOUS
  <2>3. \A i \in 1..Len(frames') : frames'[i].data = Append(d, b)[i]
    BY <1>1, <1>4, <2>1, <2>2 DEF Carries
  <2>4. Carries(frames', seqNum', Append(d, b))
    BY <1>1, <1>4, <2>1, <2>2, <2>3 DEF Carries
  <2>5. Ends(frames') => IsDone(b)
    BY <1>1, <1>2, <1>4, <2>1 DEF Ends
  <2> QED
    BY <2>1, <2>4, <2>5
<1> QED
  BY <1>3, <1>4, EncryptOne

LEMMA InitStream == Init => StreamInv
<1> SUFFICES ASSUME Init PROVE StreamInv
  OBVIOUS
<1>1. NothingYet
  BY DEF Init, NothingYet
<1>2. ~Pumping /\ pc = "unwrap"
  BY DEF Init, Pumping
<1> QED
  BY <1>1, <1>2 DEF StreamInv, BufferIsTail, ParserAgrees, FramesAreData

\* Steps outside the stream.
LEMMA HandleStream ==
  ASSUME IInv, StreamInv, Handle
  PROVE  StreamInv'
<1>1. /\ pc \in {"unwrap", "ready", "convert"}
      /\ pc' \in {"ready", "convert", "proxy", "done"}
      /\ UNCHANGED <<sent, buf, blocks, frames, isStreaming>>
  BY DEF Handle, RefuseEnvelope, Unwrap, RefuseNotReady, EngineIsReady, RefuseConversion,
     Convert, RefuseWith, sessionVars, replyVars, writerVars, historyVars
<1>2. ~isStreaming' /\ NothingYet'
  BY <1>1 DEF StreamInv, NothingYet
<1>3. ~Pumping'
  BY <1>2 DEF Pumping
<1>4. EndMeansComplete'
  BY <1>2 DEF EndMeansComplete
<1> QED
  BY <1>1, <1>2, <1>3, <1>4 DEF StreamInv, BufferIsTail, ParserAgrees, FramesAreData

\* The engine's answer begins.
LEMMA AnswerStream ==
  ASSUME IInv, StreamInv, NEW c \in Codes, NEW sse \in BOOLEAN, EngineAnswers(c, sse)
  PROVE  StreamInv'
<1>1. /\ pc' = "body" /\ sent' = 0 /\ buf' = <<>> /\ blocks' = <<>> /\ frames' = <<>>
      /\ stream' = stream /\ seqNum' = seqNum
  BY DEF EngineAnswers, sessionVars, historyVars, StreamInv, NothingYet
<1>2. Taken' = 0
  <2>1. Len(buf') = 0
    BY <1>1
  <2>2. sent' = 0
    BY <1>1
  <2> QED
    BY <2>1, <2>2 DEF Taken
<1>3. stream \in Seq(Tokens)
  BY StreamAssumption DEF IInv, TypeOK
<1>4. Parse(stream)[0] = Unread
  BY <1>3, ParserReads
<1>5. NothingYet'
  BY <1>1 DEF NothingYet
<1>6. BufferIsTail'
  BY <1>1 DEF BufferIsTail, HasDelimiter
<1>7. ParserAgrees'
  BY <1>1, <1>2, <1>4 DEF ParserAgrees, Unread
<1>8. FramesAreData'
  <2>1. Parse(stream')[Taken'].data = <<>>
    BY <1>1, <1>2, <1>4 DEF Unread
  <2>2. ~Ends(frames') /\ Len(frames') = 0 /\ Len(<<>>) = 0
    BY <1>1 DEF Ends
  <2>3. Carries(frames', seqNum', <<>>)
    BY <2>2 DEF Carries
  <2> QED
    BY <2>1, <2>2, <2>3 DEF FramesAreData
<1> QED
  BY <1>1, <1>5, <1>6, <1>7, <1>8 DEF StreamInv

\* The engine cannot be reached, or nobody listens: there is no stream.
LEMMA NoAnswerStream ==
  ASSUME IInv, StreamInv, EngineUnreachable \/ ClientGone
  PROVE  StreamInv'
<1>1. pc = "proxy" /\ pc' = "finish" /\ ~isStreaming'
  BY DEF EngineUnreachable, ClientGone, Header, WriteHeader, MessagesWriteHeader, writerVars,
     StreamInv, NothingYet
<1>2. NothingYet'
  BY <1>1 DEF NothingYet
<1>3. ~Pumping'
  BY <1>1 DEF Pumping
<1> QED
  BY <1>1, <1>2, <1>3 DEF StreamInv, BufferIsTail, ParserAgrees, FramesAreData

\* Steps that leave the buffer and the frames alone.
LEMMA SameStream ==
  ASSUME IInv, StreamInv, pc \in {"body", "process", "finish"},
         pc' \in {"body", "process", "finish"}, pc' = "body" => ~HasDelimiter(buf),
         UNCHANGED <<messages, isStreaming, stream, sent, buf, blocks, frames, seqNum, forced>>
  PROVE  StreamInv'
<1>1. Taken' = Taken /\ Pumping' = Pumping /\ Ends(frames') = Ends(frames) /\ DonePassed' = DonePassed
  BY DEF Taken, Pumping, Ends, DonePassed
<1>2. NothingYet'
  BY DEF NothingYet
<1>3. BufferIsTail'
  BY <1>1 DEF StreamInv, BufferIsTail
<1>4. ParserAgrees'
  BY <1>1 DEF StreamInv, ParserAgrees
<1>5. FramesAreData'
  <2>1. ASSUME NEW d, Carries(frames, seqNum, d) PROVE Carries(frames', seqNum', d)
    BY <1>1, <2>1 DEF Carries
  <2> QED
    BY <1>1, <2>1 DEF StreamInv, FramesAreData
<1> QED
  BY <1>2, <1>3, <1>4, <1>5 DEF StreamInv

\* More of the answer is received.
LEMMA WriteStream ==
  ASSUME IInv, StreamInv, NEW k \in 1..Len(stream), WriteBody(k)
  PROVE  StreamInv'
<1> USE IInvParts
<1>1. /\ pc = "body" /\ pc' = (IF isStreaming THEN "process" ELSE "body") /\ sent' = sent + k
      /\ buf' = buf \o SubSeq(stream, sent + 1, sent + k) /\ sent + k <= Len(stream)
      /\ UNCHANGED <<messages, isStreaming, stream, blocks, frames, seqNum, forced>>
  BY DEF WriteBody, sessionVars, historyVars
<1>2. NothingYet'
  BY <1>1 DEF NothingYet
<1>3. CASE ~isStreaming
  <2>1. ~Pumping'
    BY <1>1, <1>3 DEF Pumping
  <2> QED
    BY <1>1, <1>2, <2>1 DEF StreamInv, BufferIsTail, ParserAgrees, FramesAreData
<1>4. CASE isStreaming
  <2>1. Pumping /\ Pumping' /\ pc' = "process"
    BY <1>1, <1>4 DEF Pumping
  <2>2. /\ Window(stream, Taken, buf) /\ Taken + Len(buf) = sent /\ Taken \in Nat
        /\ sent \in Nat /\ Len(stream) \in Nat /\ Len(buf) \in Nat /\ sent <= Len(stream)
    BY <2>1, TailIsWindow DEF StreamInv
  <2> DEFINE more == SubSeq(stream, sent + 1, sent + k)
  <2>3. stream \in Seq(Tokens) /\ buf \in Seq(Tokens) /\ k \in Nat
    BY <2>2 DEF Window
  <2>4. more \in Seq(Tokens) /\ Len(more) = k /\ \A i \in 1..k : more[i] = stream[sent + i]
    <3>1. \A i \in (sent + 1)..(sent + k) : stream[i] \in Tokens
      BY <1>1, <2>2, <2>3
    <3>2. more \in Seq(Tokens)
      BY <2>2, <2>3, <3>1, SubSeqProperties
    <3>3. Len(more) = k
      BY <2>2, <2>3
    <3>4. \A i \in 1..k : more[i] = stream[sent + i]
      BY <2>2, <2>3
    <3> QED
      BY <3>2, <3>3, <3>4
  <2> HIDE DEF more
  <2>5. /\ Len(buf') = Len(buf) + k
        /\ \A i \in 1..(Len(buf) + k) : buf'[i] = IF i <= Len(buf) THEN buf[i] ELSE more[i - Len(buf)]
    <3>1. buf' = buf \o more
      BY <1>1 DEF more
    <3>2. /\ Len(buf \o more) = Len(buf) + Len(more)
          /\ \A i \in 1..(Len(buf) + Len(more)) :
               (buf \o more)[i] = IF i <= Len(buf) THEN buf[i] ELSE more[i - Len(buf)]
      BY <2>3, <2>4, ConcatProperties, Zenon
    <3> QED
      BY <2>4, <3>1, <3>2, Zenon
  <2>6. Taken' = Taken
    BY <1>1, <2>2, <2>3, <2>5 DEF Taken
  <2>7. \A i \in 1..(Len(buf) + k) : buf'[i] = stream[Taken + i]
    <3> SUFFICES ASSUME NEW i \in 1..(Len(buf) + k) PROVE buf'[i] = stream[Taken + i]
      OBVIOUS
    <3>1. CASE i <= Len(buf)
      <4>1. i \in 1..Len(buf) /\ buf'[i] = buf[i]
        BY <2>2, <2>3, <2>5, <3>1
      <4> QED
        BY <2>2, <4>1 DEF Window
    <3>2. CASE i > Len(buf)
      <4>1. i - Len(buf) \in 1..k /\ sent + (i - Len(buf)) = Taken + i
        BY <2>2, <2>3, <3>2
      <4>2. ~(i <= Len(buf))
        BY <2>2, <2>3, <3>2
      <4>3. buf'[i] = more[i - Len(buf)]
        BY <2>5, <4>2
      <4> QED
        BY <2>4, <4>1, <4>3
    <3> QED
      BY <2>2, <2>3, <3>1, <3>2
  <2>8. BufferIsTail'
    <3>1. Len(buf') <= sent'
      BY <1>1, <2>2, <2>3, <2>5
    <3> QED
      BY <1>1, <2>1, <2>5, <2>6, <2>7, <3>1 DEF BufferIsTail
  <2>9. Ends(frames') = Ends(frames) /\ DonePassed' = DonePassed
    BY <1>1, <2>6 DEF Ends, DonePassed
  <2>10. ParserAgrees'
    BY <1>1, <2>1, <2>6 DEF StreamInv, ParserAgrees
  <2>11. FramesAreData'
    <3>1. ASSUME NEW d, Carries(frames, seqNum, d) PROVE Carries(frames', seqNum', d)
      BY <1>1, <2>9, <3>1 DEF Carries
    <3> QED
      BY <1>1, <2>1, <2>6, <2>9, <3>1 DEF StreamInv, FramesAreData
  <2> QED
    BY <1>2, <2>1, <2>8, <2>10, <2>11 DEF StreamInv
<1> QED
  BY <1>3, <1>4

\* A block is taken: the parser has found it too, and its frame, if any, carries it.
LEMMA TakeStream ==
  ASSUME IInv, StreamInv, TakeBlock
  PROVE  StreamInv'
<1> USE IInvParts
<1>1. PICK i \in 1..Len(buf), k \in {2, 4} :
        /\ FirstDelimiter(buf, i, k)
        /\ SendBlock(SubSeq(buf, 1, i - 1))
        /\ blocks' = Append(blocks, SubSeq(buf, 1, i - 1))
        /\ buf' = SubSeq(buf, i + k, Len(buf))
  BY DEF TakeBlock
<1>2. pc = "process" /\ pc' = "process" /\ UNCHANGED <<messages, isStreaming, stream, sent, forced>>
  BY DEF TakeBlock, replyVars
<1>3. NothingYet'
  BY <1>2 DEF NothingYet
<1>4. CASE ~isStreaming
  <2>1. ~Pumping'
    BY <1>2, <1>4 DEF Pumping
  <2> QED
    BY <1>2, <1>3, <2>1 DEF StreamInv, BufferIsTail, ParserAgrees, FramesAreData
<1>5. CASE isStreaming
  <2>1. Pumping /\ Pumping'
    BY <1>2, <1>5 DEF Pumping
  <2>2. /\ Window(stream, Taken, buf) /\ Taken + Len(buf) = sent /\ Taken \in Nat
        /\ Taken \in 0..Len(stream)
        /\ sent \in Nat /\ Len(stream) \in Nat /\ Len(buf) \in Nat /\ sent <= Len(stream)
    BY <2>1, TailIsWindow DEF StreamInv
  <2>3. stream \in Seq(Tokens) /\ buf \in Seq(Tokens) /\ i \in Nat
    BY <2>2 DEF Window
  <2>4. i + k - 1 <= Len(buf)
    BY <1>1, <2>3 DEF FirstDelimiter, DelimiterAt
  <2> DEFINE block == SubSeq(buf, 1, i - 1)
             n     == i + k - 1
  <2>5. n \in Nat /\ n <= Len(buf) /\ n >= i /\ i + k = n + 1 /\ i - 1 \in 0..Len(buf)
    BY <2>2, <2>3, <2>4
  <2>6. block \in Seq(Tokens) /\ Len(block) = i - 1 /\ \A j \in 1..(i - 1) : block[j] = buf[j]
    BY <2>3, <2>5, PrefixFacts
  <2>7. /\ SendBlock(block) /\ blocks' = Append(blocks, block)
        /\ buf' = SubSeq(buf, n + 1, Len(buf))
    BY <1>1, <2>5
  <2>8. /\ Parse(stream)[Taken].rest = <<>> =>
             /\ Parse(stream)[Taken + n].blocks = Append(Parse(stream)[Taken].blocks, block)
             /\ Parse(stream)[Taken + n].data = Added(Parse(stream)[Taken].data, block)
             /\ Parse(stream)[Taken + n].rest = <<>>
    <3>1. SUFFICES ASSUME Parse(stream)[Taken].rest = <<>>
                   PROVE  FindsBlock(stream, Taken, i + k - 1, SubSeq(buf, 1, i - 1))
      BY DEF FindsBlock
    <3>2. Window(stream, Taken, buf) /\ FirstDelimiter(buf, i, k)
      BY <1>1, <2>2
    <3> QED
      BY <3>1, <3>2, ParserCuts
  <2> HIDE DEF block, n
  <2>9. Len(buf') = Len(buf) - n /\ \A j \in 1..(Len(buf) - n) : buf'[j] = buf[n + j]
    <3>1. n \in 0..Len(buf)
      BY <2>2, <2>5
    <3> QED
      BY <2>3, <2>7, <3>1, SuffixFacts
  <2>10. Taken' = Taken + n
    BY <1>2, <2>2, <2>5, <2>9 DEF Taken
  <2>11. BufferIsTail'
    <3>1. Len(buf') <= sent'
      BY <1>2, <2>2, <2>5, <2>9
    <3>2. ASSUME NEW j \in 1..Len(buf') PROVE buf'[j] = stream'[Taken' + j]
      <4>1. j \in 1..(Len(buf) - n) /\ n + j \in 1..Len(buf) /\ Taken + (n + j) = Taken' + j
        BY <2>2, <2>5, <2>9, <2>10
      <4>2. buf'[j] = buf[n + j]
        BY <2>9, <4>1
      <4>3. buf[n + j] = stream[Taken + (n + j)]
        BY <2>2, <4>1 DEF Window
      <4> QED
        BY <1>2, <4>1, <4>2, <4>3
    <3> QED
      BY <1>2, <3>1, <3>2 DEF BufferIsTail
  <2>12. ParserAgrees'
    BY <1>2, <2>1, <2>7, <2>8, <2>10 DEF StreamInv, ParserAgrees
  <2>13. FramesAreData'
    <3>1. SUFFICES ASSUME ~forced, ~messages
                   PROVE  Carries(frames', seqNum', Parse(stream)[Taken + n].data) /\ (Ends(frames') => DonePassed')
      BY <1>2, <2>10 DEF FramesAreData
    <3> DEFINE d == Parse(stream)[Taken].data
    <3>2. Carries(frames, seqNum, d) /\ (Ends(frames) => DonePassed) /\ Parse(stream)[Taken].rest = <<>>
      BY <2>1, <3>1 DEF StreamInv, FramesAreData, ParserAgrees
    <3>3. d \in Seq(Seq(Tokens))
      BY <2>2, <2>3, ParserType DEF Parses
    <3>4. Ends(frames) => DataLines(block) = {}
      BY <2>1, <2>5, <3>2, QuietBehindDone DEF StreamInv, block
    <3>5. EncryptBlock(block) /\ session = "live"
      BY <1>2, <2>7, <3>1 DEF SendBlock, SessionInv, Working
    <3> HIDE DEF d
    <3>6. Carries(frames', seqNum', Added(d, block)) /\ (Ends(frames') => Ends(frames) \/ IsDone(block))
      BY <2>6, <3>2, <3>3, <3>4, <3>5, CarriesBlock
    <3>7. DonePassed => DonePassed'
      BY <1>2, <2>2, <2>5, <2>10 DEF DonePassed
    <3>8. IsDone(block) => DonePassed'
      <4>1. SUFFICES ASSUME IsDone(block) PROVE DonePassed'
        OBVIOUS
      <4>2. PICK j \in 1..Len(block) : block[j] = "Z"
        BY <4>1 DEF IsDone, DataLines
      <4>3. j \in 1..Len(buf) /\ block[j] = buf[j] /\ Taken + j \in 1..(Taken + n)
        BY <2>2, <2>3, <2>5, <2>6
      <4>4. stream[Taken + j] = "Z"
        BY <2>2, <4>2, <4>3 DEF Window
      <4> QED
        BY <1>2, <2>10, <4>3, <4>4 DEF DonePassed
    <3>9. Added(d, block) = Parse(stream)[Taken + n].data
      BY <2>8, <3>2 DEF d
    <3>10. Ends(frames') => DonePassed'
      BY <3>2, <3>6, <3>7, <3>8
    <3> QED
      BY <3>6, <3>9, <3>10
  <2> QED
    BY <1>2, <1>3, <2>11, <2>12, <2>13 DEF StreamInv
<1> QED
  BY <1>4, <1>5

\* A buffer that is too long is flushed: from then on nothing is claimed of the blocks.
LEMMA FlushStream ==
  ASSUME IInv, StreamInv, ForceFlush
  PROVE  StreamInv'
<1> USE IInvParts
<1>1. pc' = "body" /\ forced' /\ buf' = <<>> /\ sent' = sent
  BY DEF ForceFlush, replyVars
<1>2. Len(buf') = 0 /\ sent \in Nat
  BY <1>1, StreamAssumption DEF ReplyOK
<1>3. BufferIsTail'
  BY <1>1, <1>2 DEF BufferIsTail, HasDelimiter
<1> QED
  BY <1>1, <1>3 DEF StreamInv, NothingYet, ParserAgrees, FramesAreData

\* Frames that carry all data are the data.
LEMMA CarriesAll ==
  ASSUME NEW f \in Seq(Frames), NEW n, NEW d \in Seq(Seq(Tokens)), Carries(f, n, d), Ends(f)
  PROVE  [i \in DOMAIN f |-> f[i].data] = d
<1> DEFINE g == [i \in DOMAIN f |-> f[i].data]
<1>1. Len(f) = Len(d) /\ \A i \in 1..Len(f) : f[i].data = d[i]
  BY DEF Carries
<1>2. DOMAIN f = 1..Len(f) /\ DOMAIN d = 1..Len(d)
  OBVIOUS
<1>3. d = [i \in 1..Len(d) |-> d[i]]
  OBVIOUS
<1>4. \A i \in 1..Len(d) : f[i].data = d[i]
  BY <1>1
<1>5. g = [i \in 1..Len(d) |-> f[i].data]
  BY <1>1, <1>2
<1> QED
  BY <1>3, <1>4, <1>5

\* What the client of a plain stream has, as a formula of its own.
Complete(f, p) ==
  Ends(f) => [i \in DOMAIN f |-> f[i].data]
               = p.data \o (IF DataLines(p.rest) = {} THEN <<>> ELSE <<p.rest>>)

LEMMA CompleteMeans ==
  EndMeansComplete <=> (~messages /\ isStreaming /\ ~forced => Complete(frames, Parse(stream)[sent]))
  BY DEF EndMeansComplete, Complete, Ends, Parsed

LEMMA CompleteMeansNext ==
  EndMeansComplete' <=>
    (~messages' /\ isStreaming' /\ ~forced' => Complete(frames', Parse(stream')[sent']))
  BY DEF EndMeansComplete, Complete, Ends, Parsed

\* The rest is drained.
LEMMA DrainStream ==
  ASSUME IInv, StreamInv, DrainRest
  PROVE  StreamInv'
<1> USE IInvParts
<1>1. /\ pc = "process" /\ pc' \in {"close", "erase"}
      /\ UNCHANGED <<messages, isStreaming, stream, sent, forced>>
      /\ ~HasDelimiter(buf)
  BY DEF DrainRest, replyVars
<1>2. NothingYet' /\ ~Pumping'
  BY <1>1 DEF NothingYet, Pumping
<1>3. ASSUME ~messages, isStreaming, ~forced
      PROVE  Complete(frames', Parse(stream)[sent])
  <2>1. Pumping
    BY <1>1, <1>3 DEF Pumping
  <2>2. /\ Window(stream, Taken, buf) /\ Taken + Len(buf) = sent /\ Taken \in 0..Len(stream)
        /\ Len(buf) \in 0..Len(buf)
    BY <2>1, TailIsWindow DEF StreamInv
  <2>3. stream \in Seq(Tokens) /\ buf \in Seq(Tokens)
    BY <2>2 DEF Window
  <2> DEFINE d == Parse(stream)[Taken].data
  <2>4. /\ Carries(frames, seqNum, d) /\ (Ends(frames) => DonePassed)
        /\ Parse(stream)[Taken].rest = <<>>
    BY <1>3, <2>1 DEF StreamInv, FramesAreData, ParserAgrees
  <2>5. d \in Seq(Seq(Tokens))
    BY <2>2, <2>3, ParserType DEF Parses
  <2>6. Parse(stream)[sent].data = d /\ Parse(stream)[sent].rest = buf
    <3>1. Window(stream, Taken, buf) /\ Parse(stream)[Taken].rest = <<>> /\ ~HasDelimiter(buf)
      BY <1>1, <2>2, <2>4
    <3>2. /\ Parse(stream)[Taken + Len(buf)].data = Parse(stream)[Taken].data
          /\ Parse(stream)[Taken + Len(buf)].rest = buf
      BY <3>1, ParserKeeps
    <3> QED
      BY <2>2, <3>2
  <2> HIDE DEF d
  <2>7. Ends(frames) => DataLines(buf) = {}
    BY <2>1, <2>2, <2>4, QuietBehindDone DEF StreamInv
  <2>8. FramesOK' /\ frames' \in Seq(Frames)
    <3>1. IInv'
      BY ProcessIInv DEF Process
    <3> QED
      BY <3>1, IInvPartsNext DEF FramesOK
  <2>9. Carries(frames', seqNum', Added(d, buf))
    <3>1. CASE buf = <<>>
      <4>1. UNCHANGED <<seqNum, frames>>
        BY <3>1 DEF DrainRest
      <4>2. DataLines(buf) = {}
        BY <3>1 DEF DataLines
      <4> QED
        BY <2>4, <4>1, <4>2 DEF Added
    <3>2. CASE buf # <<>>
      <4>1. EncryptBlock(buf) /\ session = "live"
        BY <1>1, <1>3, <3>2 DEF DrainRest, SendBlock, SessionInv, Working
      <4> QED
        BY <2>3, <2>4, <2>5, <2>7, <4>1, CarriesBlock
    <3> QED
      BY <3>1, <3>2
  <2>10. Added(d, buf) = d \o (IF DataLines(buf) = {} THEN <<>> ELSE <<buf>>)
         /\ Added(d, buf) \in Seq(Seq(Tokens))
    <3>1. CASE DataLines(buf) = {}
      BY <2>5, <3>1 DEF Added
    <3>2. CASE DataLines(buf) # {}
      BY <2>3, <2>5, <3>2 DEF Added
    <3> QED
      BY <3>1, <3>2
  <2>11. Ends(frames') => [i \in DOMAIN frames' |-> frames'[i].data] = Added(d, buf)
    BY <2>8, <2>9, <2>10, CarriesAll
  <2> QED
    BY <2>6, <2>10, <2>11 DEF Complete
<1>4. EndMeansComplete' /\ (pc' = "close" => messages')
  BY <1>1, <1>3, CompleteMeansNext DEF DrainRest
<1> QED
  BY <1>2, <1>4 DEF StreamInv, BufferIsTail, ParserAgrees, FramesAreData

\* The end of the exchange.
LEMMA FinishStreamInv ==
  ASSUME IInv, StreamInv, FinishReply
  PROVE  StreamInv'
<1>1. CASE FinishStream
  BY <1>1, SameStream DEF FinishStream, sessionVars, replyVars, historyVars
<1>2. CASE CloseStream \/ EraseSession
  <2>1. /\ pc \in {"close", "erase"} /\ pc' \in {"erase", "done"}
        /\ UNCHANGED <<messages, isStreaming, stream, sent, forced>>
        /\ ~messages => frames' = frames
    <3>1. CASE CloseStream
      BY <3>1 DEF CloseStream, StreamInv, replyVars
    <3>2. CASE EraseSession
      BY <3>2 DEF EraseSession, replyVars, writerVars, historyVars
    <3> QED
      BY <1>2, <3>1, <3>2
  <2>2. EndMeansComplete
    BY <2>1 DEF StreamInv
  <2>3. EndMeansComplete'
    BY <2>1, <2>2, CompleteMeans, CompleteMeansNext
  <2>4. NothingYet' /\ ~Pumping'
    BY <2>1 DEF NothingYet, Pumping
  <2> QED
    BY <2>1, <2>3, <2>4 DEF StreamInv, BufferIsTail, ParserAgrees, FramesAreData
<1>3. CASE FinishBody \/ ConversionPanics
  <2>1. pc' \in {"erase", "panicked"} /\ ~isStreaming'
    BY <1>3 DEF FinishBody, ConversionPanics, writerVars
  <2>2. EndMeansComplete'
    BY <2>1, CompleteMeansNext
  <2>3. NothingYet' /\ ~Pumping'
    BY <2>1 DEF NothingYet, Pumping
  <2> QED
    BY <2>1, <2>2, <2>3 DEF StreamInv, BufferIsTail, ParserAgrees, FramesAreData
<1> QED
  BY <1>1, <1>2, <1>3 DEF FinishReply

\* The reverse proxy's flusher.
LEMMA FlusherStream ==
  ASSUME IInv, StreamInv, Flush
  PROVE  StreamInv'
<1>1. /\ pc = "body" /\ pc' = IF isStreaming THEN "process" ELSE "body"
      /\ UNCHANGED <<messages, isStreaming, stream, sent, buf, blocks, frames, seqNum, forced>>
  BY DEF Flush, sessionVars, replyVars, historyVars
<1>2. CASE isStreaming
  <2>1. pc' = "process"
    BY <1>1, <1>2
  <2> QED
    BY <1>1, <1>2, <2>1, SameStream
<1>3. CASE ~isStreaming
  <2>1. ~Pumping' /\ NothingYet' /\ pc' = "body"
    BY <1>1, <1>3 DEF NothingYet, Pumping
  <2> QED
    BY <2>1 DEF StreamInv, BufferIsTail, ParserAgrees, FramesAreData
<1> QED
  BY <1>2, <1>3

LEMMA StutterStream ==
  ASSUME IInv, StreamInv, UNCHANGED vars
  PROVE  StreamInv'
<1>1. UNCHANGED <<pc, messages, isStreaming, stream, sent, buf, blocks, frames, seqNum, forced>>
  BY DEF vars, sessionVars, replyVars, writerVars, historyVars
<1>2. CASE pc \in {"body", "process", "finish"}
  <2>1. pc' = "body" /\ isStreaming => ~HasDelimiter(buf)
    BY <1>1, <1>2 DEF StreamInv, BufferIsTail, Pumping
  <2>2. CASE isStreaming
    BY <1>1, <1>2, <2>1, <2>2, SameStream
  <2>3. CASE ~isStreaming
    <3>1. ~Pumping' /\ NothingYet'
      BY <1>1, <1>2, <2>3 DEF NothingYet, Pumping
    <3> QED
      BY <1>1, <1>2, <3>1 DEF StreamInv, BufferIsTail, ParserAgrees, FramesAreData
  <2> QED
    BY <2>2, <2>3
<1>3. CASE pc \notin {"body", "process", "finish"}
  <2>1. ~Pumping'
    BY <1>1, <1>3 DEF Pumping
  <2>2. NothingYet'
    BY <1>1 DEF StreamInv, NothingYet
  <2>3. pc' \in {"close", "erase", "done"} => EndMeansComplete'
    BY <1>1, CompleteMeans, CompleteMeansNext DEF StreamInv
  <2>4. pc' = "close" => messages'
    BY <1>1 DEF StreamInv
  <2> QED
    BY <2>1, <2>2, <2>3, <2>4 DEF StreamInv, BufferIsTail, ParserAgrees, FramesAreData
<1> QED
  BY <1>2, <1>3

LEMMA NextStream ==
  ASSUME IInv, StreamInv, [Next]_vars
  PROVE  StreamInv'
<1>1. CASE Handle
  BY <1>1, HandleStream
<1>2. CASE Proxy
  <2>1. CASE \E c \in Codes, sse \in BOOLEAN : EngineAnswers(c, sse)
    BY <2>1, AnswerStream
  <2>2. CASE EngineUnreachable \/ ClientGone
    BY <2>2, NoAnswerStream
  <2>3. CASE \E k \in 1..Len(stream) : WriteBody(k)
    BY <2>3, WriteStream
  <2>4. CASE BodyEnds
    BY <2>4, SameStream DEF BodyEnds, sessionVars, replyVars, writerVars, historyVars
  <2>5. CASE Flush
    BY <2>5, FlusherStream
  <2> QED
    BY <1>2, <2>1, <2>2, <2>3, <2>4, <2>5 DEF Proxy
<1>3. CASE Process
  <2>1. CASE WaitForMore
    BY <2>1, SameStream DEF WaitForMore, sessionVars, replyVars, writerVars, historyVars
  <2> QED
    BY <1>3, <2>1, TakeStream, FlushStream, DrainStream DEF Process
<1>4. CASE FinishReply
  BY <1>4, FinishStreamInv
<1> QED
  BY <1>1, <1>2, <1>3, <1>4, StutterStream DEF Next

\* The invariant of the stream: the buffer is the last part of what was received, the
\* parser has found the same blocks before it, and the frames carry their data.
THEOREM StreamInvariance == Spec => [](IInv /\ StreamInv)
<1>1. Init => IInv /\ StreamInv
  BY InitIInv, InitStream
<1>2. IInv /\ StreamInv /\ [Next]_vars => IInv' /\ StreamInv'
  BY NextStream, HandleIInv, ProxyIInv, ProcessIInv, FinishIInv, StutterIInv DEF Next
<1> QED
  BY <1>1, <1>2, PTL DEF Spec

\* How the answer is cut into writes and flushes makes no difference to the blocks.
THEOREM ChunkingInvisible == Spec => []ChunkingIsInvisible
<1>1. IInv /\ StreamInv => ChunkingIsInvisible
  <2>1. SUFFICES ASSUME IInv, StreamInv, pc = "body", isStreaming, ~forced
                 PROVE  blocks = Parse(stream)[sent].blocks /\ buf = Parse(stream)[sent].rest
    BY DEF ChunkingIsInvisible, Parsed
  <2>2. Pumping
    BY <2>1 DEF Pumping
  <2>3. Window(stream, Taken, buf) /\ Taken + Len(buf) = sent
    BY <2>1, <2>2, IInvParts, TailIsWindow DEF StreamInv
  <2>4. /\ Parse(stream)[Taken].blocks = blocks /\ Parse(stream)[Taken].rest = <<>>
        /\ ~HasDelimiter(buf)
    BY <2>1, <2>2 DEF StreamInv, ParserAgrees, BufferIsTail
  <2>5. /\ Parse(stream)[Taken + Len(buf)].blocks = Parse(stream)[Taken].blocks
        /\ Parse(stream)[Taken + Len(buf)].rest = buf
    BY <2>3, <2>4, ParserKeeps
  <2> QED
    BY <2>3, <2>4, <2>5
<1> QED
  BY <1>1, StreamInvariance, PTL

\* An end frame of a plain stream comes with every data block.
THEOREM EndIsComplete == Spec => []EndMeansComplete
<1>1. IInv /\ StreamInv => EndMeansComplete
  <2>1. SUFFICES ASSUME IInv, StreamInv, ~messages, isStreaming, ~forced, Ends(frames),
                        pc \notin {"close", "erase", "done"}
                 PROVE  Complete(frames, Parse(stream)[sent])
    BY CompleteMeans DEF StreamInv, Complete
  <2>2. Pumping
    <3>1. pc \notin {"unwrap", "ready", "convert", "proxy"} /\ pc # "panicked"
      BY <2>1, IInvParts DEF StreamInv, NothingYet, SessionInv
    <3> QED
      BY <2>1, <3>1, IInvParts DEF Pumping, ReplyOK, Working
  <2>3. Taken \in 0..Len(stream) /\ Taken + Len(buf) = sent /\ sent \in 0..Len(stream)
        /\ Len(buf) \in Nat /\ Len(stream) \in Nat
    BY <2>1, <2>2, IInvParts, TailIsWindow DEF StreamInv
  <2> DEFINE d == Parse(stream)[Taken].data
  <2>4. /\ Carries(frames, seqNum, d) /\ DonePassed /\ Parse(stream)[Taken].rest = <<>>
    BY <2>1, <2>2 DEF StreamInv, FramesAreData, ParserAgrees
  <2>5. stream \in Seq(Tokens) /\ frames \in Seq(Frames)
    BY <2>1, StreamAssumption DEF IInv, TypeOK
  <2>6. d \in Seq(Seq(Tokens))
    BY <2>3, <2>5, ParserType DEF Parses
  <2>7. Parse(stream)[sent].data = d /\ Quiet(Parse(stream)[sent].rest)
    <3>1. \A j \in (Taken + 1)..Len(stream) : stream[j] \notin {"D", "Z"}
      BY <2>1, <2>3, <2>4, IInvParts, DoneIsLast
    <3>2. sent \in Taken..Len(stream)
      BY <2>3
    <3> QED
      BY <2>3, <2>4, <2>5, <3>1, <3>2, NoMoreData
  <2>8. DataLines(Parse(stream)[sent].rest) = {}
    BY <2>7, QuietHasNoData
  <2> HIDE DEF d
  <2>9. [i \in DOMAIN frames |-> frames[i].data] = d
    BY <2>1, <2>4, <2>5, <2>6, CarriesAll
  <2>10. d \o <<>> = d
    BY <2>6
  <2> QED
    BY <2>7, <2>8, <2>9, <2>10 DEF Complete
<1> QED
  BY <1>1, StreamInvariance, PTL

-----------------------------------------------------------------------------
(* The events of a Messages stream                                         *)

\* Events of a type among the first i of s.
CountIn(s, type, i) == Cardinality({j \in 1..i : s[j].type = type})
Opened(s) == CountIn(s, "content_block_start", Len(s))
Closed(s) == CountIn(s, "content_block_stop", Len(s))

\* An event in its place: the i-th of s, with so many blocks opened and closed before.
InPlace(s, i, opened, closed) ==
  LET e == s[i]
  IN  /\ e.type = "message_start" => i = 1
      /\ e.type = "content_block_start" => opened = closed /\ e.index = opened
      /\ e.type \in {"content_block_delta", "content_block_stop"} =>
            /\ opened = closed + 1 /\ e.index = closed
            /\ \E j \in 1..(i - 1) : s[j] = Event("content_block_start", e.block, e.index)
      /\ e.type = "message_stop" => opened = closed /\ i = Len(s)

\* EventsAreNested, of any sequence of events.
Nested(s) ==
  \A i \in 1..Len(s) :
    InPlace(s, i, CountIn(s, "content_block_start", i - 1), CountIn(s, "content_block_stop", i - 1))

\* A stream of events that goes on: what the translator remembers tells how many blocks
\* were opened and closed, and which one is open.
Ongoing(s, started, block, index) ==
  /\ s \in Seq(Events)
  /\ Nested(s)
  /\ \A i \in 1..Len(s) : s[i].type # "message_stop"
  /\ ~started => s = <<>>
  /\ Closed(s) = index
  /\ block = "none" => Opened(s) = index
  /\ block # "none" =>
       /\ Opened(s) = index + 1
       /\ \E j \in 1..Len(s) : s[j] = Event("content_block_start", block, index)

Over(s) == s \in Seq(Events) /\ Nested(s) /\ s # <<>> /\ s[Len(s)].type = "message_stop"

\* The state of the translator tells where the events it has produced are.
Tells(s, st) ==
  IF st.doneEmitted THEN Over(s)
  ELSE Ongoing(s, st.messageStarted, st.currentBlock, st.blockIndex)

\* The last frame is the end, unless the sequence numbers ran out.
Sealed(f, n) == n < SeqLimit => f # <<>> /\ f[Len(f)].type = "end"

\* Once the translator has emitted the end, [DONE] has left the buffer, and the last frame
\* is the end unless the numbers ran out.
AdapterInv ==
  /\ Tells(events, translator)
  /\ pc \in {"process", "close"} => isStreaming
  /\ translator.doneEmitted =>
       /\ messages /\ isStreaming
       /\ Pumping => DonePassed
       /\ Sealed(frames, seqNum)
  /\ pc \in {"erase", "done"} /\ messages /\ isStreaming => translator.doneEmitted

LEMMA CountType ==
  ASSUME NEW s, NEW type, NEW i \in Nat
  PROVE  CountIn(s, type, i) \in Nat /\ IsFiniteSet({j \in 1..i : s[j].type = type})
<1>1. IsFiniteSet(1..i)
  BY FS_Interval
<1>2. {j \in 1..i : s[j].type = type} \subseteq 1..i
  OBVIOUS
<1> QED
  BY <1>1, <1>2, FS_Subset, FS_CardinalityType DEF CountIn

\* The count depends on the first i events only.
LEMMA CountSame ==
  ASSUME NEW s, NEW t, NEW type, NEW i \in Nat, \A j \in 1..i : s[j] = t[j]
  PROVE  CountIn(s, type, i) = CountIn(t, type, i)
<1>1. {j \in 1..i : s[j].type = type} = {j \in 1..i : t[j].type = type}
  OBVIOUS
<1> QED
  BY <1>1 DEF CountIn

LEMMA CountMore ==
  ASSUME NEW s, NEW type, NEW i \in Nat
  PROVE  CountIn(s, type, i + 1)
           = IF s[i + 1].type = type THEN CountIn(s, type, i) + 1 ELSE CountIn(s, type, i)
<1> DEFINE A == {j \in 1..i : s[j].type = type}
           B == {j \in 1..(i + 1) : s[j].type = type}
<1>1. IsFiniteSet(A)
  BY CountType
<1>2. CASE s[i + 1].type = type
  <2>1. B = A \union {i + 1} /\ i + 1 \notin A
    BY <1>2
  <2> HIDE DEF A, B
  <2>2. Cardinality(B) = Cardinality(A) + 1
    BY <1>1, <2>1, FS_AddElement
  <2> QED
    BY <1>2, <2>2 DEF CountIn, A, B
<1>3. CASE s[i + 1].type # type
  <2>1. B = A
    BY <1>3
  <2> QED
    BY <1>3, <2>1 DEF CountIn
<1> QED
  BY <1>2, <1>3

LEMMA AppendFacts ==
  ASSUME NEW s \in Seq(Events), NEW e \in Events
  PROVE  /\ Append(s, e) \in Seq(Events) /\ Len(s) \in Nat /\ Len(Append(s, e)) = Len(s) + 1
         /\ \A i \in 1..Len(s) : Append(s, e)[i] = s[i]
         /\ Append(s, e)[Len(s) + 1] = e
  OBVIOUS

\* What one more event does to the counts.
LEMMA CountAppend ==
  ASSUME NEW s \in Seq(Events), NEW e \in Events
  PROVE  /\ \A type, i : i \in 0..Len(s) => CountIn(Append(s, e), type, i) = CountIn(s, type, i)
         /\ Opened(Append(s, e)) = IF e.type = "content_block_start" THEN Opened(s) + 1 ELSE Opened(s)
         /\ Closed(Append(s, e)) = IF e.type = "content_block_stop" THEN Closed(s) + 1 ELSE Closed(s)
<1> DEFINE t == Append(s, e)
<1>1. /\ Len(s) \in Nat /\ Len(t) = Len(s) + 1 /\ t[Len(s) + 1] = e
      /\ \A i \in 1..Len(s) : t[i] = s[i]
  BY AppendFacts
<1> HIDE DEF t
<1>2. ASSUME NEW type, NEW i, i \in 0..Len(s)
      PROVE  CountIn(t, type, i) = CountIn(s, type, i)
  <2>1. i \in Nat /\ \A j \in 1..i : t[j] = s[j]
    BY <1>1, <1>2
  <2> QED
    BY <2>1, CountSame
<1>3. ASSUME NEW type
      PROVE  CountIn(t, type, Len(t)) = IF e.type = type THEN CountIn(s, type, Len(s)) + 1
                                                        ELSE CountIn(s, type, Len(s))
  <2>1. CountIn(t, type, Len(s)) = CountIn(s, type, Len(s))
    BY <1>1, <1>2
  <2>2. CountIn(t, type, Len(s) + 1)
          = IF t[Len(s) + 1].type = type THEN CountIn(t, type, Len(s)) + 1 ELSE CountIn(t, type, Len(s))
    BY <1>1, CountMore
  <2> QED
    BY <1>1, <2>1, <2>2
<1> QED
  BY <1>2, <1>3 DEF Opened, Closed, t

\* An event that comes next in its place keeps the order.
Fits(e, s) ==
  /\ e.type = "message_start" => s = <<>>
  /\ e.type = "content_block_start" => Opened(s) = Closed(s) /\ e.index = Opened(s)
  /\ e.type \in {"content_block_delta", "content_block_stop"} =>
        /\ Opened(s) = Closed(s) + 1 /\ e.index = Closed(s)
        /\ \E j \in 1..Len(s) : s[j] = Event("content_block_start", e.block, e.index)
  /\ e.type = "message_stop" => Opened(s) = Closed(s)

LEMMA AppendNested ==
  ASSUME NEW s \in Seq(Events), NEW e \in Events, Nested(s), Fits(e, s),
         \A i \in 1..Len(s) : s[i].type # "message_stop"
  PROVE  Nested(Append(s, e))
<1> DEFINE t == Append(s, e)
           op(i) == CountIn(s, "content_block_start", i)
           cl(i) == CountIn(s, "content_block_stop", i)
<1>1. /\ Len(s) \in Nat /\ Len(t) = Len(s) + 1 /\ t[Len(s) + 1] = e
      /\ \A i \in 1..Len(s) : t[i] = s[i]
  BY AppendFacts
<1>2. \A i \in 0..Len(s) : /\ CountIn(t, "content_block_start", i) = op(i)
                           /\ CountIn(t, "content_block_stop", i) = cl(i)
  BY CountAppend
<1> HIDE DEF t, op, cl
<1>3. ASSUME NEW i \in 1..Len(t)
      PROVE  InPlace(t, i, op(i - 1), cl(i - 1))
  <2>1. CASE i <= Len(s)
    <3>1. i \in 1..Len(s) /\ t[i] = s[i] /\ \A j \in 1..(i - 1) : t[j] = s[j]
      BY <1>1, <2>1
    <3>2. InPlace(s, i, op(i - 1), cl(i - 1)) /\ s[i].type # "message_stop"
      BY <3>1 DEF Nested, op, cl
    <3> QED
      BY <3>1, <3>2 DEF InPlace
  <2>2. CASE i = Len(s) + 1
    <3>1. /\ t[i] = e /\ i - 1 = Len(s) /\ i = Len(t) /\ op(i - 1) = Opened(s) /\ cl(i - 1) = Closed(s)
          /\ \A j \in 1..(i - 1) : t[j] = s[j]
      BY <1>1, <2>2 DEF op, cl, Opened, Closed
    <3>2. s = <<>> => i = 1
      BY <1>1, <2>2
    <3>3. \A x : (\E j \in 1..Len(s) : s[j] = x) => \E j \in 1..(i - 1) : t[j] = x
      BY <3>1
    <3> QED
      BY <3>1, <3>2, <3>3 DEF InPlace, Fits
  <2> QED
    BY <1>1, <2>1, <2>2
<1>4. ASSUME NEW i \in 1..Len(t)
      PROVE  InPlace(t, i, CountIn(t, "content_block_start", i - 1), CountIn(t, "content_block_stop", i - 1))
  <2>1. i - 1 \in 0..Len(s)
    BY <1>1
  <2> QED
    BY <1>2, <1>3, <2>1
<1>5. Nested(t)
  BY <1>4 DEF Nested
<1> QED
  BY <1>5 DEF t

\* message_start, a delta or message_delta.
LEMMA AddPlain ==
  ASSUME NEW s, NEW started, NEW block, NEW index \in Nat, Ongoing(s, started, block, index),
         NEW e \in Events, e.type \in {"message_start", "content_block_delta", "message_delta"},
         Fits(e, s)
  PROVE  Ongoing(Append(s, e), TRUE, block, index)
<1> DEFINE t == Append(s, e)
<1>1. s \in Seq(Events)
  BY DEF Ongoing
<1>2. /\ t \in Seq(Events) /\ Len(s) \in Nat /\ Len(t) = Len(s) + 1
      /\ (\A i \in 1..Len(s) : t[i] = s[i]) /\ t[Len(s) + 1] = e
  BY <1>1, AppendFacts
<1>3. Opened(t) = Opened(s) /\ Closed(t) = Closed(s)
  BY <1>1, CountAppend
<1>4. Nested(t)
  BY <1>1, AppendNested DEF Ongoing
<1> HIDE DEF t
<1>5. \A i \in 1..Len(t) : t[i].type # "message_stop"
  BY <1>2 DEF Ongoing
<1>6. \A x : (\E j \in 1..Len(s) : s[j] = x) => \E j \in 1..Len(t) : t[j] = x
  BY <1>2
<1>7. Ongoing(t, TRUE, block, index)
  BY <1>2, <1>3, <1>4, <1>5, <1>6 DEF Ongoing
<1> QED
  BY <1>7 DEF t

\* A block is opened.
LEMMA AddBlockStart ==
  ASSUME NEW s, NEW index \in Nat, Ongoing(s, TRUE, "none", index), NEW b \in Blocks
  PROVE  Ongoing(Append(s, Event("content_block_start", b, index)), TRUE, b, index)
<1> DEFINE e == Event("content_block_start", b, index)
           t == Append(s, e)
<1>1. s \in Seq(Events)
  BY DEF Ongoing
<1>2. e \in Events /\ e.type = "content_block_start" /\ e.index = index
  BY DEF Event, Events, EventTypes
<1> HIDE DEF e
<1>3. /\ t \in Seq(Events) /\ Len(s) \in Nat /\ Len(t) = Len(s) + 1
      /\ (\A i \in 1..Len(s) : t[i] = s[i]) /\ t[Len(s) + 1] = e
  BY <1>1, <1>2, AppendFacts
<1>4. Opened(t) = Opened(s) + 1 /\ Closed(t) = Closed(s)
  BY <1>1, <1>2, CountAppend
<1>5. Nested(t)
  <2>1. Fits(e, s)
    BY <1>2 DEF Fits, Ongoing
  <2> QED
    BY <1>1, <1>2, <2>1, AppendNested DEF Ongoing
<1> HIDE DEF t
<1>6. \A i \in 1..Len(t) : t[i].type # "message_stop"
  BY <1>2, <1>3 DEF Ongoing
<1>7. \E j \in 1..Len(t) : t[j] = e
  BY <1>3
<1>8. b # "none" /\ Opened(s) = index /\ Closed(s) = index
  BY DEF Blocks, Ongoing
<1>9. Ongoing(t, TRUE, b, index)
  BY <1>3, <1>4, <1>5, <1>6, <1>7, <1>8 DEF Ongoing, e
<1> QED
  BY <1>9 DEF t, e

\* The open block is closed.
LEMMA AddBlockStop ==
  ASSUME NEW s, NEW started, NEW index \in Nat, NEW b \in Blocks, Ongoing(s, started, b, index)
  PROVE  Ongoing(Append(s, Event("content_block_stop", b, index)), TRUE, "none", index + 1)
<1> DEFINE e == Event("content_block_stop", b, index)
           t == Append(s, e)
<1>1. s \in Seq(Events) /\ b # "none"
  BY DEF Ongoing, Blocks
<1>2. e \in Events /\ e.type = "content_block_stop" /\ e.index = index /\ e.block = b
  BY DEF Event, Events, EventTypes
<1> HIDE DEF e
<1>3. /\ t \in Seq(Events) /\ Len(s) \in Nat /\ Len(t) = Len(s) + 1
      /\ (\A i \in 1..Len(s) : t[i] = s[i]) /\ t[Len(s) + 1] = e
  BY <1>1, <1>2, AppendFacts
<1>4. Opened(t) = Opened(s) /\ Closed(t) = Closed(s) + 1
  BY <1>1, <1>2, CountAppend
<1>5. Opened(s) = index + 1 /\ Closed(s) = index
      /\ \E j \in 1..Len(s) : s[j] = Event("content_block_start", b, index)
  BY <1>1 DEF Ongoing
<1>6. Nested(t)
  <2>1. Fits(e, s)
    BY <1>2, <1>5 DEF Fits
  <2> QED
    BY <1>1, <1>2, <2>1, AppendNested DEF Ongoing
<1> HIDE DEF t
<1>7. \A i \in 1..Len(t) : t[i].type # "message_stop"
  BY <1>2, <1>3 DEF Ongoing
<1>8. Ongoing(t, TRUE, "none", index + 1)
  BY <1>3, <1>4, <1>5, <1>6, <1>7 DEF Ongoing
<1> QED
  BY <1>8 DEF t, e

\* The stream is closed.
LEMMA AddMessageStop ==
  ASSUME NEW s, NEW started, NEW index \in Nat, Ongoing(s, started, "none", index)
  PROVE  Over(Append(s, Event("message_stop", "none", 0)))
<1> DEFINE e == Event("message_stop", "none", 0)
           t == Append(s, e)
<1>1. s \in Seq(Events) /\ Opened(s) = Closed(s)
  BY DEF Ongoing
<1>2. e \in Events /\ e.type = "message_stop"
  BY DEF Event, Events, EventTypes
<1> HIDE DEF e
<1>3. t \in Seq(Events) /\ Len(s) \in Nat /\ Len(t) = Len(s) + 1 /\ t[Len(s) + 1] = e
  BY <1>1, <1>2, AppendFacts
<1>4. Nested(t)
  <2>1. Fits(e, s)
    BY <1>1, <1>2 DEF Fits
  <2> QED
    BY <1>1, <1>2, <2>1, AppendNested DEF Ongoing
<1> HIDE DEF t
<1>5. t # <<>>
  BY <1>3
<1>6. Over(t)
  BY <1>2, <1>3, <1>4, <1>5 DEF Over
<1> QED
  BY <1>6 DEF t, e

\* The result r of a translation so far, behind the events s.
Going(s, r) ==
  /\ r \in Results
  /\ r.st.doneEmitted = FALSE
  /\ Ongoing(s \o r.events, r.st.messageStarted, r.st.currentBlock, r.st.blockIndex)

\* Appending to the last part is appending to the whole.
LEMMA AppendConcat ==
  ASSUME NEW s \in Seq(Events), NEW t \in Seq(Events), NEW e \in Events
  PROVE  s \o Append(t, e) = Append(s \o t, e)
  OBVIOUS

LEMMA StartGoes ==
  ASSUME NEW s \in Seq(Events), NEW r, Going(s, r)
  PROVE  Going(s, StartMessage(r)) /\ StartMessage(r).st.messageStarted = TRUE
<1> DEFINE e == Event("message_start", "none", 0)
           x == [r.st EXCEPT !.messageStarted = TRUE]
<1>1. /\ r \in Results /\ r.st \in States /\ r.events \in Seq(Events)
      /\ r.st.messageStarted \in BOOLEAN /\ r.st.blockIndex \in Nat
  BY DEF Going, Results, States
<1>2. e \in Events /\ e.type = "message_start"
  BY DEF Event, Events, EventTypes
<1>3. CASE r.st.messageStarted
  BY <1>1, <1>3 DEF StartMessage
<1>4. CASE ~r.st.messageStarted
  <2>1. StartMessage(r) = With(x, Append(r.events, e))
    BY <1>4 DEF StartMessage
  <2> HIDE DEF e
  <2>2. s \o r.events = <<>> /\ Ongoing(s \o r.events, r.st.messageStarted, r.st.currentBlock, r.st.blockIndex)
    BY <1>4 DEF Going, Ongoing
  <2>3. Fits(e, s \o r.events)
    BY <1>2, <2>2 DEF Fits
  <2>4. Ongoing(Append(s \o r.events, e), TRUE, r.st.currentBlock, r.st.blockIndex)
    BY <1>1, <1>2, <2>2, <2>3, AddPlain
  <2>5. s \o Append(r.events, e) = Append(s \o r.events, e)
    BY <1>1, <1>2, AppendConcat
  <2>6. /\ x.currentBlock = r.st.currentBlock /\ x.blockIndex = r.st.blockIndex
        /\ x.doneEmitted = r.st.doneEmitted /\ x.messageStarted = TRUE
    BY <1>1 DEF States
  <2> HIDE DEF x
  <2>7. StartMessage(r).st = x /\ StartMessage(r).events = Append(r.events, e)
    BY <2>1 DEF With
  <2>8. StartMessage(r) \in Results
    BY <1>1, StartMessageType
  <2> QED
    BY <2>4, <2>5, <2>6, <2>7, <2>8 DEF Going
<1> QED
  BY <1>1, <1>3, <1>4

LEMMA OpenGoes ==
  ASSUME NEW s \in Seq(Events), NEW r, Going(s, r), r.st.messageStarted = TRUE, NEW b \in Blocks
  PROVE  /\ Going(s, OpenBlock(r, b))
         /\ OpenBlock(r, b).st.messageStarted = TRUE
         /\ OpenBlock(r, b).st.currentBlock = b
<1> DEFINE old  == r.st.currentBlock
           i    == r.st.blockIndex
           next == IF old = "none" THEN i ELSE i + 1
           stop == IF old = "none" THEN <<>> ELSE <<Event("content_block_stop", old, i)>>
           e    == Event("content_block_start", b, next)
           x    == [r.st EXCEPT !.currentBlock = b, !.blockIndex = next]
<1>1. /\ r \in Results /\ r.st \in States /\ r.events \in Seq(Events)
      /\ old \in Blocks \union {"none"} /\ i \in Nat
  BY DEF Going, Results, States
<1>2. CASE old = b
  BY <1>1, <1>2 DEF OpenBlock
<1>3. CASE old # b
  <2>1. OpenBlock(r, b) = With(x, r.events \o stop \o <<e>>)
    BY <1>3 DEF OpenBlock
  <2>2. /\ x.currentBlock = b /\ x.blockIndex = next
        /\ x.doneEmitted = r.st.doneEmitted /\ x.messageStarted = r.st.messageStarted
    BY <1>1 DEF States
  <2>3. next \in Nat /\ e \in Events
    BY <1>1 DEF Event, Events, EventTypes
  <2>4. stop \in Seq(Events)
    BY <1>1, StopType
  <2>5. Ongoing(s \o r.events, TRUE, old, i)
    BY DEF Going
  <2>6. Ongoing(s \o (r.events \o stop), TRUE, "none", next)
    <3>1. CASE old = "none"
      <4>1. r.events \o stop = r.events /\ next = i
        BY <1>1, <3>1
      <4> QED
        BY <2>5, <3>1, <4>1
    <3>2. CASE old # "none"
      <4> DEFINE f == Event("content_block_stop", old, i)
      <4>1. f \in Events /\ old \in Blocks
        BY <1>1, <3>2 DEF Event, Events, EventTypes
      <4>2. Ongoing(Append(s \o r.events, f), TRUE, "none", i + 1)
        BY <1>1, <2>5, <4>1, AddBlockStop
      <4> HIDE DEF f
      <4>3. r.events \o stop = Append(r.events, f) /\ next = i + 1
        BY <1>1, <3>2, <4>1 DEF f
      <4>4. s \o Append(r.events, f) = Append(s \o r.events, f)
        BY <1>1, <4>1, AppendConcat
      <4> QED
        BY <4>2, <4>3, <4>4
    <3> QED
      BY <3>1, <3>2
  <2>7. Ongoing(Append(s \o (r.events \o stop), e), TRUE, b, next)
    BY <2>3, <2>6, AddBlockStart
  <2> HIDE DEF stop, next, e, x
  <2>8. r.events \o stop \in Seq(Events)
    BY <1>1, <2>4, ConcatProperties
  <2>9. s \o (r.events \o stop \o <<e>>) = Append(s \o (r.events \o stop), e)
    <3> DEFINE y == r.events \o stop
    <3> HIDE DEF y
    <3>1. y \in Seq(Events)
      BY <2>8 DEF y
    <3>2. y \o <<e>> = Append(y, e)
      BY <2>3, <3>1
    <3>3. s \o Append(y, e) = Append(s \o y, e)
      BY <2>3, <3>1, AppendConcat
    <3>4. s \o (y \o <<e>>) = Append(s \o y, e)
      BY <3>2, <3>3
    <3> QED
      BY <3>4 DEF y
  <2>10. OpenBlock(r, b).st = x /\ OpenBlock(r, b).events = r.events \o stop \o <<e>>
    BY <2>1 DEF With
  <2>11. OpenBlock(r, b) \in Results
    BY <1>1, OpenBlockType
  <2>12. Going(s, OpenBlock(r, b))
    BY <2>2, <2>7, <2>9, <2>10, <2>11 DEF Going
  <2> QED
    BY <2>2, <2>10, <2>12
<1> QED
  BY <1>2, <1>3

\* Any number of deltas of the open block.
LEMMA DeltasGo ==
  ASSUME NEW s \in Seq(Events), NEW r, Going(s, r), r.st.messageStarted = TRUE,
         NEW b \in Blocks, NEW n \in Nat
  PROVE  Going(s, Deltas(r, b, n)) /\ Deltas(r, b, n).st.messageStarted = TRUE
<1> DEFINE o == OpenBlock(r, b)
           e == Event("content_block_delta", b, o.st.blockIndex)
           more(m) == [i \in 1..m |-> e]
           i == o.st.blockIndex
<1>1. Going(s, o) /\ o.st.messageStarted = TRUE /\ o.st.currentBlock = b
  BY OpenGoes
<1>2. Deltas(r, b, n).st = o.st /\ Deltas(r, b, n).events = o.events \o more(n)
  BY DEF Deltas, With
<1> HIDE DEF o
<1>3. o \in Results /\ o.events \in Seq(Events) /\ o.st.blockIndex \in Nat /\ o.st \in States
  BY <1>1 DEF Going, Results, States
<1>4. e \in Events /\ e.type = "content_block_delta" /\ e.index = i /\ e.block = b
  BY <1>3 DEF Event, Events, EventTypes
<1> HIDE DEF e
<1> DEFINE S == {m \in Nat : Ongoing(s \o (o.events \o more(m)), TRUE, b, i)}
<1>5. ASSUME NEW m \in Nat PROVE more(m) \in Seq(Events) /\ o.events \o more(m) \in Seq(Events)
  <2>1. more(m) \in Seq(Events)
    BY <1>4
  <2> HIDE DEF more
  <2> QED
    BY <1>3, <2>1, ConcatProperties
<1>6. 0 \in S
  <2>1. more(0) = <<>>
    OBVIOUS
  <2>2. o.events \o more(0) = o.events
    <3> HIDE DEF more
    <3> QED
      BY <1>3, <2>1
  <2>3. Ongoing(s \o o.events, TRUE, b, i)
    BY <1>1 DEF Going
  <2> QED
    BY <2>2, <2>3
<1>7. ASSUME NEW m \in Nat, m \in S
      PROVE  m + 1 \in S
  <2>1. more(m + 1) = Append(more(m), e)
    <3>1. Append(more(m), e) \in Seq(Events) /\ more(m + 1) \in Seq(Events)
      BY <1>4, <1>5
    <3>2. /\ Len(more(m)) = m /\ Len(more(m + 1)) = m + 1
          /\ \A j \in 1..m : more(m)[j] = e
          /\ \A j \in 1..(m + 1) : more(m + 1)[j] = e
      BY <1>5
    <3> HIDE DEF more
    <3>3. more(m) \in Seq(Events)
      BY <1>5
    <3>4. /\ Len(Append(more(m), e)) = m + 1
          /\ \A j \in 1..(m + 1) : Append(more(m), e)[j] = e
      BY <1>4, <3>2, <3>3
    <3> QED
      BY <3>1, <3>2, <3>4, SeqEqual
  <2> DEFINE y == o.events \o more(m)
  <2>2. y \in Seq(Events) /\ more(m) \in Seq(Events)
    BY <1>5
  <2>3. Ongoing(s \o y, TRUE, b, i)
    BY <1>7
  <2> HIDE DEF more
  <2>4. o.events \o more(m + 1) = Append(y, e)
    <3>1. o.events \o Append(more(m), e) = Append(o.events \o more(m), e)
      BY <1>3, <1>4, <2>2, AppendConcat
    <3> QED
      BY <2>1, <3>1
  <2> HIDE DEF y
  <2>5. s \o Append(y, e) = Append(s \o y, e)
    BY <1>4, <2>2, AppendConcat
  <2>6. Fits(e, s \o y)
    <3>1. b # "none"
      BY DEF Blocks
    <3> QED
      BY <1>4, <2>3, <3>1 DEF Fits, Ongoing
  <2>7. Ongoing(Append(s \o y, e), TRUE, b, i)
    BY <1>3, <1>4, <2>3, <2>6, AddPlain
  <2>8. Ongoing(s \o (o.events \o more(m + 1)), TRUE, b, i)
    BY <2>4, <2>5, <2>7
  <2>9. m + 1 \in Nat
    OBVIOUS
  <2> QED
    BY <2>8, <2>9, Zenon DEF more
<1>8. n \in S
  <2>1. Nat \subseteq S
    <3> HIDE DEF S
    <3> QED
      BY <1>6, <1>7, Induction
  <2> QED
    BY <2>1
<1>9. Deltas(r, b, n) \in Results
  BY DeltasType DEF Going
<1>10. Going(s, Deltas(r, b, n))
  BY <1>1, <1>2, <1>8, <1>9 DEF Going
<1> QED
  BY <1>1, <1>2, <1>10

LEMMA ToolsGo ==
  ASSUME NEW s \in Seq(Events), NEW r, Going(s, r), r.st.messageStarted = TRUE,
         NEW tools \in Seq(Tools)
  PROVE  Going(s, ToolCalls(r, tools))
<1> DEFINE A == {i \in DOMAIN tools : tools[i] = "args"}
<1>1. IsFiniteSet(1..Len(tools))
  BY FS_Interval
<1>2. A \subseteq 1..Len(tools)
  OBVIOUS
<1>3. Cardinality(A) \in Nat
  BY <1>1, <1>2, FS_Subset, FS_CardinalityType
<1>4. "tool_use" \in Blocks
  BY DEF Blocks
<1>5. Going(s, Deltas(r, "tool_use", Cardinality(A)))
  BY <1>3, <1>4, DeltasGo
<1> QED
  BY <1>5 DEF ToolCalls

\* A chunk, whatever it holds, continues the stream.
LEMMA TranslateGoes ==
  ASSUME NEW s \in Seq(Events), NEW st \in States, st.doneEmitted = FALSE,
         Ongoing(s, st.messageStarted, st.currentBlock, st.blockIndex), NEW c \in Chunks
  PROVE  Going(s, Translate(st, c))
<1> DEFINE t == SplitThinking(st, c)
           z == With(st, <<>>)
           a == StartMessage(z)
           x == [a.st EXCEPT !.inThinkTag = t.inThinkTag]
           b == With(x, a.events)
           d == IF t.thinking THEN Deltas(b, "thinking", 1) ELSE b
           e == IF t.text THEN Deltas(d, "text", 1) ELSE d
<1>1. Going(s, z)
  <2>1. z \in Results /\ z.st = st /\ z.events = <<>> /\ s \o <<>> = s
    BY DEF With, Results
  <2> QED
    BY <2>1 DEF Going
<1>2. Translate(st, c) = IF ~c.json THEN z ELSE IF ~c.delta THEN a ELSE ToolCalls(e, c.tools)
  BY DEF Translate
<1>3. t.inThinkTag \in BOOLEAN
  BY DEF SplitThinking, States, Chunks
<1> HIDE DEF z, t
<1>4. Going(s, a) /\ a.st.messageStarted = TRUE
  BY <1>1, StartGoes
<1> HIDE DEF a
<1>5. Going(s, b) /\ b.st.messageStarted = TRUE
  <2>1. a.st \in States /\ a.events \in Seq(Events)
    BY <1>4 DEF Going, Results
  <2>2. /\ x \in States /\ x.messageStarted = a.st.messageStarted /\ x.currentBlock = a.st.currentBlock
        /\ x.blockIndex = a.st.blockIndex /\ x.doneEmitted = a.st.doneEmitted
    BY <1>3, <2>1 DEF States
  <2> HIDE DEF x
  <2>3. b.st = x /\ b.events = a.events /\ b \in Results
    BY <2>1, <2>2 DEF With, Results
  <2> HIDE DEF b
  <2> QED
    BY <1>4, <2>2, <2>3 DEF Going
<1> HIDE DEF b
<1>6. Going(s, d) /\ d.st.messageStarted = TRUE
  BY <1>5, DeltasGo DEF Blocks
<1> HIDE DEF d
<1>7. Going(s, e) /\ e.st.messageStarted = TRUE
  BY <1>6, DeltasGo DEF Blocks
<1> HIDE DEF e
<1>8. c.tools \in Seq(Tools)
  BY DEF Chunks
<1>9. Going(s, ToolCalls(e, c.tools))
  BY <1>7, <1>8, ToolsGo
<1> QED
  BY <1>1, <1>2, <1>4, <1>9

\* [DONE], or the end of the answer, closes the stream.
LEMMA DoneCloses ==
  ASSUME NEW s \in Seq(Events), NEW st \in States, st.doneEmitted = FALSE,
         Ongoing(s, st.messageStarted, st.currentBlock, st.blockIndex)
  PROVE  /\ Over(s \o TranslateDone(st).events) /\ TranslateDone(st).st.doneEmitted = TRUE
         /\ TranslateDone(st).events # <<>>
<1> DEFINE b == st.currentBlock
           i == st.blockIndex
           stop == IF b = "none" THEN <<>> ELSE <<Event("content_block_stop", b, i)>>
           f == Event("message_delta", "none", 0)
           e == Event("message_stop", "none", 0)
           x == [st EXCEPT !.doneEmitted = TRUE, !.currentBlock = "none"]
<1>1. b \in Blocks \union {"none"} /\ i \in Nat /\ x.doneEmitted = TRUE
  BY DEF States
<1>2. TranslateDone(st).events = stop \o <<f, e>> /\ TranslateDone(st).st = x
  BY DEF TranslateDone, With
<1>3. stop \in Seq(Events)
  BY <1>1, StopType
<1>4. f \in Events /\ e \in Events /\ f.type = "message_delta"
  BY DEF Event, Events, EventTypes
<1>5. \E j \in Nat : Ongoing(s \o stop, TRUE, "none", j)
  <2>1. CASE b = "none"
    <3>1. s \o stop = s
      BY <2>1
    <3>2. Ongoing(s, TRUE, "none", i)
      BY <2>1 DEF Ongoing
    <3> QED
      BY <1>1, <3>1, <3>2
  <2>2. CASE b # "none"
    <3> DEFINE g == Event("content_block_stop", b, i)
    <3>1. g \in Events /\ b \in Blocks
      BY <1>1, <2>2 DEF Event, Events, EventTypes
    <3>2. Ongoing(Append(s, g), TRUE, "none", i + 1)
      BY <1>1, <3>1, AddBlockStop
    <3>3. s \o stop = Append(s, g)
      BY <2>2, <3>1
    <3>4. i + 1 \in Nat
      BY <1>1
    <3> QED
      BY <3>2, <3>3, <3>4
  <2> QED
    BY <2>1, <2>2
<1>6. PICK j \in Nat : Ongoing(s \o stop, TRUE, "none", j)
  BY <1>5
<1> HIDE DEF stop, e, f, x
<1>7. Fits(f, s \o stop)
  BY <1>4 DEF Fits
<1>8. Ongoing(Append(s \o stop, f), TRUE, "none", j)
  BY <1>4, <1>6, <1>7, AddPlain
<1>9. Over(Append(Append(s \o stop, f), e))
  BY <1>8, AddMessageStop DEF e
<1>10. stop \o <<f, e>> = Append(Append(stop, f), e) /\ Append(stop, f) \in Seq(Events)
  BY <1>3, <1>4
<1>11. s \o Append(Append(stop, f), e) = Append(Append(s \o stop, f), e)
  <2>1. s \o Append(Append(stop, f), e) = Append(s \o Append(stop, f), e)
    BY <1>4, <1>10, AppendConcat
  <2>2. s \o Append(stop, f) = Append(s \o stop, f)
    BY <1>3, <1>4, AppendConcat
  <2> QED
    BY <2>1, <2>2
<1>12. stop \o <<f, e>> # <<>>
  <2> DEFINE y == Append(stop, f)
  <2>1. y \in Seq(Events)
    BY <1>10
  <2> HIDE DEF y
  <2>2. Append(y, e) # <<>>
    BY <1>4, <2>1
  <2> QED
    BY <1>10, <2>2 DEF y
<1> QED
  BY <1>1, <1>2, <1>9, <1>10, <1>11, <1>12

-----------------------------------------------------------------------------
(* The adapter and its frames                                              *)

\* The events of [DONE] are followed by the end.
LEMMA EncryptSeals ==
  ASSUME FramesOK, NEW r \in Results, r.events # <<>>, EncryptEvents(r, TRUE)
  PROVE  Sealed(frames', seqNum')
<1> DEFINE types == [i \in 1..Len(r.events) |-> "delta"] \o <<"end">>
           n == IF seqNum + Len(types) <= SeqLimit THEN Len(types) ELSE SeqLimit - seqNum
           more == [i \in 1..n |-> [type |-> types[i], seq |-> seqNum + i - 1,
                                    key |-> session, data |-> <<>>]]
<1>1. r.events \in Seq(Events) /\ Len(r.events) \in Nat
  BY DEF Results
<1>2. Len(types) = Len(r.events) + 1 /\ types[Len(r.events) + 1] = "end"
  <2> DEFINE deltas == [i \in 1..Len(r.events) |-> "delta"]
  <2>1. deltas \in Seq({"delta", "end"}) /\ Len(deltas) = Len(r.events)
    BY <1>1
  <2> HIDE DEF deltas
  <2> DEFINE all == deltas \o <<"end">>
  <2>2. Len(all) = Len(r.events) + 1 /\ all[Len(r.events) + 1] = "end"
    BY <1>1, <2>1
  <2> QED
    BY <2>2 DEF deltas
<1>3. seqNum' = seqNum + n /\ frames' = frames \o more
  <2>1. Encrypt(types, <<>>)
    BY DEF EncryptEvents
  <2> HIDE DEF types
  <2> QED
    BY <2>1 DEF Encrypt
<1> HIDE DEF types
<1>4. seqNum \in Nat /\ SeqLimit \in Nat /\ seqNum <= SeqLimit /\ frames \in Seq(Frames)
  BY SeqAssumption DEF FramesOK
<1>5. CASE seqNum + Len(types) <= SeqLimit
  <2>1. n = Len(r.events) + 1 /\ n \in Nat /\ n >= 1
    BY <1>1, <1>2, <1>5
  <2> HIDE DEF n
  <2>2. DOMAIN more = 1..n /\ more[n].type = "end"
    BY <1>2, <2>1
  <2>3. more \in Seq({more[i] : i \in 1..n}) /\ Len(more) = n
    BY <2>1
  <2> HIDE DEF more
  <2>4. Len(frames') = Len(frames) + n /\ frames'[Len(frames) + n] = more[n]
    <3> DEFINE T == Frames \union {more[i] : i \in 1..n}
    <3>1. frames \in Seq(T) /\ more \in Seq(T)
      BY <1>4, <2>3
    <3> HIDE DEF T
    <3>2. /\ Len(frames \o more) = Len(frames) + Len(more)
          /\ \A i \in 1..(Len(frames) + Len(more)) :
               (frames \o more)[i] = IF i <= Len(frames) THEN frames[i] ELSE more[i - Len(frames)]
      BY <3>1, ConcatProperties
    <3>3. /\ Len(frames) + n \in 1..(Len(frames) + n) /\ ~(Len(frames) + n <= Len(frames))
          /\ (Len(frames) + n) - Len(frames) = n
      BY <1>4, <2>1
    <3> QED
      BY <1>3, <2>1, <2>3, <3>1, <3>2, <3>3
  <2>5. frames' # <<>>
    BY <1>4, <2>1, <2>4
  <2> QED
    BY <2>2, <2>4, <2>5 DEF Sealed
<1>6. CASE ~(seqNum + Len(types) <= SeqLimit)
  <2>1. n = SeqLimit - seqNum
    BY <1>6
  <2> QED
    BY <1>3, <1>4, <2>1 DEF Sealed
<1> QED
  BY <1>5, <1>6

\* A translation without events sends nothing.
LEMMA EncryptNothing ==
  ASSUME FramesOK, AdapterOK, NEW st \in States, EncryptEvents(With(st, <<>>), TRUE)
  PROVE  translator' = st /\ UNCHANGED <<seqNum, frames, events>>
<1> DEFINE types == [i \in 1..Len(<<>>) |-> "delta"] \o <<>>
           n == IF seqNum + Len(types) <= SeqLimit THEN Len(types) ELSE SeqLimit - seqNum
           more == [i \in 1..n |-> [type |-> types[i], seq |-> seqNum + i - 1,
                                    key |-> session, data |-> <<>>]]
<1>1. With(st, <<>>).st = st /\ With(st, <<>>).events = <<>>
  BY DEF With
<1>2. translator' = st /\ events' = events \o <<>> /\ Encrypt(types, <<>>)
  BY <1>1 DEF EncryptEvents
<1>3. Len(types) = 0
  <2>1. [i \in 1..Len(<<>>) |-> "delta"] = <<>>
    OBVIOUS
  <2> QED
    BY <2>1
<1>4. seqNum' = seqNum + n /\ frames' = frames \o more
  <2> HIDE DEF types
  <2> QED
    BY <1>2 DEF Encrypt
<1> HIDE DEF types
<1>5. seqNum \in Nat /\ SeqLimit \in Nat /\ seqNum <= SeqLimit /\ frames \in Seq(Frames)
  BY SeqAssumption DEF FramesOK
<1>6. n = 0
  BY <1>3, <1>5
<1> HIDE DEF n
<1>7. more = <<>>
  BY <1>6
<1> HIDE DEF more
<1> QED
  BY <1>2, <1>4, <1>5, <1>6, <1>7 DEF AdapterOK

\* [DONE] or the end of the answer, translated the first time or again.
LEMMA DoneTells ==
  ASSUME FramesOK, AdapterOK, Tells(events, translator),
         translator.doneEmitted => Sealed(frames, seqNum),
         EncryptEvents(TranslateDone(translator), TRUE)
  PROVE  Tells(events', translator') /\ translator'.doneEmitted /\ Sealed(frames', seqNum')
<1>1. translator \in States /\ events \in Seq(Events) /\ translator.doneEmitted \in BOOLEAN
  BY DEF AdapterOK, States
<1>2. CASE translator.doneEmitted
  <2>1. TranslateDone(translator) = With(translator, <<>>)
    BY <1>2 DEF TranslateDone
  <2>2. translator' = translator /\ UNCHANGED <<seqNum, frames, events>>
    BY <1>1, <2>1, EncryptNothing
  <2> QED
    BY <1>2, <2>2
<1>3. CASE ~translator.doneEmitted
  <2>1. translator.doneEmitted = FALSE
    BY <1>1, <1>3
  <2>2. Ongoing(events, translator.messageStarted, translator.currentBlock, translator.blockIndex)
    BY <1>3 DEF Tells
  <2> DEFINE r == TranslateDone(translator)
  <2>3. Over(events \o r.events) /\ r.st.doneEmitted = TRUE /\ r.events # <<>>
    BY <1>1, <2>1, <2>2, DoneCloses
  <2>4. r \in Results
    BY <1>1, TranslateDoneType
  <2> HIDE DEF r
  <2>5. translator' = r.st /\ events' = events \o r.events
    BY DEF EncryptEvents, r
  <2>6. Sealed(frames', seqNum')
    BY <2>3, <2>4, EncryptSeals DEF r
  <2> QED
    BY <2>3, <2>5, <2>6 DEF Tells
<1> QED
  BY <1>2, <1>3

\* A block of a Messages stream, if none with data came after [DONE].
LEMMA BlockTells ==
  ASSUME FramesOK, AdapterOK, Tells(events, translator),
         translator.doneEmitted => Sealed(frames, seqNum),
         NEW b \in Seq(Tokens), TranslateBlock(b), translator.doneEmitted => DataLines(b) = {}
  PROVE  /\ Tells(events', translator')
         /\ translator'.doneEmitted => Sealed(frames', seqNum') /\ (translator.doneEmitted \/ IsDone(b))
<1>1. translator \in States /\ events \in Seq(Events) /\ translator.doneEmitted \in BOOLEAN
  BY DEF AdapterOK, States
<1>2. CASE UNCHANGED <<seqNum, frames, translator, events>>
  BY <1>2
<1>3. CASE IsDone(b) /\ EncryptEvents(TranslateDone(translator), TRUE)
  BY <1>3, DoneTells
<1>4. CASE DataLines(b) # {} /\ \E c \in Replies : EncryptEvents(Translate(translator, c), FALSE)
  <2>1. PICK c \in Replies : EncryptEvents(Translate(translator, c), FALSE)
    BY <1>4
  <2>2. c \in Chunks /\ ~translator.doneEmitted
    BY <1>4, ReplyAssumption
  <2>3. translator.doneEmitted = FALSE
    BY <1>1, <2>2
  <2>4. Ongoing(events, translator.messageStarted, translator.currentBlock, translator.blockIndex)
    BY <2>2 DEF Tells
  <2> DEFINE r == Translate(translator, c)
  <2>5. Going(events, r)
    BY <1>1, <2>2, <2>3, <2>4, TranslateGoes
  <2>6. translator' = r.st /\ events' = events \o r.events
    BY <2>1 DEF EncryptEvents
  <2> HIDE DEF r
  <2>7. translator'.doneEmitted = FALSE
    BY <2>5, <2>6 DEF Going
  <2>8. Ongoing(events', translator'.messageStarted, translator'.currentBlock, translator'.blockIndex)
    BY <2>5, <2>6 DEF Going
  <2> QED
    BY <2>7, <2>8 DEF Tells
<1> QED
  BY <1>2, <1>3, <1>4 DEF TranslateBlock

LEMMA InitAdapter == Init => AdapterInv
<1> SUFFICES ASSUME Init PROVE AdapterInv
  OBVIOUS
<1>1. events = <<>> /\ translator = NewTranslator /\ pc = "unwrap"
  BY DEF Init
<1>2. /\ translator.doneEmitted = FALSE /\ translator.messageStarted = FALSE
      /\ translator.currentBlock = "none" /\ translator.blockIndex = 0
  BY <1>1 DEF NewTranslator
<1>3. \A type : CountIn(<<>>, type, 0) = 0
  <2>1. \A type : {j \in 1..0 : <<>>[j].type = type} = {}
    OBVIOUS
  <2> QED
    BY <2>1, FS_EmptySet DEF CountIn
<1>4. Opened(<<>>) = 0 /\ Closed(<<>>) = 0
  BY <1>3 DEF Opened, Closed
<1>5. Nested(<<>>)
  BY DEF Nested
<1>6. Ongoing(events, translator.messageStarted, translator.currentBlock, translator.blockIndex)
  BY <1>1, <1>2, <1>4, <1>5 DEF Ongoing
<1> QED
  BY <1>1, <1>2, <1>6 DEF AdapterInv, Tells

\* Steps that neither translate nor send, and do not begin the stream.
LEMMA QuietAdapter ==
  ASSUME AdapterInv, UNCHANGED <<messages, isStreaming, stream, seqNum, frames, translator, events>>,
         pc' \in {"process", "close"} => isStreaming,
         pc' \in {"erase", "done"} /\ messages /\ isStreaming => pc \in {"erase", "done"},
         Pumping' /\ DonePassed => DonePassed',
         Pumping' => Pumping
  PROVE  AdapterInv'
  BY DEF AdapterInv

LEMMA HandleAdapter ==
  ASSUME IInv, StreamInv, AdapterInv, Handle
  PROVE  AdapterInv'
<1>1. /\ pc \in {"unwrap", "ready", "convert"} /\ pc' \in {"ready", "convert", "proxy", "done"}
      /\ UNCHANGED <<messages, isStreaming, stream, seqNum, frames, translator, events>>
  BY DEF Handle, RefuseEnvelope, Unwrap, RefuseNotReady, EngineIsReady, RefuseConversion,
     Convert, RefuseWith, sessionVars, replyVars, writerVars, historyVars
<1>2. ~isStreaming
  BY <1>1 DEF StreamInv, NothingYet
<1>3. ~Pumping'
  BY <1>1, <1>2 DEF Pumping
<1> QED
  BY <1>1, <1>2, <1>3, QuietAdapter

\* Before the engine answers, nothing has been translated.
LEMMA AnswerAdapter ==
  ASSUME IInv, StreamInv, AdapterInv,
         (\E c \in Codes, sse \in BOOLEAN : EngineAnswers(c, sse)) \/ EngineUnreachable \/ ClientGone
  PROVE  AdapterInv'
<1>1. pc = "proxy" /\ pc' \in {"body", "finish"} /\ UNCHANGED <<translator, events>>
  BY DEF EngineAnswers, EngineUnreachable, ClientGone, writerVars, historyVars
<1>2. ~isStreaming
  BY <1>1 DEF StreamInv, NothingYet
<1>3. ~translator.doneEmitted
  BY <1>2 DEF AdapterInv
<1> QED
  BY <1>1, <1>3 DEF AdapterInv

LEMMA WriteAdapter ==
  ASSUME IInv, StreamInv, AdapterInv, NEW k \in 1..Len(stream), WriteBody(k)
  PROVE  AdapterInv'
<1>1. /\ pc = "body" /\ pc' = (IF isStreaming THEN "process" ELSE "body") /\ sent' = sent + k
      /\ buf' = buf \o SubSeq(stream, sent + 1, sent + k) /\ sent + k <= Len(stream)
      /\ UNCHANGED <<messages, isStreaming, stream, seqNum, frames, translator, events>>
  BY DEF WriteBody, sessionVars, historyVars
<1>2. Pumping' => Pumping
  BY <1>1 DEF Pumping
<1>3. ASSUME Pumping, DonePassed PROVE DonePassed'
  <2>1. /\ Taken \in Nat /\ sent \in Nat /\ Len(stream) \in Nat /\ Len(buf) \in Nat
        /\ stream \in Seq(Tokens) /\ buf \in Seq(Tokens)
    BY <1>3, IInvParts, TailIsWindow DEF StreamInv, Window
  <2>2. Len(SubSeq(stream, sent + 1, sent + k)) = k /\ SubSeq(stream, sent + 1, sent + k) \in Seq(Tokens)
    <3>1. \A i \in (sent + 1)..(sent + k) : stream[i] \in Tokens
      BY <1>1, <2>1
    <3>2. Len(SubSeq(stream, sent + 1, sent + k)) = k
      BY <1>1, <2>1
    <3> QED
      BY <2>1, <3>1, <3>2, SubSeqProperties
  <2>3. Len(buf') = Len(buf) + k
    BY <1>1, <2>1, <2>2, ConcatProperties
  <2>4. Taken' = Taken
    <3>1. k \in Nat /\ sent' = sent + k
      BY <1>1, <2>1
    <3> QED
      BY <2>1, <2>3, <3>1 DEF Taken
  <2> QED
    BY <1>1, <1>3, <2>4 DEF DonePassed
<1> QED
  BY <1>1, <1>2, <1>3, QuietAdapter

\* What a block that is sent, the first m tokens of the buffer, does.
LEMMA SendAdapter ==
  ASSUME IInv, StreamInv, AdapterInv, pc = "process", NEW m \in 0..Len(buf),
         NEW b, b = SubSeq(buf, 1, m) \/ b = buf, b \in Seq(Tokens), SendBlock(b)
  PROVE  /\ Tells(events', translator')
         /\ translator'.doneEmitted =>
              messages /\ Sealed(frames', seqNum') /\ (translator.doneEmitted \/ IsDone(b))
<1> USE IInvParts
<1>1. Pumping
  BY DEF AdapterInv, Pumping
<1>2. CASE messages
  <2>1. TranslateBlock(b)
    BY <1>2 DEF SendBlock
  <2>2. ASSUME translator.doneEmitted PROVE DataLines(b) = {} /\ Sealed(frames, seqNum)
    <3>1. DonePassed /\ Sealed(frames, seqNum)
      BY <1>1, <2>2 DEF AdapterInv
    <3>2. DataLines(SubSeq(buf, 1, m)) = {} /\ DataLines(buf) = {}
      BY <1>1, <3>1, QuietBehindDone DEF StreamInv
    <3> QED
      BY <3>1, <3>2
  <2> QED
    BY <1>2, <2>1, <2>2, BlockTells DEF AdapterInv
<1>3. CASE ~messages
  <2>1. UNCHANGED <<translator, events>> /\ ~translator.doneEmitted
    BY <1>3 DEF SendBlock, AdapterInv
  <2> QED
    BY <2>1 DEF AdapterInv
<1> QED
  BY <1>2, <1>3 DEF ReplyOK

LEMMA TakeAdapter ==
  ASSUME IInv, StreamInv, AdapterInv, TakeBlock
  PROVE  AdapterInv'
<1> USE IInvParts
<1>1. PICK i \in 1..Len(buf), k \in {2, 4} :
        /\ FirstDelimiter(buf, i, k)
        /\ SendBlock(SubSeq(buf, 1, i - 1))
        /\ buf' = SubSeq(buf, i + k, Len(buf))
  BY DEF TakeBlock
<1>2. pc = "process" /\ pc' = "process" /\ UNCHANGED <<messages, isStreaming, stream, sent>>
  BY DEF TakeBlock, replyVars
<1>3. isStreaming /\ Pumping /\ Pumping'
  BY <1>2 DEF AdapterInv, Pumping
<1>4. /\ Window(stream, Taken, buf) /\ Taken + Len(buf) = sent /\ Taken \in Nat
      /\ sent \in Nat /\ Len(stream) \in Nat /\ Len(buf) \in Nat /\ sent <= Len(stream)
  BY <1>3, TailIsWindow DEF StreamInv
<1>5. buf \in Seq(Tokens) /\ i \in Nat /\ k \in Nat
  BY <1>4 DEF Window
<1>6. i + k - 1 <= Len(buf)
  BY <1>1, <1>5 DEF FirstDelimiter, DelimiterAt
<1>7. i - 1 \in 0..Len(buf)
  BY <1>5
<1> DEFINE b == SubSeq(buf, 1, i - 1)
<1>8. b \in Seq(Tokens) /\ Len(b) = i - 1 /\ \A j \in 1..(i - 1) : b[j] = buf[j]
  BY <1>5, <1>7, PrefixFacts
<1>9. /\ Tells(events', translator')
      /\ translator'.doneEmitted =>
           messages /\ Sealed(frames', seqNum') /\ (translator.doneEmitted \/ IsDone(b))
  <2>1. b = SubSeq(buf, 1, i - 1) /\ SendBlock(b)
    BY <1>1
  <2> HIDE DEF b
  <2> QED
    BY <1>2, <1>7, <1>8, <2>1, SendAdapter
<1> HIDE DEF b
<1>10. Taken' = Taken + (i + k - 1)
  <2>1. Len(buf') = Len(buf) - (i + k - 1)
    BY <1>1, <1>4, <1>5, <1>6
  <2> QED
    BY <1>2, <1>4, <1>5, <2>1 DEF Taken
<1>11. translator'.doneEmitted => DonePassed'
  <2>1. CASE translator.doneEmitted
    <3>1. PICK z \in 1..Taken : stream[z] = "Z"
      BY <1>3, <2>1 DEF AdapterInv, DonePassed
    <3>2. z \in 1..Taken'
      BY <1>4, <1>5, <1>10
    <3> QED
      BY <1>2, <3>1, <3>2 DEF DonePassed
  <2>2. CASE IsDone(b)
    <3>1. PICK j \in 1..Len(b) : b[j] = "Z"
      BY <2>2 DEF IsDone, DataLines
    <3>2. j \in 1..Len(buf) /\ b[j] = buf[j] /\ Taken + j \in 1..Taken'
      <4>1. j \in Nat /\ j >= 1 /\ j <= i - 1 /\ b[j] = buf[j]
        BY <1>5, <1>8
      <4>2. i - 1 <= Len(buf) /\ Len(buf) \in Nat /\ Taken \in Nat
        BY <1>4, <1>7
      <4> QED
        BY <1>5, <1>10, <4>1, <4>2
    <3>3. stream[Taken + j] = "Z"
      BY <1>4, <3>1, <3>2 DEF Window
    <3> QED
      BY <1>2, <3>2, <3>3 DEF DonePassed
  <2> QED
    BY <1>9, <2>1, <2>2
<1> QED
  BY <1>2, <1>3, <1>9, <1>11 DEF AdapterInv

LEMMA DrainAdapter ==
  ASSUME IInv, StreamInv, AdapterInv, DrainRest
  PROVE  AdapterInv'
<1> USE IInvParts
<1>1. /\ pc = "process" /\ pc' = (IF messages THEN "close" ELSE "erase")
      /\ UNCHANGED <<messages, isStreaming, stream>>
  BY DEF DrainRest, replyVars
<1>2. isStreaming /\ ~Pumping'
  BY <1>1 DEF AdapterInv, Pumping
<1>3. /\ Tells(events', translator')
      /\ translator'.doneEmitted => messages /\ Sealed(frames', seqNum')
  <2>1. CASE buf = <<>>
    <3>1. UNCHANGED <<seqNum, frames, translator, events>>
      BY <2>1 DEF DrainRest
    <3> QED
      BY <3>1 DEF AdapterInv
  <2>2. CASE buf # <<>>
    <3>1. SendBlock(buf) /\ buf \in Seq(Tokens)
      BY <2>2 DEF DrainRest, ReplyOK
    <3>2. 0 \in 0..Len(buf)
      BY <3>1
    <3> QED
      BY <1>1, <3>1, <3>2, SendAdapter
  <2> QED
    BY <2>1, <2>2
<1> QED
  BY <1>1, <1>2, <1>3 DEF AdapterInv

LEMMA FlushAdapter ==
  ASSUME IInv, StreamInv, AdapterInv, ForceFlush
  PROVE  AdapterInv'
<1>1. ~messages /\ pc' = "body" /\ UNCHANGED <<messages, isStreaming, translator, events>>
  BY DEF ForceFlush
<1>2. ~translator.doneEmitted
  BY <1>1 DEF AdapterInv
<1> QED
  BY <1>1, <1>2 DEF AdapterInv

LEMMA FinishAdapter ==
  ASSUME IInv, StreamInv, AdapterInv, FinishReply
  PROVE  AdapterInv'
<1>1. CASE FinishStream
  <2>1. /\ pc = "finish" /\ pc' = "process" /\ isStreaming
        /\ UNCHANGED <<messages, isStreaming, stream, sent, buf, seqNum, frames, translator, events>>
    BY <1>1 DEF FinishStream, sessionVars, replyVars, historyVars
  <2>2. Pumping /\ DonePassed' = DonePassed
    BY <2>1 DEF Pumping, DonePassed, Taken
  <2> QED
    BY <2>1, <2>2, QuietAdapter
<1>2. CASE CloseStream
  <2>1. pc = "close" /\ pc' = "erase" /\ UNCHANGED <<messages, isStreaming>>
    BY <1>2 DEF CloseStream
  <2>2. messages /\ isStreaming /\ ~Pumping'
    BY <2>1 DEF StreamInv, AdapterInv, Pumping
  <2>3. EncryptEvents(TranslateDone(translator), TRUE)
    BY <1>2 DEF CloseStream
  <2>4. Tells(events', translator') /\ translator'.doneEmitted /\ Sealed(frames', seqNum')
    BY <2>3, IInvParts, DoneTells DEF AdapterInv
  <2> QED
    BY <2>1, <2>2, <2>4 DEF AdapterInv
<1>4. CASE EraseSession
  <2>1. /\ pc = "erase" /\ pc' = "done"
        /\ UNCHANGED <<messages, isStreaming, stream, seqNum, frames, translator, events>>
    BY <1>4 DEF EraseSession, replyVars, writerVars, historyVars
  <2>2. ~Pumping'
    BY <2>1 DEF Pumping
  <2> QED
    BY <2>1, <2>2, QuietAdapter
<1>3. CASE FinishBody \/ ConversionPanics
  <2>1. /\ pc' \in {"erase", "panicked"} /\ ~isStreaming
        /\ UNCHANGED <<messages, isStreaming, translator, events>>
    BY <1>3 DEF FinishBody, ConversionPanics, writerVars, historyVars
  <2>2. ~translator.doneEmitted
    BY <2>1 DEF AdapterInv
  <2> QED
    BY <2>1, <2>2 DEF AdapterInv
<1> QED
  BY <1>1, <1>2, <1>3, <1>4 DEF FinishReply

LEMMA NextAdapter ==
  ASSUME IInv, StreamInv, AdapterInv, [Next]_vars
  PROVE  AdapterInv'
<1>1. CASE Handle
  BY <1>1, HandleAdapter
<1>2. CASE Proxy
  <2>1. CASE \E k \in 1..Len(stream) : WriteBody(k)
    BY <2>1, WriteAdapter
  <2>2. CASE BodyEnds
    <3>1. /\ pc = "body" /\ pc' = "finish"
          /\ UNCHANGED <<messages, isStreaming, stream, sent, buf, seqNum, frames, translator, events>>
      BY <2>2 DEF BodyEnds, sessionVars, replyVars, writerVars, historyVars
    <3>2. Pumping' = Pumping /\ DonePassed' = DonePassed
      BY <3>1 DEF Pumping, DonePassed, Taken
    <3> QED
      BY <3>1, <3>2, QuietAdapter
  <2>3. CASE Flush
    <3>1. /\ pc = "body" /\ pc' = (IF isStreaming THEN "process" ELSE "body")
          /\ UNCHANGED <<messages, isStreaming, stream, sent, buf, seqNum, frames, translator, events>>
      BY <2>3 DEF Flush, sessionVars, replyVars, historyVars
    <3>2. Pumping' = Pumping /\ DonePassed' = DonePassed
      BY <3>1 DEF Pumping, DonePassed, Taken
    <3> QED
      BY <3>1, <3>2, QuietAdapter
  <2> QED
    BY <1>2, <2>1, <2>2, <2>3, AnswerAdapter DEF Proxy
<1>3. CASE Process
  <2>1. CASE WaitForMore
    <3>1. /\ pc = "process" /\ pc' = "body"
          /\ UNCHANGED <<messages, isStreaming, stream, sent, buf, seqNum, frames, translator, events>>
      BY <2>1 DEF WaitForMore, sessionVars, replyVars, writerVars, historyVars
    <3>2. Pumping' = Pumping /\ DonePassed' = DonePassed
      BY <3>1 DEF Pumping, DonePassed, Taken
    <3> QED
      BY <3>1, <3>2, QuietAdapter
  <2> QED
    BY <1>3, <2>1, TakeAdapter, FlushAdapter, DrainAdapter DEF Process
<1>4. CASE FinishReply
  BY <1>4, FinishAdapter
<1>5. CASE UNCHANGED vars
  <2>1. UNCHANGED <<pc, messages, isStreaming, stream, sent, buf, seqNum, frames, translator, events>>
    BY <1>5 DEF vars, sessionVars, replyVars, writerVars, historyVars
  <2>2. Pumping' = Pumping /\ DonePassed' = DonePassed
    BY <2>1 DEF Pumping, DonePassed, Taken
  <2>3. pc' \in {"process", "close"} => isStreaming
    BY <2>1 DEF AdapterInv
  <2> QED
    BY <2>1, <2>2, <2>3, QuietAdapter
<1> QED
  BY <1>1, <1>2, <1>3, <1>4, <1>5 DEF Next

\* The events of a Messages stream nest and end with message_stop and an end frame.
THEOREM MessagesWellFormed == Spec => []MessagesStreamIsWellFormed
<1>1. Init => IInv /\ StreamInv /\ AdapterInv
  BY InitIInv, InitStream, InitAdapter
<1>2. IInv /\ StreamInv /\ AdapterInv /\ [Next]_vars => IInv' /\ StreamInv' /\ AdapterInv'
  BY NextStream, NextAdapter, HandleIInv, ProxyIInv, ProcessIInv, FinishIInv, StutterIInv DEF Next
<1>3. IInv /\ StreamInv /\ AdapterInv => MessagesStreamIsWellFormed
  <2>1. SUFFICES ASSUME IInv, AdapterInv PROVE EventsAreNested /\ MessagesStreamIsClosed
    BY DEF MessagesStreamIsWellFormed
  <2>2. events \in Seq(Events) /\ translator.doneEmitted \in BOOLEAN
    BY <2>1, IInvParts DEF AdapterOK, States
  <2>3. Nested(events)
    BY <2>1 DEF AdapterInv, Tells, Over, Ongoing
  <2>4. EventsAreNested
    <3>1. DOMAIN events = 1..Len(events)
      BY <2>2
    <3>2. \A type, i : Count(type, i) = CountIn(events, type, i)
      BY DEF Count, CountIn
    <3> QED
      BY <2>3, <3>1, <3>2 DEF EventsAreNested, Nested, InPlace
  <2>5. MessagesStreamIsClosed
    BY <2>1 DEF AdapterInv, Tells, Over, Sealed, MessagesStreamIsClosed
  <2> QED
    BY <2>4, <2>5
<1> QED
  BY <1>1, <1>2, <1>3, PTL DEF Spec

=============================================================================
