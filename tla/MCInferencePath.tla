--------------------------- MODULE MCInferencePath ---------------------------
(* Model checking of InferencePath.                                          *)
EXTENDS InferencePath, TLC

\* Streams of LF and of CRLF servers: data, comments, a block of two lines, a line in
\* two parts, with and without [DONE], and an empty one.
LF   == <<"n", "n">>
CRLF == <<"r", "n", "r", "n">>

SomeStreams ==
  { <<>>,
    <<"D">> \o LF \o <<"D", "n", "D">> \o LF \o <<"D">> \o LF \o <<"D">> \o LF \o <<"D">> \o LF \o <<"Z">> \o LF,
    <<"X">> \o LF \o <<"D", "X">> \o LF \o <<"Z">>,
    <<"D">> \o CRLF \o <<"X", "r", "n", "D">> \o CRLF \o <<"Z">> \o CRLF,
    <<"D">> \o CRLF \o LF \o <<"n", "D">> \o LF \o <<"D", "X">> }

Chunk(reasoning, content, tools) ==
  [json |-> TRUE, delta |-> TRUE, reasoning |-> reasoning, content |-> content, tools |-> tools]

SomeReplies ==
  { [Chunk(FALSE, <<>>, <<>>) EXCEPT !.json = FALSE],
    [Chunk(FALSE, <<>>, <<>>) EXCEPT !.delta = FALSE],
    Chunk(TRUE, <<"text">>, <<>>),
    Chunk(FALSE, <<"text">>, <<>>),
    Chunk(FALSE, <<"<think>">>, <<>>),
    Chunk(FALSE, <<"text", "</think>", "text">>, <<>>),
    Chunk(FALSE, <<"<think>", "text", "</think>">>, <<"args">>),
    Chunk(FALSE, <<>>, <<"none", "name", "args", "args">>) }

==============================================================================
