------------------------------ MODULE MCHttpResponse -----------------------------
(***************************************************************************)
(* Every head with a body that looks like a head, and one head with every  *)
(* body: up to two chunks, one with CRLF and a last-chunk line in its      *)
(* data, sizes of one, two and three digits; and every chunked body of at  *)
(* most five characters out of five.  Three digits do not fit into size_t. *)
(***************************************************************************)
EXTENDS HttpResponse

Code(a, b, c) == <<Http, Version, Space, 48 + a, 48 + b, 48 + c>>

Starts ==
  {Code(2, 0, 0) \o <<Space, Text>>, Code(4, 0, 4), Code(2, 0, 0) \o <<48>>,
   <<Http, Version, Space, 50, 48, Text>>, <<Http, Version, Space, Space>>,
   <<Http, Version, Text, Space>>, <<Text, Version, Space, 50, 48, 48, Space, Text>>}

Header(name, value) == [name |-> name, value |-> value]

Headers ==
  {Header(Encoding, <<Space, Coded>>), Header(Encoding, <<Text>>), Header(Text, <<Coded>>)}

HeaderLists == {<<>>} \cup {<<h>> : h \in Headers} \cup (Headers \X Headers)

Tricky   == <<48, CR, LF, CR, LF>>
Long     == [k \in 1 .. 17 |-> 48]
HeadLike == <<CR, LF, Encoding, Colon, Coded, CR, LF, CR, LF>>

AllBodies ==
  [chunks : {<<>>, <<<<120>>>>, <<Tricky>>, <<<<49>>, Tricky>>, <<Long>>}, zeros : {0, 2},
   extension : {<<>>, <<Space, Semicolon, 120>>}, trailer : {<<>>, <<120, Colon, CR, LF>>}]

AllResponses ==
  [start : {Code(2, 0, 0)}, headers : {<<Header(Encoding, <<Space, Coded>>)>>}, body : AllBodies]
    \cup
  [start : Starts, headers : HeaderLists,
   body : {[NoBody EXCEPT !.chunks = <<c>>] :
             c \in {<<52, 48, 52, Space, Text>>, HeadLike, SubSeq(HeadLike, 3, 7)}}]

\* The client's output has one byte more than the body.
Spares == {-25, -9, -4, 0, 1}

ShortInputs == UNION {[1 .. n -> {CR, LF, 48, 49, Semicolon}] : n \in 0 .. 5}
=================================================================================
