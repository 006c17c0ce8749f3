-------------------------- MODULE MCServerSession ---------------------------
(* Instances of ServerSession for model checking.                          *)
EXTENDS ServerSession

\* A request without a stream
Plain(k, keep, n) == [kind |-> k, keepalive |-> keep, length |-> n, chunked |-> FALSE,
                      body |-> <<>>]
Stream(k, chunks, b) == [kind |-> k, keepalive |-> TRUE, length |-> 0, chunked |-> chunks,
                         body |-> b]

Chunks == <<<<"len", 1>>, <<"byte", 1>>, <<"trailer", 0>>,
            <<"len", 1>>, <<"byte", 2>>, <<"trailer", 0>>, <<"last", 0>>, <<"trailer", 0>>>>
BadChunks == <<<<"len", 1>>, <<"byte", 1>>, <<"trailer", 0>>, <<"badlen", 0>>, <<"byte", 2>>>>
Chunk == <<<<"len", 1>>, <<"byte", 1>>, <<"trailer", 0>>, <<"last", 0>>, <<"trailer", 0>>>>

AllRequests ==
  {Plain(k, TRUE, n) : k \in {"table", "form", "api"}, n \in {0, 2}}
  \cup {Plain(k, FALSE, 0) : k \in {"table", "api", "file", "bad"}}
  \cup {Stream("form", TRUE, Chunk)}
  \cup {Plain("sync", TRUE, 2), Plain("form", FALSE, 2)}
  \cup {Stream("client", FALSE, <<<<"gga", 0>>, <<"gga", 0>>>>),
        Stream("source", FALSE, <<<<"byte", 1>>, <<"byte", 2>>>>),
        Stream("source", TRUE, Chunks), Stream("source", TRUE, BadChunks)}
=============================================================================
