---------------------------- MODULE ServerSession ---------------------------
(***************************************************************************)
(* A session of the server: ntripsrv_readcb, ntripsrv_writecb and          *)
(* ntripsrv_eventcb of caster/ntripsrv.c, the decoder of HTTP chunks of    *)
(* caster/ntrip_common.c, and the requests of caster/adm.c whose answer is *)
(* computed by a job.                                                      *)
(*                                                                         *)
(* The input is a sequence of tokens (request line, end of the headers,    *)
(* byte of content, chunk header, chunk trailer), which arrive one by one: *)
(* a read callback finds any number of them.  A callback holds the lock of *)
(* the session; it is a sequence of steps here, and pc is the next one.    *)
(***************************************************************************)
EXTENDS Integers, Sequences, SequencesExt

CONSTANTS Modes,       \* values of the option -t (threads)
          Requests,    \* requests that the client may send
          Pipelining,  \* the client sends requests before it is answered
          MaxRequests  \* bound: requests of the client

ASSUME ModeAssumption == Modes \subseteq BOOLEAN /\ Pipelining \in BOOLEAN
ASSUME BoundAssumption == MaxRequests \in Nat

VARIABLES
  threads,      \* with option -t, jobs are queued
  asked,        \* the requests of the client
  wire, closed, \* tokens on their way from the client; it closed the connection
  raw,          \* input of the connection (filter.raw_input)
  chunk_buf,    \* decoded input
  readable,     \* the read callback is to run
  output,       \* replies are not written yet
  writable,     \* the write callback is to run (with threads)
  state,        \* state of the session
  pc, ret,      \* next step of ntripsrv_readcb, and where the decoder returns to
  err,          \* err of ntripsrv_readcb
  request,      \* the number of the current request
  connection_keepalive, received_keepalive,
  timeout,      \* a read timeout is set
  content,      \* st->content
  chunk_state, chunk_len, in_filter, len_done,  \* the decoder
  own_livesource,
  deferred,     \* queued jobs, each with the number of its request
  replies,      \* what was replied: number of the request, Connection header
  calls,        \* administration requests executed, with their content
  delivered     \* what a source sent, as given to rtcm_packet_handle

clientVars == <<asked, wire, closed>>
inputVars == <<raw, chunk_buf, chunk_state, chunk_len, in_filter, len_done>>
outputVars == <<output, replies>>
adminVars == <<deferred, calls>>
loopVars == <<pc, ret, err>>
keepVars == <<connection_keepalive, received_keepalive>>
requestVars == <<request, keepVars, content>>
streamVars == <<own_livesource, delivered>>
vars == <<threads, clientVars, inputVars, readable, outputVars, writable, state,
          loopVars, requestVars, timeout, streamVars, adminVars>>

NoRequest == [kind |-> "none", keepalive |-> FALSE, length |-> 0, chunked |-> FALSE,
              body |-> <<>>]

Init ==
  /\ threads \in Modes
  /\ asked = <<>> /\ wire = <<>> /\ closed = FALSE
  /\ raw = <<>> /\ chunk_buf = <<>> /\ readable = FALSE
  /\ output = FALSE /\ writable = FALSE
  /\ state = "WAIT_HTTP_METHOD" /\ pc = "idle" /\ ret = "check" /\ err = 0
  /\ request = 0 /\ connection_keepalive = TRUE /\ received_keepalive = FALSE
  /\ timeout = TRUE /\ content = <<>>
  /\ chunk_state = "NONE" /\ chunk_len = 0 /\ in_filter = FALSE /\ len_done = FALSE
  /\ own_livesource = FALSE
  /\ deferred = <<>> /\ replies = <<>> /\ calls = <<>> /\ delivered = <<>>

\* The current request
Req == IF request = 0 THEN NoRequest ELSE asked[request]

\* received_keepalive and connection_keepalive, as send_server_reply tests them
KeepAlive == connection_keepalive /\ received_keepalive

----------------------------------------------------------------------------
(* The client                                                              *)

\* Tokens of a request: its line, the end of its headers, its content, and for
\* a source or a rover the stream that follows.
Tokens(n, r) ==
  <<[type |-> "method", req |-> n, arg |-> 0], [type |-> "end", req |-> n, arg |-> 0]>>
    \o [i \in 1..r.length |-> [type |-> "byte", req |-> n, arg |-> i]]
    \o [i \in DOMAIN r.body |-> [type |-> r.body[i][1], req |-> n, arg |-> r.body[i][2]]]

\* The client sends a request, when the last one was answered and the answer
\* says that the connection is kept.
Ask(r) ==
  /\ ~closed /\ Len(asked) < MaxRequests
  /\ (asked # <<>> /\ ~Pipelining) =>
       (Len(replies) = Len(asked) /\ Last(replies).keepalive)
  /\ asked' = Append(asked, r)
  /\ wire' = wire \o Tokens(Len(asked'), r)
  /\ UNCHANGED <<threads, closed, inputVars, readable, outputVars, writable, state,
                 loopVars, requestVars, timeout, streamVars, adminVars>>

CloseByClient ==
  /\ ~closed
  /\ closed' = TRUE
  /\ UNCHANGED <<threads, asked, wire, inputVars, readable, outputVars, writable, state,
                 loopVars, requestVars, timeout, streamVars, adminVars>>

\* libevent reads what arrived, and the read callback is to run.
Arrive ==
  /\ wire # <<>> /\ pc = "idle" /\ state # "END"
  /\ wire' = Tail(wire)
  /\ raw' = Append(raw, Head(wire))
  /\ readable' = TRUE
  /\ UNCHANGED <<threads, asked, closed, chunk_buf, chunk_state, chunk_len, in_filter,
                 len_done, outputVars, writable, state, loopVars, requestVars, timeout,
                 streamVars, adminVars>>

----------------------------------------------------------------------------
(* Helpers of the callbacks                                                *)

\* send_server_reply to request n
Reply(n) ==
  /\ replies' = Append(replies, [req |-> n, keepalive |-> KeepAlive])
  /\ output' = TRUE

\* ntrip_decref_end: the session is over, and so is its source.
End ==
  /\ state' = "END"
  /\ own_livesource' = FALSE
  /\ pc' = "idle"

\* Mutant: only a session that waits for a request is answered.
DeferredOutputMutant(n) ==
  IF state = "WAIT_HTTP_METHOD"
    THEN /\ Reply(n)
         /\ state' = IF KeepAlive THEN "WAIT_HTTP_METHOD" ELSE "WAIT_CLOSE"
    ELSE UNCHANGED <<outputVars, state>>

\* ntripsrv_deferred_output for request n
DeferredOutput(n) ==
  IF state # "END"
    THEN /\ Reply(n)
         /\ state' = IF KeepAlive THEN "WAIT_HTTP_METHOD" ELSE "WAIT_CLOSE"
    ELSE UNCHANGED <<outputVars, state>>

\* joblist_append_ntrip_unlocked_content: without threads the job runs at once.
AppendContent ==
  IF threads
    THEN deferred' = Append(deferred, request) /\ UNCHANGED <<outputVars, state>>
    ELSE DeferredOutput(request) /\ UNCHANGED deferred

Executed == calls' = Append(calls, [req |-> request, content |-> content])

----------------------------------------------------------------------------
(* ntrip_chunk_decode: one step for each token.                            *)

DecoderFrame ==
  UNCHANGED <<threads, clientVars, readable, outputVars, writable, request,
              keepVars, content, timeout, delivered, adminVars>>

\* BEV_OK, or BEV_NEED_MORE, after which ntripsrv_readcb returns; the call of
\* ntrip_chunk_decode_init does not look at the result.
Decoded(ok) == pc' = IF ok \/ ret = "serve" THEN ret ELSE "idle"

\* BEV_ERROR: the session ends, except in ntrip_chunk_decode_init.
DecodeError ==
  IF ret = "serve"
    THEN state' = "FORCE_CLOSE" /\ pc' = "serve" /\ UNCHANGED own_livesource
    ELSE End

\* No more input
DecodeAll ==
  /\ pc = "filter" /\ raw = <<>>
  /\ Decoded(len_done)
  /\ UNCHANGED <<inputVars, state, ret, err, own_livesource>>
  /\ DecoderFrame

\* Mutant: a chunk is one byte longer.
DecodeLengthMutant ==
  /\ pc = "filter" /\ raw # <<>> /\ chunk_state = "WAIT_LEN"
  /\ raw' = Tail(raw)
  /\ \/ /\ Head(raw).type = "len"
        /\ chunk_state' = "IN_PROGRESS" /\ chunk_len' = Head(raw).arg + 1
        /\ UNCHANGED <<pc, state, own_livesource>>
     \/ /\ Head(raw).type = "last"
        /\ chunk_state' = "LAST" /\ chunk_len' = 0
        /\ UNCHANGED <<pc, state, own_livesource>>
     \/ /\ Head(raw).type \notin {"len", "last"}
        /\ chunk_state' = "ERR"
        /\ IF len_done THEN Decoded(TRUE) /\ UNCHANGED <<state, own_livesource>>
                       ELSE DecodeError
        /\ UNCHANGED chunk_len
  /\ UNCHANGED <<chunk_buf, in_filter, len_done, ret, err>>
  /\ DecoderFrame

\* The header of a chunk
DecodeLength ==
  /\ pc = "filter" /\ raw # <<>> /\ chunk_state = "WAIT_LEN"
  /\ raw' = Tail(raw)
  /\ \/ /\ Head(raw).type = "len"
        /\ chunk_state' = "IN_PROGRESS" /\ chunk_len' = Head(raw).arg
        /\ UNCHANGED <<pc, state, own_livesource>>
     \/ /\ Head(raw).type = "last"
        /\ chunk_state' = "LAST" /\ chunk_len' = 0
        /\ UNCHANGED <<pc, state, own_livesource>>
     \/ /\ Head(raw).type \notin {"len", "last"}
        /\ chunk_state' = "ERR"
        /\ IF len_done THEN Decoded(TRUE) /\ UNCHANGED <<state, own_livesource>>
                       ELSE DecodeError
        /\ UNCHANGED chunk_len
  /\ UNCHANGED <<chunk_buf, in_filter, len_done, ret, err>>
  /\ DecoderFrame

\* Input after a wrong header
DecodeAfterError ==
  /\ pc = "filter" /\ raw # <<>> /\ chunk_state = "ERR"
  /\ DecodeError
  /\ UNCHANGED <<inputVars, ret, err>>
  /\ DecoderFrame

\* Content of a chunk
DecodeByte ==
  /\ pc = "filter" /\ raw # <<>> /\ chunk_state = "IN_PROGRESS"
  /\ raw' = Tail(raw)
  /\ chunk_buf' = Append(chunk_buf, Head(raw))
  /\ chunk_len' = chunk_len - 1
  /\ chunk_state' = IF chunk_len' = 0 THEN "WAITING_TRAILER" ELSE "IN_PROGRESS"
  /\ len_done' = TRUE
  /\ UNCHANGED <<in_filter, state, loopVars, own_livesource>>
  /\ DecoderFrame

\* The end of a chunk.  After the last one the decoder is removed, and its
\* buffer freed.
DecodeTrailer ==
  /\ pc = "filter" /\ raw # <<>> /\ chunk_state \in {"WAITING_TRAILER", "LAST"}
  /\ raw' = Tail(raw)
  /\ IF chunk_state = "LAST"
       THEN /\ chunk_state' = "END" /\ in_filter' = FALSE /\ chunk_buf' = <<>>
            /\ Decoded(TRUE)
       ELSE /\ chunk_state' = "WAIT_LEN"
            /\ UNCHANGED <<in_filter, chunk_buf, pc>>
  /\ UNCHANGED <<chunk_len, len_done, state, ret, err, own_livesource>>
  /\ DecoderFrame

Decode ==
  DecodeAll \/ DecodeLength \/ DecodeAfterError \/ DecodeByte \/ DecodeTrailer

----------------------------------------------------------------------------
(* ntripsrv_readcb                                                         *)

\* ntrip_filter_run_input, if there is a decoder
Read ==
  /\ readable /\ pc = "idle" /\ state # "END"
  /\ readable' = FALSE
  /\ pc' = IF in_filter THEN "filter" ELSE "check"
  /\ ret' = "check"
  /\ len_done' = FALSE
  /\ err' = 0
  /\ UNCHANGED <<threads, clientVars, raw, chunk_buf, chunk_state, chunk_len, in_filter,
                 outputVars, writable, state, requestVars, timeout, streamVars, adminVars>>

\* st->input
Input == IF in_filter THEN chunk_buf ELSE raw

\* n tokens are taken out of st->input.
Consume(n) ==
  /\ IF in_filter
       THEN chunk_buf' = SubSeq(chunk_buf, n + 1, Len(chunk_buf)) /\ UNCHANGED raw
       ELSE raw' = SubSeq(raw, n + 1, Len(raw)) /\ UNCHANGED chunk_buf
  /\ UNCHANGED <<chunk_len, len_done>>

\* After the last chunk there is nothing more to read.
Check ==
  /\ pc = "check"
  /\ IF chunk_state = "END" /\ Input = <<>>
       THEN state' = "FORCE_CLOSE" /\ err' = 1 /\ pc' = "return"
       ELSE pc' = "loop" /\ UNCHANGED <<state, err>>
  /\ UNCHANGED <<threads, clientVars, inputVars, readable, outputVars, writable, ret,
                 requestVars, timeout, streamVars, adminVars>>

\* The condition of the loop, in state s.  FORCE_CLOSE is never found there:
\* ntrip_chunk_decode_init may set it, and then another state is set.
Loop(s) == pc = "loop" /\ Input # <<>> /\ state = s

LoopEnd ==
  /\ pc = "loop"
  /\ Input = <<>> \/ state = "WAIT_CLOSE"
  /\ pc' = "return"
  /\ UNCHANGED <<threads, clientVars, inputVars, readable, outputVars, writable, state,
                 ret, err, requestVars, timeout, streamVars, adminVars>>

\* The loop is left with an error code.
Fail(e) == err' = e /\ pc' = "return"

\* evbuffer_readln, for a line that begins with content nobody read: the
\* content may have an end of line; if not, it is part of the next line, or of
\* no line yet.  NoLine, or the tokens of the line.
Content(tokens) == \A i \in DOMAIN tokens : tokens[i].type = "byte"
NoLine == 0
Lines ==
  IF Head(Input).type # "byte" THEN {1}
  ELSE {1} \cup IF Content(Input) THEN {NoLine}
               ELSE {n \in DOMAIN Input : Content(Front(SubSeq(Input, 1, n))) /\ Input[n].type # "byte"}

\* ntrip_clear_request: everything about the last request is forgotten.  Its
\* chunk_buf is freed; when the decoder still is in place, because its last
\* chunk was not read, st->input is then the freed buffer.
Dangling == in_filter

\* The line of a request
ReadMethod ==
  /\ Loop("WAIT_HTTP_METHOD") /\ ~Dangling
  /\ content' = <<>> /\ chunk_state' = "NONE" /\ received_keepalive' = FALSE
  /\ \E n \in Lines :
       IF n = NoLine
         THEN pc' = "return" /\ UNCHANGED <<raw, chunk_buf, chunk_len, len_done, request, state, err>>
         ELSE /\ Consume(n)
              /\ request' = Input[n].req
              /\ IF Head(Input).type = "method" /\ asked[request'].kind # "bad"
                   THEN state' = "WAIT_HTTP_HEADER" /\ UNCHANGED <<pc, err>>
                   ELSE Fail(400) /\ UNCHANGED state
  /\ UNCHANGED <<threads, clientVars, in_filter, readable, outputVars, writable, ret,
                 connection_keepalive, timeout, streamVars, adminVars>>

\* The next line is read from the freed buffer: nothing is known after that.
ReadDangling ==
  /\ Loop("WAIT_HTTP_METHOD") /\ Dangling
  /\ pc' = "undefined"
  /\ UNCHANGED <<threads, clientVars, inputVars, readable, outputVars, writable, state, ret, err,
                 requestVars, timeout, streamVars, adminVars>>

\* The end of the headers; what is not a header is an error.
ReadHeader ==
  /\ Loop("WAIT_HTTP_HEADER")
  /\ \E n \in Lines :
       CASE n = NoLine ->
              pc' = "return" /\ UNCHANGED <<inputVars, ret, err, received_keepalive>>
         [] n # NoLine /\ Head(Input).type # "end" ->
              /\ Consume(n) /\ Fail(400)
              /\ UNCHANGED <<chunk_state, in_filter, ret, received_keepalive>>
         [] OTHER ->
              /\ received_keepalive' = Req.keepalive
              /\ raw' = Tail(raw) /\ len_done' = FALSE
              /\ UNCHANGED <<chunk_buf, chunk_len, err>>
              /\ IF Req.chunked
                   THEN /\ in_filter' = TRUE /\ chunk_state' = "WAIT_LEN"
                        /\ ret' = "serve" /\ pc' = "filter"
                   ELSE pc' = "serve" /\ UNCHANGED <<chunk_state, in_filter, ret>>
  /\ UNCHANGED <<threads, clientVars, readable, outputVars, writable, state, request,
                 connection_keepalive, content, timeout, streamVars, adminVars>>

ServeFrame ==
  UNCHANGED <<threads, clientVars, inputVars, readable, writable, ret, request, content,
              received_keepalive, delivered>>

\* Any request may be refused: authentication, unknown mountpoint, no memory.
Refuse ==
  /\ pc = "serve"
  /\ Fail(401)
  /\ connection_keepalive' \in
       IF Req.kind \in {"client", "source"} THEN {connection_keepalive, FALSE}
                                            ELSE {connection_keepalive}
  /\ UNCHANGED <<outputVars, state, timeout, own_livesource, adminVars>>
  /\ ServeFrame

\* Mutant: the content of the request is not skipped.
ServeTableMutant ==
  /\ pc = "serve" /\ Req.kind = "table"
  /\ Reply(request)
  /\ IF KeepAlive
       THEN /\ state' = "WAIT_HTTP_METHOD"
            /\ pc' = "loop"
       ELSE state' = "WAIT_CLOSE" /\ pc' = "return"
  /\ UNCHANGED <<err, connection_keepalive, timeout, own_livesource, adminVars>>
  /\ ServeFrame

\* GET of the sourcetable
ServeTable ==
  /\ pc = "serve" /\ Req.kind = "table"
  /\ Reply(request)
  /\ IF KeepAlive
       THEN /\ state' = IF Req.length # 0 THEN "WAIT_CLIENT_CONTENT" ELSE "WAIT_HTTP_METHOD"
            /\ pc' = "loop"
       ELSE state' = "WAIT_CLOSE" /\ pc' = "return"
  /\ UNCHANGED <<err, connection_keepalive, timeout, own_livesource, adminVars>>
  /\ ServeFrame

\* GET of a file (filesrv, ui_serve)
ServeFile ==
  /\ pc = "serve" /\ Req.kind = "file"
  /\ Reply(request)
  /\ state' = "WAIT_CLOSE" /\ pc' = "return"
  /\ UNCHANGED <<err, connection_keepalive, timeout, own_livesource, adminVars>>
  /\ ServeFrame

\* GET of the administration interface (admsrv)
ServeApi ==
  /\ pc = "serve" /\ Req.kind = "api"
  /\ Executed
  /\ AppendContent
  /\ pc' = "return"
  /\ UNCHANGED <<err, connection_keepalive, timeout, own_livesource>>
  /\ ServeFrame

\* POST to the administration interface
ServePost ==
  /\ pc = "serve" /\ Req.kind \in {"form", "sync"}
  /\ IF Req.length = 0
       THEN pc' = "admin" /\ UNCHANGED <<state, timeout>>
       ELSE pc' = "loop" /\ state' = "WAIT_CLIENT_CONTENT" /\ timeout' = FALSE
  /\ UNCHANGED <<outputVars, err, connection_keepalive, own_livesource, adminVars>>
  /\ ServeFrame

\* GET of a mountpoint
ServeClient ==
  /\ pc = "serve" /\ Req.kind = "client"
  /\ connection_keepalive' = FALSE
  /\ replies' = Append(replies, [req |-> request, keepalive |-> FALSE]) /\ output' = TRUE
  /\ state' = "WAIT_CLIENT_INPUT" /\ pc' = "loop"
  /\ UNCHANGED <<err, timeout, own_livesource, adminVars>>
  /\ ServeFrame

\* POST or SOURCE of a mountpoint
ServeSource ==
  /\ pc = "serve" /\ Req.kind = "source"
  /\ connection_keepalive' = FALSE
  /\ own_livesource' = TRUE
  /\ replies' = Append(replies, [req |-> request, keepalive |-> FALSE]) /\ output' = TRUE
  /\ state' = "WAIT_STREAM_SOURCE" /\ pc' = "loop"
  /\ UNCHANGED <<err, timeout, adminVars>>
  /\ ServeFrame

Serve ==
  \/ Refuse \/ ServeTable \/ ServeFile \/ ServeApi \/ ServePost
  \/ ServeClient \/ ServeSource

\* Mutant: the request is executed with what arrived.
ReadContentMutant ==
  /\ Loop("WAIT_CLIENT_CONTENT")
  /\ LET missing == Req.length - Len(content)
         n == IF Len(Input) < missing THEN Len(Input) ELSE missing
     IN /\ Consume(n)
        /\ content' = content \o SubSeq(Input, 1, n)
        /\ IF n = 0 THEN UNCHANGED <<state, pc>>
           ELSE IF Req.kind \in {"form", "sync"} THEN pc' = "admin" /\ UNCHANGED state
           ELSE state' = "WAIT_HTTP_METHOD" /\ UNCHANGED pc
  /\ UNCHANGED <<threads, clientVars, chunk_state, in_filter, readable, outputVars,
                 writable, ret, err, request, keepVars, timeout, streamVars,
                 adminVars>>

\* Content of a request, as far as it arrived
ReadContent ==
  /\ Loop("WAIT_CLIENT_CONTENT")
  /\ LET missing == Req.length - Len(content)
         n == IF Len(Input) < missing THEN Len(Input) ELSE missing
     IN /\ Consume(n)
        /\ content' = content \o SubSeq(Input, 1, n)
        /\ IF n < missing THEN UNCHANGED <<state, pc>>
           ELSE IF Req.kind \in {"form", "sync"} THEN pc' = "admin" /\ UNCHANGED state
           ELSE state' = "WAIT_HTTP_METHOD" /\ UNCHANGED pc
  /\ UNCHANGED <<threads, clientVars, chunk_state, in_filter, readable, outputVars,
                 writable, ret, err, request, keepVars, timeout, streamVars,
                 adminVars>>

\* admsrv for a POST: the synchronisation of tables is done at once; other
\* requests are jobs.  It may refuse the request.
Admin ==
  /\ pc = "admin"
  /\ \/ err' = 401 /\ UNCHANGED <<outputVars, state, adminVars>>
     \/ /\ Executed
        /\ IF Req.kind = "sync" THEN DeferredOutput(request) /\ UNCHANGED deferred
                                ELSE AppendContent
        /\ UNCHANGED err
  /\ pc' = "admin_done"
  /\ UNCHANGED <<threads, clientVars, inputVars, readable, writable, ret, requestVars,
                 timeout, streamVars>>

\* After admsrv, the next request is waited for, unless it failed.
AdminDone ==
  /\ pc = "admin_done"
  /\ state' = "WAIT_HTTP_METHOD"
  /\ pc' = IF err = 0 THEN "loop" ELSE "return"
  /\ UNCHANGED <<threads, clientVars, inputVars, readable, outputVars, writable, ret, err,
                 requestVars, timeout, streamVars, adminVars>>

\* A line of a rover: a position
ReadClientInput ==
  /\ Loop("WAIT_CLIENT_INPUT")
  /\ Consume(1)
  /\ UNCHANGED <<threads, clientVars, chunk_state, in_filter, readable, outputVars,
                 writable, state, loopVars, requestVars, timeout, streamVars, adminVars>>

\* The stream of a source
ReadStream ==
  /\ Loop("WAIT_STREAM_SOURCE")
  /\ IF chunk_state = "END"
       THEN /\ state' = "FORCE_CLOSE" /\ Fail(1)
            /\ UNCHANGED <<delivered, raw, chunk_buf, chunk_len, len_done>>
       ELSE /\ delivered' = delivered \o Input
            /\ Consume(Len(Input))
            /\ pc' = "return" /\ UNCHANGED <<state, err>>
  /\ UNCHANGED <<threads, clientVars, chunk_state, in_filter, readable, outputVars,
                 writable, ret, requestVars, timeout, own_livesource, adminVars>>

\* The end of the callback: an error is replied, and the connection closed.
Return ==
  /\ pc = "return"
  /\ IF err >= 100 THEN Reply(request) ELSE UNCHANGED outputVars
  /\ IF err # 0
       THEN state' = "WAIT_CLOSE" /\ pc' = "idle" /\ UNCHANGED own_livesource
       ELSE IF state = "FORCE_CLOSE" THEN End
       ELSE pc' = "idle" /\ UNCHANGED <<state, own_livesource>>
  /\ err' = 0
  /\ UNCHANGED <<threads, clientVars, inputVars, readable, writable, ret, requestVars,
                 timeout, delivered, adminVars>>

----------------------------------------------------------------------------
(* Other callbacks and jobs                                                *)

\* A queued job computes an answer, takes the lock and sends it.
Deferred ==
  /\ deferred # <<>> /\ pc = "idle"
  /\ DeferredOutput(Head(deferred))
  /\ deferred' = Tail(deferred)
  /\ UNCHANGED <<threads, clientVars, inputVars, readable, writable, loopVars, requestVars,
                 timeout, streamVars, calls>>

\* Mutant: the session is closed only if it is to be closed at once.
WrittenMutant == IF state = "FORCE_CLOSE" THEN End ELSE UNCHANGED <<state, own_livesource, pc>>

\* ntripsrv_writecb, when the output is empty
Written == IF state = "WAIT_CLOSE" THEN End ELSE UNCHANGED <<state, own_livesource, pc>>

\* libevent writes the output; with threads the callback is a job.
Flush ==
  /\ output /\ pc = "idle" /\ state # "END"
  /\ output' = FALSE
  /\ IF threads
       THEN writable' = TRUE /\ UNCHANGED <<state, own_livesource, pc>>
       ELSE Written /\ UNCHANGED writable
  /\ UNCHANGED <<threads, clientVars, inputVars, readable, replies, ret, err, requestVars,
                 timeout, delivered, adminVars>>

WriteJob ==
  /\ writable /\ pc = "idle" /\ state # "END"
  /\ writable' = FALSE
  /\ IF output THEN UNCHANGED <<state, own_livesource, pc>> ELSE Written
  /\ UNCHANGED <<threads, clientVars, inputVars, readable, outputVars, ret, err, requestVars,
                 timeout, delivered, adminVars>>

\* ntripsrv_eventcb: end of file, or a read timeout
Event ==
  /\ pc = "idle" /\ state # "END" /\ ~readable
  /\ (closed /\ wire = <<>>) \/ timeout
  /\ End
  /\ UNCHANGED <<threads, clientVars, inputVars, readable, outputVars, writable, ret, err,
                 requestVars, timeout, delivered, adminVars>>

----------------------------------------------------------------------------
ReadStep ==
  \/ Read \/ Decode \/ Check \/ LoopEnd \/ ReadMethod \/ ReadDangling \/ ReadHeader \/ Serve
  \/ ReadContent \/ Admin \/ AdminDone \/ ReadClientInput \/ ReadStream
  \/ Return

Next ==
  \/ \E r \in Requests : Ask(r)
  \/ CloseByClient \/ Arrive
  \/ ReadStep
  \/ Deferred \/ Flush \/ WriteJob \/ Event

\* Callbacks and jobs run; the client need not do anything, and a timeout need
\* not happen.
Fairness ==
  /\ WF_vars(Arrive) /\ WF_vars(ReadStep)
  /\ WF_vars(Deferred) /\ WF_vars(Flush) /\ WF_vars(WriteJob)

Spec == Init /\ [][Next]_vars
FairSpec == Spec /\ Fairness
----------------------------------------------------------------------------
(* Properties.                                                             *)

\* Requests whose body the server leaves in its input: the content of a GET of
\* the administration interface (admsrv is called at the end of the headers,
\* and nothing skips it), and chunks, which only sources and rovers read.
LeavesBody(r) ==
  \/ r.kind = "api" /\ r.length # 0
  \/ r.chunked /\ r.kind \notin {"source", "client"}

\* None of the requests before the nth is one of them.
BodiesRead(n) == \A i \in DOMAIN asked : i < n => ~LeavesBody(asked[i])

\* A client that waits for the answer to its request before it sends another
\* gets one answer for each, in the order of the requests, until it sends one
\* whose body is left in the input: that body is then taken for a request.
RepliesInOrder ==
  \A i \in DOMAIN replies : BodiesRead(i) => replies[i].req = i

\* An administration request is executed with its own content, all of it, and
\* once, however the input was cut, if its content has a length: one in chunks
\* is executed without any.
ContentExact ==
  /\ \A i \in DOMAIN calls :
       /\ asked[calls[i].req].kind # "api" =>
            Len(calls[i].content) = asked[calls[i].req].length
       /\ \A k \in DOMAIN calls[i].content : calls[i].content[k].req = calls[i].req
  /\ \A i, j \in DOMAIN calls : i # j => calls[i].req # calls[j].req

\* What a source sends is given to rtcm_packet_handle in order, without gaps
\* and without what belongs to the encoding.
StreamInOrder ==
  \A i \in DOMAIN delivered : delivered[i].type = "byte" /\ delivered[i].arg = i

\* A request is answered, unless the session ends or is undefined, if the
\* bodies of the requests before it were read.
Answered ==
  \A n \in 1..MaxRequests :
    (Len(asked) >= n /\ BodiesRead(n)) ~>
      (state = "END" \/ pc = "undefined" \/ \E i \in DOMAIN replies : replies[i].req = n)

\* A session that waits for its last reply to be written is closed then, if no
\* job is queued for it: the output of a job sets the state again.
ClosedOnceWritten ==
  (state = "WAIT_CLOSE" /\ pc = "idle" /\ output /\ deferred = <<>>) ~> (state = "END")
=============================================================================
