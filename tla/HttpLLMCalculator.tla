--------------------------- MODULE HttpLLMCalculator ---------------------------
(***************************************************************************)
(* HttpLLMCalculator of src/src/llm/http_llm_calculator.cc: one instance   *)
(* per request graph, driven by the MediaPipe scheduler, talking to the    *)
(* shared continuous-batching engine through a GenerationHandle.           *)
(*                                                                         *)
(* Process() is split where the engine's executor thread can run in the    *)
(* middle of it: after add_request() (stage "branch"), and between         *)
(* get_status() and read() of a streaming tick (stage "read").  Everything *)
(* else in one Process() call is one step.                                  *)
(*                                                                         *)
(* The engine is outside this repository; it is modelled from the         *)
(* specification: one step appends one token to every sequence and pushes *)
(* those tokens as one GenerationOutputs, read() pops the oldest (blocking *)
(* or not, ReadBlocks), read_all() waits for a terminal status.            *)
(***************************************************************************)
EXTENDS Naturals, Sequences, SequencesExt, RequestDecoder

CONSTANTS
    Docs,           \* request documents the HTTP front end may deliver
    StreamTokens,   \* token ids the engine may generate
    MaxTokens,      \* engine bound on new tokens per sequence
    MaxTicks,       \* bound on completed Process() calls (the timestamp)
    ReadBlocks,     \* TRUE: read() waits for an output; FALSE: may return none
    EngineMayFail   \* TRUE: the engine may drop a running generation

ASSUME /\ MaxTokens \in Nat \ {0}
       /\ MaxTicks \in Nat \ {0}
       /\ ReadBlocks \in BOOLEAN
       /\ EngineMayFail \in BOOLEAN

VARIABLES
    opened,      \* "no", "yes" (nodeResources set) or "failed"
    inPayload,   \* a packet waits on HTTP_REQUEST_PAYLOAD
    payloadSent, \* the front end has sent its one payload
    payloadDoc,  \* ... and this is it
    inLoopback,  \* a packet waits on the LOOPBACK input
    hasRequest,  \* this->request != nullptr
    request,     \* the parsed request
    handle,      \* this->generationHandle != nullptr
    streamerOn,  \* this->streamer != nullptr
    tokenCache,  \* TextStreamer::tokenCache
    printLen,    \* TextStreamer::printLen
    tokensRead,  \* every token passed to streamer->put(), in order
    created,     \* this->created: the clock when the payload was taken
    stage,       \* where the current Process() call is: idle, branch, read
    timestamp,   \* this->timestamp
    out,         \* packets added to HTTP_RESPONSE_PAYLOAD
    loopTs,      \* timestamps of packets added to the LOOPBACK output
    failed,      \* Open() or Process() returned a non-OK status
    closed,      \* the graph has been closed
    estatus,     \* engine: status of the generation
    produced,    \* engine: tokens generated per sequence
    outq,        \* engine: GenerationOutputs not yet read()
    maxNew       \* engine: new-token limit of the generation

calc   == <<opened, hasRequest, request, handle, streamerOn, tokenCache,
            printLen, tokensRead, stage, timestamp, failed, created>>
io     == <<inPayload, payloadSent, payloadDoc, inLoopback, out, loopTs, closed>>
engine == <<estatus, produced, outq, maxNew>>
vars   == <<calc, io, engine>>

-----------------------------------------------------------------------------
(* Serialization (serializeUnaryResponse, serializeStreamingChunk,         *)
(* packIntoServerSideEventMessage).  A JSON body is a record with its      *)
(* "object", "choices", "created" (this->created) and "model" (the         *)
(* request's).  A message on the output port is SSE-framed or not, and is *)
(* a JSON body or the [DONE] sentinel.                                      *)

Choice(finish, index, content, hasContent) ==
    [finish_reason |-> finish, index |-> index, content |-> content,
     hasContent |-> hasContent]

(* rapidjson Writer::String() is given content.c_str() (lines 557, 633):  *)
(* the text is cut at its first NUL byte.                                  *)
CStr(bytes) ==
    LET nul == SelectInSeq(bytes, LAMBDA b : b = "x00")
    IN  IF nul = 0 THEN bytes ELSE SubSeq(bytes, 1, nul - 1)

UnaryBody(completions) ==
    [object  |-> "chat.completion", created |-> created, model |-> request.model,
     choices |-> [i \in 1..Len(completions) |->
                     Choice("stop", i - 1, CStr(completions[i]), TRUE)]]

StreamingChunk(chunk, stop) ==
    [object  |-> "chat.completion.chunk", created |-> created,
     model   |-> request.model,
     choices |-> <<IF stop THEN Choice("stop", 0, <<>>, FALSE)
                           ELSE Choice("null", 0, CStr(chunk), TRUE)>>]

NoBody == [object |-> "", created |-> 0, model |-> 0, choices |-> <<>>]
Plain(body) == [sse |-> FALSE, done |-> FALSE, body |-> body]
SSE(body)   == [sse |-> TRUE, done |-> FALSE, body |-> body]
SSEDone     == [sse |-> TRUE, done |-> TRUE, body |-> NoBody]

(* All messages emitted, in order, and the content of the chunks among     *)
(* them that carry a delta.content.                                         *)
Messages == FlattenSeq([i \in 1..Len(out) |-> out[i].msgs])
IsContentChunk(m) == m.sse /\ ~m.done /\ m.body.choices[1].hasContent
StreamedChunks ==
    LET cs == SelectSeq(Messages, IsContentChunk)
    IN  [i \in 1..Len(cs) |-> cs[i].body.choices[1].content]

(* The calculator's streamer: TextStreamer over the calculator's state.  *)
TS == INSTANCE TextStreamer WITH MaxPuts <- MaxTokens,
        history <- tokensRead, emitted <- StreamedChunks

-----------------------------------------------------------------------------
(* Engine (external, from the specification).                              *)

(* Sequences returned for a config: best_of beams, else n.                 *)
NumOutputs(cfg) ==
    IF cfg.group_size > 1 THEN cfg.group_size ELSE cfg.num_return_sequences

AddRequest(cfg) ==
    /\ estatus' = "running"
    /\ produced' = [i \in 1..NumOutputs(cfg) |-> <<>>]
    /\ outq' = <<>>
    /\ maxNew' = IF cfg.max_new_tokens = NoLimit \/ cfg.max_new_tokens > MaxTokens
                 THEN MaxTokens ELSE cfg.max_new_tokens

EngineStep ==
    /\ estatus = "running"
    /\ Len(produced[1]) < maxNew
    /\ \E toks \in [DOMAIN produced -> StreamTokens] :
          /\ produced' = [i \in DOMAIN produced |-> Append(produced[i], toks[i])]
          /\ outq' = Append(outq, toks)
    /\ UNCHANGED <<estatus, maxNew, calc, io>>

(* End of sequence or the token limit: the generation is FINISHED.        *)
EngineFinish ==
    /\ estatus = "running"
    /\ Len(produced[1]) >= 1
    /\ estatus' = "finished"
    /\ UNCHANGED <<produced, outq, maxNew, calc, io>>

EngineDrop ==
    /\ EngineMayFail
    /\ estatus = "running"
    /\ estatus' = "dropped"
    /\ UNCHANGED <<produced, outq, maxNew, calc, io>>

-----------------------------------------------------------------------------
(* Front end and MediaPipe host.                                           *)

Init ==
    /\ opened = "no" /\ inPayload = FALSE /\ payloadSent = FALSE
    /\ payloadDoc \in Docs /\ inLoopback = FALSE
    /\ hasRequest = FALSE /\ request = Parse(payloadDoc) /\ handle = FALSE
    /\ streamerOn = FALSE /\ tokenCache = <<>> /\ printLen = 0
    /\ tokensRead = <<>> /\ stage = "idle" /\ timestamp = 0 /\ created = 0
    /\ out = <<>> /\ loopTs = <<>> /\ failed = FALSE /\ closed = FALSE
    /\ estatus = "none" /\ produced = <<>> /\ outq = <<>> /\ maxNew = 0

(* The HTTP handler adds the request payload to the graph input once.     *)
SendPayload ==
    /\ ~payloadSent
    /\ payloadSent' = TRUE
    /\ inPayload' = TRUE
    /\ UNCHANGED <<payloadDoc, inLoopback, out, loopTs, closed, calc, engine>>

(* The graph is done when Open() or Process() failed, or when no input is *)
(* left and no Process() call is in progress; Close() only logs.           *)
Close ==
    /\ ~closed
    /\ \/ failed
       \/ payloadSent /\ ~inPayload /\ ~inLoopback /\ stage = "idle"
    /\ closed' = TRUE
    /\ UNCHANGED <<inPayload, payloadSent, payloadDoc, inLoopback, out, loopTs,
                   calc, engine>>

-----------------------------------------------------------------------------
(* The calculator.                                                         *)

(* Open(): look the node up in the resources side packet.                  *)
Open ==
    /\ opened = "no"
    /\ \/ opened' = "yes" /\ UNCHANGED failed
       \/ opened' = "failed" /\ failed' = TRUE
    /\ UNCHANGED <<hasRequest, request, handle, streamerOn, tokenCache, printLen,
                   tokensRead, stage, timestamp, created, io, engine>>

CanProcess ==
    /\ opened = "yes" /\ ~failed /\ ~closed /\ stage = "idle"
    /\ timestamp < MaxTicks

(* First iteration: the payload is present.  created is taken from the    *)
(* wall clock, which is abstracted to the number of finished Process()     *)
(* calls, and the request is stored, both before parse(); on acceptance   *)
(* the generation is added, the executor notified                         *)
(* and the streamer created, and the call goes on to its branch.           *)
ProcessPayload ==
    /\ CanProcess
    /\ inPayload
    /\ inPayload' = FALSE
    /\ IF hasRequest \/ handle \/ streamerOn
       THEN failed' = TRUE /\ UNCHANGED <<hasRequest, handle, streamerOn, stage,
                                         created, engine>>
       ELSE /\ created' = timestamp
            /\ hasRequest' = TRUE
            /\ IF Accepted(payloadDoc)
               THEN /\ handle' = TRUE
                    /\ AddRequest(CreateGenerationConfig(request))
                    /\ streamerOn' = TRUE
                    /\ stage' = "branch"
                    /\ UNCHANGED failed
               ELSE /\ failed' = TRUE
                    /\ UNCHANGED <<handle, streamerOn, stage, engine>>
    /\ UNCHANGED <<opened, request, tokenCache, printLen, tokensRead, timestamp,
                   payloadSent, payloadDoc, inLoopback, out, loopTs, closed>>

(* A later iteration, woken by the loopback packet alone.                  *)
ProcessLoopback ==
    /\ CanProcess
    /\ ~inPayload
    /\ inLoopback
    /\ inLoopback' = FALSE
    /\ IF hasRequest /\ handle /\ streamerOn
       THEN stage' = "branch" /\ UNCHANGED failed
       ELSE failed' = TRUE /\ UNCHANGED stage
    /\ UNCHANGED <<opened, hasRequest, request, handle, streamerOn, tokenCache,
                   printLen, tokensRead, timestamp, created, inPayload, payloadSent,
                   payloadDoc, out, loopTs, closed, engine>>

(* The output packets and timestamp step that end a Process() call.       *)
Emit(msgs) ==
    /\ out' = Append(out, [ts |-> timestamp, msgs |-> msgs])

(* Mutant: the timestamp is not advanced at the end of Process().         *)
KeepTimestamp == UNCHANGED timestamp

(* timestamp = timestamp.NextAllowedInStream()                             *)
AdvanceTimestamp == timestamp' = timestamp + 1

(* Mutant: read_all() returns while the generation is still running.      *)
ReadAllReturnedEarly == estatus # "none"

(* read_all() blocks until the generation is over.                         *)
ReadAllReturned == estatus \in {"finished", "dropped"}

(* Unary: read_all() blocks until the generation is over; every sequence  *)
(* is decoded whole and sent in one envelope.                              *)
UnaryReadAll ==
    /\ stage = "branch"
    /\ ~request.stream
    /\ ReadAllReturned
    /\ LET outputs == IF estatus = "dropped" THEN <<>> ELSE produced
       IN  IF Len(outputs) >= 1
           THEN /\ Emit(<<Plain(UnaryBody([i \in 1..Len(outputs) |->
                                              TS!Decode(outputs[i])]))>>)
                /\ AdvanceTimestamp
                /\ stage' = "idle"
                /\ UNCHANGED failed
           ELSE failed' = TRUE /\ UNCHANGED <<out, timestamp, stage>>
    /\ UNCHANGED <<opened, created, hasRequest, request, handle, streamerOn, tokenCache,
                   printLen, tokensRead, inPayload, payloadSent, payloadDoc,
                   inLoopback, loopTs, closed, engine>>

(* Mutant: the last iteration also sends a loopback packet.              *)
StreamFinishedRearms ==
    /\ stage = "branch"
    /\ request.stream
    /\ estatus = "finished"
    /\ Emit(<<SSE(StreamingChunk(<<>>, TRUE)), SSEDone>>)
    /\ inLoopback' = TRUE
    /\ loopTs' = Append(loopTs, timestamp)
    /\ AdvanceTimestamp
    /\ stage' = "idle"
    /\ UNCHANGED <<opened, created, hasRequest, request, handle, streamerOn, tokenCache,
                   printLen, tokensRead, failed, inPayload, payloadSent,
                   payloadDoc, closed, engine>>

(* Streaming, last iteration: get_status() is FINISHED.  The stop chunk   *)
(* and [DONE] go out in one packet and no loopback packet is produced.     *)
StreamFinished ==
    /\ stage = "branch"
    /\ request.stream
    /\ estatus = "finished"
    /\ Emit(<<SSE(StreamingChunk(<<>>, TRUE)), SSEDone>>)
    /\ AdvanceTimestamp
    /\ stage' = "idle"
    /\ UNCHANGED <<opened, created, hasRequest, request, handle, streamerOn, tokenCache,
                   printLen, tokensRead, failed, inPayload, payloadSent,
                   payloadDoc, inLoopback, loopTs, closed, engine>>

(* Streaming: get_status() is not FINISHED; the call goes on to read().   *)
StreamNotFinished ==
    /\ stage = "branch"
    /\ request.stream
    /\ estatus # "finished"
    /\ stage' = "read"
    /\ UNCHANGED <<opened, created, hasRequest, request, handle, streamerOn, tokenCache,
                   printLen, tokensRead, timestamp, failed, io, engine>>

(* Mutant: a TextStreamer made afresh on every tick.                       *)
FreshStreamer == [cache |-> <<>>, printLen |-> 0]

(* this->streamer: the one TextStreamer kept across Process() calls.       *)
Streamer == [cache |-> tokenCache, printLen |-> printLen]

(* Mutant: the loopback packet is sent only with a chunk.                 *)
RearmOnChunk(r) ==
    /\ inLoopback' = r.has
    /\ loopTs' = IF r.has THEN Append(loopTs, timestamp) ELSE loopTs

(* The loopback packet, sent whatever put() returned.                      *)
Rearm(r) ==
    /\ inLoopback' = TRUE
    /\ loopTs' = Append(loopTs, timestamp)

(* streamer->put() of the one token read, a chunk packet if put()         *)
(* returned text, and the loopback packet that asks for the next           *)
(* Process() call; then the timestamp advances.                            *)
StreamPut(token) ==
    LET r == TS!Put(Streamer.cache, Streamer.printLen, token)
    IN  /\ tokenCache' = r.cache
        /\ printLen' = r.printLen
        /\ tokensRead' = Append(tokensRead, token)
        /\ IF r.has THEN Emit(<<SSE(StreamingChunk(r.chunk, FALSE))>>) ELSE UNCHANGED out
        /\ Rearm(r)
        /\ AdvanceTimestamp

(* Mutant: read() hands out the newest queued output, not the oldest.     *)
ReadNewest(q) ==
    IF q # <<>> THEN [outputs |-> Last(q), rest |-> Front(q)] ELSE [outputs |-> <<>>, rest |-> q]

(* read(): the oldest queued output, or nothing if none is queued.        *)
ReadOne(q) ==
    IF q # <<>> THEN [outputs |-> Head(q), rest |-> Tail(q)] ELSE [outputs |-> <<>>, rest |-> q]

(* read() and the checks that exactly one sequence with one token came    *)
(* back (a failed check ends the call with an error).                       *)
StreamRead ==
    /\ stage = "read"
    /\ ReadBlocks => outq # <<>>
    /\ LET outputs == ReadOne(outq).outputs
       IN  /\ outq' = ReadOne(outq).rest
           /\ IF Len(outputs) = 1
              THEN StreamPut(outputs[1]) /\ stage' = "idle" /\ UNCHANGED failed
              ELSE /\ failed' = TRUE
                   /\ UNCHANGED <<tokenCache, printLen, tokensRead, out,
                                  inLoopback, loopTs, timestamp, stage>>
    /\ UNCHANGED <<opened, created, hasRequest, request, handle, streamerOn, inPayload,
                   payloadSent, payloadDoc, closed, estatus, produced, maxNew>>

-----------------------------------------------------------------------------
Next ==
    \/ SendPayload \/ Close \/ Open
    \/ ProcessPayload \/ ProcessLoopback
    \/ UnaryReadAll \/ StreamFinished \/ StreamNotFinished \/ StreamRead
    \/ EngineStep \/ EngineFinish \/ EngineDrop

(* MediaPipe runs Process() whenever an input packet is waiting, and the  *)
(* engine's executor thread keeps stepping a running generation.           *)
Fairness ==
    /\ WF_vars(SendPayload) /\ WF_vars(Close) /\ WF_vars(Open)
    /\ WF_vars(ProcessPayload) /\ WF_vars(ProcessLoopback)
    /\ WF_vars(UnaryReadAll) /\ WF_vars(StreamFinished)
    /\ WF_vars(StreamNotFinished) /\ WF_vars(StreamRead)
    /\ WF_vars(EngineStep \/ EngineFinish)

Spec == Init /\ [][Next]_vars /\ Fairness

-----------------------------------------------------------------------------
IsStop(m) == m.sse /\ ~m.done /\ m.body.choices[1].finish_reason = "stop"
DoneSent  == \E i \in 1..Len(out) : \E k \in 1..Len(out[i].msgs) : out[i].msgs[k].done

(* The response is over when a Process() call failed, the unary envelope  *)
(* went out, or [DONE] went out.                                            *)
Answered ==
    \/ failed
    \/ \E i \in 1..Len(out) : \E k \in 1..Len(out[i].msgs) :
          out[i].msgs[k].done \/ ~out[i].msgs[k].sse

(* A streaming response ends with the stop chunk immediately followed by  *)
(* [DONE], and nothing follows them: the FINISHED branch of Process()     *)
(* must not re-arm the loop through the loopback port.                     *)
StopAndDoneEndTheStream ==
    LET ms == Messages
    IN  \A i \in 1..Len(ms) :
          /\ IsStop(ms[i]) => i = Len(ms) - 1 /\ ms[i + 1].done
          /\ ms[i].done => i = Len(ms) /\ i > 1 /\ IsStop(ms[i - 1])

(* The streamed delta contents followed by what the streamer still holds  *)
(* are exactly the text of the tokens read from the handle, across any    *)
(* number of ticks and newline resets.                                      *)
StreamedTextMatchesTokensRead == TS!HeldBackIsCacheTail

(* The unary envelope is the only message, and carries one choice per     *)
(* sequence of the finished generation, in order, each the whole decoded  *)
(* sequence: read_all() must not return before the engine is done.        *)
UnaryEnvelopeMatchesEngine ==
    \A i \in 1..Len(out) : \A j \in 1..Len(out[i].msgs) : ~out[i].msgs[j].sse =>
        /\ Len(out) = 1 /\ Len(out[i].msgs) = 1
        /\ estatus = "finished"
        /\ out[i].msgs[j].body = UnaryBody([k \in 1..Len(produced) |-> TS!Decode(produced[k])])

(* Packets on each output stream have strictly increasing timestamps, as  *)
(* MediaPipe requires, including ticks that only re-arm the loop.          *)
TimestampsIncrease ==
    /\ \A i, j \in 1..Len(out) : i < j => out[i].ts < out[j].ts
    /\ \A i, j \in 1..Len(loopTs) : i < j => loopTs[i] < loopTs[j]

(* Every request is eventually answered: the loopback keeps a stream going *)
(* until the engine finishes, and no Process() call waits forever.         *)
RequestAnswered == <>Answered

(* The specification (its section 8, scenario 3) expects every token the  *)
(* engine generated to reach the client before the stop chunk.             *)
AllTokensReadBeforeStop == DoneSent => tokensRead = produced[1]

(* ... and the concatenated delta contents to be the whole text of the     *)
(* tokens read ("world" after "hello " in scenario 3).                     *)
StreamedTextCompleteAtStop ==
    DoneSent => FlattenSeq(StreamedChunks) = TS!Decode(tokensRead)

(* The specification (sections 8 and 9) says every request that passes    *)
(* decoding is answered with an envelope or a stream ending in [DONE], a  *)
(* tick with no new token emitting nothing and re-arming.                  *)
AcceptedRequestNeverFails ==
    failed => opened = "failed" \/ ~Accepted(payloadDoc)

-----------------------------------------------------------------------------
(* What the client has seen: the streamed delta contents, or the content  *)
(* of the unary envelope's first choice; and whether [DONE] or the        *)
(* envelope has gone out.  The engine's first sequence is what it made.    *)
ClientText ==
    LET unary == SelectSeq(Messages, LAMBDA m : ~m.sse)
    IN  IF request.stream THEN FlattenSeq(StreamedChunks)
        ELSE IF unary = <<>> THEN <<>> ELSE unary[1].body.choices[1].content
ClientEnded == \E i \in 1..Len(out) : \E k \in 1..Len(out[i].msgs) :
                  out[i].msgs[k].done \/ ~out[i].msgs[k].sse
FirstSequence == IF produced = <<>> THEN <<>> ELSE produced[1]

Client == INSTANCE ClientStream WITH Text <- LAMBDA s : TS!Decode(s),
            generated <- FirstSequence, delivered <- ClientText,
            ended <- ClientEnded

(* The calculator implements the client's view: every step of Process()   *)
(* and of the engine either leaves what the client saw unchanged or adds  *)
(* text that the engine's tokens, read in the order they were generated,  *)
(* decode to; nothing is taken back and nothing follows the end.          *)
ImplementsClientStream == Client!Spec

=============================================================================
