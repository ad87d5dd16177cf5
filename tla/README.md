# TLA+ models of the HTTP LLM calculator

This directory holds TLA+ models of `src/src/llm/http_llm_calculator.cc`: the
MediaPipe calculator that serves OpenAI-style `/chat/completions` requests on
top of a continuous-batching (CB) generation engine. TLC checks the models.

## The system

The file has four parts, and two external actors surround them.

| Part | Code | What it does |
|---|---|---|
| Request decoder | `OpenAIChatCompletionsRequest` (44-314) | `parse()` checks a rapidjson document member by member: `messages`, `model` and the optional knobs. `createGenerationConfig()` turns the result into the engine's `GenerationConfig`. |
| Incremental detokenizer | `TextStreamer` (318-345) | `put(token)` adds the token to a cache and decodes the whole cache. It returns the new text only when printing is safe: on a trailing newline, which also resets the cache; never while the text ends in U+FFFD; otherwise once a space follows `printLen`. |
| Calculator | `HttpLLMCalculator` (354-518) | `Open` looks up the node's resources. `Process` is a loop driven by MediaPipe, which is `Close`d at the end. The first `Process` parses the payload and adds the request to the engine. A unary request then blocks in `read_all()` and sends one JSON body. A streaming request sends one SSE chunk per tick and re-arms through a LOOPBACK packet, until `get_status()` says FINISHED. At that point it sends a stop chunk and `[DONE]`. |
| Serializer | 521-678 | Unary body, streaming chunk and `data: ...\n\n` framing. |

The external actors are:

- **The CB engine.** Its executor thread steps every running generation concurrently with `Process()`. It queues one `GenerationOutputs` per step on the request's `GenerationHandle`, and eventually marks the generation FINISHED or drops it.
- **The HTTP front end and MediaPipe scheduler.** They inject the payload once and call `Process` whenever a packet (payload or loopback) waits. They close the graph when no input is left or a call returned an error.

The interactions that make the code hard are:

- the engine thread running between the calculator's `get_status()` and its `read()`;
- the loop re-arming itself one timestamp at a time;
- the streamer re-decoding its whole cache on every token, so earlier bytes can change under `printLen`.

## Modules

| Module | Models | State | Actions / operators |
|---|---|---|---|
| `TextStreamer` | `TextStreamer::put` | `tokenCache`, `printLen` (a byte offset); ghosts `history` (tokens put) and `emitted` (chunks returned) | `Put` is the whole of `put()` as an operator, and `PutToken` is the action that calls it. `Decode` is `tokenizer->decode`: UTF-8 decoding with replacement (`Utf8Replace`, RECURSIVE) over a seven-token byte-level vocabulary (with `<0x00>`). |
| `RequestDecoder` | `parse()`, `createGenerationConfig()`, and the RET_CHECKs of 429-431 | none: pure operators | `ParseOk`, `Parse`, `Accepted`, `CreateGenerationConfig`. `SpecAccepts` is the specification's notion of a valid request, used as the reference. |
| `ClientStream` | abstract specification: what one request's client may observe | `generated` (the engine's tokens), `delivered` (text received), `ended` | `Generate`, `Deliver`, `End` |
| `HttpLLMCalculator` | the calculator, the serializer, and the engine and host as environment | `calc`: the calculator members (`request`, `handle`, `streamer`, `timestamp`), the streamer's `tokenCache` and `printLen`, the ghost `tokensRead`, and `stage`. `io`: the input/loopback packets, the output packets `out` and `loopTs`. `engine`: `estatus`, `produced`, `outq` and `maxNew`. | `Open`, `ProcessPayload`, `ProcessLoopback`, `UnaryReadAll`, `StreamFinished`, `StreamNotFinished`, `StreamRead` (which runs `StreamPut`), `Close`, `SendPayload`, `EngineStep`, `EngineFinish`, `EngineDrop` |

`HttpLLMCalculator` composes `RequestDecoder` and `TextStreamer`, and refines `ClientStream`:

- It EXTENDS `RequestDecoder`: `ProcessPayload` uses `Accepted` and `CreateGenerationConfig`.
- It INSTANCEs `TextStreamer` (`TS`) with the calculator's `tokenCache` and `printLen`, its `tokensRead` as `history`, and the content of the chunks it sent as `emitted`. `StreamPut` calls `Put` itself. The streamer's invariant `TS!HeldBackIsCacheTail` is then checked over what actually went out on the wire.

**Where `Process()` is split.** One call of `Process()` is atomic in the model, except at the two points where the engine runs in the middle of it:

- A unary call is `ProcessLoopback` followed by `UnaryReadAll`. The latter waits (`read_all()` blocks) until the generation ends.
- A streaming call is `ProcessLoopback` followed by `StreamFinished` or `StreamNotFinished`. This is the `get_status()` check. `StreamNotFinished` is followed by `StreamRead`, which is `read()`, its two RET_CHECKs, `put`, the chunk, the loopback and the timestamp advance.

`stage` records where inside the call the calculator is.

**Refinement.** `HttpLLMCalculator` instantiates `ClientStream` as `Client`, with this mapping:

- `generated` is the engine's first sequence.
- `delivered` is the concatenated streamed `delta.content`, or the content of the unary envelope's first choice.
- `ended` means `[DONE]` or the envelope has been sent.

`ImplementsClientStream == Client!Spec` is checked as a PROPERTY. The abstract specification promises that what the client sees only grows and is always a prefix of the text of the tokens generated so far, in generation order, and that nothing follows the end. It does not promise that the whole text arrives before the end: the violation runs show that the code does not keep that part.

**The engine is modelled from the specification**, since its code is not in `src/`. `EngineStep` appends one token from `StreamTokens` to every sequence and queues the step on `outq`. `read()` pops one step. `read_all()` waits for the end and returns `produced`. Two constants select the environment:

- `ReadBlocks`: TRUE means `read()` waits for a queued output, as a queue-backed handle does. FALSE means it returns empty when nothing is queued, as the specification's section 9 describes.
- `EngineMayFail`: the generation may be dropped instead of finishing.

**The data is abstracted.**

- JSON documents keep, for each member: presence, type class and value. Doubles are in tenths.
- Message entries are reduced to three booleans.
- Bodies are records with `object`, `choices` (index, `finish_reason`, content).
- Bodies also carry `created` and `model`. `model` is the request's `model` member, represented by an identity number. `created` is `system_clock::now()` taken on the payload tick (line 421); the wall clock is abstracted to the number of finished `Process()` calls. No property is stated about it: the payload tick is always the first, so any capture property would restate line 421. `logprobs` and `role` are constants and are left out.
- Text is a sequence of bytes, so `printLen` is a byte offset exactly as in the code. The vocabulary includes the byte token `<0x00>`. The serializer's `writer.String(x.c_str())` is modelled as cutting the text at its first NUL byte (`CStr`).
- A double member is its value in tenths plus `rest`, the sign of what is left below half a float ulp. Storing into `std::optional<float>` keeps only the tenths, and the range checks at lines 229 and 239 compare that value. The specification's check uses the exact value (`ExactIn`). The `decoder` run restricts `rest` to 0, which covers doubles a float holds exactly. `decoder_float` allows -1, 0 and 1.

## Runs

| Run | Config | Expect | Shows |
|---|---|---|---|
| streamer | `MCTextStreamer.cfg` | pass | Covers every sequence of up to 5 `put()` calls over all 7 tokens. `PrintLenBounded`: `printLen` never passes the re-decoded text, so `text.size() - printLen` cannot underflow. `HeldBackIsCacheTail`: the chunks returned plus the text after `printLen` always equal the decode of every token put. Nothing is lost or duplicated, and no byte is printed before the U+FFFD rule allows it. |
| decoder | `MCRequestDecoder.cfg` | pass | Covers every document within two member changes of a valid request. `AcceptsExactlySpecRequests`: `parse()` plus the RET_CHECKs accept exactly the specification's valid requests. `ConfigFollowsSpecMapping`: for each accepted request, `createGenerationConfig()` yields the specification's mapping. Every member lands on its knob, absent ones keep the engine default, and `do_sample` is decided on the final temperature and `group_size`. |
| decoder_float | `MCRequestDecoder_float.cfg` | violation | For documents one member away from a valid request, where doubles need not be floats: a `top_p` below 0 by at most about 7e-46 rounds to `-0.0f` and is accepted, and so is a `temperature` such as 2.0000000001, which rounds to `2.0f`; -1e-12 stays negative as a float and is rejected (divergence from the specification, line 239). |
| calculator | `MCHttpLLMCalculator.cfg` | pass | Runs unary, beam (`best_of` 2), streaming and undecodable requests against an engine that may finish or drop at any point. Checks: SSE framing (`StopAndDoneEndTheStream`), streamed text against the tokens read, the unary envelope against the engine's outputs, strictly increasing packet timestamps, and the refinement `ImplementsClientStream`. |
| calculator_live | `MCHttpLLMCalculator_live.cfg` | pass | `RequestAnswered`: with a non-blocking `read()`, every request is answered with a body, `[DONE]` or an error. |
| calculator_lost_tokens | `_lost.cfg` | violation | Tokens queued before FINISHED are never read (code bug, line 486). |
| calculator_tail | `_tail.cfg` | violation | Text held back by the streamer is never flushed at the end (code bug, line 488). |
| calculator_empty_read | `_emptyread.cfg` | violation | A tick with no new token fails a RET_CHECK instead of re-arming (the empty outputs map fails `RET_CHECK(size() == 1)` at line 497; divergence from the specification's section 9). |
| calculator_nul | `_nul.cfg` | violation | A token that decodes to byte 0 truncates the streamed content, because of `c_str()` at line 633 (code bug). |
| calculator_hang | `_hang.cfg` | violation | With a blocking `read()`, a stale RUNNING status leaves `Process()` blocked forever (code bug, line 496). |

The findings are in `PROJECT.json` under "findings". Every property of a
passing run has a mutant of the code it checks (PROJECT.json "mutants"), and
TLC finds each one violated. Most mutants replace a small helper that
translates one or two source lines, for example `AdvanceTimestamp` (line 517),
`Rearm` (lines 511-512), `ReadAllReturned` (line 454), `NewlineChunk` (line 332)
and `PrintLenAfterChunk` (line 340). The rest of the action is left as it is.

### Bounds

- **Streamer: 5 puts.** That is enough for every interaction of the three `put()` branches, for example "a", then " "+xC3, then xA9, then "\n", then "a". This includes the case where a space and a lead byte arrive in one token, and without the U+FFFD hold the printed byte would be rewritten.
- **Decoder: documents within two changes of a valid request**, with value sets containing every range boundary:
  - doubles -0.1, 0, 1.0, 2.0, 2.1;
  - ints 0 and 1;
  - `messages` empty, non-object, non-string, or without content.

  Each `parse()` check is independent of the others, so two simultaneous changes already cover every pairwise interaction of the early returns.
- **Calculator: at most 3 tokens per sequence (`MaxTokens`) and 5 ticks (`MaxTicks`).** Three tokens give a streamed, a held-back and a final step. Five ticks cover one request to completion. The liveness and violation runs use the two tokens `A` and `SP` to keep fairness checking fast, since the byte-level cases are covered by the other runs.

### Fairness

- Weak fairness on every calculator and host action. MediaPipe schedules `Process` whenever an input packet waits, and closes a finished graph.
- Weak fairness on `EngineStep \/ EngineFinish`. The executor thread keeps stepping a running generation until it ends.
- `EngineDrop` is not fair. A drop may happen, but nothing forces it.

Deadlock checking is off in every run, because the system really does stop: after `Close` nothing is left to do.

## Not modelled

- **The CB engine and the tokenizer** are external. Only their observable contract is modelled: per-step outputs, status, and decoding with replacement. The engine's scheduling policy, batching, KV cache and abandoned-handle clean-up are out of reach.
- **Several requests on one engine.** Instances share only the engine and the tokenizer, and this file holds no state across instances, so a composition would check the engine's scheduler rather than this code.
- **Logging, profiling, `GetContract` and registration** change no state a property can observe.
- **`id`, `usage` and `system_fingerprint`** are TODOs in the code, which does not write them.
- **Float rounding** itself is abstracted. Only the sign of the part lost when a double is stored as a float is kept (`rest`); see the `decoder_float` run.
- **Decode failures as BadRequest.** A request that `parse()` accepts but the RET_CHECKs at lines 430-431 refuse ends with the same internal error as a `parse()` failure, and the specification (4.D) makes decode failures internal errors, so no property separates them; `AcceptsExactlySpecRequests` covers what is accepted.
- **Streaming with `n` or `best_of` above 1** is accepted and then fails the RET_CHECK at line 497; the specification (4.D, 7) and the code comments declare it unsupported, so it is not reported as a finding.
- **Request members `n` and `best_of` of 0 or less** are listed as a hazard. What the engine does with them is not specified.

## Plan for further work

1. A stronger `ClientStream` whose `End` requires the whole text, checked against a corrected variant of the FINISHED branch (read until the queue is empty, then flush the streamer). The current code fails it, for the reasons the `lost_tokens` and `tail` runs show. The abstract specification could also cover every choice of a beam reply, not only the first.
2. Several requests sharing one engine: one calculator instance per request, with the executor stepping all of them. The question is whether a slow or dropped request can starve or corrupt another.
3. `usage` and `finish_reason` `length`, once the code produces them.
4. `n`/`best_of` edge values, 0 and negative, if the engine's behaviour for them is pinned down.
