--------------------------- MODULE RequestDecoder ---------------------------
(***************************************************************************)
(* OpenAIChatCompletionsRequest::parse() and createGenerationConfig() of   *)
(* src/src/llm/http_llm_calculator.cc, over an abstract JSON document.     *)
(*                                                                         *)
(* A document records whether it is an object, which top-level members are *)
(* present, the rapidjson type class of each (IsBool, IsInt, IsDouble,     *)
(* IsString, IsArray, ...) and its numeric value; doubles are written in   *)
(* tenths (2.0 is 20), and "rest" gives the sign of what is left of a    *)
(* double past that value and below half a float ulp there (2.0 + 1e-12   *)
(* is num 20, rest 1).  The "messages" array is a sequence of entries,     *)
(* each abstracted to whether it is an object, whether all its member      *)
(* values are strings and whether it has a "content" member.  Object keys *)
(* are always strings in a parsed document, so the member->name check of    *)
(* line 141 never fails and is not represented.                            *)
(***************************************************************************)
EXTENDS Integers, Sequences

JsonTypes == {"null", "bool", "int", "double", "string", "array", "object"}

(* The optional members parse() reads, and the type class each must have. *)
OptionalFields ==
    {"stream", "max_tokens", "repetition_penalty", "diversity_penalty",
     "length_penalty", "temperature", "top_p", "top_k", "seed", "best_of",
     "n", "ignore_eos"}
FieldNames == OptionalFields \cup {"messages", "model"}

FieldType ==
    [f \in OptionalFields |->
        CASE f \in {"stream", "ignore_eos"} -> "bool"
          [] f \in {"max_tokens", "top_k", "seed", "best_of", "n"} -> "int"
          [] OTHER -> "double"]

Entry == [object : BOOLEAN, stringValues : BOOLEAN, hasContent : BOOLEAN]

(* The exact number a member holds, and the value parse() keeps of it.    *)
(* An int is stored as is.  A double is stored into std::optional<float>   *)
(* (lines 228, 238); rounding to the nearest float loses the rest.         *)
Exact(doc, f) == [num |-> doc.num[f], rest |-> doc.rest[f]]
Stored(doc, f) ==
    IF doc.type[f] = "double" THEN Exact(doc, f).num ELSE doc.num[f]

(* Mutant: max_tokens accepted without its range check.                   *)
InRangeNoMaxTokensCheck(f, x) ==
    CASE f = "temperature" -> 0 <= x /\ x <= 20
      [] f = "top_p"       -> 0 <= x /\ x <= 10
      [] OTHER             -> TRUE

(* The range checks that follow a successful type check (lines 165, 229,  *)
(* 239); the other members are stored unvalidated ("TODO: Validate?").     *)
InRange(f, x) ==
    CASE f = "max_tokens"  -> x > 0
      [] f = "temperature" -> 0 <= x /\ x <= 20
      [] f = "top_p"       -> 0 <= x /\ x <= 10
      [] OTHER             -> TRUE

MessagesOk(doc) ==
    /\ "messages" \in doc.present
    /\ doc.type["messages"] = "array"
    /\ \A i \in 1..Len(doc.msgs) : doc.msgs[i].object /\ doc.msgs[i].stringValues

(* parse(): TRUE iff it returns true.  Its early returns are independent  *)
(* of each other, so their order does not change the outcome.              *)
ParseOk(doc) ==
    /\ doc.object
    /\ MessagesOk(doc)
    /\ "model" \in doc.present
    /\ doc.type["model"] = "string"
    /\ \A f \in OptionalFields \cap doc.present :
          /\ doc.type[f] = FieldType[f]
          /\ InRange(f, Stored(doc, f))

(* The request parse() leaves behind: an optional member is the set of    *)
(* its value, {} when it was absent (std::nullopt).  The "model" string is *)
(* represented by the number of its member (an identity, not a length).    *)
Parse(doc) ==
    [ok       |-> ParseOk(doc),
     messages |-> doc.msgs,
     model    |-> doc.num["model"],
     stream   |-> "stream" \in doc.present /\ doc.num["stream"] = 1,
     opt      |-> [f \in OptionalFields \ {"stream"} |->
                      IF f \in doc.present THEN {Stored(doc, f)} ELSE {}]]

(* Process() accepts a payload when parse() succeeds and the first        *)
(* message has "content" (the RET_CHECKs of lines 429-431).                *)
Accepted(doc) ==
    /\ ParseOk(doc)
    /\ Len(doc.msgs) >= 1
    /\ doc.msgs[1].hasContent

-----------------------------------------------------------------------------
(* GenerationConfig defaults of the continuous-batching library: greedy   *)
(* (temperature 0), group_size 1, one returned sequence, and no limit of   *)
(* its own on new tokens (NoLimit).                                        *)
NoLimit == -1
DefaultConfig ==
    [max_new_tokens |-> NoLimit, ignore_eos |-> 0, num_groups |-> 1,
     group_size |-> 1, diversity_penalty |-> 0, num_return_sequences |-> 1,
     repetition_penalty |-> 10, length_penalty |-> 10, temperature |-> 0,
     top_k |-> 0, top_p |-> 10, rng_seed |-> 0, do_sample |-> FALSE]

(* Request member that sets each config knob (lines 73-104).               *)
KnobField ==
    [max_new_tokens |-> "max_tokens", ignore_eos |-> "ignore_eos",
     group_size |-> "best_of", diversity_penalty |-> "diversity_penalty",
     num_return_sequences |-> "n", repetition_penalty |-> "repetition_penalty",
     length_penalty |-> "length_penalty", temperature |-> "temperature",
     top_k |-> "top_k", top_p |-> "top_p", rng_seed |-> "seed"]

SetIfPresent(req, knob) ==
    IF req.opt[KnobField[knob]] = {} THEN DefaultConfig[knob]
    ELSE CHOOSE x \in req.opt[KnobField[knob]] : TRUE

(* Mutant: do_sample derived before best_of has set group_size.          *)
CreateGenerationConfigSampleFirst(req) ==
    LET knobs == [k \in DOMAIN KnobField |-> SetIfPresent(req, k)]
    IN  [k \in DOMAIN DefaultConfig |->
            CASE k = "num_groups" -> 1
              [] k = "do_sample"  -> knobs.temperature > 0 /\ DefaultConfig.group_size = 1
              [] OTHER            -> knobs[k]]

(* createGenerationConfig(): num_groups is hard-coded to 1 and do_sample  *)
(* is derived last, from the temperature and group_size just set.          *)
CreateGenerationConfig(req) ==
    LET knobs == [k \in DOMAIN KnobField |-> SetIfPresent(req, k)]
    IN  [k \in DOMAIN DefaultConfig |->
            CASE k = "num_groups" -> 1
              [] k = "do_sample"  -> knobs.temperature > 0 /\ knobs.group_size = 1
              [] OTHER            -> knobs[k]]

-----------------------------------------------------------------------------
(* What the specification says a valid request is (its sections 4.A and   *)
(* 6): an object with a non-empty "messages" array of string-to-string     *)
(* objects whose first entry has "content", a string "model", recognized   *)
(* members of the right type, max_tokens > 0, temperature in [0,2] and     *)
(* top_p in [0,1], bounds compared with the exact number.                  *)
ExactIn(x, lo, hi) ==
    /\ x.num > lo \/ (x.num = lo /\ x.rest >= 0)
    /\ x.num < hi \/ (x.num = hi /\ x.rest <= 0)

SpecAccepts(doc) ==
    /\ doc.object
    /\ "messages" \in doc.present /\ doc.type["messages"] = "array"
    /\ doc.msgs # <<>>
    /\ \A i \in 1..Len(doc.msgs) : doc.msgs[i].object /\ doc.msgs[i].stringValues
    /\ doc.msgs[1].hasContent
    /\ "model" \in doc.present /\ doc.type["model"] = "string"
    /\ \A f \in OptionalFields \cap doc.present : doc.type[f] = FieldType[f]
    /\ "max_tokens" \in doc.present => doc.num["max_tokens"] >= 1
    /\ "temperature" \in doc.present => ExactIn(Exact(doc, "temperature"), 0, 20)
    /\ "top_p" \in doc.present => ExactIn(Exact(doc, "top_p"), 0, 10)

(* The specification's GenerationConfig (its section 3): each knob is the *)
(* request member of the table when set and the engine default otherwise, *)
(* num_groups is 1, and sampling is on iff temperature > 0 and            *)
(* group_size = 1, both as they end up in the config.                      *)
SpecConfig(doc) ==
    LET member(f, default) == IF f \in doc.present THEN doc.num[f] ELSE default
        temperature == member("temperature", DefaultConfig.temperature)
        groupSize   == member("best_of", DefaultConfig.group_size)
    IN  [max_new_tokens       |-> member("max_tokens", NoLimit),
         ignore_eos           |-> member("ignore_eos", DefaultConfig.ignore_eos),
         num_groups           |-> 1,
         group_size           |-> groupSize,
         diversity_penalty    |-> member("diversity_penalty", DefaultConfig.diversity_penalty),
         num_return_sequences |-> member("n", DefaultConfig.num_return_sequences),
         repetition_penalty   |-> member("repetition_penalty", DefaultConfig.repetition_penalty),
         length_penalty       |-> member("length_penalty", DefaultConfig.length_penalty),
         temperature          |-> temperature,
         top_k                |-> member("top_k", DefaultConfig.top_k),
         top_p                |-> member("top_p", DefaultConfig.top_p),
         rng_seed             |-> member("seed", DefaultConfig.rng_seed),
         do_sample            |-> temperature > 0 /\ groupSize = 1]

=============================================================================
