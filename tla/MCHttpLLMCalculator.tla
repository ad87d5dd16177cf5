------------------------- MODULE MCHttpLLMCalculator -------------------------
(* Model-checking instance of HttpLLMCalculator.  The documents are valid  *)
(* requests from the request-decoder model with the members that change   *)
(* the calculator's path: stream, best_of, n, max_tokens, plus one that    *)
(* fails decoding.                                                          *)
EXTENDS HttpLLMCalculator

Msg == [object |-> TRUE, stringValues |-> TRUE, hasContent |-> TRUE]

(* A request with "messages" and "model" and the given extra members.     *)
Req(members) ==
    [object  |-> TRUE,
     present |-> {"messages", "model"} \cup DOMAIN members,
     type    |-> [f \in FieldNames |->
                    IF f = "messages" THEN "array"
                    ELSE IF f = "model" THEN "string"
                    ELSE IF f \in DOMAIN members THEN FieldType[f]
                    ELSE "null"],
     num     |-> [f \in FieldNames |-> IF f \in DOMAIN members THEN members[f] ELSE 0],
     rest    |-> [f \in FieldNames |-> 0],
     msgs    |-> <<Msg>>]

UnaryDoc     == Req([max_tokens |-> 2])
BeamDoc      == Req([best_of |-> 2, max_tokens |-> 1])
StreamDoc    == Req([stream |-> 1])
BadDoc       == Req([temperature |-> 30])

(* Tokens: a letter, a space, a newline and the byte-level pieces of a    *)
(* two-byte character, including one merged with a space.                  *)
MCStreamTokens == {"A", "SP", "NL", "LEAD", "CONT", "SPLEAD"}
FewTokens      == {"A", "SP"}
NulTokens      == {"A", "SP", "NUL"}   \* with the byte token <0x00>

PassDocs    == {UnaryDoc, BeamDoc, StreamDoc, BadDoc}
StreamDocs  == {StreamDoc}

=============================================================================
