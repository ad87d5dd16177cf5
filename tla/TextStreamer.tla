---------------------------- MODULE TextStreamer ----------------------------
(***************************************************************************)
(* The incremental detokenizer of src/src/llm/http_llm_calculator.cc       *)
(* (class TextStreamer).  put(token) appends the token to tokenCache,      *)
(* decodes the WHOLE cache and returns the bytes from printLen on when it  *)
(* is safe to print: on a trailing newline (then the cache is cleared),    *)
(* never while the text ends in U+FFFD, and otherwise only once a space    *)
(* follows printLen.                                                       *)
(*                                                                         *)
(* Text is a sequence of BYTES, as std::string is: printLen is a byte      *)
(* offset.  The tokenizer is abstracted to seven byte-level tokens whose     *)
(* decode with replacement is written below: a lone UTF-8 lead or          *)
(* continuation byte decodes to U+FFFD (three bytes), a lead byte followed *)
(* by its continuation decodes to the two-byte character.  This is the     *)
(* one way a decoded text can change its earlier bytes when a token is    *)
(* appended, which is what the U+FFFD rule is for.                         *)
(***************************************************************************)
EXTENDS Naturals, Sequences, SequencesExt

CONSTANT MaxPuts   \* bound on the number of put() calls in a run

ASSUME MaxPuts \in Nat \ {0}

(* Token ids of the abstract vocabulary and the byte(s) each stands for.  *)
Tokens == {"A", "SP", "NL", "LEAD", "CONT", "SPLEAD", "NUL"}
TokenBytes(t) ==
    CASE t = "A"    -> <<"a">>
      [] t = "SP"   -> <<" ">>
      [] t = "NL"   -> <<"\n">>
      [] t = "LEAD" -> <<"xC3">>
      [] t = "CONT" -> <<"xA9">>
      [] t = "SPLEAD" -> <<" ", "xC3">>   \* a byte-level BPE merge
      [] t = "NUL"  -> <<"x00">>          \* the byte token <0x00>

(* U+FFFD REPLACEMENT CHARACTER encoded in UTF-8, the "�" of line 336.     *)
Replacement == <<"xEF", "xBF", "xBD">>

(* UTF-8 decoding with replacement of a byte sequence.                     *)
RECURSIVE Utf8Replace(_)
Utf8Replace(b) ==
    IF b = <<>> THEN <<>>
    ELSE IF Head(b) = "xC3"
         THEN IF Len(b) >= 2 /\ b[2] = "xA9"
              THEN <<"xC3", "xA9">> \o Utf8Replace(Tail(Tail(b)))
              ELSE Replacement \o Utf8Replace(Tail(b))
    ELSE IF Head(b) = "xA9"
         THEN Replacement \o Utf8Replace(Tail(b))
    ELSE <<Head(b)>> \o Utf8Replace(Tail(b))

(* tokenizer->decode(tokens)                                               *)
Decode(tokens) ==
    Utf8Replace(FlattenSeq([i \in 1..Len(tokens) |-> TokenBytes(tokens[i])]))

(* Mutant: the U+FFFD test of line 336 never matches.                     *)
NeverEndsWithReplacement(text) == FALSE

EndsWithReplacement(text) ==
    Len(text) >= 3 /\ SubSeq(text, Len(text) - 2, Len(text)) = Replacement

(* Mutant: the newline branch returns the whole text.                     *)
NewlineChunkWholeText(text, printLen) == text

(* The chunk of the newline branch: text from printLen to the end (332).  *)
NewlineChunk(text, printLen) == SubSeq(text, printLen + 1, Len(text))

(* Mutant: the space branch adds the text length to printLen.             *)
PrintLenAccumulated(text, printLen) == printLen + Len(text)

(* printLen after the space branch has returned its chunk (line 340).     *)
PrintLenAfterChunk(text, printLen) == Len(text)

(* put(): the three branches that may return a chunk, and the fall-       *)
(* through.  The result is the new state and the optional chunk.          *)
Put(tokenCache, printLen, token) ==
    LET cache == Append(tokenCache, token)
        text  == Decode(cache)
        hold  == [cache |-> cache, printLen |-> printLen, has |-> FALSE, chunk |-> <<>>]
    IN  CASE text # <<>> /\ Last(text) = "\n" ->
                 [cache |-> <<>>, printLen |-> 0, has |-> TRUE,
                  chunk |-> NewlineChunk(text, printLen)]
          [] EndsWithReplacement(text) -> hold
          [] Len(text) > printLen /\ \E i \in printLen + 1 .. Len(text) : text[i] = " " ->
                 [cache |-> cache, printLen |-> PrintLenAfterChunk(text, printLen),
                  has |-> TRUE, chunk |-> SubSeq(text, printLen + 1, Len(text))]
          [] OTHER -> hold

-----------------------------------------------------------------------------
(* Standalone model: one owner calls put() with arbitrary tokens.          *)
(* history and emitted are ghost variables: every token put and every     *)
(* chunk returned.                                                          *)

VARIABLES tokenCache, printLen, history, emitted

vars == <<tokenCache, printLen, history, emitted>>

Init ==
    /\ tokenCache = <<>>
    /\ printLen = 0
    /\ history = <<>>
    /\ emitted = <<>>

PutToken(token) ==
    /\ Len(history) < MaxPuts
    /\ LET r == Put(tokenCache, printLen, token)
       IN  /\ tokenCache' = r.cache
           /\ printLen' = r.printLen
           /\ emitted' = IF r.has THEN Append(emitted, r.chunk) ELSE emitted
    /\ history' = Append(history, token)

Next == \E token \in Tokens : PutToken(token)

Spec == Init /\ [][Next]_vars

-----------------------------------------------------------------------------
(* The longest text MaxPuts tokens decode to: each token is at most a     *)
(* space and a U+FFFD.                                                      *)
MaxTextBytes == 4 * MaxPuts

TypeOK ==
    /\ tokenCache \in Seq(Tokens)
    /\ printLen \in 0..MaxTextBytes
    /\ history \in Seq(Tokens)
    /\ emitted \in Seq(Seq(STRING))

(* printLen is a byte offset into the text decoded from the cache; the    *)
(* newline branch of put() computes text.size() - printLen as a size_t,   *)
(* so an offset past the end of a re-decoded text would underflow.         *)
PrintLenBounded == printLen <= Len(Decode(tokenCache))

(* Whatever put() has not yet returned is exactly the text of the cache   *)
(* after printLen: the streamer holds back no more and no less.            *)
HeldBackIsCacheTail ==
    LET text == Decode(tokenCache)
    IN  FlattenSeq(emitted) \o SubSeq(text, printLen + 1, Len(text)) = Decode(history)

=============================================================================
