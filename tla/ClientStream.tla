---------------------------- MODULE ClientStream ----------------------------
(***************************************************************************)
(* What one request's client may observe of a chat completion, whatever   *)
(* the serving code does in between: the engine generates tokens one at a *)
(* time, the client receives text that is always a prefix of the text of  *)
(* the tokens generated so far, growing only, and once the response has  *)
(* ended nothing more arrives.  A unary response delivers its text and    *)
(* ends in one step; a stream delivers it in pieces and ends with a step  *)
(* that may deliver nothing.  A failed request simply never ends.         *)
(*                                                                         *)
(* The specification promises more (all of the text before the end); the  *)
(* detailed model shows where the code does not keep that part, so the     *)
(* abstract promise here is the one the code is meant to keep always.     *)
(***************************************************************************)
EXTENDS Sequences, SequencesExt

CONSTANTS
    Text(_),      \* the decoded text of a token sequence
    StreamTokens, \* tokens the engine may generate
    MaxTokens     \* bound on generated tokens

VARIABLES
    generated,  \* tokens generated for the response (its first sequence)
    delivered,  \* text the client has received
    ended       \* the client has seen the end of the response

vars == <<generated, delivered, ended>>

Init ==
    /\ generated = <<>>
    /\ delivered = <<>>
    /\ ended = FALSE

(* The prefixes of the current text that extend what was delivered.       *)
Extensions ==
    LET text == Text(generated)
    IN  {s \in Prefixes(text) : IsPrefix(delivered, s)}

Generate ==
    /\ Len(generated) < MaxTokens
    /\ \E t \in StreamTokens : generated' = Append(generated, t)
    /\ UNCHANGED <<delivered, ended>>

Deliver ==
    /\ ~ended
    /\ \E s \in Extensions : s # delivered /\ delivered' = s
    /\ UNCHANGED <<generated, ended>>

End ==
    /\ ~ended
    /\ \E s \in Extensions : delivered' = s
    /\ ended' = TRUE
    /\ UNCHANGED generated

Next == Generate \/ Deliver \/ End

Spec == Init /\ [][Next]_vars

=============================================================================
