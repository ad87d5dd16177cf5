-------------------------- MODULE MCRequestDecoder --------------------------
(* Checks the request decoder on every document that differs from a valid *)
(* request in at most two members, each member taking a value of every    *)
(* type class and the numeric values on both sides of each range bound.   *)
EXTENDS RequestDecoder, FiniteSets

(* The rests a double member may carry past its value in tenths: {0} for  *)
(* doubles a float holds exactly, {-1, 0, 1} for all doubles.             *)
CONSTANT Residues
FloatExact == {0}
AnyDouble  == {-1, 0, 1}

(* Candidate values of a member: absent, or a type class with a number.   *)
Values ==
    {[type |-> t, num |-> 0, rest |-> 0] : t \in {"null", "string"}}
    \cup {[type |-> "bool", num |-> b, rest |-> 0] : b \in 0..1}
    \cup {[type |-> "int", num |-> x, rest |-> 0] : x \in {0, 1}}
    \cup {[type |-> "double", num |-> x, rest |-> r] :
            x \in {-1, 0, 10, 20, 21}, r \in Residues}

MessageChoices ==
    { <<>>,
      <<[object |-> TRUE, stringValues |-> TRUE, hasContent |-> TRUE]>>,
      <<[object |-> TRUE, stringValues |-> TRUE, hasContent |-> FALSE]>>,
      <<[object |-> TRUE, stringValues |-> FALSE, hasContent |-> TRUE]>>,
      <<[object |-> FALSE, stringValues |-> TRUE, hasContent |-> FALSE]>>,
      <<[object |-> TRUE, stringValues |-> TRUE, hasContent |-> FALSE],
        [object |-> TRUE, stringValues |-> TRUE, hasContent |-> TRUE]>> }

BaseDoc ==
    [object  |-> TRUE,
     present |-> {"messages", "model"},
     type    |-> [f \in FieldNames |-> IF f = "messages" THEN "array"
                                       ELSE IF f = "model" THEN "string"
                                       ELSE "null"],
     num     |-> [f \in FieldNames |-> 0],
     rest    |-> [f \in FieldNames |-> 0],
     msgs    |-> <<[object |-> TRUE, stringValues |-> TRUE, hasContent |-> TRUE]>>]

(* The document d with member f set to value v, or removed.               *)
WithMember(d, f, v) ==
    [d EXCEPT !.present = d.present \cup {f},
              !.type[f] = v.type, !.num[f] = v.num,
              !.rest[f] = v.rest]
WithoutMember(d, f) == [d EXCEPT !.present = d.present \ {f}]

OneChange(d) ==
    {WithMember(d, f, v) : f \in FieldNames, v \in Values}
    \cup {WithoutMember(d, f) : f \in FieldNames}
    \cup {[d EXCEPT !.msgs = m] : m \in MessageChoices}
    \cup {[d EXCEPT !.object = FALSE]}

Docs == UNION {OneChange(d) : d \in OneChange(BaseDoc)}

(* Documents one member away from a valid request.                        *)
OneChangeDocs == OneChange(BaseDoc)

VARIABLE doc

Init == doc \in Docs
Next == UNCHANGED doc
Spec == Init /\ [][Next]_doc

(* parse() together with the RET_CHECKs of Process() accepts exactly the *)
(* requests the specification calls valid: no out-of-range or mistyped     *)
(* member reaches add_request(), and no valid request is refused.          *)
AcceptsExactlySpecRequests == Accepted(doc) <=> SpecAccepts(doc)

(* For every request it accepts, Process() hands add_request() the config *)
(* the specification derives from the request: every member lands on its  *)
(* knob, absent ones keep the engine default, and sampling is decided on  *)
(* the final temperature and group_size (best_of).                         *)
ConfigFollowsSpecMapping ==
    Accepted(doc) => CreateGenerationConfig(Parse(doc)) = SpecConfig(doc)

=============================================================================
