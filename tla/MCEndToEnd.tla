------------------------------ MODULE MCEndToEnd ------------------------------
(***************************************************************************)
(* Addresses of four bits; a memory of four bytes that grows to seven, in  *)
(* which places are used again for later requests and responses.  Texts:   *)
(* two requests with different verdicts, of which one has a rule the       *)
(* context does not speak to; one that does not parse; the empty one; one  *)
(* whose length is a negative i32.                                         *)
(***************************************************************************)
EXTENDS EndToEnd

CONSTANTS matching, passing, nonsense, empty, oversized

MCStrings == {" ", "tier", "eq", "neq", "on", "off", "flag"}
MCBlanks == {" "}
MCScalars == {[type |-> "number", val |-> 1], [type |-> "bool", val |-> TRUE]}
MCMalformed == [malformed |-> TRUE]

One == [type |-> "number", val |-> 1]
True == [type |-> "bool", val |-> TRUE]
Request(context) ==
    [flag_key |-> "flag", default_variant |-> "off", context |-> context,
     rules |-> <<[attribute |-> "tier", op |-> "neq", value |-> One, variant |-> "on"]>>]

Matching == Request([a \in {"tier"} |-> True])
Passing == Request([a \in {} |-> One])
MCRequests == {Matching, Passing}

MCTexts == {matching, passing, nonsense, empty, oversized}
MCParsed ==
    [text \in MCTexts |-> CASE text = matching -> Matching
                            [] text = passing  -> Passing
                            [] OTHER           -> MCMalformed]
MCTextLength ==
    [text \in MCTexts |-> CASE text = empty -> 0 [] text = oversized -> Half + 1
                            [] text = matching -> 2 [] OTHER -> 1]
MCAnswerLength(reply) == IF reply.ok THEN 2 ELSE 1

MCMemorySizes == {4, 7}
MCRequestLens == {0, 1, 2, Half + 1}
MCResponseLens == {1, 2}
=============================================================================
