--------------------------- MODULE MCFeatureFlagCore ---------------------------
(***************************************************************************)
(* A small instance of the shared core: two attributes, each absent from   *)
(* the context or holding a text or one of two numbers; up to MaxRules     *)
(* rules drawn from every well-formed shape and from each kind of faulty   *)
(* one; blank and proper flag keys and default variants.                   *)
(***************************************************************************)
EXTENDS FeatureFlagCore

CONSTANTS Text, MaxRules

MCBlanks == {" "}
MCStrings == {" ", "tier", "age", "eq", "neq", "gte", "contains", "on", "off", "flag"}
MCMalformed == [malformed |-> TRUE]

Number(n) == [type |-> "number", val |-> n]
MCScalars == {[type |-> "string", val |-> Text], Number(0), Number(1)}

Rule(attribute, op, value, variant) ==
    [attribute |-> attribute, op |-> op, value |-> value, variant |-> variant]

MCRules ==
    {Rule(a, op, v, "on") : a \in {"tier", "age"}, op \in Operators, v \in MCScalars}
    \cup {Rule(" ", op, Number(0), "on") : op \in {"eq", "contains"}}
    \cup {Rule("tier", op, Number(0), " ") : op \in {"eq", "contains"}}
    \cup {Rule("age", "contains", Number(0), "on")}

RuleLists == UNION {[1 .. n -> MCRules] : n \in 0 .. MaxRules}
Contexts == UNION {[D -> MCScalars] : D \in SUBSET {"tier", "age"}}

MCRequests ==
    [flag_key : {"flag"}, default_variant : {"off"}, rules : RuleLists, context : Contexts]
    \cup
    [flag_key : {" ", "flag"}, default_variant : {" ", "off"},
     rules : {<<>>, <<Rule("age", "contains", Number(0), "on")>>}, context : {<<>>}]
=============================================================================
