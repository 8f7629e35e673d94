------------------------------ MODULE FlagVerdict ------------------------------
(***************************************************************************)
(* The vocabulary of a feature flag request and the verdict its rules      *)
(* imply.  The verdict is declarative: it speaks of the first faulty rule  *)
(* and of the first rule that decides, never of an order of steps.         *)
(***************************************************************************)
EXTENDS Integers, Sequences

CONSTANTS
    Strings,    \* attribute, operator and variant names, flag keys
    Blanks,     \* the strings that are empty once trimmed
    Scalars,    \* typed values: [type |-> "string"|"number"|"bool", val |-> _]
    Requests,   \* the requests callers send
    Malformed   \* any byte string that does not parse as a request

FeatureRule ==
    [attribute : Strings, op : Strings, value : Scalars, variant : Strings]

IsFeatureFlagRequest(r) ==
    /\ {r.flag_key, r.default_variant} \subseteq Strings
    /\ r.rules \in Seq(FeatureRule)
    /\ DOMAIN r.context \subseteq Strings
    /\ \A a \in DOMAIN r.context : r.context[a] \in Scalars

ASSUME RequestsAssumption ==
    /\ \A r \in Requests : IsFeatureFlagRequest(r)
    /\ Malformed \notin Requests
ASSUME ScalarsAssumption ==
    \A s \in Scalars :
        /\ s = [type |-> s.type, val |-> s.val]
        /\ s.type = "number" => s.val \in Int

Inputs == Requests \cup {Malformed}

Operators == {"eq", "neq", "gte"}

Error(code) == [ok |-> FALSE, code |-> code]
Success(request, variant, reason, matched) ==
    [ok |-> TRUE, flag_key |-> request.flag_key, variant |-> variant,
     reason |-> reason, matched_rule_index |-> matched]
NoIndex == -1                \* matched_rule_index is null
NoAnswer == Error("none")    \* no answer yet

-----------------------------------------------------------------------------
(* The verdict. *)

Nameless(rule) == rule.attribute \in Blanks \/ rule.variant \in Blanks
Faulty(rule) == Nameless(rule) \/ rule.op \notin Operators

Present(request, rule) == rule.attribute \in DOMAIN request.context

Incomparable(request, rule) ==
    /\ Present(request, rule)
    /\ rule.op = "gte"
    /\ \/ request.context[rule.attribute].type # "number"
       \/ rule.value.type # "number"

Satisfied(request, rule) ==
    LET seen == request.context[rule.attribute] IN
    /\ Present(request, rule)
    /\ ~Incomparable(request, rule)
    /\ \/ rule.op = "eq" /\ seen = rule.value
       \/ rule.op = "neq" /\ seen # rule.value
       \/ rule.op = "gte" /\ seen.val >= rule.value.val

Decisive(request, rule) == Incomparable(request, rule) \/ Satisfied(request, rule)

Headless(request) ==
    request.flag_key \in Blanks \/ request.default_variant \in Blanks

(* i is the first rule of the request of which P holds. *)
FirstRule(request, i, P(_)) ==
    /\ i \in 1 .. Len(request.rules)
    /\ P(request.rules[i])
    /\ \A j \in 1 .. i - 1 : ~P(request.rules[j])

(* The faults are looked for in the whole request before any rule decides. *)
Verdict(request, reply) ==
    LET rules == request.rules
        Decides(rule) == Decisive(request, rule)
    IN
    \/ /\ Headless(request)
       /\ reply = Error("INVALID_REQUEST")
    \/ /\ ~Headless(request)
       /\ \E i \in 1 .. Len(rules) :
            /\ FirstRule(request, i, Faulty)
            /\ reply = Error(IF Nameless(rules[i]) THEN "INVALID_REQUEST"
                                                    ELSE "UNSUPPORTED_OPERATOR")
    \/ /\ ~Headless(request)
       /\ \A j \in 1 .. Len(rules) : ~Faulty(rules[j])
       /\ \/ \E i \in 1 .. Len(rules) :
               /\ FirstRule(request, i, Decides)
               /\ reply = IF Incomparable(request, rules[i])
                             THEN Error("INVALID_REQUEST")
                             ELSE Success(request, rules[i].variant, "rule_match", i - 1)
          \/ /\ \A j \in 1 .. Len(rules) : ~Decides(rules[j])
             /\ reply = Success(request, request.default_variant, "default", NoIndex)

Answers(in, reply) ==
    IF in = Malformed THEN reply = Error("INVALID_JSON") ELSE Verdict(in, reply)

=============================================================================
