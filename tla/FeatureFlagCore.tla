---------------------------- MODULE FeatureFlagCore ----------------------------
(***************************************************************************)
(* The shared core: evaluate_json_bytes and what it calls                  *)
(* (shared-core/src/lib.rs).  Each iteration of the validation loop and of *)
(* the rule loop is a step; the early returns are their error outcomes.    *)
(*                                                                         *)
(* serde is external: an input either is Malformed or is the request it    *)
(* parses to.  Serialising the answer cannot fail for these types, and an  *)
(* answer stands for its bytes.                                            *)
(***************************************************************************)
EXTENDS FlagVerdict

VARIABLES
    phase,   \* control location of evaluate_json_bytes
    input,   \* what is being evaluated
    index,   \* the rule the current loop looks at, from 1
    answer   \* the response envelope

vars == <<phase, input, index, answer>>

Phases == {"idle", "parse", "header", "validate", "apply", "answered"}

Codes == {"none", "INVALID_JSON", "INVALID_REQUEST", "UNSUPPORTED_OPERATOR"}

Init ==
    /\ phase = "idle"
    /\ input = Malformed
    /\ index = 1
    /\ answer = NoAnswer

-----------------------------------------------------------------------------
(* The checks and comparisons. *)

IsBlank(s) == s \in Blanks

(* One pass of the loop in validate_request: the first check that fails. *)
RuleError(rule) ==
    IF IsBlank(rule.attribute) \/ IsBlank(rule.variant) THEN "INVALID_REQUEST"
    ELSE IF rule.op \notin Operators THEN "UNSUPPORTED_OPERATOR"
    ELSE "none"

(* Values of two types are never equal, so neq holds of them. *)
ValuesEqual(left, right) == left.type = right.type /\ left.val = right.val

ApplyRuleNeqSameType(seen, op, value) ==
    CASE op = "eq"  -> IF ValuesEqual(seen, value) THEN "match" ELSE "no_match"
      [] op = "neq" -> IF seen.type = value.type /\ seen.val # value.val THEN "match" ELSE "no_match"
      [] op = "gte" -> IF seen.type = "number" /\ value.type = "number"
                         THEN IF seen.val >= value.val THEN "match" ELSE "no_match"
                         ELSE "INVALID_REQUEST"
      [] OTHER      -> "UNSUPPORTED_OPERATOR"

ApplyRule(seen, op, value) ==
    CASE op = "eq"  -> IF ValuesEqual(seen, value) THEN "match" ELSE "no_match"
      [] op = "neq" -> IF ValuesEqual(seen, value) THEN "no_match" ELSE "match"
      [] op = "gte" -> IF seen.type = "number" /\ value.type = "number"
                         THEN IF seen.val >= value.val THEN "match" ELSE "no_match"
                         ELSE "INVALID_REQUEST"
      [] OTHER      -> "UNSUPPORTED_OPERATOR"

-----------------------------------------------------------------------------
(* The steps. *)

Finish(result) ==
    /\ phase' = "answered"
    /\ answer' = result
    /\ UNCHANGED <<input, index>>

Continue(location, i) ==
    /\ phase' = location
    /\ index' = i
    /\ UNCHANGED <<input, answer>>

Call(in) ==
    /\ phase = "idle"
    /\ phase' = "parse"
    /\ input' = in
    /\ UNCHANGED <<index, answer>>

ParseWithoutEarlyReturn == phase = "parse" /\ Continue("header", 1)

Parse ==
    /\ phase = "parse"
    /\ IF input = Malformed THEN Finish(Error("INVALID_JSON")) ELSE Continue("header", 1)

CheckHeader ==
    /\ phase = "header"
    /\ IF IsBlank(input.flag_key) \/ IsBlank(input.default_variant)
         THEN Finish(Error("INVALID_REQUEST"))
         ELSE Continue("validate", 1)

ValidateRule ==
    /\ phase = "validate"
    /\ index <= Len(input.rules)
    /\ LET code == RuleError(input.rules[index]) IN
         IF code = "none" THEN Continue("validate", index + 1) ELSE Finish(Error(code))

AllButLastRuleValid ==
    /\ phase = "validate"
    /\ index >= Len(input.rules)
    /\ Continue("apply", 1)

AllRulesValid ==
    /\ phase = "validate"
    /\ index > Len(input.rules)
    /\ Continue("apply", 1)

TryRuleWithoutAdvancing ==
    /\ phase = "apply"
    /\ index <= Len(input.rules)
    /\ LET rule == input.rules[index] IN
         IF rule.attribute \notin DOMAIN input.context
         THEN Continue("apply", index)
         ELSE LET outcome == ApplyRule(input.context[rule.attribute], rule.op, rule.value) IN
              CASE outcome = "match" ->
                     Finish(Success(input, rule.variant, "rule_match", index - 1))
                [] outcome = "no_match" -> Continue("apply", index + 1)
                [] OTHER -> Finish(Error(outcome))

(* A rule whose attribute the context lacks is passed over, whatever its op. *)
TryRule ==
    /\ phase = "apply"
    /\ index <= Len(input.rules)
    /\ LET rule == input.rules[index] IN
         IF rule.attribute \notin DOMAIN input.context
         THEN Continue("apply", index + 1)
         ELSE LET outcome == ApplyRule(input.context[rule.attribute], rule.op, rule.value) IN
              CASE outcome = "match" ->
                     Finish(Success(input, rule.variant, "rule_match", index - 1))
                [] outcome = "no_match" -> Continue("apply", index + 1)
                [] OTHER -> Finish(Error(outcome))

DefaultVariant ==
    /\ phase = "apply"
    /\ index > Len(input.rules)
    /\ Finish(Success(input, input.default_variant, "default", NoIndex))

ReturnKeepingAnswer ==
    /\ phase = "answered"
    /\ phase' = "idle"
    /\ input' = Malformed
    /\ index' = 1
    /\ UNCHANGED answer

(* The caller has the answer; the core keeps nothing of the evaluation. *)
Return ==
    /\ phase = "answered"
    /\ phase' = "idle"
    /\ input' = Malformed
    /\ index' = 1
    /\ answer' = NoAnswer

Step ==
    \/ Parse \/ CheckHeader \/ ValidateRule \/ AllRulesValid \/ TryRule
    \/ DefaultVariant \/ Return

Next == Step \/ (\E in \in Inputs : Call(in))

(* Straight-line code on the caller's thread: a step that can run does run. *)
Spec == Init /\ [][Next]_vars /\ WF_vars(Step)

-----------------------------------------------------------------------------
(* Properties. *)

(* The variables hold what their declarations say; past the parse the      *)
(* input is a request, and the loop index never runs past one after the    *)
(* last rule (evaluate_request, validate_request).                         *)
TypeOK ==
    /\ phase \in Phases
    /\ input \in Inputs
    /\ index \in Nat \ {0}
    /\ phase \in {"header", "validate", "apply"} => input \in Requests
    /\ phase \in {"validate", "apply"} => index <= Len(input.rules) + 1
    /\ ~answer.ok => answer.code \in Codes

(* No rule is applied before every rule, also those behind a rule that      *)
(* would match, passed the validation: an unsupported operator or a blank   *)
(* name far down the list is never hidden by an early match, and the last   *)
(* arm of apply_rule is dead code.                                          *)
NothingAppliedUnvetted ==
    phase = "apply" =>
        \A j \in 1 .. Len(input.rules) :
            /\ RuleError(input.rules[j]) = "none"
            /\ input.rules[j].attribute \in DOMAIN input.context =>
                 ApplyRule(input.context[input.rules[j].attribute], input.rules[j].op,
                           input.rules[j].value) # "UNSUPPORTED_OPERATOR"

(* The answer the two loops arrive at is the verdict of the rules: the      *)
(* first faulty rule, else the first rule that matches or cannot be         *)
(* compared, else the default.                                              *)
AnswerIsVerdict == phase = "answered" => Answers(input, answer)

Abstract == INSTANCE FlagEvaluation WITH
    status <- IF phase \in {"parse", "header", "validate", "apply"} THEN "busy" ELSE phase

(* The core implements FlagEvaluation: no partial answer is ever visible,   *)
(* and an evaluation leaves nothing behind for the next one.                *)
ImplementsFlagEvaluation == Abstract!Spec

RuleCount(in) == IF in = Malformed THEN 0 ELSE Len(in.rules)

(* How many steps the core may still take at most. *)
StepsLeft ==
    CASE phase = "parse"    -> 2 * RuleCount(input) + 5
      [] phase = "header"   -> 2 * RuleCount(input) + 4
      [] phase = "validate" -> 2 * RuleCount(input) + 4 - index
      [] phase = "apply"    -> RuleCount(input) + 3 - index
      [] phase = "answered" -> 1
      [] OTHER              -> 0

(* Each loop looks at a rule at most once and never goes back, so that an   *)
(* evaluation is over after as many steps as it has rules twice, and five   *)
(* (validate_request, evaluate_request).                                    *)
ComesCloser == [][Step => StepsLeft' \in 0 .. StepsLeft - 1]_vars

(* Both loops end: whatever the rules are, a call returns.                  *)
EveryCallReturns == phase = "parse" ~> phase = "answered"
=============================================================================
