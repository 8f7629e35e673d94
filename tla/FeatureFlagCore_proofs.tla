------------------------- MODULE FeatureFlagCore_proofs -------------------------
(***************************************************************************)
(* What holds of the shared core for every set of requests.                *)
(*                                                                         *)
(* The two loops are tied to the declarative verdict by LoopInv: while a   *)
(* loop looks at rule index, no earlier rule was faulty (validation) or    *)
(* decisive (rules).  The answers then match the verdict disjunct by       *)
(* disjunct, with index as the witness of "the first rule".                *)
(***************************************************************************)
EXTENDS FeatureFlagCore, TLAPS

HeaderChecked == phase \in {"validate", "apply"} => ~Headless(input)

ValidatedSoFar ==
    phase = "validate" =>
        \A j \in 1 .. Len(input.rules) : j < index => ~Faulty(input.rules[j])

AllValidated ==
    phase = "apply" => \A j \in 1 .. Len(input.rules) : ~Faulty(input.rules[j])

UndecidedSoFar ==
    phase = "apply" =>
        \A j \in 1 .. Len(input.rules) : j < index => ~Decisive(input, input.rules[j])

LoopInv ==
    /\ TypeOK
    /\ HeaderChecked
    /\ ValidatedSoFar
    /\ AllValidated
    /\ UndecidedSoFar
    /\ AnswerIsVerdict

-----------------------------------------------------------------------------
(* A rule passes its checks exactly when it is not faulty, and the code of  *)
(* the first failing check is the one the verdict names (validate_request). *)
LEMMA RuleErrorIsFault ==
    ASSUME NEW rule
    PROVE  /\ RuleError(rule) = "none" <=> ~Faulty(rule)
           /\ RuleError(rule) # "none" =>
                RuleError(rule) = IF Nameless(rule) THEN "INVALID_REQUEST"
                                                    ELSE "UNSUPPORTED_OPERATOR"
           /\ RuleError(rule) \in {"none", "INVALID_REQUEST", "UNSUPPORTED_OPERATOR"}
  BY DEF RuleError, Faulty, Nameless, IsBlank

(* The parts of a request the loops read have the shapes they rely on.      *)
LEMMA RequestShape ==
    ASSUME NEW r \in Requests
    PROVE  /\ r # Malformed
           /\ r.rules \in Seq(FeatureRule)
           /\ Len(r.rules) \in Nat
           /\ \A j \in 1 .. Len(r.rules) : r.rules[j] \in FeatureRule
           /\ \A a \in DOMAIN r.context : r.context[a] \in Scalars
  BY RequestsAssumption DEF IsFeatureFlagRequest

(* On a rule that passed validation and whose attribute is present,         *)
(* apply_rule matches, does not match or refuses exactly as the verdict     *)
(* says: only numbers are ordered, and values of two types are unequal.     *)
LEMMA ApplyRuleDecides ==
    ASSUME NEW r, NEW rule, Present(r, rule), ~Faulty(rule),
           rule.value \in Scalars, r.context[rule.attribute] \in Scalars
    PROVE  LET outcome == ApplyRule(r.context[rule.attribute], rule.op, rule.value) IN
           /\ outcome \in {"match", "no_match", "INVALID_REQUEST"}
           /\ outcome = "match" <=> Satisfied(r, rule)
           /\ outcome = "INVALID_REQUEST" <=> Incomparable(r, rule)
           /\ outcome = "no_match" <=> ~Decisive(r, rule)
<1> DEFINE seen == r.context[rule.attribute]
<1>1. rule.op \in {"eq", "neq", "gte"}
  BY DEF Faulty, Operators
<1>2. ValuesEqual(seen, rule.value) <=> seen = rule.value
  BY ScalarsAssumption DEF ValuesEqual
<1>3. CASE rule.op = "eq"
  BY <1>2, <1>3 DEF ApplyRule, Satisfied, Decisive, Incomparable
<1>4. CASE rule.op = "neq"
  BY <1>2, <1>4 DEF ApplyRule, Satisfied, Decisive, Incomparable
<1>5. CASE rule.op = "gte"
  BY <1>5 DEF ApplyRule, Satisfied, Decisive, Incomparable
<1> QED
  BY <1>1, <1>3, <1>4, <1>5

-----------------------------------------------------------------------------
(* The shapes of the variables, and the bounds of the loop index, hold      *)
(* through every call (evaluate_json_bytes and what it calls).              *)
LEMMA TypeInductive == TypeOK /\ [Next]_vars => TypeOK'
<1> SUFFICES ASSUME TypeOK, [Next]_vars PROVE TypeOK'
  OBVIOUS
<1> USE DEF TypeOK, Phases
<1>1. CASE Parse
  BY <1>1, RequestShape DEF Parse, Finish, Continue, Error, Codes, Inputs
<1>2. CASE CheckHeader
  BY <1>2, RequestShape DEF CheckHeader, Finish, Continue, Error, Codes, Inputs
<1>3. CASE ValidateRule
  BY <1>3, RequestShape, RuleErrorIsFault
  DEF ValidateRule, Finish, Continue, Error, Codes
<1>4. CASE AllRulesValid
  BY <1>4, RequestShape DEF AllRulesValid, Continue
<1>5. CASE TryRule
  <2> DEFINE rule == input.rules[index]
             outcome == ApplyRule(input.context[rule.attribute], rule.op, rule.value)
  <2>1. outcome \in {"match", "no_match", "INVALID_REQUEST", "UNSUPPORTED_OPERATOR"}
    BY DEF ApplyRule
  <2> QED
    BY <1>5, <2>1, RequestShape DEF TryRule, Finish, Continue, Error, Success, Codes
<1>6. CASE DefaultVariant
  BY <1>6, RequestShape DEF DefaultVariant, Finish, Success
<1>7. CASE Return
  BY <1>7 DEF Return, NoAnswer, Error, Codes, Inputs
<1>8. ASSUME NEW in \in Inputs, Call(in) PROVE TypeOK'
  BY <1>8 DEF Call
<1>9. CASE UNCHANGED vars
  BY <1>9 DEF vars
<1> QED
  BY <1>1, <1>2, <1>3, <1>4, <1>5, <1>6, <1>7, <1>8, <1>9 DEF Next, Step

(* TypeOK holds for every set of requests, however many rules they have.    *)
THEOREM TypeCorrect == Spec => []TypeOK
<1>1. Init => TypeOK
  BY DEF Init, TypeOK, Phases, Inputs, NoAnswer, Error, Codes
<1> QED
  BY <1>1, TypeInductive, PTL DEF Spec

-----------------------------------------------------------------------------
(* What the loops know of the rules they passed is kept by every step, and  *)
(* each way out of them gives the answer the verdict asks for.              *)
LEMMA LoopInductive == LoopInv /\ [Next]_vars => LoopInv'
<1> SUFFICES ASSUME LoopInv, [Next]_vars PROVE LoopInv'
  OBVIOUS
<1> USE DEF LoopInv, HeaderChecked, ValidatedSoFar, AllValidated, UndecidedSoFar,
            AnswerIsVerdict
<1> DEFINE rule == input.rules[index]
<1>0. TypeOK'
  BY TypeInductive
<1>1. CASE Parse
  BY <1>0, <1>1, RequestShape DEF Parse, Finish, Continue, Answers
<1>2. CASE CheckHeader
  <2>1. CASE Headless(input)
    <3>1. answer' = Error("INVALID_REQUEST") /\ phase' = "answered" /\ input' = input
      BY <1>2, <2>1 DEF CheckHeader, Finish, Headless, IsBlank
    <3>2. Verdict(input, Error("INVALID_REQUEST"))
      BY <2>1 DEF Verdict
    <3> QED
      BY <1>0, <1>2, <3>1, <3>2, RequestShape DEF Answers, TypeOK, CheckHeader
  <2>2. CASE ~Headless(input)
    <3>1. phase' = "validate" /\ index' = 1 /\ input' = input
      BY <1>2, <2>2 DEF CheckHeader, Continue, Headless, IsBlank
    <3> QED
      BY <1>0, <2>2, <3>1
  <2> QED
    BY <2>1, <2>2
<1>3. CASE ValidateRule
  <2> USE <1>3 DEF ValidateRule
  <2>0. /\ input \in Requests /\ phase = "validate"
        /\ index \in 1 .. Len(input.rules) /\ Len(input.rules) \in Nat
    BY RequestShape DEF TypeOK
  <2>1. CASE RuleError(rule) = "none"
    <3>1. ~Faulty(rule)
      BY <2>1, RuleErrorIsFault
    <3>2. phase' = "validate" /\ index' = index + 1 /\ input' = input
      BY <2>1 DEF Continue
    <3> QED
      BY <1>0, <2>0, <3>1, <3>2
  <2>2. CASE RuleError(rule) # "none"
    <3> DEFINE code == IF Nameless(rule) THEN "INVALID_REQUEST" ELSE "UNSUPPORTED_OPERATOR"
    <3>1. answer' = Error(code) /\ phase' = "answered" /\ input' = input
      BY <2>2, RuleErrorIsFault DEF Finish
    <3>2. FirstRule(input, index, Faulty)
      BY <2>0, <2>2, RuleErrorIsFault DEF FirstRule
    <3>3. Verdict(input, Error(code))
      BY <2>0, <3>2 DEF Verdict
    <3> QED
      BY <1>0, <2>0, <3>1, <3>3, RequestShape DEF Answers
  <2> QED
    BY <2>1, <2>2
<1>4. CASE AllRulesValid
  <2>1. /\ phase' = "apply" /\ index' = 1 /\ input' = input
        /\ phase = "validate" /\ index = Len(input.rules) + 1 /\ Len(input.rules) \in Nat
    BY <1>4, RequestShape DEF AllRulesValid, Continue, TypeOK
  <2> QED
    BY <1>0, <2>1
<1>5. CASE TryRule
  <2> USE <1>5 DEF TryRule
  <2> DEFINE outcome == ApplyRule(input.context[rule.attribute], rule.op, rule.value)
  <2>0. /\ input \in Requests /\ phase = "apply"
        /\ index \in 1 .. Len(input.rules) /\ Len(input.rules) \in Nat
        /\ rule \in FeatureRule
    BY RequestShape DEF TypeOK
  <2>1. CASE ~Present(input, rule)
    <3>1. phase' = "apply" /\ index' = index + 1 /\ input' = input
      BY <2>1 DEF Continue, Present
    <3>2. ~Decisive(input, rule)
      BY <2>1 DEF Decisive, Satisfied, Incomparable
    <3> QED
      BY <1>0, <2>0, <3>1, <3>2
  <2>2. CASE Present(input, rule)
    <3>0. /\ outcome \in {"match", "no_match", "INVALID_REQUEST"}
          /\ outcome = "match" <=> Satisfied(input, rule)
          /\ outcome = "INVALID_REQUEST" <=> Incomparable(input, rule)
          /\ outcome = "no_match" <=> ~Decisive(input, rule)
      <4>1. rule.value \in Scalars /\ input.context[rule.attribute] \in Scalars
        BY <2>0, <2>2, RequestShape DEF FeatureRule, Present
      <4>2. ~Faulty(rule)
        BY <2>0
      <4> QED
        BY <2>2, <4>1, <4>2, ApplyRuleDecides
    <3>1. CASE outcome = "no_match"
      <4>1. phase' = "apply" /\ index' = index + 1 /\ input' = input
        BY <2>2, <3>1 DEF Continue, Present
      <4> QED
        BY <1>0, <2>0, <3>0, <3>1, <4>1
    <3>2. CASE outcome # "no_match"
      <4> DEFINE result == IF Incomparable(input, rule)
                             THEN Error("INVALID_REQUEST")
                             ELSE Success(input, rule.variant, "rule_match", index - 1)
                 Decides(r) == Decisive(input, r)
      <4>1. answer' = result /\ phase' = "answered" /\ input' = input
        BY <2>2, <3>0, <3>2 DEF Finish, Present
      <4>2. FirstRule(input, index, Decides)
        BY <2>0, <3>0, <3>2 DEF FirstRule
      <4>3. Verdict(input, result)
        BY <2>0, <4>2 DEF Verdict
      <4> QED
        BY <1>0, <2>0, <4>1, <4>3, RequestShape DEF Answers
    <3> QED
      BY <3>1, <3>2
  <2> QED
    BY <2>1, <2>2
<1>6. CASE DefaultVariant
  <2> DEFINE result == Success(input, input.default_variant, "default", NoIndex)
  <2>1. /\ phase = "apply" /\ input \in Requests /\ Len(input.rules) \in Nat
        /\ index = Len(input.rules) + 1
        /\ answer' = result /\ phase' = "answered" /\ input' = input
    BY <1>6, RequestShape DEF DefaultVariant, Finish, TypeOK
  <2>2. /\ ~Headless(input)
        /\ \A j \in 1 .. Len(input.rules) : ~Faulty(input.rules[j])
        /\ \A j \in 1 .. Len(input.rules) : ~Decisive(input, input.rules[j])
    BY <2>1
  <2>3. Verdict(input, result)
    BY <2>2, Zenon DEF Verdict
  <2> QED
    BY <1>0, <2>1, <2>3, RequestShape DEF Answers
<1>7. CASE Return
  BY <1>0, <1>7 DEF Return
<1>8. ASSUME NEW in \in Inputs, Call(in) PROVE LoopInv'
  BY <1>0, <1>8 DEF Call
<1>9. CASE UNCHANGED vars
  BY <1>0, <1>9 DEF vars
<1> QED
  BY <1>1, <1>2, <1>3, <1>4, <1>5, <1>6, <1>7, <1>8, <1>9 DEF Next, Step

THEOREM LoopInvariant == Spec => []LoopInv
<1>1. Init => LoopInv
  BY TypeCorrect DEF Init, LoopInv, TypeOK, HeaderChecked, ValidatedSoFar, AllValidated,
     UndecidedSoFar, AnswerIsVerdict, Phases, Inputs, NoAnswer, Error, Codes
<1> QED
  BY <1>1, LoopInductive, PTL DEF Spec

(* Whatever the rules and the context, and however many of them there are,  *)
(* an answered call has been given the verdict of its rules                 *)
(* (evaluate_request).                                                      *)
THEOREM AnswersCorrect == Spec => []AnswerIsVerdict
  BY LoopInvariant, PTL DEF LoopInv

(* No rule is applied to the context while an unsupported operator or a     *)
(* blank name stands anywhere in the list (evaluate_request,                *)
(* validate_request): the last arm of apply_rule is never taken.            *)
THEOREM Vetted == Spec => []NothingAppliedUnvetted
<1>1. LoopInv => NothingAppliedUnvetted
  <2> SUFFICES ASSUME LoopInv, phase = "apply", NEW j \in 1 .. Len(input.rules)
               PROVE  /\ RuleError(input.rules[j]) = "none"
                      /\ input.rules[j].attribute \in DOMAIN input.context =>
                           ApplyRule(input.context[input.rules[j].attribute],
                                     input.rules[j].op, input.rules[j].value)
                             # "UNSUPPORTED_OPERATOR"
    BY DEF NothingAppliedUnvetted
  <2>1. ~Faulty(input.rules[j])
    BY DEF LoopInv, AllValidated
  <2> QED
    BY <2>1, RuleErrorIsFault DEF Faulty, Operators, ApplyRule
<1> QED
  BY <1>1, LoopInvariant, PTL

-----------------------------------------------------------------------------
(* The measure both loops count down, at each place of an evaluation of n   *)
(* rules.                                                                   *)
Measured ==
    LET n == RuleCount(input) IN
    /\ n \in Nat /\ index \in Nat \ {0}
    /\ phase \in {"header", "validate", "apply"} => n = Len(input.rules)
    /\ phase \in {"validate", "apply"} => index =< n + 1
    /\ phase = "parse" => StepsLeft = 2 * n + 5
    /\ phase = "header" => StepsLeft = 2 * n + 4
    /\ phase = "validate" => StepsLeft = 2 * n + 4 - index
    /\ phase = "apply" => StepsLeft = n + 3 - index
    /\ phase = "answered" => StepsLeft = 1
    /\ phase = "idle" => StepsLeft = 0
    /\ StepsLeft \in Nat

LEMMA TypeMeasured == TypeOK => Measured
<1> SUFFICES ASSUME TypeOK PROVE Measured
  OBVIOUS
<1> DEFINE n == RuleCount(input)
<1>1. n \in Nat /\ (phase \in {"header", "validate", "apply"} => n = Len(input.rules))
  BY RequestShape DEF TypeOK, RuleCount, Inputs
<1>2. /\ index \in Nat \ {0} /\ phase \in Phases
      /\ phase \in {"validate", "apply"} => index =< n + 1
  BY <1>1 DEF TypeOK
<1> HIDE DEF n
<1>3. /\ phase = "parse" => StepsLeft = 2 * n + 5
      /\ phase = "header" => StepsLeft = 2 * n + 4
      /\ phase = "validate" => StepsLeft = 2 * n + 4 - index
      /\ phase = "apply" => StepsLeft = n + 3 - index
      /\ phase = "answered" => StepsLeft = 1
      /\ phase = "idle" => StepsLeft = 0
  BY DEF StepsLeft, n
<1>4. StepsLeft \in Nat
  BY <1>1, <1>2, <1>3 DEF Phases
<1> QED
  BY <1>1, <1>2, <1>3, <1>4 DEF Measured, n

(* No step of the core goes back. *)
LEMMA StepComesCloser ==
    ASSUME TypeOK, TypeOK', Step
    PROVE  StepsLeft' \in 0 .. StepsLeft - 1
<1> DEFINE n == RuleCount(input)
           m == RuleCount(input')
<1>0. /\ n \in Nat /\ index \in Nat \ {0}
      /\ phase \in {"header", "validate", "apply"} => n = Len(input.rules)
      /\ phase \in {"validate", "apply"} => index =< n + 1
      /\ phase = "parse" => StepsLeft = 2 * n + 5
      /\ phase = "header" => StepsLeft = 2 * n + 4
      /\ phase = "validate" => StepsLeft = 2 * n + 4 - index
      /\ phase = "apply" => StepsLeft = n + 3 - index
      /\ phase = "answered" => StepsLeft = 1
      /\ StepsLeft \in Nat
  BY TypeMeasured DEF Measured
<1>1. /\ phase' = "header" => StepsLeft' = 2 * m + 4
      /\ phase' = "validate" => StepsLeft' = 2 * m + 4 - index'
      /\ phase' = "apply" => StepsLeft' = m + 3 - index'
      /\ phase' = "answered" => StepsLeft' = 1
      /\ phase' = "idle" => StepsLeft' = 0
      /\ StepsLeft' \in Nat
  <2>1. Measured'
    BY TypeMeasured, PTL
  <2> QED
    BY <2>1 DEF Measured
<1>2. input' = input => m = n
  OBVIOUS
<1> HIDE DEF n, m
<1>3. CASE Parse
  <2>1. phase = "parse" /\ input' = input /\ phase' \in {"answered", "header"}
    BY <1>3 DEF Parse, Finish, Continue
  <2> QED
    BY <1>0, <1>1, <1>2, <2>1
<1>4. CASE CheckHeader
  <2>1. /\ phase = "header" /\ input' = input
        /\ phase' = "answered" \/ (phase' = "validate" /\ index' = 1)
    BY <1>4 DEF CheckHeader, Finish, Continue
  <2> QED
    BY <1>0, <1>1, <1>2, <2>1
<1>5. CASE ValidateRule
  <2>1. /\ phase = "validate" /\ index =< Len(input.rules) /\ input' = input
        /\ phase' = "answered" \/ (phase' = "validate" /\ index' = index + 1)
    BY <1>5 DEF ValidateRule, Finish, Continue
  <2> QED
    BY <1>0, <1>1, <1>2, <2>1
<1>6. CASE AllRulesValid
  <2>1. /\ phase = "validate" /\ index > Len(input.rules) /\ input' = input
        /\ phase' = "apply" /\ index' = 1
    BY <1>6 DEF AllRulesValid, Continue
  <2> QED
    BY <1>0, <1>1, <1>2, <2>1
<1>7. CASE TryRule
  <2> DEFINE rule == input.rules[index]
             outcome == ApplyRule(input.context[rule.attribute], rule.op, rule.value)
  <2>1. outcome \in {"match", "no_match", "INVALID_REQUEST", "UNSUPPORTED_OPERATOR"}
    BY DEF ApplyRule
  <2>2. /\ phase = "apply" /\ index =< Len(input.rules) /\ input' = input
        /\ phase' = "answered" \/ (phase' = "apply" /\ index' = index + 1)
    BY <1>7, <2>1 DEF TryRule, Finish, Continue
  <2> QED
    BY <1>0, <1>1, <1>2, <2>2
<1>8. CASE DefaultVariant
  <2>1. phase = "apply" /\ phase' = "answered"
    BY <1>8 DEF DefaultVariant, Finish
  <2> QED
    BY <1>0, <1>1, <2>1
<1>9. CASE Return
  <2>1. phase = "answered" /\ phase' = "idle"
    BY <1>9 DEF Return
  <2> QED
    BY <1>0, <1>1, <2>1
<1> QED
  BY <1>3, <1>4, <1>5, <1>6, <1>7, <1>8, <1>9 DEF Step

(* An evaluation never goes on for ever, whatever its rules are: every step *)
(* of both loops comes closer to the answer (evaluate_request,              *)
(* validate_request).                                                       *)
THEOREM LoopsEnd == Spec => ComesCloser
<1>1. TypeOK /\ TypeOK' /\ [Next]_vars => [Step => StepsLeft' \in 0 .. StepsLeft - 1]_vars
  BY StepComesCloser
<1> QED
  BY <1>1, TypeCorrect, PTL DEF Spec, ComesCloser

-----------------------------------------------------------------------------
(* A request has at most one verdict, so FlagEvaluation leaves an           *)
(* implementation no choice: two answers to one input are the same answer.  *)
THEOREM VerdictUnique ==
    ASSUME NEW r \in Requests, NEW a, NEW b, Verdict(r, a), Verdict(r, b)
    PROVE  a = b
<1> DEFINE rules == r.rules
           Decides(rule) == Decisive(r, rule)
<1>1. Len(rules) \in Nat
  BY RequestShape
<1>2. CASE Headless(r)
  BY <1>2 DEF Verdict
<1>3. CASE ~Headless(r) /\ \E i \in 1 .. Len(rules) : Faulty(rules[i])
  <2>1. PICK i \in 1 .. Len(rules) :
          /\ FirstRule(r, i, Faulty)
          /\ a = Error(IF Nameless(rules[i]) THEN "INVALID_REQUEST"
                                             ELSE "UNSUPPORTED_OPERATOR")
    BY <1>3, Zenon DEF Verdict
  <2>2. PICK j \in 1 .. Len(rules) :
          /\ FirstRule(r, j, Faulty)
          /\ b = Error(IF Nameless(rules[j]) THEN "INVALID_REQUEST"
                                             ELSE "UNSUPPORTED_OPERATOR")
    BY <1>3, Zenon DEF Verdict
  <2>3. i = j
    BY <1>1, <2>1, <2>2 DEF FirstRule
  <2> QED
    BY <2>1, <2>2, <2>3
<1>4. CASE /\ ~Headless(r)
           /\ \A k \in 1 .. Len(rules) : ~Faulty(rules[k])
           /\ \E k \in 1 .. Len(rules) : Decides(rules[k])
  <2> DEFINE Deciding(k, reply) ==
               /\ FirstRule(r, k, Decides)
               /\ reply = IF Incomparable(r, rules[k])
                            THEN Error("INVALID_REQUEST")
                            ELSE Success(r, rules[k].variant, "rule_match", k - 1)
  <2>0. \A k \in 1 .. Len(rules) : ~FirstRule(r, k, Faulty)
    BY <1>4 DEF FirstRule
  <2>1. PICK i \in 1 .. Len(rules) : Deciding(i, a)
    BY <1>4, <2>0, Zenon DEF Verdict
  <2>2. PICK j \in 1 .. Len(rules) : Deciding(j, b)
    BY <1>4, <2>0, Zenon DEF Verdict
  <2>3. i = j
    BY <1>1, <2>1, <2>2 DEF FirstRule
  <2> QED
    BY <2>1, <2>2, <2>3
<1>5. CASE /\ ~Headless(r)
           /\ \A k \in 1 .. Len(rules) : ~Faulty(rules[k])
           /\ \A k \in 1 .. Len(rules) : ~Decides(rules[k])
  <2>1. \A k \in 1 .. Len(rules) : ~FirstRule(r, k, Faulty) /\ ~FirstRule(r, k, Decides)
    BY <1>5 DEF FirstRule
  <2> QED
    BY <1>5, <2>1, Zenon DEF Verdict
<1> QED
  BY <1>2, <1>3, <1>4, <1>5

(* The two loops implement the one-step promise: every step of the core is  *)
(* taking an input, answering it with its verdict, returning, or invisible  *)
(* to the caller (evaluate_json_bytes).                                     *)
THEOREM Implementation == Spec => ImplementsFlagEvaluation
<1>0. /\ Abstract!NoAnswer = NoAnswer
      /\ Abstract!Inputs = Inputs
      /\ \A in, reply : Answers(in, reply) => Abstract!Answers(in, reply)
  <2>1. Abstract!NoAnswer = NoAnswer /\ Abstract!Inputs = Inputs
    BY DEF Abstract!NoAnswer, NoAnswer, Abstract!Error, Error, Abstract!Inputs, Inputs
  <2>2. ASSUME NEW in, NEW reply PROVE Verdict(in, reply) => Abstract!Verdict(in, reply)
    BY Zenon DEF Verdict, Headless, FirstRule, Faulty, Nameless, Operators, Decisive,
         Satisfied, Incomparable, Present, Error, Success, NoIndex,
         Abstract!Verdict, Abstract!Headless, Abstract!FirstRule, Abstract!Faulty,
         Abstract!Nameless, Abstract!Operators, Abstract!Decisive, Abstract!Satisfied,
         Abstract!Incomparable, Abstract!Present, Abstract!Error, Abstract!Success,
         Abstract!NoIndex
  <2> QED
    BY <2>1, <2>2 DEF Answers, Abstract!Answers, Error, Abstract!Error
<1>1. Init => Abstract!Init
  BY <1>0 DEF Init, Abstract!Init
<1>2. ASSUME LoopInv, LoopInv', [Next]_vars
      PROVE  [Abstract!Next]_(Abstract!abstractVars)
  <2> USE <1>2 DEF Abstract!abstractVars, Abstract!Next
  <2> DEFINE busy == phase \in {"parse", "header", "validate", "apply"}
  <2>1. CASE Parse \/ CheckHeader \/ ValidateRule \/ AllRulesValid \/ TryRule \/ DefaultVariant
    <3>1. busy /\ input' = input
      BY <2>1 DEF Parse, CheckHeader, ValidateRule, AllRulesValid, TryRule,
         DefaultVariant, Finish, Continue
    <3>2. \/ phase' = "answered"
          \/ phase' \in {"header", "validate", "apply"} /\ answer' = answer
      BY <2>1 DEF Parse, CheckHeader, ValidateRule, AllRulesValid, TryRule,
         DefaultVariant, Finish, Continue
    <3>3. CASE phase' = "answered"
      <4>1. Answers(input, answer')
        BY <3>1, <3>3 DEF LoopInv, AnswerIsVerdict
      <4> QED
        BY <1>0, <3>1, <3>3, <4>1 DEF Abstract!Answer
    <3>4. CASE phase' \in {"header", "validate", "apply"} /\ answer' = answer
      BY <3>1, <3>4
    <3> QED
      BY <3>2, <3>3, <3>4
  <2>2. CASE Return
    BY <1>0, <2>2 DEF Return, Abstract!Return
  <2>3. ASSUME NEW in \in Inputs, Call(in) PROVE Abstract!Evaluate
    BY <1>0, <2>3 DEF Call, Abstract!Evaluate
  <2>4. CASE UNCHANGED vars
    BY <2>4 DEF vars
  <2> QED
    BY <2>1, <2>2, <2>3, <2>4 DEF Next, Step
<1> QED
  BY <1>1, <1>2, LoopInvariant, PTL DEF Spec, ImplementsFlagEvaluation, Abstract!Spec
=============================================================================
