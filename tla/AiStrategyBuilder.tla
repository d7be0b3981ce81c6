------------------------- MODULE AiStrategyBuilder -------------------------
(***************************************************************************)
(* Strategies written by a language model (ai-strategy-builder/application *)
(* of the back end, and the filter that turns errors into HTTP answers).   *)
(*                                                                         *)
(* A request for "best yield" is answered from built-in templates.  Any    *)
(* other one asks the model, up to four times while it is rate limited,    *)
(* drops steps of unknown types, and puts a swap in front when the user    *)
(* holds another token than the first step takes.  Errors that the         *)
(* validation finds are reported beside the plan and stop nothing.  The    *)
(* texts - prompt, intent, error messages - are abstracted to what the     *)
(* code finds in them, amounts to what the comparisons tell apart.         *)
(***************************************************************************)
EXTENDS Naturals, SequencesExt

CONSTANTS
    AiTokens,
    NoToken,        \* nothing recognised in the context
    ModelPlans,     \* what the model may answer: sequences of steps
    MaxRequests     \* bound

\* "zero" is also what the code takes for it, as null; seven tenths of a "small"
\* amount are rounded to none.
Amounts == {"absent", "negative", "zero", "small", "positive"}

\* The token is that of tokenIn; amount and out are those of tokenIn and tokenOut.
PlanSteps == [no : Nat, type : STRING, agent : BOOLEAN, token : AiTokens \cup {NoToken},
              amount : Amounts, out : Amounts]

ASSUME AiAssumption ==
    /\ MaxRequests \in Nat /\ NoToken \notin AiTokens
    /\ ModelPlans \subseteq Seq(PlanSteps)

VARIABLES ai, asked, calls

aiVars == <<ai, asked, calls>>

ValidTypes == {"SWAP", "SUPPLY", "BORROW", "CLAIM_REWARDS"}
Risks == {"LOW", "MEDIUM", "HIGH"}
Errors == {"rate", "auth", "quota", "timeout", "parse", "other"}
MaxRetries == 3

Step(no, type, token, amount, out) ==
    [no |-> no, type |-> type, agent |-> TRUE, token |-> token, amount |-> amount, out |-> out]

\* tokenAmount or the number in the text: neither is checked to be positive.
Intents == [yield : BOOLEAN, risk : Risks, input : AiTokens,
            initial : AiTokens \cup {NoToken}, amount : Amounts \ {"absent"}]
NoRequest == [step |-> "idle"]

AiTypeOK ==
    /\ asked \in 0 .. MaxRequests /\ calls \in 0 .. MaxRetries + 1
    /\ ai = NoRequest \/
          /\ ai.step \in {"model", "wait", "risk", "done", "failed"}
          /\ ai.intent \in Intents

AiInit == ai = NoRequest /\ asked = 0 /\ calls = 0

-----------------------------------------------------------------------------
\* The templates: risk, loops, yield in tenths of a percent, types of steps.
Loop == <<"SUPPLY", "BORROW">>
Templates ==
    { [risk |-> "LOW", loops |-> 0, apy |-> 52, types |-> <<"SUPPLY">>],
      [risk |-> "MEDIUM", loops |-> 2, apy |-> 128, types |-> Loop \o Loop],
      [risk |-> "MEDIUM", loops |-> 3, apy |-> 185, types |-> Loop \o Loop \o Loop],
      [risk |-> "HIGH", loops |-> 5, apy |-> 287, types |-> <<"SUPPLY">>] }

MaxLoops(risk) == CASE risk = "LOW" -> 1 [] risk = "HIGH" -> 5 [] OTHER -> 3

BestTemplate(risk) ==
    LET fitting == { t \in Templates : t.risk = risk /\ t.loops <= MaxLoops(risk) }
    IN  CHOOSE t \in fitting : \A u \in fitting : u.apy <= t.apy

\* Every input of the template becomes the user's token and amount, every output
\* seven tenths of it, rounded.
AdaptTemplate(template, token, amount) ==
    [i \in DOMAIN template.types |->
        IF template.types[i] = "SUPPLY" THEN Step(i, "SUPPLY", token, amount, "absent")
        ELSE Step(i, template.types[i], NoToken, "absent",
                  IF amount = "small" THEN "zero" ELSE amount)]

\* The swap gives what the first step takes, or ten, for 98 of 100 of it.
SwapFor(first, initial) ==
    LET amount == IF first.amount \in {"absent", "zero"} THEN "positive" ELSE first.amount
    IN  Step(1, "SWAP", initial, amount, amount)

\* Mutant: a plan that begins with a swap of its own is left alone.
AddInitialSwapToOthers(steps, initial) ==
    IF \/ initial = NoToken \/ steps = <<>> \/ steps[1].type = "SWAP"
       \/ steps[1].token \in {NoToken, initial}
    THEN steps
    ELSE LET all == <<SwapFor(steps[1], initial)>> \o steps
         IN  [i \in DOMAIN all |-> [all[i] EXCEPT !.no = i]]

AddInitialSwapIfNeeded(steps, initial) ==
    IF \/ initial = NoToken \/ steps = <<>>
       \/ steps[1].token \in {NoToken, initial}
    THEN steps
    ELSE LET all == <<SwapFor(steps[1], initial)>> \o steps
         IN  [i \in DOMAIN all |-> [all[i] EXCEPT !.no = i]]

\* The steps of known types, in their order.
KnownTypes(plan) ==
    LET known[i \in 0 .. Len(plan)] ==
            IF i = 0 THEN <<>>
            ELSE IF plan[i].type \in ValidTypes THEN Append(known[i - 1], plan[i])
            ELSE known[i - 1]
    IN  known[Len(plan)]

Follows(type) ==
    CASE type = "SWAP"   -> {"SUPPLY", "SWAP"}
      [] type = "SUPPLY" -> {"BORROW"}
      [] type = "BORROW" -> {"SWAP", "SUPPLY", "BORROW"}
      [] OTHER           -> ValidTypes

\* A step without an agent or of an unknown type is an error and looked at no
\* further, one with an amount that is not positive is an error too.
Readable(s) == s.agent /\ s.type \in ValidTypes
Right(s) == Readable(s) /\ s.amount \notin {"negative", "zero"} /\ s.out \notin {"negative", "zero"}

\* Unusual sequences are warned of.
ValidateSteps(plan) ==
    [isValid |-> \A i \in DOMAIN plan : Right(plan[i]),
     warned |-> \/ \A i \in DOMAIN plan : plan[i].type # "SUPPLY"
                \/ \E i \in 2 .. Len(plan) :
                      Readable(plan[i]) /\ plan[i].type \notin Follows(plan[i - 1].type)]

\* The filter's HTTP status for each class of error.
HttpStatus(error) ==
    CASE error = "rate" -> 429 [] error = "auth" -> 401 [] error = "quota" -> 403
      [] error = "timeout" -> 408 [] error = "parse" -> 400 [] OTHER -> 500

-----------------------------------------------------------------------------
\* generateStrategySteps: a template at once, or the model.
BuildStrategy(intent) ==
    /\ ai.step \in {"idle", "done", "failed"} /\ asked < MaxRequests
    /\ asked' = asked + 1
    /\ calls' = 0
    /\ ai' = IF intent.yield
             THEN LET token == IF intent.initial = NoToken THEN intent.input
                               ELSE intent.initial
                      plan  == AdaptTemplate(BestTemplate(intent.risk), token, intent.amount)
                  IN  [step |-> "risk", intent |-> intent, plan |-> plan, written |-> plan]
             ELSE [step |-> "model", intent |-> intent]

\* callGemini: an empty list is an error, a list of unknown steps is not.  What was
\* written is kept beside the plan as history.
ModelAnswers(plan) ==
    /\ ai.step = "model"
    /\ calls' = calls + 1
    /\ ai' = IF plan = <<>>
             THEN [step |-> "failed", intent |-> ai.intent, status |-> HttpStatus("other")]
             ELSE [step |-> "risk", intent |-> ai.intent,
                   plan |-> AddInitialSwapIfNeeded(KnownTypes(plan), ai.intent.initial),
                   written |-> KnownTypes(plan)]
    /\ UNCHANGED asked

ModelFails(error) ==
    /\ ai.step = "model"
    /\ calls' = calls + 1
    /\ ai' = IF error = "rate" /\ calls < MaxRetries
             THEN [ai EXCEPT !.step = "wait"]
             ELSE [step |-> "failed", intent |-> ai.intent, status |-> HttpStatus(error)]
    /\ UNCHANGED asked

\* The back-off of 1, 2 and 4 seconds.
Retry ==
    /\ ai.step = "wait"
    /\ ai' = [ai EXCEPT !.step = "model"]
    /\ UNCHANGED <<asked, calls>>

Borrows(plan) == Len(SelectSeq(plan, LAMBDA s : s.type = "BORROW"))

\* What analyzeStrategyRisk may return: a list of factors - one, when the call
\* failed - or any JSON the model wrote instead.
RiskAnswers == {"no factors", "few factors", "many factors", "null", "no list"}

\* Without an analysis the risk is the share of borrows, above two fifths.
RiskOf(answer, plan) ==
    CASE answer = "no factors"   -> "LOW"
      [] answer = "few factors"  -> "MEDIUM"
      [] answer = "many factors" -> "HIGH"
      [] OTHER -> IF 10 * Borrows(plan) > 4 * Len(plan) THEN "HIGH" ELSE "MEDIUM"

\* Reading the length of a list that is not there fails the request.
AnalyzeRisk ==
    /\ ai.step = "risk"
    /\ \E answer \in RiskAnswers :
          ai' = IF answer = "no list"
                THEN [step |-> "failed", intent |-> ai.intent,
                      status |-> HttpStatus("other")]
                ELSE [step |-> "done", intent |-> ai.intent, plan |-> ai.plan,
                      written |-> ai.written, validation |-> ValidateSteps(ai.plan),
                      risk |-> RiskOf(answer, ai.plan)]
    /\ UNCHANGED <<asked, calls>>

AiNext ==
    \/ \E intent \in Intents : BuildStrategy(intent)
    \/ \E plan \in ModelPlans : ModelAnswers(plan)
    \/ \E error \in Errors : ModelFails(error)
    \/ Retry
    \/ AnalyzeRisk

-----------------------------------------------------------------------------
(***************************************************************************)
(* Whichever way a delivered plan was made - template, model's answer, swap *)
(* in front - its first input is the token the user holds when he named    *)
(* one (gemini-ai.service.ts:508), all its types are executable, the swap  *)
(* in front neither adds nor hides an error of what was written, whatever  *)
(* amounts and agents that has, and the model was called at most four      *)
(* times.                                                                  *)
(***************************************************************************)
PlansStartWithTheUsersToken ==
    /\ calls <= MaxRetries + 1
    /\ ai.step = "done" =>
          /\ \A i \in DOMAIN ai.plan : ai.plan[i].type \in ValidTypes
          /\ ai.plan # <<>> /\ ai.intent.initial # NoToken
             => ai.plan[1].token \in {ai.intent.initial, NoToken}
          /\ ai.validation.isValid <=> ValidateSteps(ai.written).isValid
=============================================================================
