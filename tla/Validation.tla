----------------------------- MODULE Validation -----------------------------
(* The checks a declared parameter passes before it is registered or the   *)
(* core exits: validateParameter, checkDefaultValue, what RegisterDevice   *)
(* adds for smoothing, and SplitByBrackets for references in display texts.*)
EXTENDS Integers, Sequences, FiniteSets, Dimensions

Controls == {"NoControl", "Normal", "Incremental", "Oneshot"}
Feedbacks == {"NoFeedback", "Normal", "Delayed"}
Numbers == {"Integer", "Floating"}

(* The kinds of payload a default value may have, per value type.          *)
DefaultsOf(type) ==
    CASE type = "Opt" -> {"Opt", "String"}
      [] type = "NoValue" -> {}
      [] OTHER -> {type}

ControlIsPossible(x) ==
    /\ x.control = "NoControl" => x.feedback # "NoFeedback"
    /\ IF x.control = "Incremental"
         THEN x.stepsLower # 0 \/ x.stepsUpper # 0
         ELSE x.stepsLower = 0 /\ x.stepsUpper = 0

(* Broken: the delay is not asked for.                                     *)
RetriesAreSetOnly(x) ==
    x.control \notin {"NoControl", "Oneshot"} /\ x.feedback # "NoFeedback" => x.retries # 0

RetriesAreTimed(x) ==
    /\ x.control \notin {"NoControl", "Oneshot"} /\ x.feedback # "NoFeedback" => x.retries # 0
    /\ x.retries # 0 => x.delay # 0

(* Broken: the threshold may be wider than the fine steps.                 *)
AnyFineSteps(x) == x.fineSteps \in Nat
FineStepsAreCoarser(x) == x.fineSteps # 0 => x.fineSteps >= x.threshold

DimensionsHaveElements(x) ==
    \A i \in DOMAIN x.dimensions : x.dimensions[i].count # 0 \/ x.dimensions[i].labels # {}

TypeFits(x) ==
    /\ x.type \in Numbers => x.minimum # 0 \/ x.maximum # 0
    /\ x.type = "Binary" => x.control # "Incremental"
    /\ x.type = "NoValue" => x.feedback = "NoFeedback" /\ x.minimum = 0 /\ x.maximum = 0
    /\ x.type = "Opt" => x.optionsDynamic \/ x.options # 0
    /\ x.expo # "none" => x.type \in Numbers
    /\ x.precision => x.type = "Floating"

DefaultFits(x) == x.default # "none" => x.default \in DefaultsOf(x.type)

(* validateParameter.  A name without blanks and slashes, a label, an      *)
(* input curve in range and option lists of meta values go without saying. *)
Validated(x) ==
    /\ ControlIsPossible(x)
    /\ RetriesAreTimed(x)
    /\ FineStepsAreCoarser(x)
    /\ DimensionsHaveElements(x)
    /\ TypeFits(x)
    /\ DefaultFits(x)

(* RegisterDevice: smoothing is for numbers that have a control delay, and *)
(* three dimensions are the most.                                          *)
Registrable(x) ==
    /\ x.step > 0 => x.type \in Numbers /\ x.delay # 0
    /\ Len(x.dimensions) <= MaxDimensions

Accepted(x) == Validated(x) /\ Registrable(x)

-----------------------------------------------------------------------------
(* What the manager assumes of a parameter (ParameterBuffer), and the tree *)
(* of its values.                                                          *)
Managed(x) == INSTANCE ParameterBuffer WITH
    ControlStyle <- x.control, FeedbackStyle <- x.feedback,
    ControlDelay <- x.delay, QuarantineDelay <- x.delay, RetryCount <- x.retries,
    Threshold <- x.threshold, MaxStep <- x.step, Flags <- {},
    Minimum <- x.minimum, Maximum <- x.maximum,
    StepsLower <- x.stepsLower, StepsUpper <- x.stepsUpper

(* A parameter the checks accept is one the manager can manage: its        *)
(* assumptions hold, so every command it repeats has a limit and a delay;  *)
(* one fine step of a client is never within the acceptance threshold,     *)
(* where it would be dropped as reached; and there is a value to manage.   *)
Manageable(x) ==
    /\ Managed(x)!ConfigAssumption
    /\ x.dimensions = << >> \/ GetValues(GenerateDimensions(x.dimensions)) # {}
FineStepsMove(x) ==
    x.fineSteps # 0 =>
        \A n \in {-x.fineSteps, x.fineSteps} :
            LET r == Managed(x)!InitialBuffer(TRUE)
            IN  ~Managed(x)!WithinThreshold(Managed(x)!Retarget(r, Managed(x)!IntValue(n)))

-----------------------------------------------------------------------------
(* Broken: every opening bracket begins a part.                            *)
SplitStepInner(text, r, i) ==
    CASE text[i] = "{" -> [r EXCEPT !.open = @ + 1, !.start = i]
      [] text[i] = "}" ->
            IF r.open = 1 /\ r.start # 0
              THEN [open |-> 0, start |-> 0,
                    parts |-> Append(r.parts, SubSeq(text, r.start + 1, i - 1))]
              ELSE [r EXCEPT !.open = @ - 1]
      [] OTHER -> r

(* SplitByBrackets: one step of its loop, at position i of the text.       *)
SplitStep(text, r, i) ==
    CASE text[i] = "{" -> [r EXCEPT !.open = @ + 1, !.start = IF r.open = 0 THEN i ELSE @]
      [] text[i] = "}" ->
            IF r.open = 1 /\ r.start # 0
              THEN [open |-> 0, start |-> 0,
                    parts |-> Append(r.parts, SubSeq(text, r.start + 1, i - 1))]
              ELSE [r EXCEPT !.open = @ - 1]
      [] OTHER -> r

Split(text) ==
    LET at[i \in 0..Len(text)] ==
            IF i = 0 THEN [open |-> 0, start |-> 0, parts |-> << >>]
                     ELSE SplitStep(text, at[i - 1], i)
    IN  at[Len(text)]

(* The reference: brackets balance, and the parts are between the outer    *)
(* ones, in their order.                                                   *)
Depth(text, i) ==
    Cardinality({j \in 1..i : text[j] = "{"}) - Cardinality({j \in 1..i : text[j] = "}"})
Balanced(text) == Depth(text, Len(text)) = 0 /\ \A i \in DOMAIN text : Depth(text, i) >= 0

Outer(text) == {i \in DOMAIN text : text[i] = "{" /\ Depth(text, i - 1) = 0}
Closes(text, i, j) == i < j /\ Depth(text, j) = 0 /\ \A k \in i..(j - 1) : Depth(text, k) # 0
PartsOf(text, parts) ==
    /\ Len(parts) = Cardinality(Outer(text))
    /\ \A i \in Outer(text), j \in DOMAIN text :
           Closes(text, i, j) =>
               parts[Cardinality({o \in Outer(text) : o <= i})] = SubSeq(text, i + 1, j - 1)

(* A balanced text is valid and split at its outer brackets; one with more *)
(* brackets of one kind is not valid.  A text whose brackets close before  *)
(* they open passes as valid too.                                          *)
SplitRight(text) ==
    /\ Balanced(text) => Split(text).open = 0 /\ PartsOf(text, Split(text).parts)
    /\ Depth(text, Len(text)) # 0 => Split(text).open # 0
=============================================================================
