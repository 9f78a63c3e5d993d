--------------------------- MODULE RegistryInputs ---------------------------
(* The parts of the registry that compute rather than act: one input in    *)
(* each of some further initial states, in which the registry stands       *)
(* still.                                                                  *)
EXTENDS Registry, Validation, ValueHelpers

CONSTANTS
    Configs,  \* the dimensions of parameters
    Sent,     \* addresses that clients and cores send
    Details,  \* what validateParameter is given
    Texts,    \* RecommendedParamForTextDisplay, character by character
    Ranges    \* the arguments of Normalise but the first

(* What the types of the code say, and the limit that RegisterDevice sets. *)
Dimension == [count : Nat, labels : SUBSET Nat]
ASSUME InputsAssumption ==
    /\ \A config \in Configs : config \in Seq(Dimension) /\ Len(config) <= MaxDimensions
    /\ Sent \subseteq Seq(Nat)
    /\ \A x \in Details :
           /\ x.control \in Controls /\ x.feedback \in Feedbacks
           /\ {x.retries, x.delay, x.step, x.threshold, x.fineSteps} \subseteq Nat
           /\ {x.minimum, x.maximum, x.stepsLower, x.stepsUpper} \subseteq Int
           /\ x.dimensions \in Seq(Dimension)
    /\ Texts \subseteq Seq(STRING)
    /\ Ranges \subseteq Int \X Int \X Int \X Int

VARIABLE input

Inputs ==
    [of : {"dimensions"}, is : Configs]
    \cup [of : {"parameter"}, is : {x \in Details : Accepted(x)}]
    \cup [of : {"text"}, is : Texts]
    \cup [of : {"ranges"}, is : Ranges]
NoInput == [of |-> "nothing"]

InputInit == Init /\ input \in Inputs \cup {NoInput}
InputNext == input = NoInput /\ Next /\ UNCHANGED input
InputSpec == InputInit /\ [][InputNext]_<<vars, input>>

(* Whatever the dimensions of a parameter, a client addresses exactly the  *)
(* values there are, and each answers with its own address.                *)
AddressesAreExact == input.of = "dimensions" => AddressedExactly(input.is, Sent)

(* What validateParameter lets pass the manager can manage: every          *)
(* assumption of ParameterBuffer is one of its checks.                     *)
AcceptedIsManageable == input.of = "parameter" => Manageable(input.is)

(* A client's smallest step is a change the manager sends to the device.   *)
FineStepsAreSent == input.of = "parameter" => FineStepsMove(input.is)

(* Display texts are split at their outer brackets.                        *)
TextsSplitRight == input.of = "text" => SplitRight(input.is)

(* Values are converted between ranges without leaving them.               *)
RangesFit ==
    input.of = "ranges" =>
        NormalisesWithin(input.is[1], input.is[2], input.is[3], input.is[4])
=============================================================================
