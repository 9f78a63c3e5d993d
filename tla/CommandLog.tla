------------------------------ MODULE CommandLog ------------------------------
(***************************************************************************)
(* What a core could write down about the commands it receives from        *)
(* ParameterManager: how many carried a target that nothing has settled    *)
(* since, and how long ago the last one came.  Both are history variables. *)
(* They look at the commands, at the values and at a client's sets (which  *)
(* the history variable attempts shows), and at none of the counts and     *)
(* ages by which the manager itself decides: tryCount, which sets, reports *)
(* and steps reset, and lastEvent, which sends have to stamp.              *)
(***************************************************************************)
EXTENDS ParameterManager

VARIABLES
    unanswered,   \* commands of the target since it was set, confirmed or given up
    sinceSent     \* ticks since the worker's last command for any element

logged == <<vars, unanswered, sinceSent>>

(* The worker takes an event to send something; a handler that passes a    *)
(* client's value on does not.                                             *)
WorkerSends == out' # NoCommand /\ events' # events
SendsTarget(d) == WorkerSends /\ out' = Command(d, "value", buf[d].target)

(* A client moves the target, the device confirms it, or it is given up.   *)
Closes(d) == attempts'[d] = 0 \/ ~Pending(buf'[d]) \/ GiveUp(d)

Log ==
    /\ unanswered' = [d \in Dims |->
           IF Closes(d) THEN 0
           ELSE IF SendsTarget(d) /\ unanswered[d] < MaxAttempts THEN unanswered[d] + 1
           ELSE unanswered[d]]
    /\ sinceSent' = IF WorkerSends THEN 0 ELSE IF Tick THEN Older(sinceSent) ELSE sinceSent

LoggedInit ==
    /\ Init
    /\ unanswered = [d \in Dims |-> 0]
    /\ sinceSent = Horizon

LoggedSpec == LoggedInit /\ [][Next /\ Log]_logged
LoggedLiveSpec == LoggedInit /\ [][PromptNext /\ Log]_logged /\ Fairness

-----------------------------------------------------------------------------
(* The core gets a target at most RetryCount times before the device       *)
(* confirms it, a client moves it, or it is given up, although sets,       *)
(* reports, smoothing steps and give-ups all reset the count by which the  *)
(* manager stops (tryCount, parameter-manager-process.go:149), each in a   *)
(* handler of its own.                                                     *)
CommandsBounded == HasRetryLimit => \A d \in Dims : unanswered[d] <= RetryCount

(* Two commands of the worker, for whichever elements, are at least the    *)
(* model's rate limit apart (advanced.md:509, "at most one command every   *)
(* 200ms"), whatever reports, retries and passing values come in between.  *)
(* Cmds, passed-through values and increments out of range are neither     *)
(* held back nor counted.                                                  *)
CommandsSpaced ==
    [][WorkerSends /\ "RateLimitExclude" \notin Flags => sinceSent >= RateLimit]_logged
=============================================================================
