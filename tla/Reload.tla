------------------------------- MODULE Reload -------------------------------
(* How a core changes its configuration and restarts itself: by signal,    *)
(* with a forked child that signals its parent back, and by RestartCore.   *)
(* The process keeps its id over an exec, its memory is lost.              *)
EXTENDS Naturals, Sequences, SequencesExt

CONSTANTS
    ParentPid,      \* Getppid() of the core; 0 as the first process of a container
    ExecMayFail,    \* the binary may be gone when it is executed
    Overlaps,       \* a restart call may run in the middle of forkExec
    Burst,          \* signals waiting when one more is sent from outside
    MaxVersion,     \* bound on configurations saved
    MaxSignals,     \* bound on signals sent from outside
    MaxRestarts,    \* bound on RestartCore calls in progress
    MaxChildren     \* bound on children alive

ASSUME ConstantsAssumption == ParentPid \in Nat /\ {ExecMayFail, Overlaps} \subseteq BOOLEAN

Versions == 0..MaxVersion
Signals == {"HUP", "TERM", "USR1", "USR2"}  \* SIGINT is taken like SIGTERM
InboxCap == 2       \* the capacity of the channel in wait()

VARIABLES
    phase,          \* of the core: "create", "hook", "serving", "forking", "stopping", "ended"
    reason,         \* why it ended
    forked,         \* wait() has forked
    inbox,          \* the channel of wait()
    env,            \* CORERELOAD_PID (the child's id, or 0), CORERELOAD_CHILD
    restarts,       \* goroutines of RestartCore: "sleeping" or "executing"
    children,       \* forked processes: their phase, and CORERELOAD_CHILD
    saved, loaded,  \* the configuration in the file, and in use
    file,           \* the .forceconfig file exists
    notice,         \* forceConfig: every client that comes is asked to save
    asked,          \* the newest configuration a restart was asked for with
    sent,           \* kinds of signals sent from outside; read by properties only
    signals         \* how many, for the bound

core == <<phase, reason, forked, inbox>>
config == <<saved, loaded, file, notice, asked>>
sending == <<sent, signals>>
vars == <<core, env, restarts, children, config, sending>>

Init ==
    /\ phase = "create" /\ reason = "none" /\ forked = FALSE /\ inbox = << >>
    /\ env = [pid |-> 0, child |-> FALSE]
    /\ restarts = << >>
    /\ children = << >>
    /\ saved = 0 /\ loaded = 0 /\ file = FALSE /\ notice = FALSE /\ asked = 0
    /\ sent = {} /\ signals = 0

End(why) == phase' = "ended" /\ reason' = why

-----------------------------------------------------------------------------
(* CreateServer loads the configuration and takes the .forceconfig file.   *)
CreateServer ==
    /\ phase = "create"
    /\ phase' = "hook"
    /\ loaded' = saved
    /\ notice' = file
    /\ file' = FALSE
    /\ UNCHANGED <<reason, forked, inbox, env, restarts, children, saved, asked, sending>>

(* ReloadHook, in StartWithServer: what runs as a child signals the other  *)
(* process and exits, all others serve, and wait() listens for signals.    *)
StartWithServer ==
    /\ phase = "hook"
    /\ IF env.child THEN End("hook") ELSE phase' = "serving" /\ UNCHANGED reason
    /\ UNCHANGED <<forked, inbox, env, restarts, children, config, sending>>

(* Before wait() has called signal.Notify the Go runtime decides: SIGTERM  *)
(* and SIGHUP end the process, SIGUSR1 and SIGUSR2 do nothing.  Afterwards *)
(* a signal that finds the channel full is lost.                           *)
Deaf == phase \in {"create", "hook"}
Lost == ~Deaf /\ Len(inbox) = InboxCap
Deliver(s) ==
    IF Deaf
      THEN /\ CASE s = "TERM" -> End("terminated")
                [] s = "HUP" -> End("hangup")
                [] OTHER -> UNCHANGED <<phase, reason>>
           /\ UNCHANGED inbox
      ELSE /\ inbox' = IF Lost THEN inbox ELSE Append(inbox, s)
           /\ UNCHANGED <<phase, reason>>

Signal(s) ==
    /\ phase # "ended" /\ signals < MaxSignals /\ Len(inbox) <= Burst
    /\ sent' = sent \cup {s} /\ signals' = signals + 1
    /\ Deliver(s)
    /\ asked' = IF s = "USR2" /\ ~Lost THEN saved ELSE asked
    /\ UNCHANGED <<forked, env, restarts, children, saved, loaded, file, notice>>

(* One turn of wait(): SIGTERM ends it, the first SIGUSR2 forks and every  *)
(* further one ends it for an exec; SIGHUP and SIGUSR1 do nothing.         *)
Take == phase = "serving" /\ inbox # << >> /\ inbox' = Tail(inbox)

Ignore ==
    /\ Take /\ Head(inbox) \in {"HUP", "USR1"}
    /\ UNCHANGED <<phase, reason, forked, env, restarts, children, config, sending>>

Terminate ==
    /\ Take /\ Head(inbox) = "TERM"
    /\ End("terminated")
    /\ UNCHANGED <<forked, env, restarts, children, config, sending>>

BeginFork ==
    /\ Take /\ Head(inbox) = "USR2"
    /\ phase' = "forking" /\ forked' = TRUE
    /\ env' = [pid |-> 0, child |-> TRUE]
    /\ UNCHANGED <<reason, restarts, children, config, sending>>

(* forkExec finds no binary or no directory, and leaves the environment as *)
(* it is.                                                                  *)
ForkAborts ==
    /\ Take /\ Head(inbox) = "USR2"
    /\ phase' = "stopping" /\ forked' = TRUE
    /\ UNCHANGED <<reason, env, restarts, children, config, sending>>

(* Broken: every SIGUSR2 forks.                                            *)
WaitForkingAlways == Ignore \/ Terminate \/ BeginFork

EndForExec ==
    /\ Take /\ Head(inbox) = "USR2" /\ forked
    /\ phase' = "stopping"
    /\ UNCHANGED <<reason, forked, env, restarts, children, config, sending>>

Wait ==
    \/ Ignore \/ Terminate \/ EndForExec
    \/ ~forked /\ ForkAborts
    \/ ~forked /\ (Overlaps \/ "executing" \notin Range(restarts)) /\ BeginFork

(* forkExec starts the child with the environment as it is by now.  When   *)
(* that fails wait() ends as after the second signal.                      *)
ForkExec ==
    /\ phase = "forking" /\ Len(children) < MaxChildren
    /\ phase' = "serving"
    /\ children' = Append(children, [phase |-> "create", child |-> env.child])
    /\ env' = [env EXCEPT !.pid = 2]
    /\ UNCHANGED <<reason, forked, inbox, restarts, config, sending>>

ForkFails ==
    /\ phase = "forking"
    /\ phase' = "stopping"
    /\ UNCHANGED <<reason, forked, inbox, env, restarts, children, config, sending>>

(* The image after an exec: memory, goroutines and the channel are gone.   *)
Restarted ==
    /\ phase' = "create"
    /\ forked' = FALSE /\ inbox' = << >> /\ restarts' = << >> /\ notice' = FALSE
    /\ UNCHANGED <<reason, children, saved, loaded, file, asked, sending>>

(* execReload refuses in a process whose parent it takes for the child.    *)
Refused == ParentPid = env.pid

(* Broken: the image takes itself for the child.                           *)
StopAsChild ==
    /\ phase = "stopping"
    /\ Restarted /\ UNCHANGED env

(* After the server has stopped: a failing execReload ends the core.       *)
Stop ==
    /\ phase = "stopping"
    /\ \/ ~Refused /\ env' = [env EXCEPT !.child = FALSE] /\ Restarted
       \/ /\ Refused \/ ExecMayFail
          /\ End("exec failed")
          /\ UNCHANGED <<forked, inbox, env, restarts, children, config, sending>>

-----------------------------------------------------------------------------
(* SetCoreConfig saves the file, then writes .forceconfig.                 *)
SetCoreConfig ==
    /\ phase = "serving" /\ saved < MaxVersion
    /\ saved' = saved + 1
    /\ file' = TRUE
    /\ UNCHANGED <<core, env, restarts, children, loaded, notice, asked, sending>>

(* RestartCore, called by a client or, whenever it likes, by the core's    *)
(* own code, executes the core 300 ms later; an error is only logged.      *)
RestartCore ==
    /\ phase # "ended" /\ Len(restarts) < MaxRestarts
    /\ restarts' = Append(restarts, "sleeping")
    /\ asked' = saved
    /\ UNCHANGED <<core, env, children, saved, loaded, file, notice, sending>>

PrepareExec(i) ==
    /\ restarts[i] = "sleeping" /\ phase # "ended"
    /\ Overlaps \/ phase # "forking"
    /\ IF Refused
         THEN restarts' = RemoveAt(restarts, i) /\ UNCHANGED env
         ELSE /\ restarts' = [restarts EXCEPT ![i] = "executing"]
              /\ env' = [env EXCEPT !.child = FALSE]
    /\ UNCHANGED <<core, children, config, sending>>

Exec(i) ==
    /\ restarts[i] = "executing" /\ phase # "ended"
    /\ \/ Restarted /\ UNCHANGED env
       \/ /\ ExecMayFail
          /\ restarts' = RemoveAt(restarts, i)
          /\ UNCHANGED <<core, env, children, config, sending>>

-----------------------------------------------------------------------------
(* A child runs the same program: it creates a server, and with it takes   *)
(* the .forceconfig file, before the hook makes it signal its parent.      *)
ChildCreates(i) ==
    /\ children[i].phase = "create"
    /\ children' = [children EXCEPT ![i].phase = "hook"]
    /\ file' = FALSE
    /\ UNCHANGED <<core, env, restarts, saved, loaded, notice, asked, sending>>

ChildSignalsOnly(i) ==  \* mutant: it does not exit
    /\ children[i].phase = "hook" /\ children[i].child
    /\ children' = [children EXCEPT ![i].phase = "serving"]
    /\ IF phase = "ended" THEN UNCHANGED <<phase, reason, inbox>> ELSE Deliver("USR2")
    /\ UNCHANGED <<forked, env, restarts, config, sending>>

ChildSignals(i) ==
    /\ children[i].phase = "hook" /\ children[i].child
    /\ children' = RemoveAt(children, i)
    /\ IF phase = "ended" THEN UNCHANGED <<phase, reason, inbox>> ELSE Deliver("USR2")
    /\ UNCHANGED <<forked, env, restarts, config, sending>>

ChildServes(i) ==
    /\ children[i].phase = "hook" /\ ~children[i].child
    /\ children' = [children EXCEPT ![i].phase = "serving"]
    /\ UNCHANGED <<core, env, restarts, config, sending>>

Core == CreateServer \/ StartWithServer \/ Wait \/ ForkExec \/ ForkFails \/ Stop
Restart == \E i \in DOMAIN restarts : PrepareExec(i) \/ Exec(i)
Child == \E i \in DOMAIN children : ChildCreates(i) \/ ChildSignals(i) \/ ChildServes(i)

Next ==
    \/ Core \/ Restart \/ Child
    \/ \E s \in Signals : Signal(s)
    \/ SetCoreConfig \/ RestartCore

(* The scheduler runs every goroutine and every process.                   *)
Fairness == WF_vars(Core) /\ WF_vars(Restart) /\ WF_vars(Child)

Spec == Init /\ [][Next]_vars /\ Fairness

-----------------------------------------------------------------------------
(* One process at a time serves the core's address.                        *)
OneServer ==
    LET serving == {i \in DOMAIN children : children[i].phase = "serving"}
    IN  serving = {}

(* However signals, restarts and children follow one another, what ends    *)
(* the core is a SIGTERM that was sent to it from outside, or a SIGHUP that *)
(* came before wait() listens: no image takes itself for the child of the  *)
(* one before it, and no child's signal and no restart ends its parent.    *)
CoreSurvives ==
    [][phase # "ended" /\ phase' = "ended" =>
          \/ reason' = "terminated" /\ "TERM" \in sent'
          \/ reason' = "hangup" /\ "HUP" \in sent' /\ Deaf]_vars

(* A restart that follows a change of the configuration, by call or by a   *)
(* signal that is not lost, puts it into use, unless the core asks for its *)
(* restart every time it starts, before it serves.                         *)
StartsUndisturbed == Deaf => Len(restarts') <= Len(restarts)
ReloadTakesEffect ==
    \A v \in Versions : (<>[][StartsUndisturbed]_vars) =>
        (asked >= v ~> (loaded >= v /\ phase = "serving") \/ phase = "ended")
=============================================================================
