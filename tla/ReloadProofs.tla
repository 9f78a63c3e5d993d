---------------------------- MODULE ReloadProofs ----------------------------
(***************************************************************************)
(* Proofs about Reload, for every number of signals, restart calls and     *)
(* children, under the conditions the two invariants need: a restart call  *)
(* does not run in the middle of forkExec (~Overlaps), the binary stays    *)
(* where it is (~ExecMayFail), and the core is not the first process of a  *)
(* container, whose parent has the id of an unset CORERELOAD_PID.          *)
(*                                                                         *)
(* The invariant is about the environment that the next image inherits:    *)
(* CORERELOAD_CHILD is set from forkExec on, so that every child knows     *)
(* that it is one, and is reset whenever an exec may come, so that the     *)
(* image executed never takes itself for a child.                          *)
(***************************************************************************)
EXTENDS Reload, SequenceTheorems, TLAPS

(* Children that signal and exit; restart calls, as far as CORERELOAD_CHILD *)
(* lets them be.                                                            *)
Kids == [phase : {"create", "hook"}, child : {TRUE}]
Stages(child) == IF child THEN {"sleeping"} ELSE {"sleeping", "executing"}

EnvironmentInv ==
    /\ phase \in {"create", "hook", "serving", "forking", "stopping", "ended"}
    /\ env \in [pid : {0, 2}, child : BOOLEAN]
    /\ children \in Seq(Kids)
    /\ restarts \in Seq(Stages(env.child))
    /\ phase = "forking" => env.child
    /\ phase \in {"create", "hook"} => ~env.child

Conditions == ~Overlaps /\ ~ExecMayFail /\ ParentPid \notin {0, 2}

(* What is left of a sequence has the same kind of elements.                *)
LEMMA RemoveAtType ==
    ASSUME NEW S, NEW s \in Seq(S), NEW i \in DOMAIN s
    PROVE  RemoveAt(s, i) \in Seq(S)
<1>1. i \in 1..Len(s) /\ Len(s) \in Nat
  OBVIOUS
<1>2. SubSeq(s, 1, i - 1) \in Seq(S)
  <2>1. \A k \in 1..(i - 1) : s[k] \in S
    BY <1>1
  <2>2. QED
    BY <1>1, <2>1, SubSeqProperties
<1>3. SubSeq(s, i + 1, Len(s)) \in Seq(S)
  <2>1. \A k \in (i + 1)..Len(s) : s[k] \in S
    BY <1>1
  <2>2. QED
    BY <1>1, <2>1, SubSeqProperties
<1>4. QED
  BY <1>2, <1>3, ConcatProperties DEF RemoveAt

(* No stage is lost when CORERELOAD_CHILD is reset.                         *)
LEMMA StagesGrow ==
    ASSUME NEW c \in BOOLEAN
    PROVE  Seq(Stages(c)) \subseteq Seq(Stages(FALSE))
<1>1. Stages(c) \subseteq Stages(FALSE)
  BY DEF Stages
<1>2. QED
  BY <1>1, SeqDef DEF Stages

(* The environment of a core that has just been started.                    *)
LEMMA EnvironmentInit == Init => EnvironmentInv
<1> SUFFICES ASSUME Init PROVE EnvironmentInv
  OBVIOUS
<1>1. children \in Seq(Kids) /\ restarts \in Seq(Stages(env.child))
  BY EmptySeq DEF Init
<1>2. QED
  BY <1>1 DEF Init, EnvironmentInv

(* Every step keeps it.                                                     *)
LEMMA EnvironmentStep ==
    ASSUME Conditions, EnvironmentInv, [Next]_vars
    PROVE  EnvironmentInv'
<1> USE DEF EnvironmentInv
<1>1. CASE CreateServer
  BY <1>1 DEF CreateServer
<1>2. CASE StartWithServer
  BY <1>2 DEF StartWithServer, config
<1>3. CASE Wait
  <2>1. CASE Ignore \/ Terminate \/ EndForExec \/ ForkAborts
    BY <2>1 DEF Ignore, Terminate, EndForExec, ForkAborts, Take, End, config
  <2>2. CASE BeginFork /\ "executing" \notin Range(restarts)
    <3>1. /\ phase' = "forking" /\ env' = [pid |-> 0, child |-> TRUE]
          /\ UNCHANGED <<reason, restarts, children>>
      BY <2>2 DEF BeginFork
    <3>2. restarts \in Seq(Stages(TRUE))
      <4>1. restarts \in Seq(Stages(FALSE))
        BY StagesGrow
      <4>2. \A i \in 1..Len(restarts) : restarts[i] = "sleeping"
        BY <2>2, <4>1 DEF Range, Stages
      <4>3. QED
        BY <4>1, <4>2, SeqDef DEF Stages
    <3>3. QED
      BY <3>1, <3>2
  <2>3. QED
    BY <1>3, <2>1, <2>2 DEF Wait, Conditions
<1>4. CASE ForkExec
  <2>1. children' \in Seq(Kids)
    <3>1. [phase |-> "create", child |-> env.child] \in Kids
      BY <1>4 DEF ForkExec, Kids
    <3>2. QED
      BY <1>4, <3>1, AppendProperties DEF ForkExec
  <2>2. QED
    BY <1>4, <2>1 DEF ForkExec, config
<1>5. CASE ForkFails
  BY <1>5 DEF ForkFails, config
<1>6. CASE Stop
  <2>1. ~Refused /\ ~ExecMayFail
    BY DEF Conditions, Refused
  <2>2. env' = [env EXCEPT !.child = FALSE] /\ Restarted
    BY <1>6, <2>1 DEF Stop
  <2>3. restarts' \in Seq(Stages(FALSE))
    BY <2>2, EmptySeq DEF Restarted
  <2>4. QED
    BY <2>2, <2>3 DEF Restarted
<1>7. ASSUME NEW i \in DOMAIN restarts, PrepareExec(i)
      PROVE  EnvironmentInv'
  <2>1. phase # "forking" /\ UNCHANGED <<phase, reason, children>>
    BY <1>7 DEF PrepareExec, Conditions, core, config
  <2>2. CASE Refused
    BY <1>7, <2>1, <2>2, RemoveAtType DEF PrepareExec
  <2>3. CASE ~Refused
    <3>1. /\ env' = [env EXCEPT !.child = FALSE]
          /\ restarts' = [restarts EXCEPT ![i] = "executing"]
      BY <1>7, <2>3 DEF PrepareExec
    <3>2. restarts \in Seq(Stages(FALSE)) /\ "executing" \in Stages(FALSE)
      BY StagesGrow DEF Stages
    <3>3. restarts' \in Seq(Stages(FALSE))
      <4>1. i \in 1..Len(restarts)
        <5> HIDE DEF EnvironmentInv
        <5>1. QED
          BY <3>2, LenProperties
      <4>2. [restarts EXCEPT ![i] = "executing"] \in Seq(Stages(FALSE))
        BY <3>2, <4>1, ExceptSeq
      <4>3. QED
        BY <3>1, <4>2
    <3>4. QED
      BY <2>1, <3>1, <3>3
  <2>4. QED
    BY <2>2, <2>3
<1>8. ASSUME NEW i \in DOMAIN restarts, Exec(i)
      PROVE  EnvironmentInv'
  <2>1. ~env.child
    BY <1>8 DEF Exec, Stages
  <2>2. Restarted /\ UNCHANGED env
    BY <1>8 DEF Exec, Conditions
  <2>3. restarts' \in Seq(Stages(FALSE))
    BY <2>2, EmptySeq DEF Restarted
  <2>4. QED
    BY <2>1, <2>2, <2>3 DEF Restarted
<1>9. ASSUME NEW s \in Signals, Signal(s)
      PROVE  EnvironmentInv'
  BY <1>9 DEF Signal, Deliver, Deaf, End
<1>10. CASE SetCoreConfig
  BY <1>10 DEF SetCoreConfig, core
<1>11. CASE RestartCore
  <2>1. "sleeping" \in Stages(env.child)
    BY DEF Stages
  <2>2. restarts' \in Seq(Stages(env.child))
    BY <1>11, <2>1, AppendProperties DEF RestartCore
  <2>3. QED
    BY <1>11, <2>2 DEF RestartCore, core
<1>12. ASSUME NEW i \in DOMAIN children, ChildCreates(i)
       PROVE  EnvironmentInv'
  <2>1. [children[i] EXCEPT !.phase = "hook"] \in Kids
    <3>1. children[i] \in Kids
      BY ElementOfSeq
    <3>2. QED
      BY <3>1 DEF Kids
  <2>2. children' \in Seq(Kids)
    BY <1>12, <2>1, ExceptSeq DEF ChildCreates
  <2>3. QED
    BY <1>12, <2>2 DEF ChildCreates, core
<1>13. ASSUME NEW i \in DOMAIN children, ChildSignals(i)
       PROVE  EnvironmentInv'
  <2>1. children' \in Seq(Kids)
    BY <1>13, RemoveAtType DEF ChildSignals
  <2>2. QED
    BY <1>13, <2>1 DEF ChildSignals, Deliver, Deaf, End, config
<1>14. ASSUME NEW i \in DOMAIN children, ChildServes(i)
       PROVE  FALSE
  <2>1. children[i] \in Kids
    BY ElementOfSeq
  <2>2. QED
    BY <1>14, <2>1 DEF ChildServes, Kids
<1>15. CASE UNCHANGED vars
  BY <1>15 DEF vars, core, config
<1>16. QED
  BY <1>1, <1>2, <1>3, <1>4, <1>5, <1>6, <1>7, <1>8, <1>9, <1>10, <1>11, <1>12,
     <1>13, <1>14, <1>15 DEF Next, Core, Restart, Child

(* The environment is right in every reachable state.                       *)
LEMMA EnvironmentCorrect ==
    ASSUME Conditions
    PROVE  Spec => []EnvironmentInv
<1>1. EnvironmentInv /\ [Next]_vars => EnvironmentInv'
  BY EnvironmentStep
<1>2. QED
  BY <1>1, EnvironmentInit, PTL DEF Spec

(* The core never has a second server beside it: no child passes the hook.  *)
THEOREM OneServerHolds ==
    ASSUME Conditions
    PROVE  Spec => []OneServer
<1>1. EnvironmentInv => OneServer
  <2> SUFFICES ASSUME EnvironmentInv, NEW i \in DOMAIN children
               PROVE  children[i].phase # "serving"
    BY DEF OneServer
  <2>1. children[i] \in Kids
    BY ElementOfSeq DEF EnvironmentInv
  <2>2. QED
    BY <2>1 DEF Kids
<1>2. QED
  BY <1>1, EnvironmentCorrect, PTL

(* A SIGTERM that waits was sent from outside: children send SIGUSR2.       *)
Heard ==
    /\ inbox \in Seq(Signals)
    /\ \A i \in 1..Len(inbox) : inbox[i] = "TERM" => "TERM" \in sent

(* How signals come into the channel of wait() and leave it.                *)
LEMMA InboxMoves ==
    ASSUME Next
    PROVE  /\ sent \subseteq sent'
           /\ \/ inbox' = inbox
              \/ inbox' = << >>
              \/ inbox # << >> /\ inbox' = Tail(inbox)
              \/ \E s \in Signals : inbox' = Append(inbox, s) /\ (s = "TERM" => s \in sent')
<1>1. CASE CreateServer \/ StartWithServer \/ ForkExec \/ ForkFails
  BY <1>1 DEF CreateServer, StartWithServer, ForkExec, ForkFails, sending
<1>2. CASE Wait
  BY <1>2 DEF Wait, Ignore, Terminate, EndForExec, ForkAborts, BeginFork, Take, sending
<1>3. CASE Stop
  BY <1>3 DEF Stop, Restarted, sending
<1>4. ASSUME NEW i \in DOMAIN restarts, PrepareExec(i) \/ Exec(i)
      PROVE  sent' = sent /\ (inbox' = inbox \/ inbox' = << >>)
  BY <1>4 DEF PrepareExec, Exec, Restarted, core, sending
<1>5. ASSUME NEW i \in DOMAIN children, ChildCreates(i) \/ ChildSignals(i) \/ ChildServes(i)
      PROVE  sent' = sent /\ (inbox' = inbox \/ inbox' = Append(inbox, "USR2"))
  BY <1>5 DEF ChildCreates, ChildSignals, ChildServes, Deliver, core, sending
<1>6. ASSUME NEW s \in Signals, Signal(s)
      PROVE  sent' = sent \cup {s} /\ (inbox' = inbox \/ inbox' = Append(inbox, s))
  BY <1>6 DEF Signal, Deliver
<1>7. CASE SetCoreConfig \/ RestartCore
  BY <1>7 DEF SetCoreConfig, RestartCore, core, sending
<1>8. "USR2" \in Signals
  BY DEF Signals
<1>9. QED
  BY <1>1, <1>2, <1>3, <1>4, <1>5, <1>6, <1>7, <1>8 DEF Next, Core, Restart, Child

(* It stays so.                                                             *)
LEMMA HeardStep == Heard /\ [Next]_vars => Heard'
<1> SUFFICES ASSUME Heard, [Next]_vars PROVE Heard'
  OBVIOUS
<1>1. CASE UNCHANGED vars
  BY <1>1 DEF vars, core, sending, Heard
<1>2. CASE Next
  <2>1. sent \subseteq sent'
    BY <1>2, InboxMoves
  <2>2. CASE inbox' = inbox \/ inbox' = << >>
    <3>1. CASE inbox' = inbox
      BY <2>1, <3>1 DEF Heard
    <3>2. CASE inbox' = << >>
      <4>1. << >> \in Seq(Signals) /\ Len(<< >>) = 0
        BY EmptySeq
      <4>2. QED
        BY <3>2, <4>1 DEF Heard
    <3>3. QED
      BY <2>2, <3>1, <3>2
  <2>3. CASE inbox # << >> /\ inbox' = Tail(inbox)
    <3>1. inbox' \in Seq(Signals) /\ Len(inbox') = Len(inbox) - 1 /\ Len(inbox) \in Nat
      BY <2>3 DEF Heard
    <3>2. \A i \in 1..Len(inbox') : inbox'[i] = inbox[i + 1]
      BY <2>3, <3>1 DEF Heard
    <3>3. QED
      BY <2>1, <3>1, <3>2 DEF Heard
  <2>4. ASSUME NEW s \in Signals, inbox' = Append(inbox, s), s = "TERM" => s \in sent'
        PROVE  Heard'
    <3>1. /\ inbox' \in Seq(Signals) /\ Len(inbox') = Len(inbox) + 1 /\ Len(inbox) \in Nat
          /\ \A i \in 1..Len(inbox) : inbox'[i] = inbox[i]
          /\ inbox'[Len(inbox) + 1] = s
      BY <2>4, AppendProperties DEF Heard
    <3>2. QED
      BY <2>1, <2>4, <3>1 DEF Heard
  <2>5. QED
    BY <1>2, <2>2, <2>3, <2>4, InboxMoves
<1>3. QED
  BY <1>1, <1>2

(* What a step can end the core with.                                       *)
LEMMA Endings ==
    ASSUME Conditions, EnvironmentInv, Heard, Next, phase # "ended", phase' = "ended"
    PROVE  \/ reason' = "terminated" /\ "TERM" \in sent'
           \/ reason' = "hangup" /\ "HUP" \in sent' /\ Deaf
<1>1. ASSUME CreateServer \/ StartWithServer \/ ForkExec \/ ForkFails \/ Stop PROVE FALSE
  <2>1. ~Refused /\ ~ExecMayFail
    BY DEF Conditions, Refused, EnvironmentInv
  <2>2. phase = "hook" => ~env.child
    BY DEF EnvironmentInv
  <2>3. CASE CreateServer \/ ForkExec \/ ForkFails
    BY <2>3 DEF CreateServer, ForkExec, ForkFails
  <2>4. CASE StartWithServer
    BY <2>2, <2>4 DEF StartWithServer
  <2>5. CASE Stop
    BY <2>1, <2>5 DEF Stop, Restarted
  <2>6. QED
    BY <1>1, <2>3, <2>4, <2>5
<1>2. ASSUME Wait PROVE reason' = "terminated" /\ "TERM" \in sent'
  <2>1. Terminate
    BY <1>2 DEF Wait, Ignore, EndForExec, ForkAborts, BeginFork, Take
  <2>2. inbox # << >> /\ Head(inbox) = "TERM" /\ reason' = "terminated" /\ sent' = sent
    BY <2>1 DEF Terminate, Take, End, sending
  <2>3. inbox[1] = "TERM" /\ 1 \in 1..Len(inbox)
    BY <2>2 DEF Heard
  <2>4. QED
    BY <2>2, <2>3 DEF Heard
<1>3. ASSUME NEW i \in DOMAIN restarts, PrepareExec(i) \/ Exec(i) PROVE FALSE
  BY <1>3 DEF PrepareExec, Exec, Restarted, core
<1>4. ASSUME NEW i \in DOMAIN children, ChildCreates(i) \/ ChildSignals(i) \/ ChildServes(i)
      PROVE  FALSE
  BY <1>4 DEF ChildCreates, ChildSignals, ChildServes, Deliver, core
<1>5. ASSUME NEW s \in Signals, Signal(s)
      PROVE  \/ reason' = "terminated" /\ "TERM" \in sent'
             \/ reason' = "hangup" /\ "HUP" \in sent' /\ Deaf
  <2>1. sent' = sent \cup {s} /\ Deliver(s)
    BY <1>5 DEF Signal
  <2>2. Deaf
    BY <2>1 DEF Deliver
  <2>3. CASE s = "TERM"
    BY <2>1, <2>2, <2>3 DEF Deliver, End
  <2>4. CASE s = "HUP"
    BY <2>1, <2>2, <2>4 DEF Deliver, End
  <2>5. CASE s \notin {"TERM", "HUP"}
    BY <2>1, <2>2, <2>5 DEF Deliver
  <2>6. QED
    BY <2>3, <2>4, <2>5
<1>6. ASSUME SetCoreConfig \/ RestartCore PROVE FALSE
  BY <1>6 DEF SetCoreConfig, RestartCore, core
<1>7. QED
  BY <1>1, <1>2, <1>3, <1>4, <1>5, <1>6 DEF Next, Core, Restart, Child

(* What ends the core is a SIGTERM from outside, or a SIGHUP from outside   *)
(* before it listens; no child, no signal of a child, no fork and no exec   *)
(* ever does.                                                               *)
THEOREM CoreSurvivesHolds ==
    ASSUME Conditions
    PROVE  Spec => CoreSurvives
<1> DEFINE Ends == phase # "ended" /\ phase' = "ended" =>
                      \/ reason' = "terminated" /\ "TERM" \in sent'
                      \/ reason' = "hangup" /\ "HUP" \in sent' /\ Deaf
<1>1. Init => Heard
  BY EmptySeq DEF Init, Heard
<1>2. EnvironmentInv /\ Heard /\ [Next]_vars => [Ends]_vars
  BY Endings
<1> HIDE DEF Ends
<1>3. Spec => [][Ends]_vars
  BY <1>1, <1>2, HeardStep, EnvironmentCorrect, PTL DEF Spec
<1>4. QED
  BY <1>3 DEF Ends, CoreSurvives
=============================================================================
