-------------------------- MODULE DiagnosticAgent --------------------------
(***************************************************************************)
(* process_turn from the preparation of the visual context to the end of   *)
(* the runner's stream: VisualContext decides whether and with what an     *)
(* agent starts, RunnerText is what it says.  Its tools, the event log and *)
(* the completion of the turn are DiagnosticTurn's.                        *)
(***************************************************************************)
EXTENDS VisualContext, RunnerText

agentVars == <<visualVars, textVars>>

AgentInit == VisualInit /\ TextInit

AgentOf(t) == Step(t) = "agent"

RunAgent(t) == StartAgent(t) /\ OpenStream

\* What an agent says and what happens beside it read and write nothing in
\* common.  Bound: its text is followed where there is nothing beside it.
Alone == \A c \in Recoveries : Step(c) = "idle"

\* The text goes on for as long as the execution does.
Speak(t) ==
  /\ AgentOf(t)
  /\ IF Alone THEN TextStep ELSE StreamEnds
  /\ UNCHANGED visualVars

Finalize(t) ==
  /\ stream = "ended"
  /\ FinishTurn(t)
  /\ CloseStream

\* Preparing and invalidating go on beside a silent agent.  A lost execution
\* says no more.
Elsewhere ==
  /\ VisualStep
  /\ IF \E t \in Turns : AgentOf(t)'
     THEN Silent /\ UNCHANGED textVars
     ELSE CloseStream

AgentNext ==
  \/ \E t \in Turns : RunAgent(t) \/ Speak(t) \/ Finalize(t)
  \/ Elsewhere

AgentSpec == AgentInit /\ [][AgentNext]_agentVars
=============================================================================
