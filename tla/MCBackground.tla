---------------------------- MODULE MCBackground ----------------------------
(* The small components that work in the background of the sessions, checked   *)
(* one beside the other: they share no state and call none of each other, so   *)
(* each behaviour is one of a single component, chosen at the start.           *)
EXTENDS Automations, TaskRegistry, AgentReview, SubagentRuns

CONSTANTS j1, j2, r1, r2, r3, a1, a2, a3   \* two jobs, three reviews, three runs of subagents

VARIABLE part   \* the component whose behaviour this is
vars == <<part, automationVars, registryVars, reviewVars, subagentVars>>

ThePlace == [j \in Jobs |-> IF j = j1 THEN 1 ELSE 2]

Init ==
    /\ part \in {"automations", "tasks", "schedules", "reviews", "subagents"}
    /\ InitAutomations /\ InitTaskRegistry /\ InitAgentReview /\ InitSubagentRuns

Next ==
    /\ UNCHANGED part
    /\ \/ /\ part = "automations" /\ NextAutomations
          /\ UNCHANGED <<registryVars, reviewVars, subagentVars>>
       \/ /\ part \in {"tasks", "schedules"} /\ NextTaskRegistry
          /\ UNCHANGED <<automationVars, reviewVars, subagentVars>>
       \/ /\ part = "reviews" /\ NextAgentReview
          /\ UNCHANGED <<automationVars, registryVars, subagentVars>>
       \/ /\ part = "subagents" /\ NextSubagentRuns
          /\ UNCHANGED <<automationVars, registryVars, reviewVars>>

\* The fairness of each component, of its own behaviours.
Fairness ==
    /\ WF_automationVars(part = "automations" /\ CheckStep)
    /\ \A j \in Jobs : WF_automationVars(part = "automations" /\ RunEnds(j))
    /\ \A s \in Schedules : WF_registryVars(part = "schedules" /\ TimerFires(s))
    /\ \A r \in Reviews : WF_reviewVars(part = "reviews" /\ ReviewStep(r))
    /\ WF_reviewVars(part = "reviews" /\ TurnStep)
    /\ \A r \in Runs : /\ WF_subagentVars(part = "subagents" /\ RunStep(r))
                       /\ WF_subagentVars(part = "subagents" /\ RunTimesOut(r))
                       /\ WF_subagentVars(part = "subagents" /\ ForkEnds(r))

\* The registry's tasks and its schedules share the handler, the file and the restart:
\* one behaviour has the ones, another the others.  Reviews and runs are alike, and begun
\* in order; one run has three upsets at most, two have one, and three have none.
MostUpsets == IF run[a2].stage = "new" THEN 3 ELSE IF run[a3].stage = "new" THEN 1 ELSE 0
Apart ==
    /\ part = "tasks" => \A s \in Schedules : ~sched[s].there
    /\ part = "schedules" => \A t \in Tasks : task[t] = NoTask
    /\ review[r2].stage # "new" => review[r1].stage # "new"
    /\ review[r3].stage # "new" => review[r2].stage # "new"
    /\ run[a2].stage # "new" => run[a1].stage # "new"
    /\ run[a3].stage # "new" => run[a2].stage # "new"
    /\ account.upsets <= MostUpsets

\* What is on disk matters only while the process can still die.
FlushedInTime == Flush => account.upsets < MostUpsets

Spec == Init /\ [][Next]_vars /\ Fairness
=============================================================================
