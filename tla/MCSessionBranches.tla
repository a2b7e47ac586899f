-------------------------- MODULE MCSessionBranches --------------------------
(* The outcomes that wait for a session and the branches of its file, on small *)
(* instances for TLC and side by side: each behaviour is one of the two.  What *)
(* SessionBranches knows of a task (told, fenced) is what DeferredResults      *)
(* keeps of it.                                                                *)
EXTENDS DeferredMailbox, SessionBranches

CONSTANTS a1, u1, b1, f1

VARIABLE part   \* whose behaviour this is
partVars == <<part, vars, branchVars>>

InitBeside ==
    /\ part \in {"outcomes", "branches"}
    /\ Init /\ InitSessionBranches

NextBeside ==
    /\ UNCHANGED part
    /\ \/ part = "outcomes" /\ Next /\ UNCHANGED branchVars
       \/ part = "branches" /\ NextSessionBranches /\ UNCHANGED vars

SpecBeside == InitBeside /\ [][NextBeside]_partVars

\* The types of both.
TypesOK == TypeOK /\ BranchesTypeOK
=============================================================================
