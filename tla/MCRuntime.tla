------------------------------ MODULE MCRuntime ------------------------------
(***************************************************************************)
(* A thread's abstract machine, and the two things a thread blocks on that *)
(* other threads bring about: its messages and the changes of predicates.  *)
(* They share no state here, so one instance checks them all: a behaviour  *)
(* is one of the component that has the focus.                             *)
(***************************************************************************)
EXTENDS MCMachine, MessageQueue, WaitPredicates, TLC

CONSTANTS t0, t1

\* Two receives on the initial thread, one within the other; the other thread
\* gets messages too, and may exit with them.
UsesOfEach == t0 :> 2 @@ t1 :> 0
MCUses == UsesOfEach

VARIABLE focus

runtimeVars == <<focus, vars, messageVars, waitVars>>

\* A machine without a query takes no steps.
MachineDone == query = "none" /\ MachineReady("exited", <<>>)

RuntimeInit ==
    /\ focus \in {"machine", "messages", "predicates"}
    /\ MessageInit
    /\ WaitInit
    /\ IF focus = "machine" THEN MachineInit ELSE MachineDone

\* The machine is never stuck; threads that wait may be.
RuntimeNext ==
    \/ focus = "machine"    /\ MachineNext /\ UNCHANGED <<focus, messageVars, waitVars>>
    \/ focus = "messages"   /\ MessageNext /\ UNCHANGED <<focus, vars, waitVars>>
    \/ focus = "predicates" /\ WaitNext    /\ UNCHANGED <<focus, vars, messageVars>>
    \/ focus # "machine"    /\ UNCHANGED runtimeVars

\* The actions of a component without the focus are not enabled at first.
RuntimeSpec ==
    /\ RuntimeInit /\ [][RuntimeNext]_runtimeVars
    /\ Steps /\ WF_vars(Resume)
    /\ MessageFairness /\ WaitFairness
=============================================================================
