----------------------------- MODULE MCServices -----------------------------
(***************************************************************************)
(* ServiceManagers and Decisions for TLC.  A behaviour is either one of    *)
(* the commands on a machine or one decision, so that the properties of    *)
(* both are checked side by side.                                          *)
(***************************************************************************)
EXTENDS ServiceManagers

VARIABLES kind, question, answer
decision == <<kind, question, answer>>

Decide == INSTANCE Decisions

MCParent == [d \in Dirs |-> IF d = "app" THEN "/" ELSE "app"]

\* The machine while a decision is asked for.
Aside == os = "linux" /\ scope = "user" /\ reg = None /\ ~enabled /\ dirs = {}

MCInit ==
    \/ Init /\ kind = "command" /\ question = 0 /\ answer = Decide!Pending
    \/ Init /\ Aside /\ Decide!Init

Command == kind = "command" /\ Next /\ UNCHANGED decision
Decision == Decide!Next /\ UNCHANGED vars

MCSpec ==
    /\ MCInit /\ [][Command \/ Decision]_<<vars, decision>>
    /\ WF_vars(kind = "command" /\ CommandStep)
    /\ WF_vars(kind = "command" /\ InstanceStep)
    /\ WF_vars(kind = "command" /\ SupervisorStep)

\* What the program decides by itself agrees with an independent definition
\* of the right answer: which directories the account of the service may use,
\* which access control lists are accepted, what systemd reads from a unit
\* file, which directories the summary of an installation names, and which of the
\* configured directories a file belongs to.
DecisionsAgree ==
    /\ Decide!AccessAgrees /\ Decide!AclIsSound
    /\ Decide!WordsSurvive /\ Decide!SummaryIsTrue
    /\ Decide!DeletionAgrees /\ Decide!TreeIsProtected
=============================================================================
