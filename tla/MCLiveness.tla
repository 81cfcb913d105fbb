----------------------------- MODULE MCLiveness -----------------------------
(***************************************************************************)
(* What must happen, in the service broker, in package context and in      *)
(* gocheck's runner.  They share nothing: a behaviour is one of any of     *)
(* them, and the variables of the others stay as they are at the start.    *)
(***************************************************************************)
EXTENDS ServiceBroker, Context, SuiteRunner

VARIABLE system \* the one that runs

allVars == <<vars, ctxVars, suiteVars, system>>

AllInit ==
    /\ system \in {"broker", "context", "gocheck"}
    /\ Init
    /\ ContextInit
    /\ SuiteInit
    /\ system # "gocheck" =>
          suite.fixtures = {} /\ ~suite.bench /\ ~suite.wrongTest

BrokerIs == system = "broker" /\ UNCHANGED <<ctxVars, suiteVars, system>>
ContextIs == system = "context" /\ UNCHANGED <<vars, suiteVars, system>>
SuiteIs == system = "gocheck" /\ UNCHANGED <<vars, ctxVars, system>>

AllNext ==
    \/ BrokerIs /\ Next
    \/ ContextIs /\ ContextNext
    \/ SuiteIs /\ SuiteNext

\* The fairness of each module's FairSpec.
AllFairness ==
    /\ \A w \in Workers : WF_allVars(BrokerIs /\ Handle(w))
    /\ \A t \in Callers : WF_allVars(ContextIs /\ CancelStep(t))
    /\ WF_allVars(ContextIs /\ Underway)
    /\ WF_allVars(SuiteIs /\ SuiteStep)

AllSpec == AllInit /\ [][AllNext]_allVars /\ AllFairness
=============================================================================
