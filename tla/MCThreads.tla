----------------------------- MODULE MCThreads ------------------------------
(* The components whose steps must come to an end, for TLC: the replication   *)
(* of the content-addressed store, the execution of a plan, the run of a      *)
(* command and the audit sink.  They share no state: a behaviour is one of    *)
(* the component it starts with, and the others stay in their first state.    *)
EXTENDS CasReplication, PlanExecution, ProcessRun, AuditSink

CONSTANT Components   \* the components to check

VARIABLE component    \* the one this behaviour is about

threads == <<replVars, planVars, procVars, auditVars, component>>

ThreadsInit ==
  /\ component \in Components
  /\ ReplInit /\ PlanInit /\ ProcInit /\ AuditInit
  /\ component # "replication" => policy = "Block"

\* A step of one component leaves the variables of the others alone.
InReplication(A) == component = "replication" /\ A
                    /\ UNCHANGED <<planVars, procVars, auditVars, component>>
InPlan(A) == component = "plan" /\ A
             /\ UNCHANGED <<replVars, procVars, auditVars, component>>
InProcess(A) == component = "process" /\ A
                /\ UNCHANGED <<replVars, planVars, auditVars, component>>
InAudit(A) == component = "audit" /\ A
              /\ UNCHANGED <<replVars, planVars, procVars, component>>

ThreadsNext == \/ InReplication(ReplNext) \/ InPlan(PlanNext)
               \/ InProcess(ProcNext) \/ InAudit(AuditNext)

(* The fairness of ReplSpec, PlanSpec, ProcSpec and AuditSpec.  A behaviour is
   of one component, so a condition of each may be joined with another's. *)
ThreadsSpec ==
  /\ ThreadsInit /\ [][ThreadsNext]_threads
  /\ WF_threads(\/ InReplication(WorkerStep) \/ InPlan(PlanWork)
                \/ InProcess(RunStep) \/ InAudit(TimerFires))
  /\ WF_threads(InProcess(TimePasses) \/ InAudit(Sending))
  /\ \A c \in Clients : WF_threads(InReplication(ClientStep(c)))
=============================================================================
