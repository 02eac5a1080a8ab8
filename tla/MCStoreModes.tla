---------------------------- MODULE MCStoreModes ----------------------------
(* The two modes of the tenant store, for TLC: FileTenantStore, and           *)
(* TenantStore with the questions that need fairness.  A behaviour is one of  *)
(* the mode it starts in, and the variables of the other stay as they are.    *)
EXTENDS MCFileTenantStore

CONSTANTS DurableCalls, NoHolder, LeaseTicks, RetryLimit

VARIABLES
  mode,
  lease, row, expiresIn, seen, attempt, flight,  \* of the durable mode, and
  dpc, dElapsed, dRecord, dResult                \* those both modes have

Durable == INSTANCE TenantStore
             WITH Calls <- DurableCalls, pc <- dpc, elapsed <- dElapsed,
                  record <- dRecord, result <- dResult

durableVars == <<lease, row, expiresIn, seen, attempt, flight, dpc, dElapsed,
                 dRecord, dResult>>

InFile(A) == mode = "file" /\ A /\ UNCHANGED <<durableVars, mode>>
InDurable(A) == mode = "durable" /\ A /\ UNCHANGED <<vars, mode>>

modes == <<vars, durableVars, mode>>

ModesInit == mode \in {"file", "durable"} /\ Init /\ Durable!Init

ModesNext == InFile(Next) \/ InDurable(Durable!Next)

\* The fairness of both specifications.
ModesSpec ==
  /\ ModesInit /\ [][ModesNext]_modes
  /\ \A c \in Calls : WF_modes(InFile(Step(c)))
  /\ \A c \in DurableCalls : WF_modes(InDurable(Durable!Step(c)))
  /\ WF_modes(InFile(Tick) \/ InDurable(Durable!Tick))

\* Every call of the durable mode ends: nobody waits for ever for a lease
\* whose holder died.
DurableCallsEnd == Durable!CallsEnd
=============================================================================
