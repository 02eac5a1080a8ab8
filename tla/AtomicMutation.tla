--------------------------- MODULE AtomicMutation ---------------------------
(***************************************************************************)
(* What mutateState promises to its callers: the tenant's state is a       *)
(* single register, every call changes it at most once and in one step, a  *)
(* call that returns normally has changed it, and a call that throws or    *)
(* whose process dies may or may not have (its write can even arrive after *)
(* the error was reported).  The register is the sequence of the calls     *)
(* whose mutator it contains, so losing or repeating an update shows.      *)
(***************************************************************************)
EXTENDS Sequences, Naturals

CONSTANT Calls

VARIABLES history,   \* calls applied to the register, oldest first
          outcome    \* what each call has told its caller

absVars == <<history, outcome>>

Applied(c) == \E i \in 1..Len(history) : history[i] = c

Init == /\ history = <<>>
        /\ outcome = [c \in Calls |-> "none"]

\* The mutator of c takes effect, on top of everything applied before it.
Apply(c) == /\ ~Applied(c)
            /\ outcome[c] # "ok"
            /\ history' = Append(history, c)
            /\ UNCHANGED outcome

ReturnOk(c) == /\ outcome[c] = "none"
               /\ Applied(c)
               /\ outcome' = [outcome EXCEPT ![c] = "ok"]
               /\ UNCHANGED history

ReturnError(c) == /\ outcome[c] = "none"
                  /\ outcome' = [outcome EXCEPT ![c] = "error"]
                  /\ UNCHANGED history

Next == \E c \in Calls : Apply(c) \/ ReturnOk(c) \/ ReturnError(c)

Spec == Init /\ [][Next]_absVars
=============================================================================
