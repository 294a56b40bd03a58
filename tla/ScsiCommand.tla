----------------------------- MODULE ScsiCommand -----------------------------
(***************************************************************************)
(* What the target promises to an initiator: a command that is accepted    *)
(* moves its blocks one after the other and ends with exactly one status   *)
(* and one message; the status is GOOD only if every block was moved; and  *)
(* nothing but a reset ends a command without a status.                    *)
(***************************************************************************)
EXTENDS Naturals

VARIABLES
    stage,    \* how far the command is
    asked,    \* the blocks it asks for
    moved,    \* the blocks that went over the bus
    result,   \* the status that is reported
    reset     \* a reset was raised and not yet served

cmdView == <<stage, asked, moved, result, reset>>

Stages == {"free", "command", "execute", "status", "message"}

\* Between commands there is nothing to remember of the last one.
Forget == asked' = 0 /\ moved' = 0 /\ result' = "none"

\* A reset is raised, by the initiator or by a timeout.
Raise == reset => reset'

CommandInit == stage = "free" /\ asked = 0 /\ moved = 0 /\ result = "none" /\ ~reset

SelectTarget == stage = "free" /\ stage' = "command" /\ Forget /\ Raise

\* The command block was read: a command that is known is carried out.
Accept ==
    /\ stage = "command" /\ stage' = "execute"
    /\ asked' \in Nat /\ moved' = 0 /\ result' = "none" /\ Raise
Reject == stage = "command" /\ stage' = "free" /\ Forget /\ Raise

MoveBlock ==
    /\ stage = "execute" /\ moved < asked
    /\ moved' = moved + 1
    /\ UNCHANGED <<stage, asked, result>> /\ Raise

\* The command is over: with CHECK CONDITION at any time, with GOOD when no
\* block is left, ...
Report ==
    /\ stage = "execute" /\ stage' = "status"
    /\ result' \in {"good", "check"}
    /\ result' = "good" => moved = asked
    /\ asked' = 0 /\ moved' = 0 /\ Raise

\* ... or with GOOD in the step that moves the last block, if no reset cut it short.
MoveLastBlock ==
    /\ stage = "execute" /\ stage' = "status"
    /\ result' = "good" /\ moved + 1 = asked /\ ~reset'
    /\ asked' = 0 /\ moved' = 0 /\ Raise

SendStatus == stage = "status" /\ stage' = "message" /\ Forget /\ Raise
SendMessage == stage = "message" /\ stage' = "free" /\ Forget /\ Raise

\* A command ends without a status: only for a reset.
Abandon == stage = "execute" /\ stage' = "free" /\ Forget /\ reset'

RaiseReset == Raise /\ UNCHANGED <<stage, asked, moved, result>>
ServeReset == reset /\ stage' = "free" /\ Forget

CommandNext ==
    \/ SelectTarget \/ Accept \/ Reject \/ MoveBlock \/ Report \/ MoveLastBlock
    \/ SendStatus \/ SendMessage \/ Abandon \/ RaiseReset \/ ServeReset

CommandSpec == CommandInit /\ [][CommandNext]_cmdView
=============================================================================
