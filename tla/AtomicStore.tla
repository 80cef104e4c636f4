----------------------------- MODULE AtomicStore ------------------------------
(***************************************************************************)
(* What port.UnitOfWork promises (application/port/operational.go): a      *)
(* command changes the state completely or not at all; success means the   *)
(* change is permanent; an error means nothing changed; and after          *)
(* ErrCommitOutcomeUnknown either the prior or the next complete state can *)
(* survive a restart.  "may" is the set of states a power loss can bring   *)
(* back.                                                                   *)
(***************************************************************************)
CONSTANTS
  Clients,
  Commands,     \* the commands a client may issue
  Effects(_, _), \* the states a command may lead to from a state
  FirstStates,  \* states the store may be opened with
  None          \* no command

VARIABLES
  now,   \* the operational state
  may,   \* the states that can be there after a power loss
  stage, \* what a client's command has done: "open", "done", "doubt"; or its answer
  doing  \* the command of each client

vars == <<now, may, stage, doing>>

Init ==
  /\ now \in FirstStates
  /\ may = {now}
  /\ stage = [p \in Clients |-> "idle"]
  /\ doing = [p \in Clients |-> None]

Answers == {"ok", "error", "unknown"}

Call(p, c) ==
  /\ stage[p] \in {"idle"} \cup Answers
  /\ stage' = [stage EXCEPT ![p] = "open"]
  /\ doing' = [doing EXCEPT ![p] = c]
  /\ UNCHANGED <<now, may>>

\* The command takes effect: for good, or unconfirmed.
Apply(p) ==
  /\ stage[p] = "open"
  /\ UNCHANGED doing
  /\ \/ stage' = [stage EXCEPT ![p] = "done"] /\ may' = {now'}
     \/ stage' = [stage EXCEPT ![p] = "doubt"] /\ may' = may \cup {now'}
  /\ now' \in Effects(doing[p], now)

\* A later write to the same directory makes an unconfirmed one permanent.
Settle == may' = {now} /\ UNCHANGED <<now, stage, doing>>

\* Success only of what is permanent, an error only of what did not happen.
Reply(p, answer) ==
  /\ stage[p] \in {"open", "done", "doubt"}
  /\ answer = "ok" => stage[p] = "done"
  /\ answer = "error" => stage[p] = "open"
  /\ stage' = [stage EXCEPT ![p] = answer]
  /\ doing' = [doing EXCEPT ![p] = None]
  /\ UNCHANGED <<now, may>>

PowerLoss ==
  /\ now' \in may
  /\ may' = {now'}
  /\ stage' = [p \in Clients |-> "idle"]
  /\ doing' = [p \in Clients |-> None]

Next ==
  \/ \E p \in Clients : (\E c \in Commands : Call(p, c)) \/ Apply(p)
                      \/ (\E answer \in Answers : Reply(p, answer))
  \/ Settle
  \/ PowerLoss

Spec == Init /\ [][Next]_vars
===============================================================================
