----------------------------- MODULE ControlPlane -----------------------------
(***************************************************************************)
(* The file store keeps the promise of the port it implements.             *)
(***************************************************************************)
EXTENDS FileStore

\* What a command does to a state, when the blobs it needs are there.
Effects(c, S) ==
  {Committed(S, Run(c, S, time1, time2), Revisions) : time1, time2 \in Times} \ {Refused}

\* What a caller of port.UnitOfWork sees of the store and of its command.
Within(p) == pc[p] # "idle" /\ goal[p] # "readback"
Now == Plain(Here.state)
May == {Plain(dirs[i].state) : i \in DOMAIN dirs}
Stage == [p \in Clients |->
            IF ~Within(p) THEN (IF pc[p] # "idle" \/ result[p] = "late" THEN "ok" ELSE result[p])
            ELSE IF pc[p] = "written" THEN "done" ELSE IF pc[p] = "doubt" THEN "doubt" ELSE "open"]
Doing == [p \in Clients |-> IF Within(p) THEN cmd[p] ELSE None]

\* The unit of work over files behaves as port.UnitOfWork promises: every
\* command atomic, success permanent, an error without effect, and after a
\* power loss a complete state that was the store's.
Promise == INSTANCE AtomicStore WITH
  now <- Now, may <- May, stage <- Stage, doing <- Doing,
  FirstStates <- {Plain(Meaning(d.version, d.raw)) : d \in FirstDirs}
ImplementsAtomicStore == Promise!Spec
===============================================================================
