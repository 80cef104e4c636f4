------------------------------- MODULE Gateway -------------------------------
(***************************************************************************)
(* The renderer's server and its catalog gateway (renderer/server.go):     *)
(* HTTP requests, calls of Activate, Recover and Close, and the admission  *)
(* gate that keeps promotions and requests apart.                          *)
(*                                                                         *)
(* Grain.  Every critical section of gate.mutex, of gateway.mutex and of   *)
(* server.initialize is one action, every operation on the one-slot        *)
(* channel server.activation another.  A goroutine that must wait copies   *)
(* gate.changed, unlocks and blocks on the copy; notifyLocked closes the   *)
(* current channel and installs a fresh one.  asleep holds the goroutines  *)
(* whose copy still is the current channel; the others may run again.      *)
(***************************************************************************)
EXTENDS Naturals, FiniteSets

CONSTANTS
  Requests,    \* HTTP requests, each a goroutine
  Activators,  \* calls of Activate
  Openers,     \* calls of Recover
  Closers,     \* calls of Close, on the server or on its handler
  Impatient,   \* the requests and activations whose context may end
  Nobody

Procs == Requests \cup Activators \cup Openers \cup Closers

ASSUME GatewayConstants ==
  /\ IsFiniteSet(Requests)
  /\ Requests \cap (Activators \cup Openers \cup Closers) = {}
  /\ Activators \cap (Openers \cup Closers) = {}
  /\ Openers \cap Closers = {}
  /\ Impatient \subseteq Requests \cup Activators
  /\ Nobody \notin Procs

VARIABLES
  readers,      \* gate.readers
  gate,         \* the flags of the gate that are set: gate.promoting, gate.closed
  asleep,       \* goroutines blocked on the current gate.changed
  cancelled,    \* requests and activations whose context is done
  token,        \* who holds the slot of server.activation
  initialize,   \* who holds server.initialize
  writer,       \* who holds the runtime's mutex to publish a table
  coordinator,  \* server.coordinator and the runtime: none, open or released
  server,       \* what is set of server.closed and of the gateway's runtime and delegate
  version,      \* promotions published by the runtime
  pc

shared == <<gate, asleep, readers>>
locks == <<token, initialize, writer>>
vars == <<readers, gate, asleep, cancelled, token, initialize, writer, coordinator, server,
          version, pc>>

RequestStates == {"start", "waiting", "admitted", "rendering", "answered", "gone"}
ActivatorStates == {"start", "queued", "opening", "compiling", "draining", "promoted", "writing",
                    "ending", "releasing", "gone"}
OpenerStates == {"start", "opening", "gone"}
CloserStates == {"start", "locking", "closing", "draining", "releasing", "gone"}

TypeOK ==
  /\ readers \in Nat
  /\ gate \subseteq {"promoting", "closed"}
  /\ asleep \subseteq Procs
  /\ cancelled \subseteq Requests \cup Activators
  /\ token \in Activators \cup Closers \cup {Nobody}
  /\ initialize \in Activators \cup Openers \cup Closers \cup {Nobody}
  /\ writer \in Activators \cup {Nobody}
  /\ coordinator \in {"none", "open", "released"}
  /\ server \subseteq {"closed", "installed"}
  /\ version \in Nat
  /\ pc \in [Procs -> RequestStates \cup ActivatorStates \cup OpenerStates \cup CloserStates]
  /\ \A r \in Requests : pc[r] \in RequestStates
  /\ \A a \in Activators : pc[a] \in ActivatorStates
  /\ \A o \in Openers : pc[o] \in OpenerStates
  /\ \A c \in Closers : pc[c] \in CloserStates

Init ==
  /\ readers = 0 /\ gate = {} /\ asleep = {} /\ cancelled = {}
  /\ token = Nobody /\ initialize = Nobody /\ writer = Nobody
  /\ coordinator = "none" /\ server = {} /\ version = 0
  /\ pc = [p \in Procs |-> "start"]

Goto(p, label) == pc' = [pc EXCEPT ![p] = label]
Notify == asleep' = {}                         \* notifyLocked
Sleep(p) == asleep' = asleep \cup {p}          \* changed := gate.changed; <-changed

\* A context may be done at any time.
Cancel(p) ==
  /\ p \in Impatient \ cancelled /\ pc[p] # "gone"
  /\ cancelled' = cancelled \cup {p}
  /\ UNCHANGED <<shared, locks, coordinator, server, version, pc>>

-----------------------------------------------------------------------------
\* ServeHTTP

\* One turn of the loop of enter.
Enter(r) ==
  /\ pc[r] = "start" \/ (pc[r] = "waiting" /\ r \notin asleep)
  /\ \/ /\ "closed" \in gate \/ r \in cancelled
        /\ Goto(r, "gone") /\ UNCHANGED shared
     \/ /\ "closed" \notin gate /\ r \notin cancelled /\ "promoting" \notin gate
        /\ readers' = readers + 1
        /\ Goto(r, "admitted") /\ UNCHANGED <<gate, asleep>>
     \/ /\ "closed" \notin gate /\ r \notin cancelled /\ "promoting" \in gate
        /\ Sleep(r)
        /\ Goto(r, "waiting") /\ UNCHANGED <<gate, readers>>
  /\ UNCHANGED <<cancelled, locks, coordinator, server, version>>

\* Mutant: a request that was never admitted leaves.
EnterCancelledLeaves(r) ==
  /\ pc[r] = "waiting" /\ r \in cancelled
  /\ readers' = readers - 1
  /\ Goto(r, "gone") /\ asleep' = asleep \ {r}
  /\ UNCHANGED <<gate, cancelled, locks, coordinator, server, version>>

\* The select in enter finds the context done.
EnterCancelled(r) ==
  /\ pc[r] = "waiting" /\ r \in cancelled
  /\ Goto(r, "gone") /\ asleep' = asleep \ {r}
  /\ UNCHANGED <<gate, readers, cancelled, locks, coordinator, server, version>>

\* The routing of an admitted request: to the delegate if there is one; assets, unknown
\* paths and the answers to everything before the first Open need none.
Dispatch(r) ==
  /\ pc[r] = "admitted"
  /\ \/ "installed" \in server /\ Goto(r, "rendering")
     \/ Goto(r, "answered")
  /\ UNCHANGED <<shared, cancelled, locks, coordinator, server, version>>

\* The delegate admits the snapshot it renders under the runtime's mutex.
Render(r) ==
  /\ pc[r] = "rendering" /\ writer = Nobody
  /\ Goto(r, "answered")
  /\ UNCHANGED <<shared, cancelled, locks, coordinator, server, version>>

\* leave; the code panics when readers is already 0.
Leave(r) ==
  /\ pc[r] = "answered"
  /\ readers > 0
  /\ readers' = readers - 1
  /\ IF readers' = 0 THEN Notify ELSE UNCHANGED asleep
  /\ Goto(r, "gone")
  /\ UNCHANGED <<gate, cancelled, locks, coordinator, server, version>>

-----------------------------------------------------------------------------
\* ensureRuntime, the body under server.initialize.

\* Mutant: server.closed is not read again under server.initialize.
EnsureRuntimeReopens(p, opened, failed) ==
  /\ coordinator' = "open" /\ server' = server \cup {"installed"}
  /\ Goto(p, opened)
  /\ UNCHANGED <<shared, cancelled, token, writer, version>>

EnsureRuntime(p, opened, failed) ==
  /\ \/ /\ "closed" \notin server /\ coordinator = "none"
        /\ coordinator' = "open" /\ server' = server \cup {"installed"}
        /\ Goto(p, opened)
     \/ /\ "closed" \notin server /\ coordinator # "none"
        /\ UNCHANGED <<coordinator, server>>
        /\ Goto(p, opened)
     \/ /\ "closed" \in server \/ coordinator = "none"        \* ErrClosed, or Open fails
        /\ UNCHANGED <<coordinator, server>>
        /\ Goto(p, failed)
  /\ UNCHANGED <<shared, cancelled, token, writer, version>>

\* Recover
RecoverLock(o) ==
  /\ pc[o] = "start" /\ initialize = Nobody
  /\ initialize' = o /\ Goto(o, "opening")
  /\ UNCHANGED <<shared, cancelled, token, writer, coordinator, server, version>>

Recover(o) ==
  /\ pc[o] = "opening"
  /\ EnsureRuntime(o, "gone", "gone")
  /\ initialize' = Nobody

-----------------------------------------------------------------------------
\* Activate

\* The checks before the slot is taken.
ActivateStart(a) ==
  /\ pc[a] = "start"
  /\ \/ "closed" \notin server /\ Goto(a, "queued")
     \/ Goto(a, "gone")                          \* ErrClosed or an invalid candidate
  /\ UNCHANGED <<shared, cancelled, locks, coordinator, server, version>>

ActivateTake(a) ==
  /\ pc[a] = "queued"
  /\ \/ token = Nobody /\ token' = a /\ Goto(a, IF a \in cancelled THEN "releasing" ELSE "opening")
     \/ a \in cancelled /\ Goto(a, "gone") /\ UNCHANGED token
  /\ UNCHANGED <<shared, cancelled, initialize, writer, coordinator, server, version>>

ActivateLock(a) ==
  /\ pc[a] = "opening" /\ initialize = Nobody
  /\ initialize' = a
  /\ UNCHANGED <<shared, cancelled, token, writer, coordinator, server, version, pc>>

ActivateOpen(a) ==
  /\ pc[a] = "opening" /\ initialize = a
  /\ EnsureRuntime(a, "compiling", "releasing")
  /\ initialize' = Nobody

\* Parse, Compile, Publish and the budgets: any of them may fail.
CompileFails(a) ==
  /\ pc[a] = "compiling" /\ Goto(a, "releasing")
  /\ UNCHANGED <<shared, cancelled, locks, coordinator, server, version>>

\* Mutant: the promotion does not wait for the requests that are being served.
PromotionTurnUndrained(a, woken) ==
  /\ gate' = IF a \in cancelled THEN gate \ {"promoting"} ELSE gate \cup {"promoting"}
  /\ asleep' = IF a \in cancelled THEN {} ELSE woken
  /\ Goto(a, IF a \in cancelled THEN "releasing" ELSE "promoted")
  /\ UNCHANGED readers

\* Mutant: a promotion whose context ends keeps the gate.
PromotionTurnKeepsFlag(a, woken) ==
  /\ gate' = gate \cup {"promoting"}
  /\ \/ /\ a \in cancelled /\ Notify
        /\ Goto(a, "releasing")
     \/ /\ a \notin cancelled /\ readers = 0 /\ asleep' = woken
        /\ Goto(a, "promoted")
     \/ /\ a \notin cancelled /\ readers # 0 /\ asleep' = woken \cup {a}
        /\ Goto(a, "draining")
  /\ UNCHANGED readers

\* One turn of the loop of beginPromotion, asleep being the set woken when it starts.
PromotionTurn(a, woken) ==
  /\ \/ /\ a \in cancelled
        /\ gate' = gate \ {"promoting"} /\ Notify
        /\ Goto(a, "releasing")
     \/ /\ a \notin cancelled /\ readers = 0
        /\ gate' = gate \cup {"promoting"} /\ asleep' = woken
        /\ Goto(a, "promoted")
     \/ /\ a \notin cancelled /\ readers # 0
        /\ gate' = gate \cup {"promoting"} /\ asleep' = woken \cup {a}
        /\ Goto(a, "draining")
  /\ UNCHANGED readers

\* Mutant: the runtime's mutex is taken before the requests are drained.
BeginPromotionLocked(a) ==
  /\ pc[a] = "compiling" /\ writer = Nobody
  /\ gate = {} /\ a \notin cancelled
  /\ writer' = a
  /\ PromotionTurn(a, {})
  /\ UNCHANGED <<cancelled, token, initialize, coordinator, server, version>>

\* beginPromotion sets the flag, notifies and goes into the loop with the mutex held; it
\* fails when the gate is closed or another promotion holds it.
BeginPromotion(a) ==
  /\ pc[a] = "compiling"
  /\ \/ /\ gate = {}
        /\ PromotionTurn(a, {})
     \/ /\ gate # {} \/ a \in cancelled
        /\ Goto(a, "releasing") /\ UNCHANGED shared
  /\ UNCHANGED <<cancelled, locks, coordinator, server, version>>

DrainReaders(a) ==
  /\ pc[a] = "draining" /\ (a \notin asleep \/ a \in cancelled)
  /\ PromotionTurn(a, asleep \ {a})
  /\ UNCHANGED <<cancelled, locks, coordinator, server, version>>

\* ActivateMountDurably takes the runtime's mutex and publishes the next table, or fails (the
\* admission check, the journal, the routes).
LockRuntime(a) ==
  /\ pc[a] = "promoted" /\ writer \in {Nobody, a}
  /\ writer' = a /\ Goto(a, "writing")
  /\ UNCHANGED <<shared, cancelled, token, initialize, coordinator, server, version>>

Promote(a) ==
  /\ pc[a] = "writing"
  /\ version' \in {version, version + 1}
  /\ writer' = Nobody /\ Goto(a, "ending")
  /\ UNCHANGED <<shared, cancelled, token, initialize, coordinator, server>>

\* The deferred endPromotion; the code panics when gate.promoting is not set.
EndPromotion(a) ==
  /\ pc[a] = "ending" /\ "promoting" \in gate
  /\ gate' = gate \ {"promoting"} /\ Notify
  /\ Goto(a, "releasing")
  /\ UNCHANGED <<readers, cancelled, locks, coordinator, server, version>>

\* The deferred release of the slot.
ActivateRelease(a) ==
  /\ pc[a] = "releasing"
  /\ token' = Nobody /\ Goto(a, "gone")
  /\ UNCHANGED <<shared, cancelled, initialize, writer, coordinator, server, version>>

-----------------------------------------------------------------------------
\* Close

CloseTake(c) ==
  /\ pc[c] = "start" /\ token = Nobody
  /\ token' = c /\ Goto(c, "locking")
  /\ UNCHANGED <<shared, cancelled, initialize, writer, coordinator, server, version>>

CloseLock(c) ==
  /\ pc[c] = "locking" /\ initialize = Nobody
  /\ initialize' = c /\ server' = server \cup {"closed"}
  /\ Goto(c, IF "closed" \in server THEN "releasing" ELSE "closing")
  /\ UNCHANGED <<shared, cancelled, token, writer, coordinator, version>>

\* closeAdmissions: the flag, then the wait for the last request.
CloseAdmissions(c) ==
  /\ \/ pc[c] = "closing" /\ gate' = gate \cup {"closed"}
     \/ pc[c] = "draining" /\ c \notin asleep /\ UNCHANGED gate
  /\ readers # 0
  /\ asleep' = (IF pc[c] = "closing" THEN {} ELSE asleep) \cup {c}
  /\ Goto(c, "draining")
  /\ UNCHANGED <<readers, cancelled, locks, coordinator, server, version>>

\* Mutant: the coordinator is closed under the requests that are being served.
ShutDownUndrained(c) ==
  /\ pc[c] \in {"closing", "draining"}
  /\ gate' = gate \cup {"closed"} /\ Notify
  /\ server' = server \ {"installed"}
  /\ coordinator' = IF coordinator = "open" THEN "released" ELSE coordinator
  /\ Goto(c, "releasing")
  /\ UNCHANGED <<readers, cancelled, locks, version>>

\* The last request is gone: install(nil, nil), coordinator.Close, the generated directory.
ShutDown(c) ==
  /\ \/ pc[c] = "closing" /\ Notify
     \/ pc[c] = "draining" /\ c \notin asleep /\ UNCHANGED asleep
  /\ readers = 0
  /\ gate' = gate \cup {"closed"}
  /\ server' = server \ {"installed"}
  /\ coordinator' = IF coordinator = "open" THEN "released" ELSE coordinator
  /\ Goto(c, "releasing")
  /\ UNCHANGED <<readers, cancelled, locks, version>>

CloseRelease(c) ==
  /\ pc[c] = "releasing"
  /\ token' = Nobody /\ initialize' = Nobody
  /\ Goto(c, "gone")
  /\ UNCHANGED <<shared, cancelled, writer, coordinator, server, version>>

-----------------------------------------------------------------------------
RequestStep(r) ==
  Enter(r) \/ EnterCancelled(r) \/ Dispatch(r) \/ Render(r) \/ Leave(r)
ActivatorStep(a) ==
  \/ ActivateStart(a) \/ ActivateTake(a) \/ ActivateLock(a) \/ ActivateOpen(a)
  \/ CompileFails(a) \/ BeginPromotion(a) \/ DrainReaders(a) \/ LockRuntime(a) \/ Promote(a)
  \/ EndPromotion(a) \/ ActivateRelease(a)
OpenerStep(o) == RecoverLock(o) \/ Recover(o)
CloserStep(c) ==
  CloseTake(c) \/ CloseLock(c) \/ CloseAdmissions(c) \/ ShutDown(c) \/ CloseRelease(c)

\* Every goroutine has returned.
Finished == (\A p \in Procs : pc[p] = "gone") /\ UNCHANGED vars

Next ==
  \/ \E p \in Procs : Cancel(p)
  \/ \E r \in Requests : RequestStep(r)
  \/ \E a \in Activators : ActivatorStep(a)
  \/ \E o \in Openers : OpenerStep(o)
  \/ \E c \in Closers : CloserStep(c)
  \/ Finished

Spec == Init /\ [][Next]_vars

\* The scheduler runs every goroutine that can run; handlers, compilations and Open return.
\* A call waiting for the slot or for server.initialize gets it if it is free again and
\* again: channels and mutexes queue their waiters.
FairSpec ==
  /\ Spec
  /\ \A r \in Requests : WF_vars(RequestStep(r))
  /\ \A a \in Activators : SF_vars(ActivatorStep(a))
  /\ \A o \in Openers : SF_vars(OpenerStep(o))
  /\ \A c \in Closers : SF_vars(CloserStep(c))

-----------------------------------------------------------------------------
\* Properties

InGate == {r \in Requests : pc[r] \in {"admitted", "rendering", "answered"}}
Promoters == {a \in Activators : pc[a] \in {"draining", "promoted", "writing", "ending"}}

\* gate.readers counts the requests between enter and leave and gate.promoting is set exactly
\* while an activation is between beginPromotion and endPromotion: neither panic is reached,
\* and no activation fails because of another one.
GateIsExact ==
  /\ readers = Cardinality(InGate)
  /\ "promoting" \in gate <=> Promoters # {}
  /\ \A a, b \in Promoters : a = b

\* The routes never change under a request: from its admission to its answer a request sees
\* one table, and it is answered before a promotion proceeds.
RoutesStableWhileServing == [][version' # version => InGate = {}]_vars

\* A request that reached the delegate finds the coordinator's store open until it has been
\* answered: Close lets it finish first, and never waits with the store half closed.
RenderedFromOpenStore ==
  \A r \in Requests : pc[r] = "rendering" => coordinator = "open" /\ "installed" \in server

\* After Close has returned nobody opens the data directory again, and its lock is free.
ClosedForGood ==
  (\E c \in Closers : pc[c] = "gone") => coordinator # "open" /\ "installed" \notin server

\* No wakeup is lost and nobody waits for somebody who waits for them: every call returns.
EveryoneReturns == \A p \in Procs : <>(pc[p] = "gone")
==============================================================================
