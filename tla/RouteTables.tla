----------------------------- MODULE RouteTables -----------------------------
(***************************************************************************)
(* The route tables of the snapshot catalog, as values: catalog.RouteTable *)
(* (application/catalog/runtime.go) in memory and durableRouteTableV1      *)
(* (internal/adapters/catalogstore/activation.go) on disk hold the same    *)
(* information, so one representation serves both.  A mount is absent from *)
(* the Mounts map when its active snapshot is NoSnapshot and absent from   *)
(* the Tombstones map when its tombstone is NoTombstone; nothing in the    *)
(* representation keeps a mount from being in both.                        *)
(*                                                                         *)
(* A snapshot is its content-addressed ID.  Its catalog identity is part   *)
(* of the content the ID digests, so CatalogOf is a function of the ID.    *)
(***************************************************************************)
EXTENDS Naturals, FiniteSets

CONSTANTS
  Mounts,           \* mount paths
  Snapshots,        \* snapshot IDs
  NoSnapshot,       \* the empty SnapshotID ""
  NoTombstone,
  TombstoneStates,  \* "withdrawn", "deleted"
  CatalogOf,        \* catalog identity of each snapshot
  MaxMounts         \* maxDurableMounts

SnapshotOrNone == Snapshots \cup {NoSnapshot}
Tombstones == [state : TombstoneStates, snap : Snapshots]

ASSUME RouteConstants ==
  /\ NoSnapshot \notin Snapshots
  /\ NoTombstone \notin Tombstones
  /\ MaxMounts \in Nat

Tables == [active : [Mounts -> SnapshotOrNone],
           prev   : [Mounts -> SnapshotOrNone],
           tomb   : [Mounts -> Tombstones \cup {NoTombstone}]]

EmptyTable == [active |-> [m \in Mounts |-> NoSnapshot],
               prev   |-> [m \in Mounts |-> NoSnapshot],
               tomb   |-> [m \in Mounts |-> NoTombstone]]

HasMount(t, m) == t.active[m] # NoSnapshot
Withdrawn(t, m) == t.tomb[m] # NoTombstone

\* The compare half of the compare-and-swap: old is NoSnapshot for a first activation.
CheckMount(t, m, old) == ~Withdrawn(t, m) /\ t.active[m] = old

ActivateMount(t, m, candidate) ==
  [active |-> [t.active EXCEPT ![m] = candidate],
   prev   |-> [t.prev EXCEPT ![m] = t.active[m]],
   tomb   |-> t.tomb]

\* Mutants: the mount stays in the Mounts map; the other tombstones are lost.
WithdrawMountKept(t, m, tombstone) ==
  [active |-> t.active, prev |-> t.prev, tomb |-> [t.tomb EXCEPT ![m] = tombstone]]
WithdrawMountFreshMap(t, m, tombstone) ==
  [active |-> [t.active EXCEPT ![m] = NoSnapshot],
   prev   |-> [t.prev EXCEPT ![m] = NoSnapshot],
   tomb   |-> [n \in Mounts |-> IF n = m THEN tombstone ELSE NoTombstone]]

WithdrawMount(t, m, tombstone) ==
  [active |-> [t.active EXCEPT ![m] = NoSnapshot],
   prev   |-> [t.prev EXCEPT ![m] = NoSnapshot],
   tomb   |-> [t.tomb EXCEPT ![m] = tombstone]]

CanReauthorize(t, m, candidate) ==
  /\ Withdrawn(t, m)
  /\ ~HasMount(t, m)
  /\ CatalogOf[t.tomb[m].snap] = CatalogOf[candidate]
  /\ t.tomb[m].snap # candidate

ReauthorizeMount(t, m, candidate) ==
  [active |-> [t.active EXCEPT ![m] = candidate],
   prev   |-> [t.prev EXCEPT ![m] = NoSnapshot],
   tomb   |-> [t.tomb EXCEPT ![m] = NoTombstone]]

\* FallbackMountDurably promotes the previous snapshot, DisableMountDurably drops the mount.
FallbackMount(t, m, usePrevious) ==
  [active |-> [t.active EXCEPT ![m] = IF usePrevious THEN t.prev[m] ELSE NoSnapshot],
   prev   |-> [t.prev EXCEPT ![m] = NoSnapshot],
   tomb   |-> t.tomb]

\* encodeRouteTable refuses a table of more than maxDurableMounts entries.
Encodable(t) ==
  Cardinality({m \in Mounts : HasMount(t, m)})
    + Cardinality({m \in Mounts : Withdrawn(t, m)}) <= MaxMounts

\* No mount is in both maps.
Exclusive(t) == \A m \in Mounts : ~(HasMount(t, m) /\ Withdrawn(t, m))

\* The snapshots a table serves from: garbage collection's keep set.
Retained(t) == {t.active[m] : m \in Mounts} \cup {t.prev[m] : m \in Mounts}

\* What clients see of one mount.
Route(t, m) == [active |-> t.active[m], tomb |-> t.tomb[m]]
Routes == [active : SnapshotOrNone, tomb : Tombstones \cup {NoTombstone}]
==============================================================================
