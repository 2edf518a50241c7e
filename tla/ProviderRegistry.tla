-------------------------- MODULE ProviderRegistry --------------------------
(***************************************************************************)
(* domain/registry/provider_registry.go: the map of the gateways' adapters. *)
(* Register copies it, adds to the copy and swaps the pointer, one          *)
(* registration at a time; Get reads through the pointer without a lock.    *)
(*                                                                         *)
(* NewEngine has registered the engine's own adapter; hosts register the    *)
(* others, possibly from several goroutines (Engine.RegisterProvider).      *)
(***************************************************************************)
EXTENDS Naturals

CONSTANTS
    Providers,      \* each is registered once, by a goroutine of its own
    Internal,       \* SYSTEM_INTERNAL
    Nobody

RegistryConstants == Nobody \notin Providers

VARIABLES
    registered,     \* what the pointer leads to: the providers of the current map
    copy,           \* the copy each registration works on
    step,           \* where each registration is
    mutex

vars == <<registered, copy, step, mutex>>

-----------------------------------------------------------------------------

\* Fault: writers that do not exclude each other.
Acquire_Nothing(p) == UNCHANGED mutex

\* mu.Lock
Acquire(p) == mutex = Nobody /\ mutex' = p

Lock(p) ==
    /\ step[p] = "lock"
    /\ Acquire(p)
    /\ step' = [step EXCEPT ![p] = "copy"]
    /\ UNCHANGED <<registered, copy>>

\* Load, and a copy with the provider added.
CopyMap(p) ==
    /\ step[p] = "copy"
    /\ copy' = [copy EXCEPT ![p] = registered \cup {p}]
    /\ step' = [step EXCEPT ![p] = "store"]
    /\ UNCHANGED <<registered, mutex>>

Store(p) ==
    /\ step[p] = "store"
    /\ registered' = copy[p]
    /\ step' = [step EXCEPT ![p] = "unlock"]
    /\ UNCHANGED <<copy, mutex>>

\* Fault: the mutex stays locked.
Release_Never(p) == UNCHANGED mutex

Release(p) == mutex' = Nobody

\* The deferred Unlock; the copy is the map now, or garbage.
Unlock(p) ==
    /\ step[p] = "unlock"
    /\ Release(p)
    /\ copy' = [copy EXCEPT ![p] = {}]
    /\ step' = [step EXCEPT ![p] = "done"]
    /\ UNCHANGED registered

Register(p) == Lock(p) \/ CopyMap(p) \/ Store(p) \/ Unlock(p)

\* Get finds an adapter.
Known(p) == p \in registered

Init ==
    /\ registered = {Internal}
    /\ copy = [p \in Providers |-> {}]
    /\ step = [p \in Providers |-> "lock"]
    /\ mutex = Nobody

AllDone == \A p \in Providers : step[p] = "done"

-----------------------------------------------------------------------------
(***************************************************************************)
(* Properties                                                              *)
(***************************************************************************)

\* A provider whose Register has swapped the pointer is found by every Get from then
\* on, and so is the engine's own: no registration works on a copy that is out of date.
RegistrationsKept ==
    /\ Known(Internal)
    /\ \A p \in Providers : step[p] \in {"unlock", "done"} => Known(p)

=============================================================================
