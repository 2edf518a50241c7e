------------------------------- MODULE Engine -------------------------------
(***************************************************************************)
(* The engine from its deployment to the end of a refund, in the order the  *)
(* repository's deployment guide gives (documentos/estrutura/overview.md):  *)
(* every process has its schema migrated, then the providers are            *)
(* registered, then the workers and relays run.                            *)
(*                                                                         *)
(* Migrator, ProviderRegistry and RefundSaga keep their own state; they     *)
(* share the bound on faults, and the registry decides whether the relay    *)
(* has a gateway for the refund.                                           *)
(***************************************************************************)
EXTENDS RefundSaga

CONSTANTS
    Processes, Versions, Files,         \* Migrator
    Providers, Internal, Nobody,        \* ProviderRegistry
    Gateway                             \* the payments' provider

VARIABLES
    \* of Migrator
    schema, rows, pc, upTo,
    \* of ProviderRegistry
    registered, copy, step, mutex

M == INSTANCE Migrator
R == INSTANCE ProviderRegistry

ASSUME EngineConstants == Gateway \in Providers /\ M!MigratorConstants /\ R!RegistryConstants

migration == <<schema, rows, pc, upTo>>
wiring == <<registered, copy, step, mutex>>
vars == <<migration, wiring, sagaVars>>

-----------------------------------------------------------------------------

Migrated == M!AllDone
Serving == Migrated /\ R!AllDone

\* Phase 0, the init containers.
Migrate(p) == M!Step(p) /\ UNCHANGED <<wiring, saga>>
MigrationFails(p) == M!Fail(p) /\ UNCHANGED <<wiring, saga>>

\* Phase 1, RegisterProvider.
Wire(p) == Migrated /\ R!Register(p) /\ UNCHANGED <<migration, sagaVars>>

\* Phase 2, ConsumeInbox and RelayOutbox.
Running == Serving /\ UNCHANGED <<migration, wiring>>

Init == M!Init /\ R!Init /\ SagaInit

Next ==
    \/ \E p \in Processes : Migrate(p) \/ MigrationFails(p)
    \/ \E p \in Providers : Wire(p)
    \/ \E t \in Payments : Running /\ GatewayChanges(t)
    \/ \E t \in Payments : Running /\ HostRefund(t)
    \/ \E n \in mail : Running /\ NoticeArrives(n)
    \/ \E r \in Relays : Running /\ R!Known(Gateway) /\ RefundRequest(r)
    \/ \E r \in Relays : Running /\ Compensate(r)
    \/ Running /\ InboxStep
    \/ Running /\ OutboxStep

Spec == Init /\ [][Next]_vars

\* A failed process is started anew and every goroutine runs.  While the engine does
\* not serve there is nothing in RefundSaga that could be treated unfairly.
FairSpec ==
    /\ Spec
    /\ \A p \in Processes : WF_vars(Migrate(p))
    /\ \A p \in Providers : WF_vars(Wire(p))
    /\ SagaFairness

-----------------------------------------------------------------------------
(***************************************************************************)
(* Properties                                                              *)
(***************************************************************************)

\* The properties of the parts, in the engine they make up.
VersionsTellSchema == M!VersionsTellSchema
DoneMeansCurrent == M!DoneMeansCurrent
RegistrationsKept == R!RegistrationsKept
CompletedMeansHandled == Out!CompletedMeansHandled
RefundOrCompensation == Out!RefundOrCompensation

\* Processes that race for the same migrations, and goroutines for the registry, all
\* get there: the engine serves in the end (EnsureSchema's error and the restart that
\* answers it, Register's mutex).
EngineServes == <>Serving

=============================================================================
