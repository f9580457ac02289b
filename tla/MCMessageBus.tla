---------------------------- MODULE MCMessageBus ----------------------------
EXTENDS MessageBus, TLC

CONSTANTS a1, a2, a3, default, acme

\* a3 belongs to another tenant than a1 and a2.
MCTenantOf == a1 :> default @@ a2 :> default @@ a3 :> acme
=============================================================================
