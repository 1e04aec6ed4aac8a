-------------------------- MODULE MCOutboundDelivery --------------------------
(* Small instances of OutboundDelivery for TLC.                            *)
EXTENDS OutboundDelivery

\* All the parameters a caller and an adapter can have
AllOptions ==
    {o \in Option : o.exact => o.units = 1 /\ o.dispatches /\ o.reconciles}

\* Adapters that mark the dispatch of each send
DispatchingOptions == {o \in AllOptions : o.dispatches /\ o.reconciles}
=============================================================================
