-------------------------------- MODULE Outbox --------------------------------
(***************************************************************************)
(* What the write-ahead queue of outbound deliveries promises, whatever    *)
(* crashes, retries and failing store calls happen underneath: no part of  *)
(* a delivery reaches the platform twice, a queued intent is settled at    *)
(* most once and never comes back, and nothing of a dead-lettered intent   *)
(* is transmitted afterwards.  OutboundDelivery implements it.             *)
(***************************************************************************)
EXTENDS Naturals

CONSTANTS
    Deliveries,     \* the outbound delivery intents
    MaxUnits        \* the platform sends a delivery may need

VARIABLES
    fate,           \* what became of the queue row of each intent
    copies          \* how often each part reached the platform

vars == <<fate, copies>>

Unit == 1 .. MaxUnits

Init ==
    /\ fate = [d \in Deliveries |-> "none"]
    /\ copies = [d \in Deliveries |-> [u \in Unit |-> 0]]

\* The intent is persisted.
Accept(d) ==
    /\ fate[d] = "none"
    /\ fate' = [fate EXCEPT ![d] = "pending"]
    /\ UNCHANGED copies

\* One part reaches the platform, with or without a row that remembers it.
Transmit(d, u) ==
    /\ fate[d] # "failed"
    /\ copies[d][u] = 0
    /\ copies' = [copies EXCEPT ![d][u] = 1]
    /\ UNCHANGED fate

\* The intent is acked or dead-lettered, for good.
Settle(d, as) ==
    /\ fate[d] = "pending"
    /\ fate' = [fate EXCEPT ![d] = as]
    /\ UNCHANGED copies

Next == \E d \in Deliveries :
    \/ Accept(d)
    \/ \E u \in Unit : Transmit(d, u)
    \/ \E as \in {"acked", "failed"} : Settle(d, as)

Spec == Init /\ [][Next]_vars
===============================================================================
