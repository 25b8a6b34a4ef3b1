--------------------------- MODULE MCEventDelivery ---------------------------
(* EventDelivery for TLC: clients, webhooks and events are interchangeable. *)
EXTENDS EventDelivery, TLC

LeavesOnly == {{"leave.approved"}}

AnyNames == Permutations(Clients) \union Permutations(Webhooks) \union Permutations(Events)
==============================================================================
