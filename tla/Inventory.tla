------------------------------ MODULE Inventory ------------------------------
(***************************************************************************)
(* The host inventory (hosts.csv) as the capture path sees it, and the      *)
(* validation of a capture request against it.  A host is its rank in the   *)
(* sorted order of hostnames, because tasks process their hosts in that     *)
(* order.  The inventory is re-read from the file by every request and by   *)
(* every worker, so it is passed in, never cached.                          *)
(***************************************************************************)
EXTENDS Naturals, FiniteSets

CONSTANT Hosts   \* every hostname that hosts.csv may ever list

ASSUME HostsAssumption == Hosts \subseteq Nat \ {0}

Modes == {"single", "batch", "retry"}

\* An empty batch request means every configured host.
TargetHosts(mode, requested, inventory) ==
    IF mode = "batch" /\ requested = {} THEN inventory ELSE requested

\* The request is not answered with a 400: single mode names exactly one host,
\* there is a target, and every target is configured.
ValidRequest(mode, requested, inventory) ==
    LET target == TargetHosts(mode, requested, inventory) IN
    /\ mode = "single" => \E h \in Hosts : requested = {h}
    /\ target # {}
    /\ target \subseteq inventory
=============================================================================
