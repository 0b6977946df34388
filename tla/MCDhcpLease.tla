----------------------------- MODULE MCDhcpLease -----------------------------
(* Two steps of one cluster, and one after the host was bound to another.   *)
EXTENDS DhcpLease

CONSTANTS s1, s2, m1, m2, m3

Request(api, ingress, sends) ==
  [macs |-> [n \in Names |-> IF n = "api" THEN api ELSE ingress], sends |-> sends]

SmallAsked ==
  {[s \in Steps |-> Request(m1, m2, IF s = s1 THEN {} ELSE {"api"})],
   [s \in Steps |-> IF s = s1 THEN Request(m1, m2, {}) ELSE Request(m3, m2, {"ingress"})]}
=============================================================================
