------------------------- MODULE MCMCPServerRollout -------------------------
(***************************************************************************)
(* An instance of MCPServerRollout for TLC: the families of servers of     *)
(* MCMCPServerResources, and two more that are followed to the end.        *)
(***************************************************************************)
EXTENDS MCPServerRollout, MCMCPServerResources

Vertical == [HPA |-> Nil, VPA |-> [enabled |-> TRUE, updateMode |-> "Auto"]]

\* A server that shares the neighbour's tenant, and one that is scaled and has
\* a gateway and a route, whose image the webhooks would refuse.
FollowedServers ==
  LET S(spec) == [name |-> "b", labels |-> << >>, version |-> "", spec |-> spec]
      Two == [Base EXCEPT !.replicas = 2]
  IN  {S([Two EXCEPT !.tenancy = Near.spec.tenancy]),
       S([Two EXCEPT !.gateway = Gateway(TRUE, 7000, Route(TRUE, "h")),
                     !.autoscaling = Vertical, !.runtime.image = "evil/x:1"])}

AllServers == All_ \cup FollowedServers

Names == {"b"}

Kinds ==
  {"Deployment", "Service", "ConfigMap", "Secret", "HorizontalPodAutoscaler",
   "VerticalPodAutoscaler", "NetworkPolicy", "VirtualService", "DestinationRule"}

\* Everything, and everything but the kinds that need CRDs.
Clusters ==
  {Kinds, Kinds \ {"VerticalPodAutoscaler", "VirtualService", "DestinationRule"}}
=============================================================================
