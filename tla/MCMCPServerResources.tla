------------------------ MODULE MCMCPServerResources ------------------------
(***************************************************************************)
(* Instances of MCPServerResources for TLC: families of servers, each of   *)
(* which varies the fields that one group of readers looks at.             *)
(***************************************************************************)
EXTENDS MCPServerResources

MapOver(K, S) == UNION {[D -> S] : D \in SUBSET K}

Strings == STRING

Selectors == MapOver({<<"app.kubernetes.io", "instance">>, <<"", "team">>}, {"near", "a"})

Environments == {[v \in {"A"} |-> "1"]}

Lists == {<< >>, [cpu |-> 50], [cpu |-> 200], [cpu |-> 3000], [memory |-> Unparsable]}

TenantQuotas ==
  {[pods |-> 3], [cpu |-> 0], [cpu |-> 2000, memory |-> 256, services |-> 0]}

TrustedImages == {"ghcr.io/x:1", "ghcr.io/x:latest"}
LatestImages  == {"ghcr.io/x:latest", "local:latest"}
LongNames     == {"n253"}
LongTenants   == {"t63"}
DNSLabels     == {"acme", "other"}

Docker(image, port) ==
  [type |-> "docker", image |-> image, command |-> << >>, args |-> <<"serve">>,
   env |-> [v \in {"A"} |-> "1"], port |-> port]

Typed(type, port) == [Docker("", port) EXCEPT !.type = type]

Ref(name, alias, serverName) == [name |-> name, alias |-> alias, serverName |-> serverName]

Server(name, labels, spec) ==
  [name |-> name, labels |-> labels, version |-> "", spec |-> spec]

Base == [Blank EXCEPT !.registry = Ref("r", "", "s"), !.runtime = Docker("ghcr.io/x:1", 9000)]

Policy ==
  [enabled |-> TRUE, allowedNamespaces |-> <<"shared">>, allowedPods |-> Nil,
   ingressRules |-> << >>, egressRules |-> << >>]

Tenant(id, level, quotas, policy) ==
  [tenantId |-> id, isolationLevel |-> level, resourceQuotas |-> quotas,
   networkPolicy |-> policy]

Near == Server("near", << >>, [Base EXCEPT !.tenancy = Tenant("acme", "None", Nil, Policy)])

\* Ports, transports, gateways and routes.
Port(number, target, protocol) ==
  [name |-> "p", port |-> number, targetPort |-> target, protocol |-> protocol]

Gateway(enabled, port, istio) ==
  [enabled |-> enabled, image |-> "ghcr.io/g:1", port |-> port, args |-> <<"--", "<cmd>">>,
   env |-> <<[name |-> "A", value |-> "2", refers |-> TRUE]>>, istio |-> istio]

Route(on, host) == [enabled |-> on, host |-> host, gatewayRef |-> ""]

Reachable ==
  {Server("a", << >>,
     [Base EXCEPT !.runtime = rt, !.transport = tr, !.ports = ps, !.gateway = gw,
                  !.env = <<[name |-> "MCP_SERVER_PORT", value |-> "1", refers |-> FALSE]>>]) :
     rt \in {Docker("ghcr.io/x:1", 0), Docker("ghcr.io/x:1", 9000), Typed("binary", 0),
             Typed("binary", 9000)},
     tr \in {Nil, [type |-> "stdio", path |-> ""], [type |-> "http", path |-> "/x"]},
     ps \in {<< >>, <<Port(80, 0, "")>>, <<Port(80, 9000, "TCP"), Port(53, 8080, "UDP")>>},
     gw \in {Nil, Gateway(FALSE, 0, Route(TRUE, "h")), Gateway(TRUE, 0, Route(TRUE, "h")),
             Gateway(TRUE, 9000, Route(TRUE, "")), Gateway(TRUE, 7000, Route(TRUE, "h")),
             Gateway(TRUE, 8000, Nil)}}

\* Labels and selectors of users.
Selected ==
  {Server("a", labels, [Base EXCEPT !.selector = selector, !.tenancy = tenancy]) :
     labels \in Selectors, selector \in Selectors,
     tenancy \in {Nil, Tenant("acme", "None", Nil, Policy)}}

\* What the checks look at.
HPA(least, most) ==
  [enabled |-> FALSE, minReplicas |-> least, maxReplicas |-> most, targetCPU |-> Nil,
   targetMemory |-> 70, metrics |-> <<[type |-> "Pods", set |-> {"Pods"}],
                                      [type |-> "Object", set |-> {"Pods"}]>>]

Scaled(mode) == [HPA |-> Nil, VPA |-> [enabled |-> FALSE, updateMode |-> mode]]

Checked ==
  {Server("a", << >>, [Blank EXCEPT !.registry = ref, !.runtime = rt, !.limits = limits,
                                    !.requests = requests]) :
     ref \in {Nil, Ref("", "r", ""), Ref("r", "n253", ""), Ref("n253", "", "s")},
     rt \in {Nil, Docker("", 0), Docker("ghcr.io/x:1", 0), Docker("ghcr.io/x:latest", 0),
             Docker("evil/x:1", 0), Typed("stdio", 0), Typed("node", 70000)},
     limits \in {Nil, << >>, [cpu |-> 50], [cpu |-> 3000], [memory |-> Unparsable]},
     requests \in {Nil, << >>, [cpu |-> 200]}}
  \cup
  {Server("a", << >>, [Base EXCEPT !.replicas = n, !.security = sc, !.autoscaling = scaling,
                                   !.tenancy = tenancy]) :
     n \in {Nil, -1, 4, 11},
     sc \in {Nil, [runAsUser |-> 0, runAsNonRoot |-> Nil],
             [runAsUser |-> Nil, runAsNonRoot |-> FALSE]},
     scaling \in {Nil, [HPA |-> HPA(2, 1), VPA |-> Nil], [HPA |-> HPA(Nil, 3), VPA |-> Nil],
                  Scaled("Recreate"), Scaled("Recreation")},
     tenancy \in {Nil, Tenant("", "", Nil, Nil), Tenant("t63", "None", Nil, Nil),
                  Tenant("Not a label", "", [pods |-> 3], Nil),
                  Tenant("acme", "Namespace", [pods |-> 3], Policy),
                  Tenant("acme", "Bogus", [cpu |-> 0], Nil),
                  Tenant("acme", "", [cpu |-> 2000, memory |-> 256, services |-> 0], Nil)}}

Everyone == Reachable \cup Selected \cup Checked

\* Servers with what the simple builder knows and the default one does not,
\* and with volumes.
Odd ==
  {Server("a", << >>,
     [Base EXCEPT !.istio = istio, !.secretRefs = refs, !.config = TRUE,
                  !.strategy = strategy, !.volumes = volumes, !.volumeMounts = <<"v">>]) :
     istio \in {Nil, [enabled |-> TRUE, sidecarInject |-> FALSE, gateway |-> "",
                      virtualService |-> [host |-> "h", path |-> ""], destinationRule |-> TRUE]},
     refs \in {{}, {"token"}},
     strategy \in {Nil, [type |-> "Recreate", maxUnavailable |-> Nil, maxSurge |-> Nil],
                   [type |-> "", maxUnavailable |-> "25%", maxSurge |-> Nil]},
     volumes \in {<< >>, <<[name |-> "v", set |-> {"secret", "hostPath"}]>>,
                  <<[name |-> "v", set |-> {"projected"}]>>}}

All_ == Everyone \cup Odd
=============================================================================
