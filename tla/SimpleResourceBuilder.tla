----------------------- MODULE SimpleResourceBuilder -----------------------
(***************************************************************************)
(* The simple resource builder                                             *)
(* (pkg/services/resource_builder_service_simple.go), which the main       *)
(* function at the root of the repository hands to the renderer in place   *)
(* of the default one.  It looks at fewer fields: one port, that of the    *)
(* runtime, and Istio from spec.istio.  What it builds is written as its   *)
(* difference from what the default builder builds where that is short.    *)
(*                                                                         *)
(* The definitions called "Mutant of" are plausible mistakes; they are no  *)
(* part of the model.                                                      *)
(***************************************************************************)
EXTENDS ResourceBuilder

\* Users' labels are not copied.
simpleLabels(server) == CommonLabels(server)

\* Mutant of simplePort: the port of the runtime is not looked at.
FixedPort(spec) == 8080

simplePort(spec) == IF spec.runtime.port > 0 THEN spec.runtime.port ELSE 8080

\* The port variable is the field itself, 0 included.
simpleEnvironmentVariables(spec) ==
  RuntimeEnv(spec.runtime) \o [i \in DOMAIN spec.env |-> Bare(spec.env[i])]
    \o Standard \o <<EnvEntry("MCP_SERVER_PORT", "number", spec.runtime.port)>>

\* No mounts and no probes.
simpleContainer(spec) ==
  [Container(spec, "mcp-server", spec.runtime.image,
     Words(spec.runtime.command), Words(spec.runtime.args),
     <<ContainerPort("mcp", simplePort(spec), "TCP")>>, simpleEnvironmentVariables(spec))
   EXCEPT !.mounts = << >>, !.probe = Nil]

LegacyIstio(spec) == spec.istio # Nil /\ spec.istio.enabled

buildPodAnnotations(spec) ==
  CASE ~LegacyIstio(spec) -> ""
    [] LegacyIstio(spec) /\ spec.istio.sidecarInject = FALSE -> "false"
    [] OTHER -> "true"

SimpleDeployment(server) ==
  LET spec == server.spec labels == simpleLabels(server)
  IN  [kind |-> "Deployment", name |-> Suffixed(server, ""), labels |-> labels,
       selector |-> buildSelector(server), podLabels |-> labels,
       replicas |-> Replicas(spec), strategy |-> buildDeploymentStrategy(spec),
       container |-> simpleContainer(spec), volumes |-> << >>,
       podSecurity |-> FALSE, placement |-> "", inject |-> buildPodAnnotations(spec)]

SimpleService(server) ==
  [BuildService(server) EXCEPT
     !.labels = simpleLabels(server),
     !.ports = <<ServicePort("mcp", simplePort(server.spec), "TCP")>>]

SimpleConfigMap(server) == [BuildConfigMap(server) EXCEPT !.labels = simpleLabels(server)]

SimpleSecret(server) == [BuildSecret(server) EXCEPT !.labels = simpleLabels(server)]

\* No custom metrics, and no default one either.
SimpleHPA(server) ==
  [BuildHPA(server) EXCEPT !.labels = simpleLabels(server),
                           !.metrics = TargetMetrics(server.spec.autoscaling.HPA)]

SimpleVPA(server) == [BuildVPA(server) EXCEPT !.labels = simpleLabels(server)]

\* Anybody may reach the port of the server's own pods.
SimpleNetworkPolicy(server) ==
  [kind |-> "NetworkPolicy", name |-> Suffixed(server, "network-policy"),
   labels |-> simpleLabels(server), pods |-> buildSelector(server), types |-> {"Ingress"},
   ingress |-> <<[peers |-> << >>, ports |-> <<simplePort(server.spec)>>]>>,
   egress |-> << >>]

SimpleVirtualService(server) ==
  LET istio == server.spec.istio
  IN  [kind |-> "VirtualService", name |-> Suffixed(server, ""),
       labels |-> simpleLabels(server), host |-> istio.virtualService.host,
       path |-> OrText(istio.virtualService.path, "/"),
       gateway |-> OrText(istio.gateway, "default"), port |-> server.spec.runtime.port]

\* Mutual TLS instead of a subset.
SimpleDestinationRule(server) ==
  [kind |-> "DestinationRule", name |-> Suffixed(server, ""),
   labels |-> simpleLabels(server), subset |-> << >>]

SimpleBuildResources(server) ==
  LET spec == server.spec
  IN  <<SimpleDeployment(server)>>
        \o Where(NeedsService(spec), SimpleService(server))
        \o <<SimpleConfigMap(server)>>
        \o Where(spec.secretRefs # {}, SimpleSecret(server))
        \o Where(HasHPA(spec), SimpleHPA(server))
        \o Where(HasVPA(spec), SimpleVPA(server))
        \o Where(Policed(spec), SimpleNetworkPolicy(server))
        \o Where(LegacyIstio(spec) /\ spec.istio.virtualService # Nil,
                 SimpleVirtualService(server))
        \o Where(LegacyIstio(spec) /\ spec.istio.destinationRule,
                 SimpleDestinationRule(server))

\* RenderResources over this builder.
SimpleResources(server) == Labelled(SimpleBuildResources(server), server)
=============================================================================
