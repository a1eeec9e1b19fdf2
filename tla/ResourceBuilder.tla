-------------------------- MODULE ResourceBuilder --------------------------
(***************************************************************************)
(* What the manager renders for an MCPServer: the default resource builder *)
(* (pkg/services/resource_builder_service.go) and the renderer that calls  *)
(* it (pkg/render/renderer.go).  A server is a record of its name, its     *)
(* labels, the registry version of its annotations ("" for none) and its   *)
(* spec; what is built is a record per Kubernetes object, with the fields  *)
(* the properties look at.                                                 *)
(*                                                                         *)
(* The definitions called "Mutant of" are plausible mistakes; they are no  *)
(* part of the model.                                                      *)
(***************************************************************************)
EXTENDS MCPServerSpecs, SequencesExt

\* One map over another.  (TLC's @@ is an operator the provers cannot look into.)
f ++ g == [k \in DOMAIN f \cup DOMAIN g |-> IF k \in DOMAIN f THEN f[k] ELSE g[k]]

App(n) == <<"app.kubernetes.io", n>>
MCP(n) == <<"mcp.allbeone.io", n>>

\* The name of an object of the server.
Suffixed(server, suffix) == <<server.name, suffix>>

(***************************************************************************)
(* Labels and selectors.                                                   *)
(***************************************************************************)
SystemPrefix == {"app.kubernetes.io", "mcp.allbeone.io", "kubernetes.io", "k8s.io"}

isSystemLabel(key) == key[1] \in SystemPrefix

\* What both builders select pods by.
Identity(server) ==
  [k \in {App("name"), App("instance")} |->
     IF k = App("name") THEN "mcp-server" ELSE server.name]

\* The labels both builders give to every object.
CommonLabels(server) ==
  LET spec == server.spec
      optional ==
        {k \in {MCP("server-name"), MCP("server-version"), MCP("tenant-id")} :
           \/ k = MCP("server-name") /\ spec.registry # Nil
           \/ k = MCP("server-version") /\ server.version # ""
           \/ k = MCP("tenant-id") /\ spec.tenancy # Nil /\ spec.tenancy.tenantId # ""}
      fixed == {App("name"), App("instance"), App("component"), App("part-of"),
                App("managed-by")}
  IN  [k \in fixed \cup optional |->
         CASE k = App("name")           -> "mcp-server"
           [] k = App("instance")       -> server.name
           [] k = App("component")      -> "server"
           [] k = App("part-of")        -> "mcp-operator"
           [] k = App("managed-by")     -> "mcp-operator"
           [] k = MCP("server-name")    -> OrText(spec.registry.serverName, server.name)
           [] k = MCP("server-version") -> server.version
           [] k = MCP("tenant-id")      -> spec.tenancy.tenantId]

\* Mutant of buildLabels: users' labels replace the operator's.
UnguardedLabels(server) == server.labels ++ CommonLabels(server)

buildLabels(server) ==
  CommonLabels(server)
    ++ [k \in {k \in DOMAIN server.labels : ~isSystemLabel(k)} |-> server.labels[k]]

buildSelector(server) ==
  server.spec.selector ++ Identity(server)

\* What a selector of labels does (Kubernetes).
Selects(selector, labels) ==
  \A k \in DOMAIN selector : k \in DOMAIN labels /\ labels[k] = selector[k]

(***************************************************************************)
(* Ports and containers.                                                   *)
(***************************************************************************)
GatewayOn(spec) == spec.gateway # Nil /\ spec.gateway.enabled

IstioOn(spec) == spec.gateway # Nil /\ spec.gateway.istio # Nil /\ spec.gateway.istio.enabled

ContainerPort(name, number, protocol) ==
  [name |-> name, containerPort |-> number, protocol |-> protocol]

OfSpec(p) ==
  ContainerPort(p.name, IF p.targetPort > 0 THEN p.targetPort ELSE p.port,
                IF p.protocol = "UDP" THEN "UDP" ELSE "TCP")

collectContainerPorts(spec) ==
  CASE Stdio(spec) /\ ~GatewayOn(spec) -> << >>
    [] OTHER ->
       IF spec.ports # << >> THEN [i \in DOMAIN spec.ports |-> OfSpec(spec.ports[i])]
       ELSE <<ContainerPort("mcp",
                IF spec.runtime # Nil /\ spec.runtime.port > 0 THEN spec.runtime.port
                ELSE 8080, "TCP")>>

EnvEntry(name, kind, value) == [name |-> name, value |-> <<kind, value>>]

\* Go walks a map in any order; here it is one of them.
RuntimeEnv(runtime) ==
  LET names == SetToSeq(DOMAIN runtime.env)
  IN  [i \in DOMAIN names |-> EnvEntry(names[i], "text", runtime.env[names[i]])]

\* spec.env as it is; the plain container gets names and values only.
Whole(e) == EnvEntry(e.name, IF e.refers THEN "reference" ELSE "text", e.value)
Bare(e)  == EnvEntry(e.name, "text", IF e.refers THEN "" ELSE e.value)

Standard ==
  <<EnvEntry("MCP_SERVER_NAME", "field", "metadata.name"),
    EnvEntry("MCP_SERVER_NAMESPACE", "field", "metadata.namespace")>>

buildEnvironmentVariables(spec, ports) ==
  RuntimeEnv(spec.runtime) \o [i \in DOMAIN spec.env |-> Bare(spec.env[i])]
    \o Standard
    \o <<EnvEntry("MCP_SERVER_PORT", "number",
           IF ports = << >> THEN 8080 ELSE ports[1].containerPort)>>

buildBinaryEnvironmentVariables(spec, port) ==
  RuntimeEnv(spec.runtime) \o [i \in DOMAIN spec.env |-> Whole(spec.env[i])]
    \o Standard
    \o <<EnvEntry("MCP_SERVER_PORT", "number", port),
         EnvEntry("MCP_RUNTIME_TYPE", "text", "binary")>>

\* The gateway's own variables come first.
buildGatewayEnvironmentVariables(spec, port) ==
  RuntimeEnv(spec.runtime) \o [i \in DOMAIN spec.env |-> Whole(spec.env[i])]
    \o Standard
    \o <<EnvEntry("GATEWAY_PORT", "number", port)>>

\* Quantities that do not parse are left out.
buildResourceRequirements(list) ==
  LET known == ListOf(list)
  IN  [r \in {r \in DOMAIN known : Parses(known[r])} |-> known[r]]

\* What the three containers have in common.
Container(spec, name, image, command, args, ports, env) ==
  [name |-> name, image |-> image, command |-> command, args |-> args,
   ports |-> ports, env |-> env,
   limits |-> buildResourceRequirements(spec.limits),
   requests |-> buildResourceRequirements(spec.requests),
   mounts |-> spec.volumeMounts, security |-> spec.security,
   probe |-> IF ports = << >> THEN Nil ELSE ports[1].containerPort]

\* An argument is the sequence of its words.
Words(s) == [i \in DOMAIN s |-> <<s[i]>>]

gatewayArgs(spec) ==
  [i \in DOMAIN spec.gateway.args |->
     IF spec.gateway.args[i] = "<cmd>" THEN spec.runtime.command \o spec.runtime.args
     ELSE <<spec.gateway.args[i]>>]

buildGatewayContainer(spec) ==
  LET port == IF spec.gateway.port = 0 THEN 8000 ELSE spec.gateway.port
  IN  Container(spec, "gateway", spec.gateway.image, << >>, gatewayArgs(spec),
        <<ContainerPort("gateway", port, "TCP")>>,
        buildGatewayEnvironmentVariables(spec, port))

\* Without a command the first argument is taken for it.
binaryCommand(runtime) ==
  CASE runtime.command # << >> -> runtime.command
    [] runtime.command = << >> /\ runtime.args # << >> -> <<Head(runtime.args)>>
    [] OTHER -> <<"/bin/sh", "-c", "sleep infinity">>

binaryArgs(runtime) ==
  IF runtime.command # << >> \/ runtime.args = << >> THEN runtime.args
  ELSE Tail(runtime.args)

buildBinaryContainer(spec) ==
  LET port == IF spec.runtime.port = 0 THEN 8080 ELSE spec.runtime.port
  IN  Container(spec, "mcp-binary", OrText(spec.runtime.image, "alpine:latest"),
        Words(binaryCommand(spec.runtime)), Words(binaryArgs(spec.runtime)),
        <<ContainerPort("mcp", port, "TCP")>>,
        buildBinaryEnvironmentVariables(spec, port))

buildContainer(spec) ==
  LET ports == collectContainerPorts(spec)
  IN  CASE GatewayOn(spec) /\ Stdio(spec) -> buildGatewayContainer(spec)
        [] ~(GatewayOn(spec) /\ Stdio(spec)) /\ spec.runtime.type = "binary" ->
             buildBinaryContainer(spec)
        [] OTHER ->
             Container(spec, "mcp-server", spec.runtime.image,
               Words(spec.runtime.command), Words(spec.runtime.args), ports,
               buildEnvironmentVariables(spec, ports))

\* The first source that is set counts; a projected one is not looked at.
volumeSource(volume) ==
  LET set == {i \in 1..5 : VolumeSources[i] \in volume.set}
  IN  IF set = {} THEN "" ELSE VolumeSources[Min(set)]

buildVolumes(spec) ==
  [i \in DOMAIN spec.volumes |->
     [name |-> spec.volumes[i].name, source |-> volumeSource(spec.volumes[i])]]

(***************************************************************************)
(* The objects.                                                            *)
(***************************************************************************)
buildDeploymentStrategy(spec) ==
  IF spec.strategy # Nil /\ spec.strategy.type = "Recreate"
    THEN [type |-> "Recreate", maxUnavailable |-> Nil, maxSurge |-> Nil]
    ELSE LET given(f) == spec.strategy # Nil /\ spec.strategy[f] # Nil
         IN  [type |-> "RollingUpdate",
              maxUnavailable |->
                IF given("maxUnavailable") THEN spec.strategy.maxUnavailable ELSE "0",
              maxSurge |-> IF given("maxSurge") THEN spec.strategy.maxSurge ELSE "1"]

HasHPA(spec) == spec.autoscaling # Nil /\ spec.autoscaling.HPA # Nil

HasVPA(spec) == spec.autoscaling # Nil /\ spec.autoscaling.VPA # Nil

InitialReplicas(spec) ==
  IF HasHPA(spec) /\ spec.autoscaling.HPA.enabled
    THEN OrElse(spec.autoscaling.HPA.minReplicas, 1)
    ELSE Replicas(spec)

BuildDeployment(server) ==
  LET spec == server.spec labels == buildLabels(server)
  IN  [kind |-> "Deployment", name |-> Suffixed(server, ""), labels |-> labels,
       selector |-> buildSelector(server), podLabels |-> labels,
       replicas |-> InitialReplicas(spec), strategy |-> buildDeploymentStrategy(spec),
       container |-> buildContainer(spec), volumes |-> buildVolumes(spec),
       podSecurity |-> spec.security # Nil, placement |-> spec.placement,
       inject |-> IF IstioOn(spec) THEN "true" ELSE ""]

gatewayServicePort(spec) ==
  IF spec.gateway.port = 0 THEN 8080 ELSE spec.gateway.port

ServicePort(name, port, protocol) ==
  [name |-> name, port |-> port, targetPort |-> port, protocol |-> protocol]

\* Mutant of servicePorts: the protocol is always TCP.
TCPServicePorts(spec) ==
  LET ports == collectContainerPorts(spec)
  IN  CASE GatewayOn(spec) -> <<ServicePort("gateway", gatewayServicePort(spec), "TCP")>>
        [] ~GatewayOn(spec) /\ ports = << >> -> <<ServicePort("mcp", 8080, "TCP")>>
        [] OTHER ->
             [i \in DOMAIN ports |->
                ServicePort(ports[i].name, ports[i].containerPort, "TCP")]

\* A Service publishes the port of the container, not that of spec.ports.
servicePorts(spec) ==
  LET ports == collectContainerPorts(spec)
  IN  CASE GatewayOn(spec) -> <<ServicePort("gateway", gatewayServicePort(spec), "TCP")>>
        [] ~GatewayOn(spec) /\ ports = << >> -> <<ServicePort("mcp", 8080, "TCP")>>
        [] OTHER ->
             [i \in DOMAIN ports |->
                ServicePort(ports[i].name, ports[i].containerPort, ports[i].protocol)]

BuildService(server) ==
  [kind |-> "Service", name |-> Suffixed(server, ""), labels |-> buildLabels(server),
   type |-> OrText(server.spec.serviceType, "ClusterIP"),
   selector |-> buildSelector(server), ports |-> servicePorts(server.spec)]

configKeys(spec) ==
  (IF spec.config THEN {"config.json"} ELSE {})
    \cup {spec.env[i].name : i \in DOMAIN spec.env}

BuildConfigMap(server) ==
  [kind |-> "ConfigMap", name |-> Suffixed(server, "config"),
   labels |-> buildLabels(server), keys |-> configKeys(server.spec)]

\* The values are placeholders: no referenced Secret is read.
BuildSecret(server) ==
  [kind |-> "Secret", name |-> Suffixed(server, "secret"),
   labels |-> buildLabels(server), keys |-> server.spec.secretRefs]

ResourceMetric(name, target) == [type |-> "Resource", of |-> name, target |-> target]

\* A custom metric counts when the field its type names is set.
buildCustomMetric(metrics) ==
  LET usable == SelectSeq(metrics, LAMBDA m : m.type \in MetricType \cap m.set)
  IN  [i \in DOMAIN usable |-> [type |-> usable[i].type, of |-> "custom", target |-> 0]]

\* The two utilisation targets.
TargetMetrics(hpa) ==
  (IF hpa.targetCPU = Nil THEN << >> ELSE <<ResourceMetric("cpu", hpa.targetCPU)>>)
    \o (IF hpa.targetMemory = Nil THEN << >>
        ELSE <<ResourceMetric("memory", hpa.targetMemory)>>)

buildHPAMetrics(hpa) ==
  LET metrics == TargetMetrics(hpa) \o buildCustomMetric(hpa.metrics)
  IN  IF metrics = << >> THEN <<ResourceMetric("cpu", 80)>> ELSE metrics

\* "enabled" is not looked at, neither here nor for the VPA.
BuildHPA(server) ==
  LET hpa == server.spec.autoscaling.HPA
  IN  [kind |-> "HorizontalPodAutoscaler", name |-> Suffixed(server, ""),
       labels |-> buildLabels(server), minReplicas |-> OrElse(hpa.minReplicas, 1),
       maxReplicas |-> hpa.maxReplicas, metrics |-> buildHPAMetrics(hpa)]

BuildVPA(server) ==
  [kind |-> "VerticalPodAutoscaler", name |-> Suffixed(server, ""),
   labels |-> buildLabels(server), updateMode |-> server.spec.autoscaling.VPA.updateMode]

Policed(spec) ==
  spec.tenancy # Nil /\ spec.tenancy.networkPolicy # Nil
    /\ spec.tenancy.networkPolicy.enabled

TenantIs(tenant) == [k \in {MCP("tenant")} |-> tenant]

ofTenant(spec) == TenantIs(spec.tenancy.tenantId)

Pods(selector)      == [pods |-> selector, namespace |-> Nil]
Namespace(name)     == [pods |-> Nil, namespace |-> name]
Everywhere(peer)    == [peers |-> <<peer>>, ports |-> << >>]

\* Namespaces and pods the policy names, one rule each.
allowedRules(policy) ==
  [i \in DOMAIN policy.allowedNamespaces |->
     Everywhere(Namespace(policy.allowedNamespaces[i]))]
    \o (IF policy.allowedPods = Nil THEN << >>
        ELSE <<Everywhere(Pods(policy.allowedPods))>>)

buildDefaultIngressRules(spec) ==
  <<Everywhere(Pods(ofTenant(spec)))>> \o allowedRules(spec.tenancy.networkPolicy)

buildDefaultEgressRules(spec) ==
  <<Everywhere(Pods(ofTenant(spec))),
    [peers |-> <<Namespace("kube-system")>>, ports |-> <<53, 53>>]>>
    \o allowedRules(spec.tenancy.networkPolicy)

\* Users' rules are copied, peer by peer and port by port.
BuildNetworkPolicy(server) ==
  LET spec == server.spec policy == spec.tenancy.networkPolicy
  IN  [kind |-> "NetworkPolicy", name |-> <<"mcp-tenant", spec.tenancy.tenantId>>,
       labels |-> buildLabels(server), pods |-> ofTenant(spec),
       types |-> {"Ingress", "Egress"},
       ingress |-> IF policy.ingressRules # << >> THEN policy.ingressRules
                   ELSE buildDefaultIngressRules(spec),
       egress |-> IF policy.egressRules # << >> THEN policy.egressRules
                  ELSE buildDefaultEgressRules(spec)]

HasVirtualService(spec) == IstioOn(spec) /\ spec.gateway.istio.host # ""

destinationPort(spec) ==
  LET ports == collectContainerPorts(spec)
  IN  CASE GatewayOn(spec) /\ spec.gateway.port > 0 -> spec.gateway.port
        [] ~(GatewayOn(spec) /\ spec.gateway.port > 0) /\ ports = << >> -> 8080
        [] OTHER -> ports[1].containerPort

BuildVirtualService(server) ==
  LET spec == server.spec istio == spec.gateway.istio
  IN  [kind |-> "VirtualService", name |-> Suffixed(server, ""),
       labels |-> buildLabels(server), host |-> istio.host,
       path |-> IF spec.transport # Nil THEN OrText(spec.transport.path, "/mcp") ELSE "/mcp",
       gateway |-> OrText(istio.gatewayRef, "default"), port |-> destinationPort(spec)]

BuildDestinationRule(server) ==
  [kind |-> "DestinationRule", name |-> Suffixed(server, ""),
   labels |-> buildLabels(server),
   subset |-> Identity(server)]

(***************************************************************************)
(* The renderer.                                                           *)
(***************************************************************************)
RequiredLabels(server) ==
  [k \in {MCP("name"), MCP("registry"), MCP("server")} |->
     CASE k = MCP("name")     -> server.name
       [] k = MCP("registry") -> server.spec.registry.alias
       [] k = MCP("server")   -> server.spec.registry.serverName]

\* The Deployment and its pod template share one map of labels.  The labels of
\* the two unstructured Istio objects are of a type GetLabels does not read:
\* they are replaced.
AddRequiredLabels(object, server) ==
  LET required == RequiredLabels(server)
  IN  CASE object.kind = "Deployment" ->
             [object EXCEPT !.labels = required ++ @, !.podLabels = required ++ @]
        [] object.kind \in {"VirtualService", "DestinationRule"} ->
             [object EXCEPT !.labels = required]
        [] OTHER -> [object EXCEPT !.labels = required ++ @]

NeedsService(spec) == ~Stdio(spec) \/ GatewayOn(spec)

Where(condition, object) == IF condition THEN <<object>> ELSE << >>

\* What the builder builds, in the order of the calls.
BuildResources(server) ==
  LET spec == server.spec
  IN  <<BuildDeployment(server)>>
        \o Where(NeedsService(spec), BuildService(server))
        \o <<BuildConfigMap(server)>>
        \o Where(spec.secretRefs # {}, BuildSecret(server))
        \o Where(HasHPA(spec), BuildHPA(server))
        \o Where(HasVPA(spec), BuildVPA(server))
        \o Where(Policed(spec), BuildNetworkPolicy(server))
        \o Where(HasVirtualService(spec), BuildVirtualService(server))
        \o Where(IstioOn(spec), BuildDestinationRule(server))

Labelled(objects, server) ==
  [i \in DOMAIN objects |-> AddRequiredLabels(objects[i], server)]

RenderResources(server) == Labelled(BuildResources(server), server)
=============================================================================
