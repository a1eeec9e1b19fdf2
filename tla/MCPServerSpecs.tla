--------------------------- MODULE MCPServerSpecs ---------------------------
(***************************************************************************)
(* The MCPServer spec as far as its readers look at it, and those who      *)
(* decide about it before anything is built: the webhooks' defaults and    *)
(* checks (pkg/webhook/mcpserver_webhook.go), the defaults of the API type *)
(* (api/v1/mcpserver_webhook.go), and the checks of the reconciler's       *)
(* validation service (pkg/services/validation_service.go).                *)
(*                                                                         *)
(* A field that is unset is Nil where the type has a pointer (or a map     *)
(* that is tested for nil), and the zero value otherwise.  CPU is counted  *)
(* in thousandths, memory in Mi.                                           *)
(*                                                                         *)
(* The definitions called "Mutant of" are plausible mistakes; they are no  *)
(* part of the model.                                                      *)
(***************************************************************************)
EXTENDS Integers, Sequences

CONSTANTS
  Nil,           \* an unset pointer, a nil map
  Text,          \* the strings
  Selector,      \* users' selectors; a label has a key <<prefix, name>>
  Environment,   \* the maps of spec.runtime.env
  Requested,     \* the maps users write as requests or limits
  Quotas,        \* the maps users write as tenants' quotas
  Trusted,       \* the images whose name begins with a trusted registry
  Latest,        \* the images with the tag "latest"
  Oversized,     \* the names of more than 253 characters
  LongTenant,    \* the tenant IDs of more than 63 characters
  DNSLabel       \* the tenant IDs that are DNS labels of at most 63 characters

Quota == {"cpu", "memory", "storage", "pods", "services", "claims", "configMaps", "secrets"}

\* What the defaults write.
DefaultTexts == {"", "default-registry", "/mcp", "TCP", "ClusterIP", "Namespace"}

ASSUME SpecsAssumption ==
  /\ DefaultTexts \subseteq Text
  /\ {Trusted, Latest, Oversized, LongTenant, DNSLabel} \subseteq SUBSET Text
  /\ LongTenant \cap DNSLabel = {}
  /\ \A f \in Selector : \A k \in DOMAIN f : k \in Text \X Text /\ f[k] \in Text
  /\ \A f \in Environment : \A v \in DOMAIN f : v \in Text /\ f[v] \in Text
  /\ \A f \in Requested : \A r \in DOMAIN f : r \in {"cpu", "memory"} /\ f[r] \in Int
  /\ \A f \in Quotas : \A q \in DOMAIN f : q \in Quota /\ f[q] \in Int

Optional(S) == {Nil} \cup S

\* Values a quantity may have that are no number.
Empty      == -1
Unparsable == -2
Parses(q) == q >= 0

(***************************************************************************)
(* The types.                                                              *)
(***************************************************************************)
RegistryRef == [name : Text, alias : Text, serverName : Text]

\* Command and arguments are sequences of words.
RuntimeSpec ==
  [type : Text, image : Text, command : Seq(Text), args : Seq(Text),
   env : Environment, port : Int]

TransportSpec == [type : Text, path : Text]

MaxPort    == 65535
PortNumber == 0..MaxPort

\* The schema has limits for these ports, 0 is one that is left out; that of the
\* runtime has none.
PortSpec == [name : Text, port : PortNumber, targetPort : PortNumber, protocol : Text]

\* An entry of spec.env has a value or refers to one ("valueFrom").
EnvVar == [name : Text, value : Text, refers : BOOLEAN]

IstioOfGateway == [enabled : BOOLEAN, host : Text, gatewayRef : Text]

GatewaySpec ==
  [enabled : BOOLEAN, image : Text, port : PortNumber, args : Seq(Text),
   env : Seq(EnvVar), istio : Optional(IstioOfGateway)]

\* spec.istio, which only the simple builder reads.
IstioSpec ==
  [enabled : BOOLEAN, sidecarInject : Optional(BOOLEAN), gateway : Text,
   virtualService : Optional([host : Text, path : Text]),
   destinationRule : BOOLEAN]

defaultRequests == [cpu |-> 100, memory |-> 128]
defaultLimits   == [cpu |-> 500, memory |-> 512]

ResourceList == Requested \cup {defaultRequests, defaultLimits}

MetricType == {"Resource", "Pods", "Object", "External"}

\* The fields of a metric or of a volume of which one should be set.
MetricSpec == [type : Text, set : SUBSET MetricType]

VolumeSources ==
  <<"configMap", "secret", "emptyDir", "persistentVolumeClaim", "hostPath", "projected">>

Volume == [name : Text, set : SUBSET {VolumeSources[i] : i \in 1..6}]

HPASpec ==
  [enabled : BOOLEAN, minReplicas : Optional(Int), maxReplicas : Int,
   targetCPU : Optional(Int), targetMemory : Optional(Int), metrics : Seq(MetricSpec)]

VPASpec == [enabled : BOOLEAN, updateMode : Text]

AutoscalingSpec == [HPA : Optional(HPASpec), VPA : Optional(VPASpec)]

Peer == [pods : Optional(Selector), namespace : Optional(Text)]

Rule == [peers : Seq(Peer), ports : Seq(Int)]

TenantNetworkPolicy ==
  [enabled : BOOLEAN, allowedNamespaces : Seq(Text), allowedPods : Optional(Selector),
   ingressRules : Seq(Rule), egressRules : Seq(Rule)]

IsolationLevel == {"None", "Namespace", "Node", "Strict"}

TenancySpec ==
  [tenantId : Text, isolationLevel : Text,
   resourceQuotas : Optional(Quotas),
   networkPolicy : Optional(TenantNetworkPolicy)]

DeploymentStrategySpec ==
  [type : Text, maxUnavailable : Optional(Text), maxSurge : Optional(Text)]

SecurityContext == [runAsUser : Optional(Int), runAsNonRoot : Optional(BOOLEAN)]

\* MCPServerSpec.  serviceAccount, node selector, tolerations and affinity are
\* one field, "placement", as the builder copies each as it is.
MCPServerSpec ==
  [registry : Optional(RegistryRef), runtime : Optional(RuntimeSpec),
   transport : Optional(TransportSpec), ports : Seq(PortSpec),
   gateway : Optional(GatewaySpec), istio : Optional(IstioSpec),
   replicas : Optional(Int), requests : Optional(ResourceList),
   limits : Optional(ResourceList), config : BOOLEAN, env : Seq(EnvVar),
   selector : Selector, security : Optional(SecurityContext),
   serviceType : Text, placement : Text, autoscaling : Optional(AutoscalingSpec),
   secretRefs : SUBSET Text, volumes : Seq(Volume), volumeMounts : Seq(Text),
   tenancy : Optional(TenancySpec), strategy : Optional(DeploymentStrategySpec)]

\* What the API server stores for "spec: {}".
Blank ==
  [registry |-> Nil, runtime |-> Nil, transport |-> Nil, ports |-> << >>,
   gateway |-> Nil, istio |-> Nil, replicas |-> Nil, requests |-> Nil,
   limits |-> Nil, config |-> FALSE, env |-> << >>, selector |-> << >>,
   security |-> Nil, serviceType |-> "", placement |-> "", autoscaling |-> Nil,
   secretRefs |-> {}, volumes |-> << >>, volumeMounts |-> << >>,
   tenancy |-> Nil, strategy |-> Nil]

(***************************************************************************)
(* The defaults.                                                           *)
(***************************************************************************)
OrElse(value, default) == IF value = Nil THEN default ELSE value
OrText(value, default) == IF value = "" THEN default ELSE value

NoRegistry == [name |-> "", alias |-> "", serverName |-> ""]

\* MCPServer.Default of the API type, which no webhook calls.
TypeDefaulted(name, spec) ==
  LET ref == OrElse(spec.registry, NoRegistry)
  IN  [spec EXCEPT !.registry =
        [ref EXCEPT !.name = OrText(OrText(ref.name, ref.alias), "default-registry"),
                    !.serverName = OrText(ref.serverName, name)]]

DefaultPort(p) ==
  [p EXCEPT !.targetPort = IF p.targetPort = 0 THEN p.port ELSE p.targetPort,
            !.protocol = OrText(p.protocol, "TCP")]

setDefaults(name, spec) ==
  LET ref == OrElse(spec.registry, NoRegistry)
  IN  [spec EXCEPT
        !.registry = [ref EXCEPT !.name = OrText(ref.name, "default-registry"),
                                 !.serverName = OrText(ref.serverName, name)],
        !.ports = [i \in DOMAIN spec.ports |-> DefaultPort(spec.ports[i])],
        !.transport =
          IF spec.transport # Nil /\ spec.transport.type # ""
            THEN [spec.transport EXCEPT !.path = OrText(spec.transport.path, "/mcp")]
            ELSE spec.transport,
        !.replicas = OrElse(spec.replicas, 1),
        !.runtime =
          IF spec.runtime # Nil /\ spec.runtime.port = 0
            THEN [spec.runtime EXCEPT !.port = 8080] ELSE spec.runtime,
        !.serviceType = OrText(spec.serviceType, "ClusterIP"),
        !.security = OrElse(spec.security, [runAsUser |-> 1000, runAsNonRoot |-> TRUE]),
        !.requests = OrElse(spec.requests, defaultRequests),
        !.limits = OrElse(spec.limits, defaultLimits),
        !.tenancy =
          IF spec.tenancy # Nil
            THEN [spec.tenancy EXCEPT !.isolationLevel =
                    OrText(spec.tenancy.isolationLevel, "Namespace")]
            ELSE Nil]

(***************************************************************************)
(* The validating webhook.                                                 *)
(***************************************************************************)
Named(ref) == ref # Nil /\ ref.name # ""

webhookRegistryInfo(spec) ==
  Named(spec.registry) /\ {spec.registry.name, spec.registry.serverName} \cap Oversized = {}

validateImageSecurity(spec) ==
  spec.runtime # Nil /\ spec.runtime.type = "docker" =>
    IF spec.runtime.image = ""
      THEN Named(spec.registry)
      ELSE spec.runtime.image \in Trusted \ Latest

maxLimit == [cpu |-> 2000, memory |-> 4096]

\* A limit that does not parse is not compared.
validateResourceLimits(spec) ==
  spec.limits # Nil /\ \A r \in DOMAIN spec.limits : spec.limits[r] <= maxLimit[r]

validateReplicas(spec) == spec.replicas = Nil \/ spec.replicas \in 0..10

validateSecurityContext(spec) ==
  spec.security # Nil =>
    spec.security.runAsUser # 0 /\ spec.security.runAsNonRoot # FALSE

\* Mutant of validateTenantConfiguration: a missing tenant ID is let through.
NamelessTenant(spec) ==
  spec.tenancy # Nil =>
    /\ spec.tenancy.tenantId \notin LongTenant
    /\ spec.tenancy.resourceQuotas # Nil =>
         \A q \in {"pods", "services"} \cap DOMAIN spec.tenancy.resourceQuotas :
           spec.tenancy.resourceQuotas[q] > 0

validateTenantConfiguration(spec) ==
  spec.tenancy # Nil =>
    /\ spec.tenancy.tenantId # "" /\ spec.tenancy.tenantId \notin LongTenant
    /\ spec.tenancy.resourceQuotas # Nil =>
         \A q \in {"pods", "services"} \cap DOMAIN spec.tenancy.resourceQuotas :
           spec.tenancy.resourceQuotas[q] > 0

\* MCPServerValidator.validateMCPServer
Admitted(spec) ==
  /\ webhookRegistryInfo(spec)
  /\ validateImageSecurity(spec)
  /\ validateResourceLimits(spec)
  /\ validateReplicas(spec)
  /\ validateSecurityContext(spec)
  /\ validateTenantConfiguration(spec)

(***************************************************************************)
(* The validation service.                                                 *)
(***************************************************************************)
validateRegistryInfo(spec) ==
  /\ spec.registry # Nil
  /\ spec.registry.name # "" \/ spec.registry.alias # ""
  /\ {spec.registry.name, spec.registry.alias, spec.registry.serverName} \cap Oversized = {}

Stdio(spec) == spec.transport # Nil /\ spec.transport.type = "stdio"

validateRuntimeSpec(spec) ==
  /\ spec.runtime # Nil
  /\ spec.runtime.type \in {"docker", "node", "python", "binary"}
  /\ spec.runtime.type = "docker" => spec.runtime.image # ""
  /\ Stdio(spec) \/ spec.runtime.port \in PortNumber

ListOf(list) == IF list = Nil THEN << >> ELSE list

validateRequestsVsLimits(requests, limits) ==
  \A r \in DOMAIN requests \cap DOMAIN limits : requests[r] <= limits[r]

validateResourceRequirements(spec) ==
  LET limits == ListOf(spec.limits) requests == ListOf(spec.requests)
  IN  /\ \A r \in DOMAIN limits : Parses(limits[r])
      /\ \A r \in DOMAIN requests : Parses(requests[r])
      /\ validateRequestsVsLimits(requests, limits)

validateAutoscalingSpec(autoscaling) ==
  /\ autoscaling.HPA # Nil =>
       /\ autoscaling.HPA.maxReplicas >= 1
       /\ autoscaling.HPA.minReplicas # Nil =>
            autoscaling.HPA.minReplicas \in 1..autoscaling.HPA.maxReplicas
  /\ autoscaling.VPA # Nil =>
       autoscaling.VPA.updateMode \in {"Off", "Initial", "Recreate", "Auto"}

validateTenantResourceQuotas(quotas) == \A q \in DOMAIN quotas : quotas[q] > 0

validateIsolationLevel(level) == level \in IsolationLevel

validateTenancySpec(tenancy) ==
  /\ tenancy.tenantId # ""
  /\ validateIsolationLevel(tenancy.isolationLevel)
  /\ tenancy.resourceQuotas # Nil => validateTenantResourceQuotas(tenancy.resourceQuotas)

\* DefaultValidationService.ValidateMCPServer
ValidateMCPServer(spec) ==
  /\ validateRegistryInfo(spec)
  /\ validateRuntimeSpec(spec)
  /\ validateResourceRequirements(spec)
  /\ spec.replicas = Nil \/ spec.replicas >= 0
  /\ spec.autoscaling # Nil => validateAutoscalingSpec(spec.autoscaling)
  /\ spec.tenancy # Nil => validateTenancySpec(spec.tenancy)

(***************************************************************************)
(* Quotas.  "usage" is what the pods and Services with the label           *)
(* mcp.allbeone.io/tenant use already.                                     *)
(***************************************************************************)
Replicas(spec) == OrElse(spec.replicas, 1)

\* Quantity.Value rounds up, CPU to whole ones.
WholeCPU(q) == ((q + 999) \div 1000) * 1000

\* What validateCPUQuota, validateMemoryQuota, validatePodQuota and
\* validateServiceQuota add for the server itself.
Additional(spec, q) ==
  LET requests == ListOf(spec.requests)
      Amount(r) == IF r \in DOMAIN requests /\ Parses(requests[r]) THEN requests[r] ELSE 0
  IN  CASE q = "cpu"    -> WholeCPU(Amount("cpu")) * Replicas(spec)
        [] q = "memory" -> Amount("memory") * Replicas(spec)
        [] q = "pods"   -> Replicas(spec)
        [] OTHER        -> 1

Within(spec, usage) ==
  LET quotas == spec.tenancy.resourceQuotas
  IN  \A q \in {"cpu", "memory", "pods", "services"} \cap DOMAIN quotas :
        usage[q] + Additional(spec, q) <= quotas[q]

ValidateTenantResourceQuotas(spec, usage) ==
  spec.tenancy # Nil /\ spec.tenancy.resourceQuotas # Nil =>
    /\ validateTenantResourceQuotas(spec.tenancy.resourceQuotas)
    /\ Within(spec, usage)
    /\ validateIsolationLevel(spec.tenancy.isolationLevel)
    /\ spec.tenancy.tenantId \in DNSLabel
=============================================================================
