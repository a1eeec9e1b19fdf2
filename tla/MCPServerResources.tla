------------------------- MODULE MCPServerResources -------------------------
(***************************************************************************)
(* The way of one MCPServer from what a user writes to what is rendered    *)
(* for it: the two webhooks where they are installed, the checks of the    *)
(* reconciler, and the renderer with the builder of either main function.  *)
(* A neighbour of the same namespace is rendered already.                  *)
(*                                                                         *)
(* The definitions called "Mutant of" are plausible mistakes; they are no  *)
(* part of the model.                                                      *)
(***************************************************************************)
EXTENDS SimpleResourceBuilder

CONSTANTS
  Written,     \* the servers users write
  Neighbour    \* the server that is there already

\* The objects of users.
Servers == [name : Text, labels : Selector, version : Text, spec : MCPServerSpec]

ASSUME ResourcesAssumption ==
  /\ Written \subseteq Servers /\ Neighbour \in Servers
  /\ \A s \in Written : s.name # Neighbour.name

VARIABLES
  hooks,    \* the webhooks are installed
  server,   \* the object
  stage,    \* how far it has come
  simple,   \* the builder is the simple one
  built     \* what is rendered for it

vars == <<hooks, server, stage, simple, built>>

Init ==
  /\ hooks \in BOOLEAN /\ simple \in BOOLEAN
  /\ server \in Written
  /\ stage = "written" /\ built = << >>

\* The neighbour's objects, and what its tenant uses of each quota.
Live == ToSet(RenderResources(Neighbour))

OfTenant(objects, tenant) ==
  {o \in objects : Selects(TenantIs(tenant), o.labels)}

Deployments(objects) == {o \in objects : o.kind = "Deployment"}

\* All pods run; they have the labels of their Deployment.
TenantUsage(tenant) ==
  LET pods == Deployments(OfTenant(Live, tenant))
      Sum(amount(_)) == MapThenSumSet(amount, pods)
      Request(d, r) ==
        IF r \in DOMAIN d.container.requests THEN d.container.requests[r] * d.replicas ELSE 0
  IN  [cpu |-> Sum(LAMBDA d : Request(d, "cpu")),
       memory |-> Sum(LAMBDA d : Request(d, "memory")),
       pods |-> Sum(LAMBDA d : d.replicas),
       services |->
         Cardinality({o \in OfTenant(Live, tenant) : o.kind = "Service"})]

\* MCPServerDefaulter.Handle
Mutate ==
  /\ stage = "written" /\ hooks
  /\ server' = [server EXCEPT !.spec = setDefaults(server.name, @)]
  /\ stage' = "mutated"
  /\ UNCHANGED <<hooks, simple, built>>

\* MCPServerValidator.Handle
Admit ==
  /\ stage = "mutated"
  /\ stage' = IF Admitted(server.spec) THEN "stored" ELSE "denied"
  /\ UNCHANGED <<hooks, server, simple, built>>

Store ==
  /\ stage = "written" /\ ~hooks
  /\ stage' = "stored"
  /\ UNCHANGED <<hooks, server, simple, built>>

Validate ==
  /\ stage = "stored"
  /\ stage' = IF ValidateMCPServer(server.spec) THEN "valid" ELSE "invalid"
  /\ UNCHANGED <<hooks, server, simple, built>>

\* The reconciler stops here, with an event, when the quotas do not suffice.
WithinQuotas ==
  ValidateTenantResourceQuotas(server.spec,
    TenantUsage(IF server.spec.tenancy = Nil THEN "" ELSE server.spec.tenancy.tenantId))

Refuse ==
  /\ stage = "valid" /\ ~WithinQuotas
  /\ stage' = "over"
  /\ UNCHANGED <<hooks, server, simple, built>>

\* Mutant of Render: the error of the renderer is dropped.
BlindRender ==
  /\ stage = "valid" /\ WithinQuotas
  /\ stage' = "rendered"
  /\ UNCHANGED <<hooks, server, simple, built>>

Render ==
  /\ stage = "valid" /\ WithinQuotas
  /\ built' = IF simple THEN SimpleResources(server) ELSE RenderResources(server)
  /\ stage' = "rendered"
  /\ UNCHANGED <<hooks, server, simple>>

Next == Mutate \/ Admit \/ Store \/ Validate \/ Refuse \/ Render

Spec == Init /\ [][Next]_vars

-----------------------------------------------------------------------------
\* The last four belong to MCPServerRollout.
Stages ==
  {"written", "mutated", "denied", "stored", "valid", "invalid", "over", "rendered",
   "apply", "applied", "done", "gone"}

TypeOK ==
  /\ {hooks, simple} \subseteq BOOLEAN
  /\ server.spec \in MCPServerSpec
  /\ stage \in Stages
  /\ stage \in {"rendered", "apply", "applied"} => built # << >>

Of(kind) == {o \in ToSet(built) : o.kind = kind}

\* A custom selector may name any label, and so the Service any pod of the
\* namespace.  Kubernetes refuses a Deployment whose selector does not match
\* its own pods, and that is enough: while users' labels cannot replace the
\* operator's, a Service that reaches pods of another server belongs to a
\* Deployment that is refused (BuildDeployment and BuildService share
\* buildSelector).
NoCrossTraffic ==
  \A d \in Of("Deployment"), s \in Of("Service"), other \in Deployments(Live) :
    Selects(d.selector, d.podLabels) => ~Selects(s.selector, other.podLabels)

\* A port of the Service that no port of the container answers.
Reached(port) ==
  \E d \in Of("Deployment") : \E c \in ToSet(d.container.ports) :
    c.containerPort = port.targetPort /\ c.protocol = port.protocol

\* The default builder's Service leads nowhere in three cases: a gateway
\* without a port (8080 in the Service, 8000 in the container), a gateway in
\* front of a server that is no stdio server and does not listen on its port
\* (nothing runs the gateway then), and a binary server with ports of its own
\* (its container has the runtime's port only).
LeadsNowhere ==
  LET spec == server.spec
      own  == IF spec.runtime.type = "binary"
                THEN <<ContainerPort("mcp", simplePort(spec), "TCP")>>
                ELSE collectContainerPorts(spec)
      Answers(number, protocol) ==
        \E c \in ToSet(own) : c.containerPort = number /\ c.protocol = protocol
  IN  \/ GatewayOn(spec) /\ Stdio(spec) /\ spec.gateway.port = 0
      \/ /\ GatewayOn(spec) /\ ~Stdio(spec)
         /\ ~Answers(gatewayServicePort(spec), "TCP")
      \/ /\ ~GatewayOn(spec) /\ ~Stdio(spec) /\ spec.runtime.type = "binary"
         /\ \E i \in DOMAIN spec.ports :
              ~Answers(OfSpec(spec.ports[i]).containerPort, OfSpec(spec.ports[i]).protocol)

PortsReached ==
  stage = "rendered" /\ ~simple =>
    ((\A s \in Of("Service") : \A p \in ToSet(s.ports) : Reached(p)) <=> ~LeadsNowhere)

\* The route of the VirtualService ends at a port of the Service, unless there
\* is no Service (a stdio server without a gateway gets a route all the same),
\* or the port of the gateway is left to its default and the route takes the
\* server's own port instead of the gateway's.
RouteServed ==
  LET spec == server.spec
      served == \A v \in Of("VirtualService") : \E s \in Of("Service") :
                  \E p \in ToSet(s.ports) : p.port = v.port
      lost == \/ ~NeedsService(spec)
              \/ /\ GatewayOn(spec) /\ spec.gateway.port = 0
                 /\ collectContainerPorts(spec)[1].containerPort # 8080
  IN  stage = "rendered" /\ ~simple /\ Of("VirtualService") # {} => (served <=> ~lost)

\* Traffic arrives: at the container, from the Service, and at the Service, from
\* the VirtualService, except in the cases named above.
TrafficArrives == PortsReached /\ RouteServed

\* A server that uses nothing the simple builder leaves out.
Plain(s) ==
  /\ s.spec.runtime.type # "binary" /\ s.spec.runtime.port > 0
  /\ ~GatewayOn(s.spec) /\ ~IstioOn(s.spec) /\ ~LegacyIstio(s.spec) /\ ~Stdio(s.spec)
  /\ s.spec.ports = << >> /\ s.spec.volumes = << >> /\ s.spec.volumeMounts = << >>
  /\ s.spec.placement = "" /\ s.spec.autoscaling = Nil /\ ~Policed(s.spec)
  /\ \A k \in DOMAIN s.labels : isSystemLabel(k)

\* An object without what the two builders leave to different defaults.
Reduced(o) ==
  IF o.kind = "Deployment"
    THEN [o EXCEPT !.container.probe = Nil, !.podSecurity = FALSE] ELSE o

\* Whichever main function runs, a plain server gets the same objects, but for
\* probes and the pod's security context: to move from one binary to the other
\* changes nothing its Service or its selector depends on.
BuildersAgree ==
  LET All(objects) == [i \in DOMAIN objects |-> Reduced(objects[i])]
  IN  stage = "rendered" /\ Plain(server) =>
        All(RenderResources(server)) = All(SimpleResources(server))

\* What the webhooks let pass and the reconciler then refuses, complete: the
\* webhook knows neither the runtime types nor autoscaling nor most quotas,
\* compares no request with a limit (its own default requests may exceed a
\* limit), and leaves an empty image to the registry.
Unforeseen(spec) ==
  \/ spec.runtime = Nil
  \/ spec.runtime # Nil /\
       \/ spec.runtime.type \notin {"docker", "node", "python", "binary"}
       \/ spec.runtime.type = "docker" /\ spec.runtime.image = ""
       \/ ~Stdio(spec) /\ spec.runtime.port \notin PortNumber
  \/ ~validateResourceRequirements(spec)
  \/ spec.registry.alias \in Oversized
  \/ spec.autoscaling # Nil /\ ~validateAutoscalingSpec(spec.autoscaling)
  \/ spec.tenancy # Nil /\
       \/ spec.tenancy.isolationLevel \notin IsolationLevel
       \/ /\ spec.tenancy.resourceQuotas # Nil
          /\ \E q \in DOMAIN spec.tenancy.resourceQuotas \ {"pods", "services"} :
               spec.tenancy.resourceQuotas[q] <= 0

AdmittedThenRefused ==
  hooks /\ stage \in {"valid", "invalid"} =>
    (stage = "invalid" <=> Unforeseen(server.spec))

\* README.md:59, "automatic network isolation between tenants": the policy of a
\* tenant selects the pods of the server it is rendered for.
TenantIsolated ==
  \A n \in Of("NetworkPolicy"), d \in Of("Deployment") : Selects(n.pods, d.podLabels)
=============================================================================
