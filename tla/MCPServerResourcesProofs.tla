---------------------- MODULE MCPServerResourcesProofs ----------------------
(***************************************************************************)
(* What TLAPS proves of the checks and of the renderer of an MCPServer:    *)
(* what the objects of a server are called and which labels and selectors  *)
(* they have, for every server and both builders, and what the webhooks    *)
(* let pass that the reconciler refuses.  The theorems about behaviours    *)
(* are those of MCPServerRolloutProofs.                                    *)
(***************************************************************************)
EXTENDS MCPServerResources, TLAPS

-----------------------------------------------------------------------------
(***************************************************************************)
(* Maps and sequences.                                                     *)
(***************************************************************************)
\* One map over another.
LEMMA OverMaps ==
  ASSUME NEW f, NEW g
  PROVE  /\ DOMAIN (f ++ g) = DOMAIN f \cup DOMAIN g
         /\ \A k \in DOMAIN f : (f ++ g)[k] = f[k]
         /\ \A k \in DOMAIN g : k \notin DOMAIN f => (f ++ g)[k] = g[k]
BY DEF ++

\* What is appended to a sequence that is not empty, in any case or under a condition.
LEMMA Appended ==
  ASSUME NEW S, NEW a \in Seq(S), a # << >>, NEW o \in S
  PROVE  a \o <<o>> \in Seq(S) /\ a \o <<o>> # << >> /\ (a \o <<o>>)[1] = a[1]
OBVIOUS

LEMMA AppendedWhere ==
  ASSUME NEW S, NEW a \in Seq(S), a # << >>, NEW c, NEW o, c => o \in S
  PROVE  /\ a \o Where(c, o) \in Seq(S) /\ a \o Where(c, o) # << >>
         /\ (a \o Where(c, o))[1] = a[1]
<1>1. CASE c
  BY <1>1, Appended DEF Where
<1>2. CASE ~c
  <2>1. Where(c, o) = << >>
    BY <1>2 DEF Where
  <2>2. a \o << >> = a
    OBVIOUS
  <2> QED  BY <2>1, <2>2
<1> QED  BY <1>1, <1>2

-----------------------------------------------------------------------------
(***************************************************************************)
(* The objects of a server.                                                *)
(***************************************************************************)
Objects(s) ==
  {BuildDeployment(s), BuildService(s), BuildConfigMap(s), BuildSecret(s), BuildHPA(s),
   BuildVPA(s), BuildVirtualService(s), BuildDestinationRule(s)}
    \cup IF Policed(s.spec) THEN {BuildNetworkPolicy(s)} ELSE {}

SimpleObjects(s) ==
  {SimpleDeployment(s), SimpleService(s), SimpleConfigMap(s), SimpleSecret(s), SimpleHPA(s),
   SimpleVPA(s), SimpleNetworkPolicy(s), SimpleVirtualService(s),
   SimpleDestinationRule(s)}

\* Both builders build a sequence of them that begins with the Deployment.
LEMMA BuiltObjects ==
  ASSUME NEW s
  PROVE  /\ BuildResources(s) \in Seq(Objects(s)) /\ BuildResources(s) # << >>
         /\ BuildResources(s)[1] = BuildDeployment(s)
<1> DEFINE O == Objects(s)
           Good(b) == b \in Seq(O) /\ b # << >> /\ b[1] = BuildDeployment(s)
           b1 == <<BuildDeployment(s)>>
           b2 == b1 \o Where(NeedsService(s.spec), BuildService(s))
           b3 == b2 \o <<BuildConfigMap(s)>>
           b4 == b3 \o Where(s.spec.secretRefs # {}, BuildSecret(s))
           b5 == b4 \o Where(HasHPA(s.spec), BuildHPA(s))
           b6 == b5 \o Where(HasVPA(s.spec), BuildVPA(s))
           b7 == b6 \o Where(Policed(s.spec), BuildNetworkPolicy(s))
           b8 == b7 \o Where(HasVirtualService(s.spec), BuildVirtualService(s))
           b9 == b8 \o Where(IstioOn(s.spec), BuildDestinationRule(s))
<1>a. /\ BuildDeployment(s) \in O
      /\ BuildService(s) \in O
      /\ BuildConfigMap(s) \in O
      /\ BuildSecret(s) \in O
      /\ BuildHPA(s) \in O
      /\ BuildVPA(s) \in O
      /\ Policed(s.spec) => BuildNetworkPolicy(s) \in O
      /\ BuildVirtualService(s) \in O
      /\ BuildDestinationRule(s) \in O
  BY DEF Objects
<1> HIDE DEF O
<1>1. Good(b1)
  BY <1>a
<1>2. Good(b2)
  <2> HIDE DEF b1
  <2> QED  BY <1>a, <1>1, AppendedWhere DEF b2
<1>3. Good(b3)
  <2> HIDE DEF b2
  <2> QED  BY <1>a, <1>2, Appended DEF b3
<1>4. Good(b4)
  <2> HIDE DEF b3
  <2> QED  BY <1>a, <1>3, AppendedWhere DEF b4
<1>5. Good(b5)
  <2> HIDE DEF b4
  <2> QED  BY <1>a, <1>4, AppendedWhere DEF b5
<1>6. Good(b6)
  <2> HIDE DEF b5
  <2> QED  BY <1>a, <1>5, AppendedWhere DEF b6
<1>7. Good(b7)
  <2> HIDE DEF b6
  <2> QED  BY <1>a, <1>6, AppendedWhere DEF b7
<1>8. Good(b8)
  <2> HIDE DEF b7
  <2> QED  BY <1>a, <1>7, AppendedWhere DEF b8
<1>9. Good(b9)
  <2> HIDE DEF b8
  <2> QED  BY <1>a, <1>8, AppendedWhere DEF b9
<1> QED
  BY <1>9 DEF BuildResources, O

LEMMA SimpleBuiltObjects ==
  ASSUME NEW s
  PROVE  /\ SimpleBuildResources(s) \in Seq(SimpleObjects(s))
         /\ SimpleBuildResources(s) # << >>
         /\ SimpleBuildResources(s)[1] = SimpleDeployment(s)
<1> DEFINE O == SimpleObjects(s)
           Good(b) == b \in Seq(O) /\ b # << >> /\ b[1] = SimpleDeployment(s)
           b1 == <<SimpleDeployment(s)>>
           b2 == b1 \o Where(NeedsService(s.spec), SimpleService(s))
           b3 == b2 \o <<SimpleConfigMap(s)>>
           b4 == b3 \o Where(s.spec.secretRefs # {}, SimpleSecret(s))
           b5 == b4 \o Where(HasHPA(s.spec), SimpleHPA(s))
           b6 == b5 \o Where(HasVPA(s.spec), SimpleVPA(s))
           b7 == b6 \o Where(Policed(s.spec), SimpleNetworkPolicy(s))
           b8 == b7 \o Where(LegacyIstio(s.spec) /\ s.spec.istio.virtualService # Nil,
                          SimpleVirtualService(s))
           b9 == b8 \o Where(LegacyIstio(s.spec) /\ s.spec.istio.destinationRule,
                          SimpleDestinationRule(s))
<1>a. /\ SimpleDeployment(s) \in O
      /\ SimpleService(s) \in O
      /\ SimpleConfigMap(s) \in O
      /\ SimpleSecret(s) \in O
      /\ SimpleHPA(s) \in O
      /\ SimpleVPA(s) \in O
      /\ SimpleNetworkPolicy(s) \in O
      /\ SimpleVirtualService(s) \in O
      /\ SimpleDestinationRule(s) \in O
  BY DEF SimpleObjects
<1> HIDE DEF O
<1>1. Good(b1)
  BY <1>a
<1>2. Good(b2)
  <2> HIDE DEF b1
  <2> QED  BY <1>a, <1>1, AppendedWhere DEF b2
<1>3. Good(b3)
  <2> HIDE DEF b2
  <2> QED  BY <1>a, <1>2, Appended DEF b3
<1>4. Good(b4)
  <2> HIDE DEF b3
  <2> QED  BY <1>a, <1>3, AppendedWhere DEF b4
<1>5. Good(b5)
  <2> HIDE DEF b4
  <2> QED  BY <1>a, <1>4, AppendedWhere DEF b5
<1>6. Good(b6)
  <2> HIDE DEF b5
  <2> QED  BY <1>a, <1>5, AppendedWhere DEF b6
<1>7. Good(b7)
  <2> HIDE DEF b6
  <2> QED  BY <1>a, <1>6, AppendedWhere DEF b7
<1>8. Good(b8)
  <2> HIDE DEF b7
  <2> QED  BY <1>a, <1>7, AppendedWhere DEF b8
<1>9. Good(b9)
  <2> HIDE DEF b8
  <2> QED  BY <1>a, <1>8, AppendedWhere DEF b9
<1> QED
  BY <1>9 DEF SimpleBuildResources, O

\* What is rendered for a server, with the one builder or the other.
BuiltBy(s, b) == IF b THEN SimpleObjects(s) ELSE Objects(s)

Rendered(s, b) == IF b THEN SimpleResources(s) ELSE RenderResources(s)

LEMMA RenderedSequence ==
  ASSUME NEW s, NEW b
  PROVE  /\ Rendered(s, b) \in Seq({AddRequiredLabels(o, s) : o \in BuiltBy(s, b)})
         /\ Rendered(s, b) # << >>
<1>1. ASSUME NEW S, NEW q \in Seq(S), q # << >>
      PROVE  /\ Labelled(q, s) \in Seq({AddRequiredLabels(o, s) : o \in S})
             /\ Labelled(q, s) # << >>
  BY <1>1 DEF Labelled
<1>2. CASE b
  BY <1>1, <1>2, SimpleBuiltObjects DEF Rendered, BuiltBy, SimpleResources
<1>3. CASE ~b
  BY <1>1, <1>3, BuiltObjects DEF Rendered, BuiltBy, RenderResources
<1> QED  BY <1>2, <1>3

LEMMA DeploymentName ==
  ASSUME NEW s, NEW o \in {BuildDeployment(s), SimpleDeployment(s)}
  PROVE  LET r == AddRequiredLabels(o, s)
         IN  r.kind = "Deployment" /\ r.name = <<s.name, "">>
<1>1. CASE o = BuildDeployment(s)
  BY <1>1 DEF BuildDeployment, AddRequiredLabels, Suffixed
<1>2. CASE o = SimpleDeployment(s)
  BY <1>2 DEF SimpleDeployment, AddRequiredLabels, Suffixed
<1> QED  BY <1>1, <1>2

\* The first is the Deployment.
LEMMA RenderedFirst ==
  ASSUME NEW s, NEW b
  PROVE  Rendered(s, b)[1].kind = "Deployment" /\ Rendered(s, b)[1].name = <<s.name, "">>
<1>1. ASSUME NEW S, NEW q \in Seq(S), q # << >>
      PROVE  Labelled(q, s)[1] = AddRequiredLabels(q[1], s)
  BY <1>1 DEF Labelled
<1>2. CASE b
  BY <1>1, <1>2, DeploymentName, SimpleBuiltObjects DEF Rendered, SimpleResources
<1>3. CASE ~b
  BY <1>1, <1>3, DeploymentName, BuiltObjects DEF Rendered, RenderResources
<1> QED  BY <1>2, <1>3

\* The labels of the renderer leave the name and the kind of an object alone.
LEMMA NamesOfBuilt ==
  ASSUME NEW s, NEW o \in Objects(s)
  PROVE  LET r == AddRequiredLabels(o, s)
         IN  /\ r.kind = o.kind /\ r.name = o.name
             /\ \/ \E suffix : o.name = <<s.name, suffix>>
                \/ Policed(s.spec) /\ o.name = <<"mcp-tenant", s.spec.tenancy.tenantId>>
<1> USE DEF Suffixed, AddRequiredLabels
<1>1. CASE o = BuildDeployment(s)
  BY <1>1 DEF BuildDeployment
<1>2. CASE o = BuildService(s)
  BY <1>2 DEF BuildService
<1>3. CASE o = BuildConfigMap(s)
  BY <1>3 DEF BuildConfigMap
<1>4. CASE o = BuildSecret(s)
  BY <1>4 DEF BuildSecret
<1>5. CASE o = BuildHPA(s)
  BY <1>5 DEF BuildHPA
<1>6. CASE o = BuildVPA(s)
  BY <1>6 DEF BuildVPA
<1>7. CASE o = BuildVirtualService(s)
  BY <1>7 DEF BuildVirtualService
<1>8. CASE o = BuildDestinationRule(s)
  BY <1>8 DEF BuildDestinationRule
<1>9. CASE Policed(s.spec) /\ o = BuildNetworkPolicy(s)
  BY <1>9 DEF BuildNetworkPolicy
<1> QED
  BY <1>1, <1>2, <1>3, <1>4, <1>5, <1>6, <1>7, <1>8, <1>9 DEF Objects

LEMMA NamesOfSimple ==
  ASSUME NEW s, NEW o \in SimpleObjects(s)
  PROVE  LET r == AddRequiredLabels(o, s)
         IN  /\ r.kind = o.kind /\ r.name = o.name
             /\ \E suffix : o.name = <<s.name, suffix>>
<1> USE DEF Suffixed, AddRequiredLabels
<1>1. CASE o = SimpleDeployment(s)
  BY <1>1 DEF SimpleDeployment
<1>2. CASE o = SimpleService(s)
  BY <1>2 DEF SimpleService, BuildService
<1>3. CASE o = SimpleConfigMap(s)
  BY <1>3 DEF SimpleConfigMap, BuildConfigMap
<1>4. CASE o = SimpleSecret(s)
  BY <1>4 DEF SimpleSecret, BuildSecret
<1>5. CASE o = SimpleHPA(s)
  BY <1>5 DEF SimpleHPA, BuildHPA
<1>6. CASE o = SimpleVPA(s)
  BY <1>6 DEF SimpleVPA, BuildVPA
<1>7. CASE o = SimpleVirtualService(s)
  BY <1>7 DEF SimpleVirtualService
<1>8. CASE o = SimpleDestinationRule(s)
  BY <1>8 DEF SimpleDestinationRule
<1>9. CASE o = SimpleNetworkPolicy(s)
  BY <1>9 DEF SimpleNetworkPolicy
<1> QED
  BY <1>1, <1>2, <1>3, <1>4, <1>5, <1>6, <1>7, <1>8, <1>9 DEF SimpleObjects

-----------------------------------------------------------------------------
(***************************************************************************)
(* Labels and selectors.                                                   *)
(***************************************************************************)
\* What kind each builder's objects are of.
LEMMA KindsBuilt ==
  ASSUME NEW s
  PROVE  /\ BuildDeployment(s).kind = "Deployment"
         /\ BuildService(s).kind = "Service"
         /\ BuildConfigMap(s).kind = "ConfigMap"
         /\ BuildSecret(s).kind = "Secret"
         /\ BuildHPA(s).kind = "HorizontalPodAutoscaler"
         /\ BuildVPA(s).kind = "VerticalPodAutoscaler"
         /\ BuildNetworkPolicy(s).kind = "NetworkPolicy"
         /\ BuildVirtualService(s).kind = "VirtualService"
         /\ BuildDestinationRule(s).kind = "DestinationRule"
         /\ SimpleDeployment(s).kind = "Deployment"
         /\ SimpleService(s).kind = "Service"
         /\ SimpleConfigMap(s).kind = "ConfigMap"
         /\ SimpleSecret(s).kind = "Secret"
         /\ SimpleHPA(s).kind = "HorizontalPodAutoscaler"
         /\ SimpleVPA(s).kind = "VerticalPodAutoscaler"
         /\ SimpleNetworkPolicy(s).kind = "NetworkPolicy"
         /\ SimpleVirtualService(s).kind = "VirtualService"
         /\ SimpleDestinationRule(s).kind = "DestinationRule"
<1>1. BuildDeployment(s).kind = "Deployment" /\ SimpleDeployment(s).kind = "Deployment"
  BY DEF BuildDeployment, SimpleDeployment
<1>2. BuildService(s).kind = "Service" /\ SimpleService(s).kind = "Service"
  BY DEF BuildService, SimpleService
<1>3. BuildConfigMap(s).kind = "ConfigMap" /\ SimpleConfigMap(s).kind = "ConfigMap"
  BY DEF BuildConfigMap, SimpleConfigMap
<1>4. BuildSecret(s).kind = "Secret" /\ SimpleSecret(s).kind = "Secret"
  BY DEF BuildSecret, SimpleSecret
<1>5. /\ BuildHPA(s).kind = "HorizontalPodAutoscaler"
      /\ SimpleHPA(s).kind = "HorizontalPodAutoscaler"
  BY DEF BuildHPA, SimpleHPA
<1>6. /\ BuildVPA(s).kind = "VerticalPodAutoscaler"
      /\ SimpleVPA(s).kind = "VerticalPodAutoscaler"
  BY DEF BuildVPA, SimpleVPA
<1>7. BuildNetworkPolicy(s).kind = "NetworkPolicy"
  BY DEF BuildNetworkPolicy
<1>8. SimpleNetworkPolicy(s).kind = "NetworkPolicy"
  BY DEF SimpleNetworkPolicy
<1>9. BuildVirtualService(s).kind = "VirtualService"
  BY DEF BuildVirtualService
<1>10. SimpleVirtualService(s).kind = "VirtualService"
  BY DEF SimpleVirtualService
<1>11. BuildDestinationRule(s).kind = "DestinationRule"
  BY DEF BuildDestinationRule
<1>12. SimpleDestinationRule(s).kind = "DestinationRule"
  BY DEF SimpleDestinationRule
<1> QED
  BY <1>1, <1>2, <1>3, <1>4, <1>5, <1>6, <1>7, <1>8, <1>9, <1>10, <1>11, <1>12

\* The Deployments and the Services among them.
LEMMA OfKind ==
  ASSUME NEW s, NEW b, NEW o \in BuiltBy(s, b)
  PROVE  /\ o.kind = "Deployment" => o \in {BuildDeployment(s), SimpleDeployment(s)}
         /\ o.kind = "Service" => o \in {BuildService(s), SimpleService(s)}
<1>1. CASE b
  <2>1. o \in SimpleObjects(s)
    BY <1>1 DEF BuiltBy
  <2> QED  BY <2>1, KindsBuilt DEF SimpleObjects
<1>2. CASE ~b
  <2>1. o \in Objects(s)
    BY <1>2 DEF BuiltBy
  <2> QED  BY <2>1, KindsBuilt DEF Objects
<1> QED  BY <1>1, <1>2

\* The operator's labels win over users' in both builders, and the renderer
\* adds none that replaces them: every Deployment's pods carry the server's name.
LEMMA PodsOfDeployment ==
  ASSUME NEW s, NEW b, NEW o \in BuiltBy(s, b), o.kind = "Deployment"
  PROVE  LET r == AddRequiredLabels(o, s)
         IN  /\ r.selector = buildSelector(s)
             /\ App("instance") \in DOMAIN r.podLabels
             /\ r.podLabels[App("instance")] = s.name
<1> DEFINE required == RequiredLabels(s)
           Right(l) == App("instance") \in DOMAIN l /\ l[App("instance")] = s.name
<1>1. Right(CommonLabels(s))
  BY DEF CommonLabels, App, MCP
<1>2. App("instance") \notin DOMAIN required
  BY DEF RequiredLabels, App, MCP
<1>3. Right(buildLabels(s))
  BY <1>1, OverMaps DEF buildLabels
<1> HIDE DEF required
<1>4. ASSUME NEW l, Right(l)
      PROVE  Right(required ++ l)
  <2>1. DOMAIN (required ++ l) = DOMAIN required \cup DOMAIN l
    BY DEF ++
  <2>2. App("instance") \in DOMAIN l
    BY <1>4
  <2>3. (required ++ l)[App("instance")] = l[App("instance")]
    BY <1>2, <2>2 DEF ++
  <2> QED  BY <2>1, <2>2, <2>3, <1>4
<1> HIDE DEF Right
<1>5. CASE o = BuildDeployment(s)
  <2>1. AddRequiredLabels(o, s).podLabels = required ++ buildLabels(s)
    BY <1>5 DEF BuildDeployment, AddRequiredLabels, required
  <2>2. AddRequiredLabels(o, s).selector = buildSelector(s)
    BY <1>5 DEF BuildDeployment, AddRequiredLabels
  <2>3. Right(AddRequiredLabels(o, s).podLabels)
    BY <2>1, <1>3, <1>4
  <2> QED  BY <2>2, <2>3 DEF Right
<1>6. CASE o = SimpleDeployment(s)
  <2>1. AddRequiredLabels(o, s).podLabels = required ++ CommonLabels(s)
    BY <1>6 DEF SimpleDeployment, AddRequiredLabels, simpleLabels, required
  <2>2. AddRequiredLabels(o, s).selector = buildSelector(s)
    BY <1>6 DEF SimpleDeployment, AddRequiredLabels
  <2>3. Right(AddRequiredLabels(o, s).podLabels)
    BY <2>1, <1>1, <1>4
  <2> QED  BY <2>2, <2>3 DEF Right
<1> QED  BY <1>5, <1>6, OfKind

LEMMA SelectorOfService ==
  ASSUME NEW s, NEW b, NEW o \in BuiltBy(s, b), o.kind = "Service"
  PROVE  AddRequiredLabels(o, s).selector = buildSelector(s)
<1>1. AddRequiredLabels(BuildService(s), s).selector = buildSelector(s)
  BY DEF BuildService, AddRequiredLabels
<1>2. AddRequiredLabels(SimpleService(s), s).selector = buildSelector(s)
  BY DEF BuildService, SimpleService, AddRequiredLabels
<1> QED  BY <1>1, <1>2, OfKind

\* A Deployment whose own pods its selector selects, and the Service that
\* shares it, select no pod of a server of another name.
LEMMA SelectorsPartPods ==
  ASSUME NEW s, NEW own, NEW others,
         App("instance") \in DOMAIN own, own[App("instance")] = s.name,
         App("instance") \in DOMAIN others, others[App("instance")] # s.name,
         Selects(buildSelector(s), own)
  PROVE  ~Selects(buildSelector(s), others)
<1>1. App("instance") \in DOMAIN Identity(s)
  BY DEF Identity
<1>2. DOMAIN buildSelector(s) = DOMAIN s.spec.selector \cup DOMAIN Identity(s)
  BY DEF buildSelector, ++
<1> QED  BY <1>1, <1>2 DEF Selects

\* Each rendered object is a built one with the labels of the renderer.
LEMMA RenderedFromBuilt ==
  ASSUME NEW s, NEW b, NEW r \in ToSet(Rendered(s, b))
  PROVE  \E o \in BuiltBy(s, b) : r = AddRequiredLabels(o, s) /\ r.kind = o.kind
<1>1. PICK o \in BuiltBy(s, b) : r = AddRequiredLabels(o, s)
  <2> DEFINE q == Rendered(s, b)
             S == {AddRequiredLabels(o, s) : o \in BuiltBy(s, b)}
  <2>1. PICK i \in DOMAIN q : r = q[i]
    BY DEF ToSet
  <2>2. q \in Seq(S)
    BY RenderedSequence
  <2> HIDE DEF q, S
  <2>3. r \in S
    BY <2>1, <2>2
  <2> QED  BY <2>3 DEF S
<1>2. CASE b
  BY <1>1, <1>2, NamesOfSimple DEF BuiltBy
<1>3. CASE ~b
  BY <1>1, <1>3, NamesOfBuilt DEF BuiltBy
<1> QED  BY <1>1, <1>2, <1>3

\* What is rendered is named after the server, or it is the policy of its tenant.
LEMMA RenderedNames ==
  ASSUME NEW s, NEW b, NEW r \in ToSet(Rendered(s, b))
  PROVE  \/ \E suffix : r.name = <<s.name, suffix>>
         \/ Policed(s.spec) /\ r.name = <<"mcp-tenant", s.spec.tenancy.tenantId>>
<1>1. PICK o \in BuiltBy(s, b) : r = AddRequiredLabels(o, s)
  <2> DEFINE q == Rendered(s, b)
             S == {AddRequiredLabels(o, s) : o \in BuiltBy(s, b)}
  <2>1. PICK i \in DOMAIN q : r = q[i]
    BY DEF ToSet
  <2>2. q \in Seq(S)
    BY RenderedSequence
  <2> HIDE DEF q, S
  <2>3. r \in S
    BY <2>1, <2>2
  <2> QED  BY <2>3 DEF S
<1>2. CASE b
  BY <1>1, <1>2, NamesOfSimple DEF BuiltBy
<1>3. CASE ~b
  BY <1>1, <1>3, NamesOfBuilt DEF BuiltBy
<1> QED  BY <1>2, <1>3

\* No traffic of a server that Kubernetes takes reaches another server's pods.
LEMMA TrafficParted ==
  ASSUME NEW s, NEW b, NEW n, s.name # n.name,
         NEW d \in ToSet(Rendered(s, b)), d.kind = "Deployment",
         NEW v \in ToSet(Rendered(s, b)), v.kind = "Service",
         NEW other \in ToSet(RenderResources(n)), other.kind = "Deployment",
         Selects(d.selector, d.podLabels)
  PROVE  ~Selects(v.selector, other.podLabels)
<1>1. /\ d.selector = buildSelector(s)
      /\ App("instance") \in DOMAIN d.podLabels
      /\ d.podLabels[App("instance")] = s.name
  BY RenderedFromBuilt, PodsOfDeployment
<1>2. v.selector = buildSelector(s)
  BY RenderedFromBuilt, SelectorOfService
<1> PICK default : default = FALSE
  OBVIOUS
<1>3. other \in ToSet(Rendered(n, default))
  BY DEF Rendered
<1>4. /\ App("instance") \in DOMAIN other.podLabels
      /\ other.podLabels[App("instance")] = n.name
  BY <1>3, RenderedFromBuilt, PodsOfDeployment
<1> QED  BY <1>1, <1>2, <1>4, SelectorsPartPods

-----------------------------------------------------------------------------
(***************************************************************************)
(* The two builders and a plain server.                                    *)
(***************************************************************************)
LEMMA PlainLabels ==
  ASSUME NEW s, Plain(s)
  PROVE  buildLabels(s) = simpleLabels(s)
<1> DEFINE own == [k \in {k \in DOMAIN s.labels : ~isSystemLabel(k)} |-> s.labels[k]]
<1>1. DOMAIN own = {}
  BY DEF Plain
<1>2. ASSUME NEW f, f = [k \in DOMAIN f |-> f[k]], NEW g, DOMAIN g = {}
      PROVE  f ++ g = f
  <2>1. f ++ g = [k \in DOMAIN f |-> f[k]]
    BY <1>2 DEF ++
  <2> QED  BY <2>1, <1>2
<1>3. CommonLabels(s) = [k \in DOMAIN CommonLabels(s) |-> CommonLabels(s)[k]]
  <2> DEFINE optional ==
               {k \in {MCP("server-name"), MCP("server-version"), MCP("tenant-id")} :
                  \/ k = MCP("server-name") /\ s.spec.registry # Nil
                  \/ k = MCP("server-version") /\ s.version # ""
                  \/ /\ k = MCP("tenant-id") /\ s.spec.tenancy # Nil
                     /\ s.spec.tenancy.tenantId # ""}
             fixed == {App("name"), App("instance"), App("component"), App("part-of"),
                       App("managed-by")}
             label(k) ==
               CASE k = App("name")           -> "mcp-server"
                 [] k = App("instance")       -> s.name
                 [] k = App("component")      -> "server"
                 [] k = App("part-of")        -> "mcp-operator"
                 [] k = App("managed-by")     -> "mcp-operator"
                 [] k = MCP("server-name")    -> OrText(s.spec.registry.serverName, s.name)
                 [] k = MCP("server-version") -> s.version
                 [] k = MCP("tenant-id")      -> s.spec.tenancy.tenantId
             keys == fixed \cup optional
  <2>1. CommonLabels(s) = [k \in keys |-> label(k)]
    BY DEF CommonLabels
  <2> HIDE DEF keys, label
  <2> QED  BY <2>1
<1> HIDE DEF own
<1>4. CommonLabels(s) ++ own = CommonLabels(s)
  BY <1>1, <1>2, <1>3
<1> QED  BY <1>4 DEF buildLabels, simpleLabels, own

LEMMA PlainPorts ==
  ASSUME NEW s, Plain(s), s.spec.runtime # Nil
  PROVE  /\ collectContainerPorts(s.spec) =
              <<ContainerPort("mcp", s.spec.runtime.port, "TCP")>>
         /\ simplePort(s.spec) = s.spec.runtime.port
         /\ servicePorts(s.spec) = <<ServicePort("mcp", s.spec.runtime.port, "TCP")>>
<1>1. /\ ~Stdio(s.spec) /\ ~GatewayOn(s.spec) /\ s.spec.ports = << >>
      /\ s.spec.runtime.port > 0
  BY DEF Plain
<1>2. collectContainerPorts(s.spec) = <<ContainerPort("mcp", s.spec.runtime.port, "TCP")>>
  BY <1>1 DEF collectContainerPorts
<1>3. simplePort(s.spec) = s.spec.runtime.port
  BY <1>1 DEF simplePort
<1>4. servicePorts(s.spec) = <<ServicePort("mcp", s.spec.runtime.port, "TCP")>>
  <2> DEFINE ports == collectContainerPorts(s.spec)
  <2>1. servicePorts(s.spec) =
          [i \in DOMAIN ports |->
             ServicePort(ports[i].name, ports[i].containerPort, ports[i].protocol)]
    BY <1>1, <1>2 DEF servicePorts
  <2>2. ports = <<ContainerPort("mcp", s.spec.runtime.port, "TCP")>>
    BY <1>2
  <2> HIDE DEF ports
  <2>3. DOMAIN ports = {1} /\ ports[1] = ContainerPort("mcp", s.spec.runtime.port, "TCP")
    BY <2>2
  <2>4. servicePorts(s.spec) =
          [i \in {1} |-> ServicePort("mcp", s.spec.runtime.port, "TCP")]
    BY <2>1, <2>3 DEF ContainerPort
  <2> QED  BY <2>4
<1> QED  BY <1>2, <1>3, <1>4

Unprobed(c) == [c EXCEPT !.probe = Nil]

LEMMA PlainContainer ==
  ASSUME NEW s, Plain(s), s.spec.runtime # Nil
  PROVE  Unprobed(buildContainer(s.spec)) = Unprobed(simpleContainer(s.spec))
<1> DEFINE spec == s.spec
           ports == <<ContainerPort("mcp", spec.runtime.port, "TCP")>>
           made(env) ==
             Container(spec, "mcp-server", spec.runtime.image,
               Words(spec.runtime.command), Words(spec.runtime.args), ports, env)
           env == buildEnvironmentVariables(spec, ports)
<1>1. buildContainer(spec) = made(env)
  BY PlainPorts DEF Plain, buildContainer
<1>2. simpleEnvironmentVariables(spec) = env
  BY DEF buildEnvironmentVariables, simpleEnvironmentVariables, ContainerPort
<1>3. simpleContainer(spec) = [made(env) EXCEPT !.mounts = << >>, !.probe = Nil]
  BY <1>2, PlainPorts DEF simpleContainer
<1>4. made(env).mounts = << >>
  BY DEF Container, Plain
<1> HIDE DEF env, ports
<1>5. Unprobed(made(env)) = Unprobed([made(env) EXCEPT !.mounts = << >>, !.probe = Nil])
  <2> DEFINE c == made(env)
  <2>1. c = [name |-> c.name, image |-> c.image, command |-> c.command, args |-> c.args,
             ports |-> c.ports, env |-> c.env, limits |-> c.limits,
             requests |-> c.requests, mounts |-> c.mounts, security |-> c.security,
             probe |-> c.probe]
    BY DEF Container
  <2>2. c.mounts = << >>
    BY <1>4
  <2> HIDE DEF c
  <2>3. [c EXCEPT !.mounts = << >>] = c
    BY <2>1, <2>2
  <2>4. [c EXCEPT !.mounts = << >>, !.probe = Nil] = [c EXCEPT !.probe = Nil]
    BY <2>3
  <2>5. [[c EXCEPT !.probe = Nil] EXCEPT !.probe = Nil] = [c EXCEPT !.probe = Nil]
    BY <2>1
  <2> QED  BY <2>4, <2>5 DEF Unprobed, c
<1> QED  BY <1>1, <1>3, <1>5

\* What BuildersAgree sees of an object.
Reads(o, s) == Reduced(AddRequiredLabels(o, s))

LEMMA PlainDeployment ==
  ASSUME NEW s, Plain(s), s.spec.runtime # Nil
  PROVE  Reads(BuildDeployment(s), s) = Reads(SimpleDeployment(s), s)
<1> DEFINE Made(labels, container, security) ==
             [kind |-> "Deployment", name |-> Suffixed(s, ""), labels |-> labels,
              selector |-> buildSelector(s), podLabels |-> labels,
              replicas |-> Replicas(s.spec), strategy |-> buildDeploymentStrategy(s.spec),
              container |-> container, volumes |-> << >>,
              podSecurity |-> security, placement |-> "", inject |-> ""]
<1>1. InitialReplicas(s.spec) = Replicas(s.spec)
  BY DEF Plain, InitialReplicas, HasHPA
<1>2. buildVolumes(s.spec) = << >>
  <2> DEFINE volume(i) == [name |-> s.spec.volumes[i].name,
                           source |-> volumeSource(s.spec.volumes[i])]
  <2>1. buildVolumes(s.spec) = [i \in DOMAIN s.spec.volumes |-> volume(i)]
    BY DEF buildVolumes
  <2>2. s.spec.volumes = << >>
    BY DEF Plain
  <2> HIDE DEF volume
  <2>3. [i \in {} |-> volume(i)] \in Seq({})
    OBVIOUS
  <2> QED  BY <2>1, <2>2, <2>3
<1>3. BuildDeployment(s) =
        Made(simpleLabels(s), buildContainer(s.spec), s.spec.security # Nil)
  BY <1>1, <1>2, PlainLabels DEF Plain, BuildDeployment
<1> PICK no : no = FALSE
  OBVIOUS
<1>4. SimpleDeployment(s) = Made(simpleLabels(s), simpleContainer(s.spec), no)
  BY DEF Plain, SimpleDeployment, buildPodAnnotations
<1>5. ASSUME NEW labels, NEW container, NEW security
      PROVE  Reads(Made(labels, container, security), s) =
               Made(RequiredLabels(s) ++ labels, Unprobed(container), no)
  BY DEF Reads, Reduced, AddRequiredLabels, Unprobed
<1> HIDE DEF Made
<1> PICK security : security = (s.spec.security # Nil)
  OBVIOUS
<1>6. BuildDeployment(s) = Made(simpleLabels(s), buildContainer(s.spec), security)
  BY <1>3
<1>7. Reads(BuildDeployment(s), s) =
        Made(RequiredLabels(s) ++ simpleLabels(s), Unprobed(buildContainer(s.spec)), no)
  BY <1>5, <1>6
<1>8. Reads(SimpleDeployment(s), s) =
        Made(RequiredLabels(s) ++ simpleLabels(s), Unprobed(simpleContainer(s.spec)), no)
  BY <1>5, <1>4
<1> QED  BY <1>7, <1>8, PlainContainer

LEMMA PlainOthers ==
  ASSUME NEW s, Plain(s), s.spec.runtime # Nil
  PROVE  /\ BuildService(s) = SimpleService(s)
         /\ BuildConfigMap(s) = SimpleConfigMap(s)
         /\ BuildSecret(s) = SimpleSecret(s)
<1>1. buildLabels(s) = simpleLabels(s)
  BY PlainLabels
<1>2. /\ servicePorts(s.spec) = <<ServicePort("mcp", s.spec.runtime.port, "TCP")>>
      /\ simplePort(s.spec) = s.spec.runtime.port
  BY PlainPorts
<1>3. BuildService(s) = SimpleService(s)
  <2> DEFINE v == BuildService(s)
  <2>1. ASSUME NEW labels, labels = v.labels, NEW ports, ports = v.ports
        PROVE  [v EXCEPT !.labels = labels, !.ports = ports] = v
    BY <2>1 DEF BuildService
  <2>2. v.labels = simpleLabels(s)
    BY <1>1 DEF BuildService
  <2>3. v.ports = <<ServicePort("mcp", simplePort(s.spec), "TCP")>>
    BY <1>2 DEF BuildService
  <2> HIDE DEF v
  <2>4. [v EXCEPT !.labels = simpleLabels(s),
                  !.ports = <<ServicePort("mcp", simplePort(s.spec), "TCP")>>] = v
    BY <2>1, <2>2, <2>3
  <2> QED  BY <2>4 DEF SimpleService, v
<1>4. BuildConfigMap(s) = SimpleConfigMap(s)
  BY <1>1 DEF BuildConfigMap, SimpleConfigMap
<1>5. BuildSecret(s) = SimpleSecret(s)
  BY <1>1 DEF BuildSecret, SimpleSecret
<1> QED  BY <1>3, <1>4, <1>5

\* Two sequences of the same length whose objects read alike.
Alike(a, b, s) ==
  /\ Len(b) = Len(a) /\ \A i \in 1..Len(a) : Reads(a[i], s) = Reads(b[i], s)

LEMMA AlikeAppended ==
  ASSUME NEW s, NEW S, NEW T, NEW a \in Seq(S), NEW b \in Seq(T), Alike(a, b, s),
         NEW o \in S, NEW p \in T, Reads(o, s) = Reads(p, s)
  PROVE  Alike(a \o <<o>>, b \o <<p>>, s)
<1> DEFINE c == a \o <<o>>
           d == b \o <<p>>
<1>1. /\ Len(c) = Len(a) + 1 /\ c[Len(a) + 1] = o /\ \A i \in 1..Len(a) : c[i] = a[i]
      /\ Len(d) = Len(b) + 1 /\ d[Len(b) + 1] = p /\ \A i \in 1..Len(b) : d[i] = b[i]
  OBVIOUS
<1>2. Len(a) \in Nat /\ Len(b) = Len(a)
  BY DEF Alike
<1> HIDE DEF c, d
<1>3. ASSUME NEW i \in 1..Len(c)
      PROVE  Reads(c[i], s) = Reads(d[i], s)
  <2>1. CASE i = Len(a) + 1
    BY <1>1, <1>2, <2>1
  <2>2. CASE i \in 1..Len(a)
    BY <1>1, <1>2, <2>2 DEF Alike
  <2> QED  BY <1>1, <1>2, <2>1, <2>2
<1>4. Alike(c, d, s)
  BY <1>1, <1>2, <1>3 DEF Alike
<1> QED  BY <1>4 DEF c, d

LEMMA AlikeWhere ==
  ASSUME NEW s, NEW S, NEW T, NEW a \in Seq(S), NEW b \in Seq(T), Alike(a, b, s),
         NEW c, NEW o, c => o \in S, NEW p, c => p \in T /\ Reads(o, s) = Reads(p, s)
  PROVE  Alike(a \o Where(c, o), b \o Where(c, p), s)
<1>1. CASE c
  BY <1>1, AlikeAppended DEF Where
<1>2. CASE ~c
  <2>1. Where(c, o) = << >> /\ Where(c, p) = << >>
    BY <1>2 DEF Where
  <2>2. a \o << >> = a /\ b \o << >> = b
    OBVIOUS
  <2> QED  BY <2>1, <2>2
<1> QED  BY <1>1, <1>2

LEMMA NothingAppended ==
  ASSUME NEW S, NEW a \in Seq(S), NEW c, ~c, NEW o
  PROVE  a \o Where(c, o) = a
<1>1. Where(c, o) = << >>
  BY DEF Where
<1>2. a \o << >> = a
  OBVIOUS
<1> QED  BY <1>1, <1>2

\* A plain server has the same three or four objects of either builder.
LEMMA PlainBuilt ==
  ASSUME NEW s, Plain(s), s.spec.runtime # Nil
  PROVE  Alike(BuildResources(s), SimpleBuildResources(s), s)
<1> PICK needed : needed = (s.spec.secretRefs # {})
  OBVIOUS
<1> DEFINE O == Objects(s)
           P == SimpleObjects(s)
           a1 == <<BuildDeployment(s)>>
           a2 == a1 \o <<BuildService(s)>>
           a3 == a2 \o <<BuildConfigMap(s)>>
           a4 == a3 \o Where(needed, BuildSecret(s))
           b1 == <<SimpleDeployment(s)>>
           b2 == b1 \o <<SimpleService(s)>>
           b3 == b2 \o <<SimpleConfigMap(s)>>
           b4 == b3 \o Where(needed, SimpleSecret(s))
<1>1. /\ {BuildDeployment(s), BuildService(s), BuildConfigMap(s), BuildSecret(s)} \subseteq O
      /\ {SimpleDeployment(s), SimpleService(s), SimpleConfigMap(s), SimpleSecret(s)}
           \subseteq P
  BY DEF Objects, SimpleObjects
<1>2. /\ NeedsService(s.spec) /\ ~HasHPA(s.spec) /\ ~HasVPA(s.spec) /\ ~Policed(s.spec)
      /\ ~HasVirtualService(s.spec) /\ ~IstioOn(s.spec)
      /\ ~(LegacyIstio(s.spec) /\ s.spec.istio.virtualService # Nil)
      /\ ~(LegacyIstio(s.spec) /\ s.spec.istio.destinationRule)
  BY DEF Plain, NeedsService, HasHPA, HasVPA, HasVirtualService
<1>3. /\ Reads(BuildDeployment(s), s) = Reads(SimpleDeployment(s), s)
      /\ BuildService(s) = SimpleService(s)
      /\ BuildConfigMap(s) = SimpleConfigMap(s)
      /\ BuildSecret(s) = SimpleSecret(s)
  BY PlainDeployment, PlainOthers
<1> HIDE DEF O, P
<1>4. a1 \in Seq(O) /\ b1 \in Seq(P) /\ Alike(a1, b1, s)
  BY <1>1, <1>3 DEF Alike
<1>5. a2 \in Seq(O) /\ b2 \in Seq(P) /\ Alike(a2, b2, s)
  <2> HIDE DEF a1, b1
  <2> QED  BY <1>1, <1>3, <1>4, AlikeAppended
<1>6. a3 \in Seq(O) /\ b3 \in Seq(P) /\ Alike(a3, b3, s)
  <2> HIDE DEF a2, b2
  <2> QED  BY <1>1, <1>3, <1>5, AlikeAppended
<1>7. a4 \in Seq(O) /\ b4 \in Seq(P) /\ Alike(a4, b4, s)
  <2> HIDE DEF a3, b3
  <2>1. Alike(a4, b4, s)
    BY <1>1, <1>3, <1>6, AlikeWhere
  <2>2. a3 # << >> /\ b3 # << >>
    BY <1>4, <1>5, <1>1 DEF a3, b3
  <2>3. a4 \in Seq(O) /\ b4 \in Seq(P)
    BY <1>1, <1>6, <2>2, AppendedWhere
  <2> QED  BY <2>1, <2>3
<1>8. BuildResources(s) = a4
  <2> HIDE DEF a4
  <2> QED  BY <1>2, <1>7, NothingAppended DEF BuildResources, a4, Where
<1>9. SimpleBuildResources(s) = b4
  <2> HIDE DEF b4
  <2> QED  BY <1>2, <1>7, NothingAppended DEF SimpleBuildResources, b4, Where
<1> QED  BY <1>7, <1>8, <1>9

\* The second builder may take over from the first.
LEMMA PlainRendered ==
  ASSUME NEW s, Plain(s), s.spec.runtime # Nil
  PROVE  [i \in DOMAIN RenderResources(s) |-> Reduced(RenderResources(s)[i])] =
           [i \in DOMAIN SimpleResources(s) |-> Reduced(SimpleResources(s)[i])]
<1>1. ASSUME NEW S, NEW q \in Seq(S)
      PROVE  [i \in DOMAIN Labelled(q, s) |-> Reduced(Labelled(q, s)[i])] =
               [i \in 1..Len(q) |-> Reads(q[i], s)]
  <2>1. /\ DOMAIN Labelled(q, s) = 1..Len(q)
        /\ \A i \in 1..Len(q) : Labelled(q, s)[i] = AddRequiredLabels(q[i], s)
    BY <1>1 DEF Labelled
  <2> QED  BY <2>1 DEF Reads
<1>2. Alike(BuildResources(s), SimpleBuildResources(s), s)
  BY PlainBuilt
<1>3. [i \in DOMAIN RenderResources(s) |-> Reduced(RenderResources(s)[i])] =
        [i \in 1..Len(BuildResources(s)) |-> Reads(BuildResources(s)[i], s)]
  BY <1>1, BuiltObjects DEF RenderResources
<1>4. [i \in DOMAIN SimpleResources(s) |-> Reduced(SimpleResources(s)[i])] =
        [i \in 1..Len(SimpleBuildResources(s)) |-> Reads(SimpleBuildResources(s)[i], s)]
  BY <1>1, SimpleBuiltObjects DEF SimpleResources
<1> QED  BY <1>2, <1>3, <1>4 DEF Alike

-----------------------------------------------------------------------------
(***************************************************************************)
(* The ports of the default builder's container, Service and route.        *)
(***************************************************************************)
LEMMA OneMember ==
  ASSUME NEW x
  PROVE  ToSet(<<x>>) = {x} /\ DOMAIN <<x>> = {1} /\ <<x>>[1] = x
BY DEF ToSet

LEMMA PortNumbers ==
  ASSUME NEW n \in PortNumber
  PROVE  n \in Int /\ (n > 0 <=> n # 0)
BY DEF PortNumber, MaxPort

\* What is in a sequence that something is appended to.
Only(c, o) == IF c THEN {o} ELSE {}

LEMMA AppendedSet ==
  ASSUME NEW S, NEW a \in Seq(S), NEW o
  PROVE  ToSet(a \o <<o>>) = ToSet(a) \cup {o}
<1> DEFINE b == a \o <<o>>
<1>1. /\ DOMAIN a = 1..Len(a) /\ DOMAIN b = 1..(Len(a) + 1) /\ Len(a) \in Nat
      /\ b[Len(a) + 1] = o /\ \A i \in 1..Len(a) : b[i] = a[i]
  OBVIOUS
<1> HIDE DEF b
<1>2. ToSet(b) \subseteq ToSet(a) \cup {o}
  <2> SUFFICES ASSUME NEW i \in DOMAIN b
               PROVE  b[i] \in ToSet(a) \cup {o}
    BY DEF ToSet
  <2> QED  BY <1>1 DEF ToSet
<1>3. ToSet(a) \cup {o} \subseteq ToSet(b)
  <2>1. o \in ToSet(b)
    BY <1>1 DEF ToSet
  <2>2. ASSUME NEW i \in DOMAIN a
        PROVE  a[i] \in ToSet(b)
    BY <1>1 DEF ToSet
  <2> QED  BY <2>1, <2>2 DEF ToSet
<1>4. ToSet(b) = ToSet(a) \cup {o}
  BY <1>2, <1>3
<1> QED  BY <1>4 DEF b

LEMMA WhereSet ==
  ASSUME NEW S, NEW a \in Seq(S), NEW c, NEW o
  PROVE  ToSet(a \o Where(c, o)) = ToSet(a) \cup Only(c, o)
<1>1. CASE c
  BY <1>1, AppendedSet DEF Where, Only
<1>2. CASE ~c
  BY <1>2, NothingAppended DEF Only
<1> QED  BY <1>1, <1>2

LEMMA AnySequence ==
  ASSUME NEW S, NEW a \in Seq(S), NEW c, NEW o
  PROVE  a \o Where(c, o) \in Seq(S \cup {o})
<1>1. a \in Seq(S \cup {o})
  OBVIOUS
<1>2. CASE c
  BY <1>1, <1>2 DEF Where
<1>3. CASE ~c
  BY <1>1, <1>3, NothingAppended
<1> QED  BY <1>2, <1>3

LEMMA BuiltSet ==
  ASSUME NEW s
  PROVE  ToSet(BuildResources(s)) =
           {BuildDeployment(s), BuildConfigMap(s)}
             \cup Only(NeedsService(s.spec), BuildService(s))
             \cup Only(s.spec.secretRefs # {}, BuildSecret(s))
             \cup Only(HasHPA(s.spec), BuildHPA(s))
             \cup Only(HasVPA(s.spec), BuildVPA(s))
             \cup Only(Policed(s.spec), BuildNetworkPolicy(s))
             \cup Only(HasVirtualService(s.spec), BuildVirtualService(s))
             \cup Only(IstioOn(s.spec), BuildDestinationRule(s))
<1> DEFINE a1 == <<BuildDeployment(s)>>
           a2 == a1 \o Where(NeedsService(s.spec), BuildService(s))
           a3 == a2 \o <<BuildConfigMap(s)>>
           a4 == a3 \o Where(s.spec.secretRefs # {}, BuildSecret(s))
           a5 == a4 \o Where(HasHPA(s.spec), BuildHPA(s))
           a6 == a5 \o Where(HasVPA(s.spec), BuildVPA(s))
           a7 == a6 \o Where(Policed(s.spec), BuildNetworkPolicy(s))
           a8 == a7 \o Where(HasVirtualService(s.spec), BuildVirtualService(s))
           a9 == a8 \o Where(IstioOn(s.spec), BuildDestinationRule(s))
           O1 == {BuildDeployment(s)}
           O2 == O1 \cup {BuildService(s)}
           O3 == O2 \cup {BuildConfigMap(s)}
           O4 == O3 \cup {BuildSecret(s)}
           O5 == O4 \cup {BuildHPA(s)}
           O6 == O5 \cup {BuildVPA(s)}
           O7 == O6 \cup {BuildNetworkPolicy(s)}
           O8 == O7 \cup {BuildVirtualService(s)}
<1>1. a1 \in Seq(O1) /\ ToSet(a1) = {BuildDeployment(s)}
  BY OneMember
<1> HIDE DEF O1
<1>2. a2 \in Seq(O2) /\ ToSet(a2) = ToSet(a1) \cup Only(NeedsService(s.spec), BuildService(s))
  <2> HIDE DEF a1
  <2> QED  BY <1>1, AnySequence, WhereSet
<1> HIDE DEF O2
<1>3. a3 \in Seq(O3) /\ ToSet(a3) = ToSet(a2) \cup {BuildConfigMap(s)}
  <2> HIDE DEF a2
  <2>1. a2 \in Seq(O3)
    BY <1>2
  <2> QED  BY <1>2, <2>1, AppendedSet
<1> HIDE DEF O3
<1>4. a4 \in Seq(O4) /\ ToSet(a4) = ToSet(a3) \cup Only(s.spec.secretRefs # {}, BuildSecret(s))
  <2> HIDE DEF a3
  <2> QED  BY <1>3, AnySequence, WhereSet
<1> HIDE DEF O4
<1>5. a5 \in Seq(O5) /\ ToSet(a5) = ToSet(a4) \cup Only(HasHPA(s.spec), BuildHPA(s))
  <2> HIDE DEF a4
  <2> QED  BY <1>4, AnySequence, WhereSet
<1> HIDE DEF O5
<1>6. a6 \in Seq(O6) /\ ToSet(a6) = ToSet(a5) \cup Only(HasVPA(s.spec), BuildVPA(s))
  <2> HIDE DEF a5
  <2> QED  BY <1>5, AnySequence, WhereSet
<1> HIDE DEF O6
<1>7. a7 \in Seq(O7) /\ ToSet(a7) = ToSet(a6) \cup Only(Policed(s.spec), BuildNetworkPolicy(s))
  <2> HIDE DEF a6
  <2> QED  BY <1>6, AnySequence, WhereSet
<1> HIDE DEF O7
<1>8. /\ a8 \in Seq(O8)
      /\ ToSet(a8) = ToSet(a7) \cup Only(HasVirtualService(s.spec), BuildVirtualService(s))
  <2> HIDE DEF a7
  <2> QED  BY <1>7, AnySequence, WhereSet
<1> HIDE DEF O8
<1>9. ToSet(a9) = ToSet(a8) \cup Only(IstioOn(s.spec), BuildDestinationRule(s))
  <2> HIDE DEF a8
  <2> QED  BY <1>8, WhereSet
<1>10. BuildResources(s) = a9
  BY DEF BuildResources
<1> HIDE DEF a1, a2, a3, a4, a5, a6, a7, a8, a9
<1> QED
  BY <1>1, <1>2, <1>3, <1>4, <1>5, <1>6, <1>7, <1>8, <1>9, <1>10

\* The Deployment, the Services and the VirtualServices of the default builder.
LEMMA DefaultKinds ==
  ASSUME NEW s
  PROVE  LET of(kind) == {r \in ToSet(RenderResources(s)) : r.kind = kind}
         IN  /\ of("Deployment") = {AddRequiredLabels(BuildDeployment(s), s)}
             /\ of("Service") =
                  Only(NeedsService(s.spec), AddRequiredLabels(BuildService(s), s))
             /\ of("VirtualService") =
                  Only(HasVirtualService(s.spec), AddRequiredLabels(BuildVirtualService(s), s))
<1> DEFINE B == ToSet(BuildResources(s))
           R == ToSet(RenderResources(s))
           of(kind) == {r \in R : r.kind = kind}
           made(kind) == {AddRequiredLabels(o, s) : o \in {o \in B : o.kind = kind}}
<1>1. R = {AddRequiredLabels(o, s) : o \in B}
  <2>1. PICK S : BuildResources(s) \in Seq(S)
    BY BuiltObjects
  <2> QED  BY <2>1 DEF ToSet, RenderResources, Labelled
<1>2. \A o \in B : AddRequiredLabels(o, s).kind = o.kind
  <2>1. B \subseteq Objects(s)
    BY BuiltObjects DEF ToSet
  <2> QED  BY <2>1, NamesOfBuilt
<1>3. ASSUME NEW kind
      PROVE  of(kind) = made(kind)
  BY <1>1, <1>2
<1> HIDE DEF R
<1>4. /\ {o \in B : o.kind = "Deployment"} = {BuildDeployment(s)}
      /\ {o \in B : o.kind = "Service"} = Only(NeedsService(s.spec), BuildService(s))
      /\ {o \in B : o.kind = "VirtualService"} =
           Only(HasVirtualService(s.spec), BuildVirtualService(s))
  BY BuiltSet, KindsBuilt DEF Only
<1> HIDE DEF B
<1>5. of("Deployment") = {AddRequiredLabels(BuildDeployment(s), s)}
  BY <1>3, <1>4
<1>6. of("Service") = Only(NeedsService(s.spec), AddRequiredLabels(BuildService(s), s))
  BY <1>3, <1>4 DEF Only
<1>7. of("VirtualService") =
        Only(HasVirtualService(s.spec), AddRequiredLabels(BuildVirtualService(s), s))
  BY <1>3, <1>4 DEF Only
<1> QED  BY <1>5, <1>6, <1>7 DEF R

\* The labels of the renderer leave the ports alone.
LEMMA PortsRendered ==
  ASSUME NEW s
  PROVE  /\ AddRequiredLabels(BuildDeployment(s), s).container = buildContainer(s.spec)
         /\ AddRequiredLabels(BuildService(s), s).ports = servicePorts(s.spec)
         /\ AddRequiredLabels(BuildVirtualService(s), s).port = destinationPort(s.spec)
<1>1. AddRequiredLabels(BuildDeployment(s), s).container = buildContainer(s.spec)
  BY DEF AddRequiredLabels, BuildDeployment
<1>2. AddRequiredLabels(BuildService(s), s).ports = servicePorts(s.spec)
  BY DEF AddRequiredLabels, BuildService
<1>3. AddRequiredLabels(BuildVirtualService(s), s).port = destinationPort(s.spec)
  BY DEF AddRequiredLabels, BuildVirtualService
<1> QED  BY <1>1, <1>2, <1>3

\* A spec that the reconciler's checks let through, as far as its ports go.
Sound(spec) ==
  /\ spec \in MCPServerSpec /\ spec.runtime # Nil
  /\ Stdio(spec) \/ spec.runtime.port \in PortNumber

LEMMA SoundSpec ==
  ASSUME NEW s \in MCPServerSpec, ValidateMCPServer(s)
  PROVE  Sound(s)
BY DEF ValidateMCPServer, validateRuntimeSpec, Sound

LEMMA SoundPorts ==
  ASSUME NEW spec, Sound(spec)
  PROVE  /\ spec.ports \in Seq(PortSpec)
         /\ spec.runtime.port \in Int
         /\ GatewayOn(spec) => spec.gateway.port \in PortNumber
<1>1. /\ spec.ports \in Seq(PortSpec) /\ spec.runtime \in RuntimeSpec
      /\ spec.gateway \in Optional(GatewaySpec)
  BY DEF Sound, MCPServerSpec, Optional
<1> QED  BY <1>1 DEF RuntimeSpec, GatewaySpec, GatewayOn, Optional

\* The port of a binary server's container: the runtime's, or 8080.
LEMMA ContainerPorts ==
  ASSUME NEW spec, Sound(spec)
  PROVE  /\ GatewayOn(spec) /\ Stdio(spec) =>
              buildContainer(spec).ports =
                <<ContainerPort("gateway",
                    IF spec.gateway.port = 0 THEN 8000 ELSE spec.gateway.port, "TCP")>>
         /\ ~Stdio(spec) /\ spec.runtime.type = "binary" =>
              buildContainer(spec).ports = <<ContainerPort("mcp", simplePort(spec), "TCP")>>
         /\ ~Stdio(spec) /\ spec.runtime.type # "binary" =>
              buildContainer(spec).ports = collectContainerPorts(spec)
<1>1. ASSUME NEW name, NEW image, NEW command, NEW args, NEW ports, NEW env
      PROVE  Container(spec, name, image, command, args, ports, env).ports = ports
  BY DEF Container
<1>2. CASE GatewayOn(spec) /\ Stdio(spec)
  BY <1>1, <1>2 DEF buildContainer, buildGatewayContainer
<1>3. CASE ~Stdio(spec) /\ spec.runtime.type = "binary"
  <2>1. spec.runtime.port \in Int /\ (spec.runtime.port > 0 <=> spec.runtime.port # 0)
    BY <1>3, PortNumbers DEF Sound
  <2>2. (IF spec.runtime.port = 0 THEN 8080 ELSE spec.runtime.port) = simplePort(spec)
    BY <2>1 DEF simplePort
  <2>3. buildContainer(spec) = buildBinaryContainer(spec)
    BY <1>3 DEF buildContainer
  <2>4. buildContainer(spec).ports =
          <<ContainerPort("mcp",
              IF spec.runtime.port = 0 THEN 8080 ELSE spec.runtime.port, "TCP")>>
    BY <1>1, <2>3 DEF buildBinaryContainer
  <2> QED  BY <1>3, <2>2, <2>4
<1>4. CASE ~Stdio(spec) /\ spec.runtime.type # "binary"
  BY <1>1, <1>4 DEF buildContainer
<1> QED  BY <1>2, <1>3, <1>4

\* What the container listens on when no stdio server is behind the gateway.
LEMMA CollectedPorts ==
  ASSUME NEW spec, Sound(spec), ~Stdio(spec)
  PROVE  LET ports == collectContainerPorts(spec)
         IN  /\ spec.ports = << >> =>
                  ports = <<ContainerPort("mcp", simplePort(spec), "TCP")>>
             /\ spec.ports # << >> =>
                  ports = [i \in DOMAIN spec.ports |-> OfSpec(spec.ports[i])]
             /\ DOMAIN ports = 1..Len(ports) /\ Len(ports) \in Nat \ {0}
             /\ ports # << >> /\ 1 \in DOMAIN ports
<1>1. CASE spec.ports = << >>
  <2>1. collectContainerPorts(spec) = <<ContainerPort("mcp", simplePort(spec), "TCP")>>
    BY <1>1 DEF collectContainerPorts, simplePort, Sound
  <2> HIDE DEF Sound
  <2> QED  BY <1>1, <2>1
<1>2. CASE spec.ports # << >>
  <2>1. collectContainerPorts(spec) = [i \in DOMAIN spec.ports |-> OfSpec(spec.ports[i])]
    BY <1>2 DEF collectContainerPorts
  <2>2. spec.ports \in Seq(PortSpec)
    BY SoundPorts
  <2>3. Len(spec.ports) \in Nat \ {0} /\ DOMAIN spec.ports = 1..Len(spec.ports)
    BY <1>2, <2>2
  <2>4. collectContainerPorts(spec) # << >>
    BY <2>1, <2>3
  <2> QED  BY <1>2, <2>1, <2>3, <2>4
<1> QED  BY <1>1, <1>2

\* A port of the Service that one of the container answers.
Meets(p, ports) ==
  \E c \in ToSet(ports) : c.containerPort = p.targetPort /\ c.protocol = p.protocol

LEMMA OnePort ==
  ASSUME NEW p, NEW name, NEW number, NEW protocol
  PROVE  Meets(p, <<ContainerPort(name, number, protocol)>>) <=>
           number = p.targetPort /\ protocol = p.protocol
BY OneMember DEF Meets, ContainerPort

\* What the Service publishes of the container's ports.
LEMMA PublishedPorts ==
  ASSUME NEW spec, Sound(spec), ~Stdio(spec), ~GatewayOn(spec)
  PROVE  LET ports == collectContainerPorts(spec)
         IN  ToSet(servicePorts(spec)) =
               {ServicePort(c.name, c.containerPort, c.protocol) : c \in ToSet(ports)}
<1> DEFINE ports == collectContainerPorts(spec)
<1>1. ports # << >>
  BY CollectedPorts
<1>2. servicePorts(spec) =
        [i \in DOMAIN ports |->
           ServicePort(ports[i].name, ports[i].containerPort, ports[i].protocol)]
  BY <1>1 DEF servicePorts
<1> HIDE DEF ports
<1>3. ToSet(servicePorts(spec)) =
        {ServicePort(c.name, c.containerPort, c.protocol) : c \in ToSet(ports)}
  BY <1>2 DEF ToSet
<1> QED  BY <1>3 DEF ports

LEMMA PortsMet ==
  ASSUME Sound(server.spec)
  PROVE  (NeedsService(server.spec) =>
            \A p \in ToSet(servicePorts(server.spec)) :
              Meets(p, buildContainer(server.spec).ports)) <=> ~LeadsNowhere
<1> DEFINE spec == server.spec
           met == \A p \in ToSet(servicePorts(spec)) : Meets(p, buildContainer(spec).ports)
           answers(number, protocol) ==
             \E c \in ToSet(IF spec.runtime.type = "binary"
                              THEN <<ContainerPort("mcp", simplePort(spec), "TCP")>>
                              ELSE collectContainerPorts(spec)) :
               c.containerPort = number /\ c.protocol = protocol
<1> SUFFICES (NeedsService(spec) => met) <=> ~LeadsNowhere
  OBVIOUS
<1>1. LeadsNowhere <=>
        \/ GatewayOn(spec) /\ Stdio(spec) /\ spec.gateway.port = 0
        \/ /\ GatewayOn(spec) /\ ~Stdio(spec)
           /\ ~answers(gatewayServicePort(spec), "TCP")
        \/ /\ ~GatewayOn(spec) /\ ~Stdio(spec) /\ spec.runtime.type = "binary"
           /\ \E i \in DOMAIN spec.ports :
                ~answers(OfSpec(spec.ports[i]).containerPort, OfSpec(spec.ports[i]).protocol)
  BY Zenon DEF LeadsNowhere
<1>2. ~Stdio(spec) =>
        \A p : Meets(p, buildContainer(spec).ports) <=> answers(p.targetPort, p.protocol)
  BY ContainerPorts, Zenon DEF Meets
<1>3. GatewayOn(spec) =>
        ToSet(servicePorts(spec)) = {ServicePort("gateway", gatewayServicePort(spec), "TCP")}
  BY OneMember DEF servicePorts
<1>4. CASE GatewayOn(spec) /\ Stdio(spec)
  <2> DEFINE p == ServicePort("gateway", gatewayServicePort(spec), "TCP")
             number == IF spec.gateway.port = 0 THEN 8000 ELSE spec.gateway.port
  <2>1. met <=> Meets(p, <<ContainerPort("gateway", number, "TCP")>>)
    <3>1. buildContainer(spec).ports = <<ContainerPort("gateway", number, "TCP")>>
      BY <1>4, ContainerPorts
    <3>2. met <=> Meets(p, buildContainer(spec).ports)
      BY <1>3, <1>4, Zenon
    <3> HIDE DEF met, p, number
    <3> QED  BY <3>1, <3>2
  <2>2. met <=> number = p.targetPort /\ "TCP" = p.protocol
    BY <2>1, OnePort
  <2>3. met <=> number = gatewayServicePort(spec)
    BY <2>2 DEF ServicePort
  <2>4. met <=> spec.gateway.port # 0
    BY <2>3 DEF gatewayServicePort
  <2> HIDE DEF met, answers
  <2> QED  BY <1>1, <1>4, <2>4 DEF NeedsService
<1>5. CASE GatewayOn(spec) /\ ~Stdio(spec)
  <2> DEFINE p == ServicePort("gateway", gatewayServicePort(spec), "TCP")
  <2>1. met <=> Meets(p, buildContainer(spec).ports)
    BY <1>3, <1>5, Zenon
  <2>2. p.targetPort = gatewayServicePort(spec) /\ p.protocol = "TCP"
    BY DEF ServicePort
  <2>3. met <=> answers(gatewayServicePort(spec), "TCP")
    BY <1>2, <1>5, <2>1, <2>2, Zenon
  <2> HIDE DEF met, answers
  <2> QED  BY <1>1, <1>5, <2>3 DEF NeedsService
<1>6. CASE ~GatewayOn(spec) /\ Stdio(spec)
  BY <1>1, <1>6, Zenon DEF NeedsService
<1>7. CASE ~GatewayOn(spec) /\ ~Stdio(spec)
  <2> DEFINE ports == collectContainerPorts(spec)
  <2>1. met <=> \A c \in ToSet(ports) : answers(c.containerPort, c.protocol)
    <3>1. ToSet(servicePorts(spec)) =
            {ServicePort(c.name, c.containerPort, c.protocol) : c \in ToSet(ports)}
      BY <1>7, PublishedPorts
    <3>2. ASSUME NEW c
          PROVE  /\ ServicePort(c.name, c.containerPort, c.protocol).targetPort = c.containerPort
                 /\ ServicePort(c.name, c.containerPort, c.protocol).protocol = c.protocol
      BY DEF ServicePort
    <3> HIDE DEF answers, ports
    <3>3. met <=> \A c \in ToSet(ports) :
                    Meets(ServicePort(c.name, c.containerPort, c.protocol),
                          buildContainer(spec).ports)
      BY <3>1
    <3> HIDE DEF met
    <3> QED  BY <1>2, <1>7, <3>2, <3>3
  <2>2. NeedsService(spec)
    BY <1>7 DEF NeedsService
  <2>3. CASE spec.runtime.type # "binary"
    <3>1. \A c \in ToSet(ports) : answers(c.containerPort, c.protocol)
      BY <2>3, Zenon
    <3> HIDE DEF met, answers
    <3> QED  BY <1>1, <1>7, <2>1, <2>2, <2>3, <3>1
  <2>4. CASE spec.runtime.type = "binary" /\ spec.ports = << >>
    <3>1. \A c \in ToSet(ports) : answers(c.containerPort, c.protocol)
      BY <1>7, <2>4, CollectedPorts, Zenon
    <3>2. DOMAIN spec.ports = {}
      BY <2>4
    <3> HIDE DEF met, answers
    <3> QED  BY <1>1, <1>7, <2>1, <2>2, <3>1, <3>2
  <2>5. CASE spec.runtime.type = "binary" /\ spec.ports # << >>
    <3>1. ports = [i \in DOMAIN spec.ports |-> OfSpec(spec.ports[i])]
      BY <1>7, <2>5, CollectedPorts
    <3>2. ToSet(ports) = {OfSpec(spec.ports[i]) : i \in DOMAIN spec.ports}
      <4> HIDE DEF ports
      <4> QED  BY <3>1 DEF ToSet
    <3> HIDE DEF met, answers, ports
    <3>3. met <=> \A i \in DOMAIN spec.ports :
                    answers(OfSpec(spec.ports[i]).containerPort, OfSpec(spec.ports[i]).protocol)
      BY <2>1, <3>2
    <3> QED  BY <1>1, <1>7, <2>2, <2>5, <3>3
  <2> QED  BY <2>3, <2>4, <2>5
<1> QED  BY <1>4, <1>5, <1>6, <1>7

\* The ports of the Service, all of them answered or not.
LEMMA PortsReachedBy ==
  ASSUME Sound(server.spec), built = RenderResources(server)
  PROVE  PortsReached
<1>1. /\ Of("Deployment") = {AddRequiredLabels(BuildDeployment(server), server)}
      /\ Of("Service") =
           Only(NeedsService(server.spec), AddRequiredLabels(BuildService(server), server))
  BY DefaultKinds DEF Of
<1>2. ASSUME NEW p
      PROVE  Reached(p) <=> Meets(p, buildContainer(server.spec).ports)
  BY <1>1, PortsRendered DEF Reached, Meets
<1>3. (\A s \in Of("Service") : \A p \in ToSet(s.ports) : Reached(p)) <=>
        (NeedsService(server.spec) =>
           \A p \in ToSet(servicePorts(server.spec)) :
             Meets(p, buildContainer(server.spec).ports))
  BY <1>1, <1>2, PortsRendered DEF Only
<1>4. (\A s \in Of("Service") : \A p \in ToSet(s.ports) : Reached(p)) <=> ~LeadsNowhere
  BY <1>3, PortsMet, Zenon
<1> QED  BY <1>4, Zenon DEF PortsReached

\* The end of the route among the ports of the Service, or not.
LEMMA RouteServedBy ==
  ASSUME Sound(server.spec), built = RenderResources(server)
  PROVE  RouteServed
<1> DEFINE spec == server.spec
           served == \A v \in Of("VirtualService") : \E s \in Of("Service") :
                       \E p \in ToSet(s.ports) : p.port = v.port
           lost == \/ ~NeedsService(spec)
                   \/ /\ GatewayOn(spec) /\ spec.gateway.port = 0
                      /\ collectContainerPorts(spec)[1].containerPort # 8080
<1> SUFFICES ASSUME Of("VirtualService") # {}
             PROVE  served <=> ~lost
  BY DEF RouteServed
<1>1. /\ Of("VirtualService") =
           Only(HasVirtualService(spec), AddRequiredLabels(BuildVirtualService(server), server))
      /\ Of("Service") =
           Only(NeedsService(spec), AddRequiredLabels(BuildService(server), server))
  BY DefaultKinds DEF Of
<1>2. served <=> NeedsService(spec) /\ \E p \in ToSet(servicePorts(spec)) :
                                         p.port = destinationPort(spec)
  BY <1>1, PortsRendered DEF Only
<1> HIDE DEF served
<1>3. CASE ~NeedsService(spec)
  BY <1>2, <1>3
<1>4. CASE NeedsService(spec) /\ GatewayOn(spec)
  <2>1. served <=> gatewayServicePort(spec) = destinationPort(spec)
    <3>1. ToSet(servicePorts(spec)) =
            {ServicePort("gateway", gatewayServicePort(spec), "TCP")}
      BY <1>4, OneMember DEF servicePorts
    <3> QED  BY <1>2, <1>4, <3>1 DEF ServicePort
  <2>2. spec.gateway.port \in Int /\ (spec.gateway.port > 0 <=> spec.gateway.port # 0)
    BY <1>4, SoundPorts, PortNumbers
  <2>3. CASE spec.gateway.port # 0
    BY <1>4, <2>1, <2>2, <2>3 DEF gatewayServicePort, destinationPort
  <2>4. CASE spec.gateway.port = 0
    <3>1. collectContainerPorts(spec) # << >>
      <4>1. spec.ports \in Seq(PortSpec)
        BY SoundPorts
      <4>2. collectContainerPorts(spec) =
              IF spec.ports # << >> THEN [i \in DOMAIN spec.ports |-> OfSpec(spec.ports[i])]
              ELSE <<ContainerPort("mcp", simplePort(spec), "TCP")>>
        BY <1>4 DEF collectContainerPorts, simplePort, Sound
      <4>3. spec.ports # << >> => 1 \in DOMAIN spec.ports
        BY <4>1
      <4> QED  BY <4>2, <4>3
    <3>2. destinationPort(spec) = collectContainerPorts(spec)[1].containerPort
      BY <2>2, <2>4, <3>1 DEF destinationPort
    <3>3. gatewayServicePort(spec) = 8080
      BY <2>4 DEF gatewayServicePort
    <3> QED  BY <1>4, <2>1, <2>4, <3>2, <3>3
  <2> QED  BY <2>3, <2>4
<1>5. CASE NeedsService(spec) /\ ~GatewayOn(spec)
  <2> DEFINE ports == collectContainerPorts(spec)
  <2>1. ~Stdio(spec)
    BY <1>5 DEF NeedsService
  <2>2. ports # << >> /\ 1 \in DOMAIN ports
    BY <2>1, CollectedPorts
  <2>3. destinationPort(spec) = ports[1].containerPort
    BY <1>5, <2>2 DEF destinationPort
  <2>4. ToSet(servicePorts(spec)) =
          {ServicePort(c.name, c.containerPort, c.protocol) : c \in ToSet(ports)}
    BY <1>5, <2>1, PublishedPorts
  <2> HIDE DEF ports
  <2>5. ports[1] \in ToSet(ports)
    BY <2>2 DEF ToSet
  <2>6. \E p \in ToSet(servicePorts(spec)) : p.port = destinationPort(spec)
    <3> DEFINE p == ServicePort(ports[1].name, ports[1].containerPort, ports[1].protocol)
    <3>1. p.port = destinationPort(spec)
      BY <2>3 DEF ServicePort
    <3>2. p \in ToSet(servicePorts(spec))
      BY <2>4, <2>5
    <3> QED  BY <3>1, <3>2
  <2> QED  BY <1>2, <1>5, <2>6
<1> QED  BY <1>3, <1>4, <1>5

-----------------------------------------------------------------------------
(***************************************************************************)
(* The defaults of the webhook keep a spec a spec.                         *)
(***************************************************************************)
LEMMA SpecFields ==
  ASSUME NEW spec \in MCPServerSpec
  PROVE  /\ spec.registry \in Optional(RegistryRef)
         /\ spec.runtime \in Optional(RuntimeSpec)
         /\ spec.transport \in Optional(TransportSpec)
         /\ spec.ports \in Seq(PortSpec)
         /\ spec.replicas \in Optional(Int)
         /\ spec.requests \in Optional(ResourceList)
         /\ spec.limits \in Optional(ResourceList)
         /\ spec.security \in Optional(SecurityContext)
         /\ spec.serviceType \in Text
         /\ spec.tenancy \in Optional(TenancySpec)
BY DEF MCPServerSpec

LEMMA DefaultsAreTexts ==
  /\ "" \in Text
  /\ "default-registry" \in Text
  /\ "/mcp" \in Text
  /\ "TCP" \in Text
  /\ "ClusterIP" \in Text
  /\ "Namespace" \in Text
BY SpecsAssumption DEF DefaultTexts

LEMMA DefaultPorts ==
  ASSUME NEW ports \in Seq(PortSpec)
  PROVE  [i \in DOMAIN ports |-> DefaultPort(ports[i])] \in Seq(PortSpec)
<1>1. ASSUME NEW p \in PortSpec
      PROVE  DefaultPort(p) \in PortSpec
  <2> DEFINE target == IF p.targetPort = 0 THEN p.port ELSE p.targetPort
             protocol == OrText(p.protocol, "TCP")
  <2>1. p.port \in PortNumber /\ p.targetPort \in PortNumber /\ p.protocol \in Text
    BY <1>1 DEF PortSpec
  <2>2. target \in PortNumber
    BY <2>1
  <2>3. protocol \in Text
    BY <2>1, DefaultsAreTexts DEF OrText
  <2>4. DefaultPort(p) = [p EXCEPT !.targetPort = target, !.protocol = protocol]
    BY DEF DefaultPort
  <2> HIDE DEF target, protocol
  <2> QED  BY <2>2, <2>3, <2>4, <1>1 DEF PortSpec
<1> HIDE DEF PortSpec
<1> QED  BY <1>1

LEMMA DefaultsTyped ==
  ASSUME NEW name \in Text, NEW spec \in MCPServerSpec
  PROVE  setDefaults(name, spec) \in MCPServerSpec
<1> DEFINE ref == OrElse(spec.registry, NoRegistry)
           registry == [ref EXCEPT !.name = OrText(ref.name, "default-registry"),
                                   !.serverName = OrText(ref.serverName, name)]
           ports == [i \in DOMAIN spec.ports |-> DefaultPort(spec.ports[i])]
           transport ==
             IF spec.transport # Nil /\ spec.transport.type # ""
               THEN [spec.transport EXCEPT !.path = OrText(spec.transport.path, "/mcp")]
               ELSE spec.transport
           replicas == OrElse(spec.replicas, 1)
           runtime ==
             IF spec.runtime # Nil /\ spec.runtime.port = 0
               THEN [spec.runtime EXCEPT !.port = 8080] ELSE spec.runtime
           serviceType == OrText(spec.serviceType, "ClusterIP")
           security == OrElse(spec.security, [runAsUser |-> 1000, runAsNonRoot |-> TRUE])
           requests == OrElse(spec.requests, defaultRequests)
           limits == OrElse(spec.limits, defaultLimits)
           tenancy ==
             IF spec.tenancy # Nil
               THEN [spec.tenancy EXCEPT !.isolationLevel =
                       OrText(spec.tenancy.isolationLevel, "Namespace")]
               ELSE Nil
<1>1. registry \in Optional(RegistryRef)
  <2>1. NoRegistry \in RegistryRef
    BY DefaultsAreTexts DEF NoRegistry, RegistryRef
  <2>2. ref \in RegistryRef
    BY <2>1, SpecFields DEF Optional, OrElse
  <2> HIDE DEF ref
  <2>3. ref.name \in Text /\ ref.serverName \in Text
    BY <2>2 DEF RegistryRef
  <2>4. /\ OrText(ref.name, "default-registry") \in Text
        /\ OrText(ref.serverName, name) \in Text
    BY <2>3, DefaultsAreTexts DEF OrText
  <2>5. registry \in RegistryRef
    BY <2>2, <2>4 DEF RegistryRef
  <2> QED  BY <2>5 DEF Optional
<1>2. ports \in Seq(PortSpec)
  BY SpecFields, DefaultPorts
<1>3. transport \in Optional(TransportSpec)
  <2>1. ASSUME NEW t \in TransportSpec
        PROVE  [t EXCEPT !.path = OrText(t.path, "/mcp")] \in TransportSpec
    BY <2>1, DefaultsAreTexts DEF TransportSpec, OrText
  <2> QED  BY <2>1, SpecFields DEF Optional
<1>4. replicas \in Optional(Int)
  BY SpecFields DEF Optional, OrElse
<1>5. runtime \in Optional(RuntimeSpec)
  <2>1. ASSUME NEW r \in RuntimeSpec
        PROVE  [r EXCEPT !.port = 8080] \in RuntimeSpec
    BY <2>1 DEF RuntimeSpec
  <2> QED  BY <2>1, SpecFields DEF Optional
<1>6. serviceType \in Text
  BY SpecFields, DefaultsAreTexts DEF OrText
<1>7. security \in Optional(SecurityContext)
  <2>1. [runAsUser |-> 1000, runAsNonRoot |-> TRUE] \in SecurityContext
    BY DEF SecurityContext, Optional
  <2> QED  BY <2>1, SpecFields DEF Optional, OrElse
<1>8. requests \in Optional(ResourceList)
  BY SpecFields DEF Optional, OrElse, ResourceList
<1>9. limits \in Optional(ResourceList)
  BY SpecFields DEF Optional, OrElse, ResourceList
<1>10. tenancy \in Optional(TenancySpec)
  <2>1. ASSUME NEW t \in TenancySpec
        PROVE  [t EXCEPT !.isolationLevel = OrText(t.isolationLevel, "Namespace")]
                 \in TenancySpec
    BY <2>1, DefaultsAreTexts DEF TenancySpec, OrText
  <2> QED  BY <2>1, SpecFields DEF Optional
<1> HIDE DEF ref, registry, ports, transport, replicas, runtime, serviceType, security,
             requests, limits, tenancy
<1> DEFINE s0 == spec
           s1 == [s0 EXCEPT !.registry = registry]
           s2 == [s1 EXCEPT !.ports = ports]
           s3 == [s2 EXCEPT !.transport = transport]
           s4 == [s3 EXCEPT !.replicas = replicas]
           s5 == [s4 EXCEPT !.runtime = runtime]
           s6 == [s5 EXCEPT !.serviceType = serviceType]
           s7 == [s6 EXCEPT !.security = security]
           s8 == [s7 EXCEPT !.requests = requests]
           s9 == [s8 EXCEPT !.limits = limits]
           s10 == [s9 EXCEPT !.tenancy = tenancy]
<1>11. s0 \in MCPServerSpec
  OBVIOUS
<1>12. s1 \in MCPServerSpec
  <2> HIDE DEF s0
  <2> QED  BY <1>11, <1>1 DEF MCPServerSpec, s1
<1>13. s2 \in MCPServerSpec
  <2> HIDE DEF s1
  <2> QED  BY <1>12, <1>2 DEF MCPServerSpec, s2
<1>14. s3 \in MCPServerSpec
  <2> HIDE DEF s2
  <2> QED  BY <1>13, <1>3 DEF MCPServerSpec, s3
<1>15. s4 \in MCPServerSpec
  <2> HIDE DEF s3
  <2> QED  BY <1>14, <1>4 DEF MCPServerSpec, s4
<1>16. s5 \in MCPServerSpec
  <2> HIDE DEF s4
  <2> QED  BY <1>15, <1>5 DEF MCPServerSpec, s5
<1>17. s6 \in MCPServerSpec
  <2> HIDE DEF s5
  <2> QED  BY <1>16, <1>6 DEF MCPServerSpec, s6
<1>18. s7 \in MCPServerSpec
  <2> HIDE DEF s6
  <2> QED  BY <1>17, <1>7 DEF MCPServerSpec, s7
<1>19. s8 \in MCPServerSpec
  <2> HIDE DEF s7
  <2> QED  BY <1>18, <1>8 DEF MCPServerSpec, s8
<1>20. s9 \in MCPServerSpec
  <2> HIDE DEF s8
  <2> QED  BY <1>19, <1>9 DEF MCPServerSpec, s9
<1>21. s10 \in MCPServerSpec
  <2> HIDE DEF s9
  <2> QED  BY <1>20, <1>10 DEF MCPServerSpec, s10
<1>22. setDefaults(name, spec) = s10
  BY DEF setDefaults, ref, registry, ports, transport, replicas, runtime, serviceType,
         security, requests, limits, tenancy
<1> QED  BY <1>21, <1>22

-----------------------------------------------------------------------------
(***************************************************************************)
(* What the webhooks let pass and the reconciler refuses.                  *)
(***************************************************************************)
LEMMA AdmittedRegistry ==
  ASSUME NEW spec, Admitted(spec)
  PROVE  validateRegistryInfo(spec) <=> spec.registry.alias \notin Oversized
<1>1. /\ spec.registry # Nil
      /\ spec.registry.name # ""
      /\ spec.registry.name \notin Oversized
      /\ spec.registry.serverName \notin Oversized
  BY DEF Admitted, webhookRegistryInfo, Named
<1> QED  BY <1>1 DEF validateRegistryInfo

LEMMA AdmittedTenancy ==
  ASSUME NEW spec \in MCPServerSpec, Admitted(spec), spec.tenancy # Nil
  PROVE  validateTenancySpec(spec.tenancy) <=>
           /\ spec.tenancy.isolationLevel \in IsolationLevel
           /\ spec.tenancy.resourceQuotas # Nil =>
                ~\E q \in DOMAIN spec.tenancy.resourceQuotas \ {"pods", "services"} :
                   spec.tenancy.resourceQuotas[q] <= 0
<1> DEFINE tenancy == spec.tenancy
           quotas  == tenancy.resourceQuotas
<1>1. tenancy \in TenancySpec
  BY DEF MCPServerSpec, Optional
<1>2. quotas # Nil => \A q \in DOMAIN quotas : quotas[q] \in Int
  <2>1. quotas \in Optional(Quotas)
    BY <1>1 DEF TenancySpec
  <2> QED  BY <2>1, SpecsAssumption DEF Optional
<1>3. /\ tenancy.tenantId # ""
      /\ quotas # Nil => \A q \in {"pods", "services"} \cap DOMAIN quotas : quotas[q] > 0
  BY DEF Admitted, validateTenantConfiguration
<1>4. validateTenancySpec(tenancy) <=>
        /\ tenancy.isolationLevel \in IsolationLevel
        /\ quotas # Nil => \A q \in DOMAIN quotas : quotas[q] > 0
  BY <1>3 DEF validateTenancySpec, validateTenantResourceQuotas, validateIsolationLevel
<1>5. quotas # Nil =>
        ((\A q \in DOMAIN quotas : quotas[q] > 0) <=>
           ~\E q \in DOMAIN quotas \ {"pods", "services"} : quotas[q] <= 0)
  <2> SUFFICES ASSUME quotas # Nil
               PROVE  (\A q \in DOMAIN quotas : quotas[q] > 0) <=>
                        ~\E q \in DOMAIN quotas \ {"pods", "services"} : quotas[q] <= 0
    OBVIOUS
  <2>1. \A q \in DOMAIN quotas : quotas[q] > 0 <=> ~(quotas[q] <= 0)
    BY <1>2
  <2>2. \A q \in DOMAIN quotas : q \in {"pods", "services"} => quotas[q] > 0
    BY <1>3
  <2> HIDE DEF quotas
  <2> QED  BY <2>1, <2>2, Zenon
<1> QED  BY <1>4, <1>5

\* Whatever spec the webhooks let through: the reconciler's validation service
\* refuses it if and only if it is one of the cases that Unforeseen lists.
LEMMA RefusalsUnforeseen ==
  ASSUME NEW spec \in MCPServerSpec, Admitted(spec)
  PROVE  ~ValidateMCPServer(spec) <=> Unforeseen(spec)
<1>1. validateRegistryInfo(spec) <=> spec.registry.alias \notin Oversized
  BY AdmittedRegistry
<1>2. spec.replicas = Nil \/ spec.replicas >= 0
  BY DEF Admitted, validateReplicas
<1> DEFINE Runtime ==
             \/ spec.runtime = Nil
             \/ spec.runtime # Nil /\
                  \/ spec.runtime.type \notin {"docker", "node", "python", "binary"}
                  \/ spec.runtime.type = "docker" /\ spec.runtime.image = ""
                  \/ ~Stdio(spec) /\ spec.runtime.port \notin PortNumber
           Autoscaling ==
             spec.autoscaling # Nil /\ ~validateAutoscalingSpec(spec.autoscaling)
           Tenancy ==
             spec.tenancy # Nil /\
               \/ spec.tenancy.isolationLevel \notin IsolationLevel
               \/ /\ spec.tenancy.resourceQuotas # Nil
                  /\ \E q \in DOMAIN spec.tenancy.resourceQuotas \ {"pods", "services"} :
                       spec.tenancy.resourceQuotas[q] <= 0
<1>3. ~validateRuntimeSpec(spec) <=> Runtime
  BY DEF validateRuntimeSpec
<1>4. ~(spec.tenancy # Nil => validateTenancySpec(spec.tenancy)) <=> Tenancy
  BY AdmittedTenancy, Zenon
<1>5. ValidateMCPServer(spec) <=>
        /\ spec.registry.alias \notin Oversized
        /\ validateRuntimeSpec(spec)
        /\ validateResourceRequirements(spec)
        /\ ~Autoscaling
        /\ (spec.tenancy # Nil => validateTenancySpec(spec.tenancy))
  BY <1>1, <1>2, Zenon DEF ValidateMCPServer
<1>6. Unforeseen(spec) <=>
        \/ Runtime
        \/ ~validateResourceRequirements(spec)
        \/ spec.registry.alias \in Oversized
        \/ Autoscaling
        \/ Tenancy
  BY DEF Unforeseen
<1> HIDE DEF Runtime, Autoscaling, Tenancy
<1> QED  BY <1>3, <1>4, <1>5, <1>6, Zenon
=============================================================================
