------------------------------- MODULE Invocation -------------------------------
(***************************************************************************)
(* One portless-docker command from its arguments to what it brings about: *)
(* root.go, runPassthrough in passthrough.go, and handler.go for the       *)
(* requests that arrive while it runs.  What other commands do at the same *)
(* time is the subject of Commands.  The command is the first one given in *)
(* its project, so that no routes are registered yet.                      *)
(***************************************************************************)
EXTENDS CliArgs, ComposeFile

CONSTANTS
    Inputs,       \* command lines and projects:
                  \*   [args, project, files, services], with [ports, labels] for
                  \*   each service
    NameOrder,    \* all names of services as sort.Strings has them
    OverridePath,
    ProxyPort,    \* the default of the flag --port
    FirstPort,    \* the first host port that is free
    Documented    \* the port strings in one of the formats parse.go:205-210
                  \* lists, with what they mean: [containerPort, tcp]

ASSUME InvocationAssumption ==
    /\ OverridePath # NoOverride
    /\ ProxyPort \in Nat /\ FirstPort \in Nat /\ ProxyPort < FirstPort
    /\ DOMAIN NameOrder \subseteq Nat
    /\ \A i, j \in DOMAIN NameOrder : NameOrder[i] = NameOrder[j] => i = j

IsList(s) == s \in Seq(Range(s))

\* The hidden command is not for users to give.  A placeholder has a service and
\* a property, the rest of a template is text.
ASSUME InputsAssumption ==
    \A inp \in Inputs :
      /\ inp.args \in Seq(STRING)
      /\ findSubcommand(inp.args) # "__passthrough"
      /\ DOMAIN inp.services \subseteq Range(NameOrder)
      /\ \A name \in DOMAIN inp.services :
           LET labels == inp.services[name].labels IN
           /\ IsList(inp.services[name].ports)
           /\ IsList(labels)
           /\ \A i \in DOMAIN labels : Has(labels[i], "ours") =>
                \A j \in DOMAIN labels[i].value :
                   DOMAIN labels[i].value[j] \in {{"text"}, {"service", "property"}}

\* [[ip:]host:]container[/protocol], by the places from the front.
HasFormat(s, meaning) ==
    \E at \in {1, 3, 5} :
      /\ IsList(s) /\ Len(s) \in {at, at + 2}
      /\ s[at] = Num(meaning.containerPort)
      /\ at > 1 => s[at - 1] = Colon /\ Has(s[at - 2], "num")
      /\ at = 5 => s[2] = Colon /\ s[1] \notin {Colon, Slash}
      /\ Len(s) = at + 2 => s[at + 1] = Slash /\ s[at + 2] \notin {Colon, Slash}
      /\ meaning.tcp <=> Len(s) = at \/ s[at + 2] = Text("tcp")

ASSUME DocumentedAssumption ==
    \A s \in DOMAIN Documented : HasFormat(expandEnvVar(s), Documented[s])

VARIABLES
    input,
    stage,
    argv,         \* os.Args after Execute
    userArgs,     \* the arguments of runPassthrough
    flags,        \* the global flags it sees
    cf,           \* the services found in the compose file
    routes,       \* its routes in state.json
    entries,      \* the override file
    composeArgs   \* the arguments of docker compose

vars == <<input, stage, argv, userArgs, flags, cf, routes, entries, composeArgs>>

NoServices == <<>>

Init ==
    /\ input \in Inputs
    /\ stage = "given"
    /\ argv = <<>>
    /\ userArgs = <<>>
    /\ flags = NoFlags
    /\ cf = NoServices
    /\ routes = <<>>
    /\ entries = {}
    /\ composeArgs = <<>>

-------------------------------------------------------------------------------
Rewrite ==
    /\ stage = "given"
    /\ argv' = Execute(input.args)
    /\ stage' = "dispatch"
    /\ UNCHANGED <<input, userArgs, flags, cf, routes, entries, composeArgs>>

\* cobra finds the command; one of its own is no concern of this module.
Dispatch ==
    /\ stage = "dispatch"
    /\ IF argv # <<>> /\ argv[1] = "__passthrough"
         THEN /\ userArgs' = passthroughArgsOf(argv)
              /\ flags' = ParsedFlags(argv)
              /\ stage' = IF userArgs' = <<>> THEN "error" ELSE "passthrough"
         ELSE stage' = "native" /\ UNCHANGED <<userArgs, flags>>
    /\ UNCHANGED <<input, argv, cf, routes, entries, composeArgs>>

needsSetup == userArgs[1] \in {"up", "run"}
composePath == FindComposeFile(input.files, flags.composeFile)

NoComposeFile ==
    /\ stage = "passthrough"
    /\ composePath = NoFile
    /\ stage' = "error"
    /\ UNCHANGED <<input, argv, userArgs, flags, cf, routes, entries, composeArgs>>

\* The next definition without the error.
ReadAnyComposeFile ==
    /\ stage = "passthrough" /\ needsSetup /\ composePath # NoFile
    /\ cf' = Parse(input.services, getIgnoredServices(flags))
    /\ stage' = "setUp"
    /\ UNCHANGED <<input, argv, userArgs, flags, routes, entries, composeArgs>>

ReadComposeFile ==
    /\ stage = "passthrough" /\ needsSetup /\ composePath # NoFile
    /\ cf' = Parse(input.services, getIgnoredServices(flags))
    /\ stage' = IF DOMAIN cf' = {} THEN "error" ELSE "setUp"
    /\ UNCHANGED <<input, argv, userArgs, flags, routes, entries, composeArgs>>

\* The routes by their places in the order of the names.  The allocators give
\* each port to one service only.
NewRoutes ==
    [i \in {i \in DOMAIN NameOrder : NameOrder[i] \in DOMAIN cf} |->
       [hostname      |-> BuildHostname(NameOrder[i], input.project),
        hostPort      |-> FirstPort + i,
        containerPort |-> cf[NameOrder[i]].containerPort,
        service       |-> NameOrder[i],
        type          |-> cf[NameOrder[i]].type]]

Localhost == <<"localhost">>

\* The next definition with every service behind the proxy.
EndpointBehindProxy(route) ==
    [hostname |-> route.hostname, port |-> ProxyPort, type |-> route.type]

\* HTTP services are reached through the proxy, TCP services directly.
Endpoint(route) ==
    IF route.type = "tcp"
      THEN [hostname |-> Localhost, port |-> route.hostPort, type |-> "tcp"]
      ELSE [hostname |-> route.hostname, port |-> ProxyPort, type |-> "http"]

Endpoints(rs) ==
    [name \in {rs[i].service : i \in DOMAIN rs} |->
       Endpoint(CHOOSE r \in {rs[i] : i \in DOMAIN rs} : r.service = name)]

NoEnvironment == <<>>
Environment(name, env) == IF name \in DOMAIN env THEN env[name] ELSE NoEnvironment

\* The next definition for the services with a port only.
NewEntriesOfRoutes(rs, env) ==
    {[service |-> rs[i].service, hostPort |-> rs[i].hostPort,
      containerPort |-> rs[i].containerPort,
      environment |-> Environment(rs[i].service, env)] : i \in DOMAIN rs}

\* The services with a port, and those with labels only.
NewEntries(rs, env) ==
    LET routed == {rs[i].service : i \in DOMAIN rs} IN
    {[service |-> rs[i].service, hostPort |-> rs[i].hostPort,
      containerPort |-> rs[i].containerPort,
      environment |-> Environment(rs[i].service, env)] : i \in DOMAIN rs}
      \cup {[service |-> name, hostPort |-> 0, containerPort |-> 0,
             environment |-> env[name]] : name \in DOMAIN env \ routed}

\* Ports, labels, GenerateOverride and RegisterRoutes.
SetUp ==
    LET rs == NewRoutes
        labels == ParseEnvLabels(input.services)
    IN
    /\ stage = "setUp"
    /\ IF CanResolveAll(labels, Endpoints(rs))
         THEN /\ routes' = rs
              /\ entries' = NewEntries(rs, ResolveAllEnvLabels(labels, Endpoints(rs), ProxyPort))
              /\ stage' = "compose"
         ELSE stage' = "error" /\ UNCHANGED <<routes, entries>>
    /\ UNCHANGED <<input, argv, userArgs, flags, cf, composeArgs>>

Compose ==
    /\ \/ stage = "compose"
       \/ stage = "passthrough" /\ ~needsSetup /\ composePath # NoFile
    /\ composeArgs' = buildComposeArgs(composePath,
                        IF needsSetup THEN OverridePath ELSE NoOverride, userArgs)
    /\ stage' = "running"
    /\ UNCHANGED <<input, argv, userArgs, flags, cf, routes, entries>>

\* docker compose returns.
Return ==
    /\ stage = "running"
    /\ routes' = IF shouldCleanup(userArgs) THEN <<>> ELSE routes
    /\ entries' = IF shouldCleanup(userArgs) THEN {} ELSE entries
    /\ stage' = "ended"
    /\ UNCHANGED <<input, argv, userArgs, flags, cf, composeArgs>>

Next ==
    \/ Rewrite \/ Dispatch \/ NoComposeFile \/ ReadComposeFile \/ SetUp \/ Compose \/ Return

Spec == Init /\ [][Next]_vars

-------------------------------------------------------------------------------
(* Requests.  A Host header is a hostname, with a port or without. *)

NoHost == [hostname |-> <<>>]
BadRequest == [status |-> 400]
NotFound == [status |-> 404]
ForwardTo(port) == [status |-> 200, port |-> port]

\* The next definition without regard to the type.
ServeAnyRoute(host, rs) ==
    LET matching == {i \in DOMAIN rs : rs[i].hostname = host.hostname} IN
    IF host = NoHost THEN BadRequest
    ELSE IF matching = {} THEN NotFound
    ELSE ForwardTo(rs[Min(matching)].hostPort)

\* The first HTTP route with the name, whatever the port.
ServeHTTP(host, rs) ==
    LET matching == {i \in DOMAIN rs : rs[i].hostname = host.hostname /\ rs[i].type # "tcp"} IN
    IF host = NoHost THEN BadRequest
    ELSE IF matching = {} THEN NotFound
    ELSE ForwardTo(rs[Min(matching)].hostPort)

-------------------------------------------------------------------------------
(* Properties *)

Stages == {"given", "dispatch", "native", "error", "passthrough", "setUp", "compose",
           "running", "ended"}

(***************************************************************************)
(* Type correctness; runPassthrough has a subcommand, what is set up has a *)
(* service with a port, and routes come with an override.                  *)
(***************************************************************************)
TypeOK ==
    /\ stage \in Stages
    /\ stage \in {"passthrough", "setUp", "compose", "running", "ended"} => userArgs # <<>>
    /\ stage = "setUp" => DOMAIN cf # {}
    /\ routes = <<>> <=> entries = {}
    /\ \A i \in DOMAIN routes : routes[i].hostPort >= FirstPort /\ routes[i].service \in DOMAIN cf
    /\ flags = NoFlags

(* Where the subcommand is, by a definition independent of the two loops. *)

IsValue(args) ==
    LET value[i \in 0 .. Len(args)] ==
          i > 1 /\ args[i - 1] \in ValueFlags /\ ~value[i - 1]
    IN  value

Words(args) == {i \in DOMAIN args : args[i] \notin Dashed /\ ~IsValue(args)[i]}

Dashes(args) == {i \in DOMAIN args : args[i] = "--"}

(***************************************************************************)
(* Everything from the subcommand on reaches docker compose as it was      *)
(* typed, a later -- and later -f, -p or ls included, after the compose    *)
(* file and the override; the program's own commands never do, though they *)
(* may follow another subcommand (README.md:147).  A -- that comes before  *)
(* the subcommand is left to cobra.                                        *)
(***************************************************************************)
ArgumentsArrive ==
    LET args == input.args
        at == Min(Words(args))
        passed == Words(args) # {} /\ \A i \in Dashes(args) : i > at
    IN
    /\ stage \in {"running", "ended"} /\ passed =>
         /\ args[at] \notin knownCmds
         /\ composeArgs = <<"-f", composePath>>
              \o (IF args[at] \in {"up", "run"} THEN <<"-f", OverridePath>> ELSE <<>>)
              \o SubSeq(args, at, Len(args))
    /\ stage = "native" /\ passed => args[at] \in knownCmds \cup {NoCommand}

(***************************************************************************)
(* A service whose ports are written in the documented formats, variables  *)
(* expanded, is known by the container port of the first one that is TCP,  *)
(* and is left alone if there is none.                                     *)
(***************************************************************************)
PortsAsDocumented ==
    stage = "setUp" =>
      \A name \in DOMAIN input.services :
        LET ports == input.services[name].ports
            tcp == {i \in DOMAIN ports : Documented[ports[i]].tcp}
        IN  (\A i \in DOMAIN ports : ports[i] \in DOMAIN Documented) =>
              /\ name \in DOMAIN cf <=> tcp # {}
              /\ tcp # {} => cf[name].containerPort = Documented[ports[Min(tcp)]].containerPort

\* What a port of the host leads to by the override file.
Container(port) ==
    {<<e.service, e.containerPort>> : e \in {e \in entries : e.hostPort = port}}

\* What an address leads to, through the proxy or directly.
LeadsTo(hostname, port) ==
    LET answer == ServeHTTP([hostname |-> hostname, port |-> port], routes) IN
    IF port # ProxyPort THEN IF hostname = Localhost THEN Container(port) ELSE {}
    ELSE IF answer.status = 200 THEN Container(answer.port) ELSE {}

\* No other HTTP service has a name that makes the same hostname.
HasOwnHostname(name) ==
    \A other \in DOMAIN cf \ {name} :
       cf[other].type = "http" => ServiceSubdomain[other] # ServiceSubdomain[name]

(***************************************************************************)
(* Under its hostname, every HTTP service answers on its own port, unless  *)
(* another one's name makes the same hostname; a TCP service never takes   *)
(* the requests of an HTTP service, whichever comes first, nor gets any.   *)
(***************************************************************************)
ServicesReachable ==
    stage = "running" /\ needsSetup =>
      \A name \in DOMAIN cf :
        HasOwnHostname(name) =>
          LeadsTo(BuildHostname(name, input.project), ProxyPort)
            = IF cf[name].type = "http" THEN {<<name, cf[name].containerPort>>} ELSE {}

(***************************************************************************)
(* An environment label {{service.url}} becomes an address that leads to   *)
(* that very service: through the proxy, which matches the hostname only,  *)
(* for HTTP, to the port in the override file for TCP.                     *)
(***************************************************************************)
LabelsLeadToServices ==
    stage = "running" =>
      \A e \in entries : \A v \in DOMAIN e.environment : \A i \in DOMAIN e.environment[v] :
        LET hole == ParseEnvLabels(input.services)[e.service][v][i]
            address == e.environment[v][i]
        IN  Has(hole, "service") /\ hole.property = "url" =>
              /\ address.http <=> cf[hole.service].type = "http"
              /\ HasOwnHostname(hole.service) \/ ~address.http =>
                   LeadsTo(address.host, address.port)
                     = {<<hole.service, cf[hole.service].containerPort>>}

(***************************************************************************)
(* The override file has one entry for each service that has a route or a  *)
(* label, with the port of its route and all its labels, and no            *)
(* placeholder is left in any of them.                                     *)
(***************************************************************************)
OverrideComplete ==
    LET labels == ParseEnvLabels(input.services) IN
    stage = "running" /\ needsSetup =>
      /\ {e.service : e \in entries} = DOMAIN cf \cup DOMAIN labels
      /\ \A e, f \in entries : e.service = f.service => e = f
      /\ \A e \in entries :
           /\ e.hostPort # 0 <=> e.service \in DOMAIN cf
           /\ e.service \in DOMAIN labels => DOMAIN e.environment = DOMAIN labels[e.service]
           /\ \A v \in DOMAIN e.environment : \A i \in DOMAIN e.environment[v] :
                ~Has(e.environment[v][i], "service")

(***************************************************************************)
(* What README.md:136 and spec.md:212 say: -f before the subcommand names  *)
(* the compose file.                                                       *)
(***************************************************************************)
FileFlagTakesEffect ==
    stage = "passthrough" /\ input.args[1] = "-f" /\ input.args[2] \notin Dashed
      => flags.composeFile = input.args[2]
=============================================================================
