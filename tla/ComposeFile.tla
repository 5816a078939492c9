------------------------------ MODULE ComposeFile ------------------------------
(***************************************************************************)
(* What is read from a compose file: services and their ports (parse.go),  *)
(* hostnames, and the environment labels (envlabel.go).                    *)
(*                                                                         *)
(* A port string is a sequence of tokens, as many as matter for its        *)
(* reading: numbers, the two separators, references to variables, and      *)
(* other text.  Between two separators there is at most one token.         *)
(***************************************************************************)
EXTENDS Naturals, SequencesExt, FiniteSetsExt

CONSTANTS
    Env,              \* the variables that are set, with their values
    ServiceSubdomain  \* each name with lower case for upper and - for _

-------------------------------------------------------------------------------
(* Tokens *)

Num(n) == [num |-> n]
Text(t) == [text |-> t]
Colon == Text(":")
Slash == Text("/")
Var(v, default) == [var |-> v, default |-> default]   \* ${v:-default}, ${v}

Has(token, field) == field \in DOMAIN token

\* A variable that is set has its value, be it empty.
expandEnvVar(s) ==
    FlattenSeq([i \in DOMAIN s |->
       IF ~Has(s[i], "var") THEN <<s[i]>>
       ELSE IF s[i].var \in DOMAIN Env THEN Env[s[i].var]
       ELSE s[i].default])

\* strconv.Atoi reads what is between two separators.
IsNumber(s, before, after) == after = before + 2 /\ Has(s[before + 1], "num")

-------------------------------------------------------------------------------
(* The file.  Files are those there are in the project. *)

composeFileNames ==
    <<"docker-compose.yml", "docker-compose.yaml", "compose.yml", "compose.yaml">>

NoFile == ""
FindComposeFile(files, given) ==
    LET found == {i \in DOMAIN composeFileNames : composeFileNames[i] \in files} IN
    IF given # NoFile THEN IF given \in files THEN given ELSE NoFile
    ELSE IF found = {} THEN NoFile
    ELSE composeFileNames[Min(found)]

-------------------------------------------------------------------------------
(* Ports *)

NoMapping == [unreadable |-> TRUE]

\* The next definition with the port's place counted from the front.
parsePortByPlace(s) ==
    LET expanded == expandEnvVar(s)
        slashes == {i \in DOMAIN expanded : expanded[i] = Slash}
        end == IF slashes = {} THEN Len(expanded) + 1 ELSE Max(slashes)
        colons == {i \in 1 .. end - 1 : expanded[i] = Colon}
        first == Min(colons \cup {end})
        second == Min((colons \ {first}) \cup {end})
    IN  IF /\ Cardinality(colons) <= 2
           /\ IsNumber(expanded, 0, first)
           /\ colons # {} => IsNumber(expanded, first, second)
          THEN [containerPort |-> expanded[IF colons = {} THEN 1 ELSE first + 1].num,
                protocol |-> SubSeq(expanded, end + 1, Len(expanded))]
          ELSE NoMapping

\* [[ip:]host:]container[/protocol]: the container port is what follows the last
\* colon.  The host port before it has to be a number, but is not used.
parsePortString(s) ==
    LET expanded == expandEnvVar(s)
        slashes == {i \in DOMAIN expanded : expanded[i] = Slash}
        end == IF slashes = {} THEN Len(expanded) + 1 ELSE Max(slashes)
        colons == {i \in 1 .. end - 1 : expanded[i] = Colon}
        last == Max(colons \cup {0})
        lastButOne == Max((colons \ {last}) \cup {0})
    IN  IF /\ Cardinality(colons) <= 2
           /\ IsNumber(expanded, last, end)
           /\ colons # {} => IsNumber(expanded, lastButOne, last)
          THEN [containerPort |-> expanded[end - 1].num,
                protocol |-> SubSeq(expanded, end + 1, Len(expanded))]
          ELSE NoMapping

IsTCP(mapping) == mapping # NoMapping /\ mapping.protocol \in {<<>>, <<Text("tcp")>>}

parseFirstTCPPort(rawPorts) ==
    LET tcp == {i \in DOMAIN rawPorts : IsTCP(parsePortString(rawPorts[i]))}
    IN  IF tcp = {} THEN NoMapping ELSE parsePortString(rawPorts[Min(tcp)])

wellKnownTCPPorts ==
    {3306, 5432, 6379, 27017, 9042, 5672, 11211, 2181, 9092, 6380, 26379}

ClassifyPort(containerPort) == IF containerPort \in wellKnownTCPPorts THEN "tcp" ELSE "http"

\* The services with a port: [containerPort, type] for each name.
Parse(services, ignored) ==
    LET first(name) == parseFirstTCPPort(services[name].ports)
        names == {name \in DOMAIN services \ ignored : first(name) # NoMapping}
    IN  [name \in names |-> [containerPort |-> first(name).containerPort,
                             type |-> ClassifyPort(first(name).containerPort)]]

BuildHostname(service, project) == <<ServiceSubdomain[service], ServiceSubdomain[project]>>

-------------------------------------------------------------------------------
(* Environment labels *)

\* A label portless-docker.env.<var>, and one that is none of these.
Label(v, template) == [ours |-> v, value |-> template]
Foreign == [foreign |-> "label"]

\* Of two labels for a variable, which the list form allows, the last one counts.
extractEnvLabels(labels) ==
    LET ours == {i \in DOMAIN labels : Has(labels[i], "ours")}
        at(v) == Max({i \in ours : labels[i].ours = v})
    IN  [v \in {labels[i].ours : i \in ours} |-> labels[at(v)].value]

ParseEnvLabels(services) ==
    LET labels(name) == extractEnvLabels(services[name].labels)
    IN  [name \in {n \in DOMAIN services : DOMAIN labels(n) # {}} |-> labels(name)]

\* The placeholder {{service.property}} of a template; what templatePattern does
\* not match, such as {{ service.property }}, is text.
Hole(service, property) == [service |-> service, property |-> property]

CanResolve(token, endpoints) ==
    \/ Has(token, "text")
    \/ Has(token, "service") /\ token.service = "proxy" /\ token.property = "port"
    \/ /\ Has(token, "service") /\ token.service \in DOMAIN endpoints \ {"proxy"}
       /\ token.property \in {"url", "host", "port"}

Resolved(token, endpoints, proxyPort) ==
    IF Has(token, "text") THEN token
    ELSE IF token.service = "proxy" THEN [port |-> proxyPort]
    ELSE LET ep == endpoints[token.service] IN
         CASE token.property = "url"  ->
                [http |-> ep.type = "http", host |-> ep.hostname, port |-> ep.port]
           [] token.property = "host" -> [host |-> ep.hostname]
           [] token.property = "port" -> [port |-> ep.port]

\* The first error ends it.
CanResolveAll(labels, endpoints) ==
    \A name \in DOMAIN labels : \A v \in DOMAIN labels[name] :
       \A i \in DOMAIN labels[name][v] : CanResolve(labels[name][v][i], endpoints)

ResolveEnvTemplate(template, endpoints, proxyPort) ==
    [i \in DOMAIN template |-> Resolved(template[i], endpoints, proxyPort)]

ResolveAllEnvLabels(labels, endpoints, proxyPort) ==
    [name \in DOMAIN labels |->
       [v \in DOMAIN labels[name] |->
          ResolveEnvTemplate(labels[name][v], endpoints, proxyPort)]]
=============================================================================
