------------------------------ MODULE MCInvocation ------------------------------
(***************************************************************************)
(* All short command lines in one project, and `up` in many projects.      *)
(***************************************************************************)
EXTENDS Invocation, TLC

Arguments == {"-p", "-f", "--ignore", "--port=8888", "--build", "-d", "--", "up", "ls",
              "logs", "a.yml", ""}
MaxArgs == 4
CommandLines ==
    {SubSeq(<<a, b, c, d>>, 1, n) : a, b, c, d \in Arguments, n \in 0 .. MaxArgs}

MCJoinedFlags == {"--port=8888"}
MCOtherFlags == {"--build"}

-------------------------------------------------------------------------------
(* Names: two HTTP services may share a subdomain, or one with a database. *)

MCNameOrder == <<"App_1", "app-1", "db", "proxy">>
MCServiceSubdomain ==
    [n \in {"App_1", "app-1", "db", "proxy", "shop"} |-> IF n = "App_1" THEN "app-1" ELSE n]

MCEnv == [WEB |-> <<Num(8080)>>, EMPTY |-> <<>>,
          PAIR |-> <<Num(8080), Colon, Num(80)>>]
None == <<>>

Published(port) == <<Num(9000), Colon, Num(port)>>

\* "3000", "8080:80", "127.0.0.1:5432:5432", "0.0.0.0:9000:80/tcp", and such with
\* variables, and a UDP port.
MCDocumented ==
    (<<Num(3000)>>                  :> [containerPort |-> 3000, tcp |-> TRUE]) @@
    (Published(80)                  :> [containerPort |-> 80, tcp |-> TRUE]) @@
    (<<Text("127.0.0.1"), Colon, Num(5432), Colon, Num(5432)>>
                                    :> [containerPort |-> 5432, tcp |-> TRUE]) @@
    (<<Text("0.0.0.0"), Colon>> \o Published(80) \o <<Slash, Text("tcp")>>
                                    :> [containerPort |-> 80, tcp |-> TRUE]) @@
    (<<Var("WEB", <<Num(1)>>), Colon, Var("UNSET", <<Num(81)>>)>>
                                    :> [containerPort |-> 81, tcp |-> TRUE]) @@
    (<<Var("PAIR", None)>>          :> [containerPort |-> 80, tcp |-> TRUE]) @@
    (Published(53) \o <<Slash, Text("udp")>>
                                    :> [containerPort |-> 53, tcp |-> FALSE])

\* A range, a mapping in the long form, a variable that is set to nothing.
Unread ==
    {<<Text("3000-3005")>>, <<Text("map[published"), Colon, Text("80 target"), Colon, Text("80]")>>,
     <<Var("EMPTY", <<Num(80)>>), Colon, Num(80)>>}

Tcp53 == Published(53) \o <<Slash, Text("udp")>>
PortLists ==
    {<<>>} \cup {<<p>> : p \in DOMAIN MCDocumented \cup Unread}
      \cup {<<Tcp53, p>> : p \in {<<Num(3000)>>, Published(80)}}
      \cup {<<p, Published(80)>> : p \in Unread}

Url(s) == <<Text("to "), Hole(s, "url")>>
LabelLists ==
    {<<>>, <<Label("A", Url("app-1"))>>, <<Label("A", Url("db")), Foreign>>,
     <<Label("A", Url("nobody")), Label("A", Url("App_1"))>>,
     <<Label("A", <<Hole("db", "host")>>), Label("B", <<Hole("db", "port")>>)>>,
     <<Label("P", <<Hole("proxy", "port")>>)>>, <<Label("P", <<Hole("proxy", "url")>>)>>,
     <<Label("A", <<Hole("db", "name")>>)>>}

Service(ports, labels) == [ports |-> ports, labels |-> labels]
Web == Service(<<Published(80)>>, <<>>)
Database == Service(<<<<Num(5432)>>>>, <<>>)

\* Two services in full variety, and three that share a subdomain.
Pairs ==
    {(a :> Service(ports, <<>>)) @@ (b :> Service(q, labels)) :
       a \in {"App_1"}, b \in {"app-1", "db", "proxy"}, ports \in PortLists, q \in PortLists,
       labels \in LabelLists}
Triples ==
    {"App_1" :> Service(a, <<>>) @@ "app-1" :> Service(b, <<>>) @@ "db" :> Service(c, l) :
       a, b, c \in {<<>>, <<Published(80)>>, <<<<Num(5432)>>>>}, l \in LabelLists}

Input(args, files, services) ==
    [args |-> args, project |-> "shop", files |-> files, services |-> services]

OneProject == "App_1" :> Web @@ "db" :> Database
FileSets == SUBSET {"docker-compose.yaml", "compose.yaml", "a.yml"}

MCInputs ==
    {Input(args, {"compose.yaml", "a.yml"}, OneProject) : args \in CommandLines}
      \cup {Input(args, files, OneProject) : args \in {<<"up">>, <<"logs">>}, files \in FileSets}
      \cup {Input(<<"up">>, {"compose.yaml"}, services) : services \in Pairs \cup Triples}
=============================================================================
