-------------------------------- MODULE CliArgs --------------------------------
(***************************************************************************)
(* What becomes of the arguments of portless-docker on their way to docker *)
(* compose: Execute in root.go, newPassthroughCmd and the readers of the   *)
(* subcommand's arguments in passthrough.go.  Arguments are strings whose  *)
(* first characters matter only as far as these sets say.                  *)
(***************************************************************************)
EXTENDS Naturals, SequencesExt, FiniteSetsExt

CONSTANTS
    JoinedFlags,  \* arguments that begin with --port=, --file=, --ignore=, -p= or -f=
    OtherFlags    \* other arguments that begin with - than those named here

ValueFlags == {"-p", "--port", "-f", "--file", "--ignore"}
Dashed == ValueFlags \cup JoinedFlags \cup OtherFlags \cup {"--", "-d", "--detach"}

knownCmds == {"ls", "stop", "__passthrough", "__proxy", "help", "completion"}

NoCommand == ""

\* No command begins with -.
ASSUME FlagsAssumption ==
    (JoinedFlags \cup OtherFlags) \cap (knownCmds \cup {NoCommand}) = {}

Search(found, skipNext, subcmd) ==
    [found |-> found, skipNext |-> skipNext, subcmd |-> subcmd]

\* One turn of the loop of findSubcommand; `found` ends it.
FindStep(acc, arg) ==
    IF acc.found THEN acc
    ELSE IF acc.skipNext THEN Search(FALSE, FALSE, NoCommand)
    ELSE IF arg = "--" THEN Search(TRUE, FALSE, NoCommand)
    ELSE IF arg \in Dashed THEN Search(FALSE, arg \in ValueFlags, NoCommand)
    ELSE Search(TRUE, FALSE, arg)

findSubcommand(args) ==
    LET after[i \in 0 .. Len(args)] ==
          IF i = 0 THEN Search(FALSE, FALSE, NoCommand) ELSE FindStep(after[i - 1], args[i])
    IN  after[Len(args)].subcmd

shouldPassthrough(args) == findSubcommand(args) \notin knownCmds \cup {NoCommand}

\* One turn of the loop of splitGlobalFlags: from the first argument that is
\* neither a flag nor the value of a global flag on, everything is passed on;
\* before it, global flags are kept and others dropped.
SplitStep(acc, arg) ==
    IF acc.passthroughArgs # <<>>
      THEN [acc EXCEPT !.passthroughArgs = Append(@, arg)]
    ELSE IF acc.skipNext
      THEN [acc EXCEPT !.skipNext = FALSE, !.globalFlags = Append(@, arg)]
    ELSE IF arg \in ValueFlags
      THEN [acc EXCEPT !.skipNext = TRUE, !.globalFlags = Append(@, arg)]
    ELSE IF arg \in JoinedFlags
      THEN [acc EXCEPT !.globalFlags = Append(@, arg)]
    ELSE IF arg \in Dashed THEN acc
    ELSE [acc EXCEPT !.passthroughArgs = <<arg>>]

splitGlobalFlags(args) ==
    LET after[i \in 0 .. Len(args)] ==
          IF i = 0 THEN [skipNext |-> FALSE, globalFlags |-> <<>>, passthroughArgs |-> <<>>]
          ELSE SplitStep(after[i - 1], args[i])
    IN  after[Len(args)]

\* Execute: os.Args without the program's name.
Execute(args) ==
    LET split == splitGlobalFlags(args) IN
    IF shouldPassthrough(args)
      THEN <<"__passthrough">> \o split.globalFlags \o <<"--">> \o split.passthroughArgs
      ELSE args

\* The next definition with the last "--".
passthroughArgsAfterLast(argv) ==
    LET dashes == {i \in DOMAIN argv : argv[i] = "--"} IN
    IF dashes = {} THEN <<>> ELSE SubSeq(argv, Max(dashes) + 1, Len(argv))

\* newPassthroughCmd: what follows the first "--".
passthroughArgsOf(argv) ==
    LET dashes == {i \in DOMAIN argv : argv[i] = "--"} IN
    IF dashes = {} THEN <<>> ELSE SubSeq(argv, Min(dashes) + 1, Len(argv))

isDetachedMode(args) ==
    \E i \in DOMAIN args :
       args[i] \in {"-d", "--detach"} /\ \A j \in 1 .. i - 1 : args[j] # "--"

shouldCleanup(args) ==
    \/ args[1] \in {"down", "stop"}
    \/ args[1] = "up" /\ ~isDetachedMode(args)

\* Flags that runPassthrough sees, of the ones given: a command with
\* DisableFlagParsing has cobra parse none.
NoFlags == [composeFile |-> "", ignoreServices |-> <<>>]
ParsedFlags(argv) == NoFlags

\* The services in the list of --ignore.
getIgnoredServices(flags) == {flags.ignoreServices[i] : i \in DOMAIN flags.ignoreServices}

NoOverride == ""
buildComposeArgs(composePath, overridePath, userArgs) ==
    <<"-f", composePath>>
      \o (IF overridePath = NoOverride THEN <<>> ELSE <<"-f", overridePath>>)
      \o userArgs
=============================================================================
