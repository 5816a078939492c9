---------------------------- MODULE InvocationProofs ----------------------------
(***************************************************************************)
(* What becomes of one command, proved for all command lines, projects,    *)
(* compose files and labels.                                               *)
(***************************************************************************)
EXTENDS Invocation, SequenceTheorems, FiniteSetTheorems, WellFoundedInduction, TLAPS

-------------------------------------------------------------------------------
(* Natural numbers *)

\* Min is the smallest element, and there is one.
LEMMA MinOfNaturals ==
    ASSUME NEW S \in SUBSET Nat, S # {}
    PROVE  Min(S) \in S /\ \A y \in S : Min(S) <= y
<1>1. PICK x \in S : \A y \in S : <<y, x>> \notin OpToRel(<, Nat)
  BY NatLessThanWellFounded, WFMin
<1>2. \A y \in S : x <= y
  <2>. TAKE y \in S
  <2>1. <<y, x>> \in Nat \X Nat
    OBVIOUS
  <2>2. ~(y < x)
    BY <1>1, <2>1, Zenon DEF OpToRel
  <2>. QED
    BY <2>2, SMT
<1>. QED
  BY <1>2, Zenon DEF Min

\* Max is the largest element of a set that is not empty and has a bound.
LEMMA MaxOfNaturals ==
    ASSUME NEW n \in Nat, NEW S \in SUBSET (0 .. n), S # {}
    PROVE  Max(S) \in S /\ \A y \in S : Max(S) >= y
<1>. DEFINE T == {n - y : y \in S}
<1>1. T \in SUBSET Nat
  <2>. SUFFICES ASSUME NEW y \in S PROVE n - y \in Nat
    OBVIOUS
  <2>. QED
    BY y \in 0 .. n, SMT
<1>2. PICK x \in S : n - x = Min(T) /\ \A y \in T : Min(T) <= y
  <2>1. T # {}
    OBVIOUS
  <2>. QED
    BY <1>1, <2>1, MinOfNaturals
<1>3. \A y \in S : n - x <= n - y
  BY <1>2
<1>4. \A y \in S : x >= y
  BY <1>3
<1>. QED
  BY <1>4, Zenon DEF Max

\* Induction up to n, as a fact about sets.
LEMMA UpTo ==
    ASSUME NEW n \in Nat, NEW S, 0 \in S, \A i \in 1 .. n : i - 1 \in S => i \in S
    PROVE  0 .. n \subseteq S
<1>. DEFINE missing == {i \in 0 .. n : i \notin S}
<1>. SUFFICES ASSUME missing # {} PROVE FALSE
  OBVIOUS
<1>1. Min(missing) \in missing /\ \A y \in missing : Min(missing) <= y
  BY MinOfNaturals
<1>2. Min(missing) \in 1 .. n
  BY <1>1
<1>3. Min(missing) - 1 \in 0 .. n /\ ~(Min(missing) <= Min(missing) - 1)
  BY <1>2
<1>4. Min(missing) - 1 \in S
  BY <1>1, <1>3
<1>. QED
  BY <1>1, <1>2, <1>4

\* What a loop of n turns computes, turn by turn.
IsLoop(f, n, X, start, step) ==
    /\ f \in [0 .. n -> X]
    /\ f[0] = start
    /\ \A i \in 1 .. n : f[i] = step[<<f[i - 1], i>>]

(***************************************************************************)
(* A loop has a value after each of its turns: the function that a         *)
(* definition by recursion over 0 .. n names does exist.                   *)
(***************************************************************************)
LEMMA LoopExists ==
    ASSUME NEW n \in Nat, NEW X, NEW start \in X, NEW step \in [X \X (1 .. n) -> X]
    PROVE  \E f : IsLoop(f, n, X, start, step)
<1>. DEFINE Runs(f, m) == \A i \in 0 .. m : f[i] = IF i = 0 THEN start ELSE step[<<f[i - 1], i>>]
            S == {m \in 0 .. n : \E f \in [0 .. m -> X] : Runs(f, m)}
<1>1. 0 \in S
  <2>. DEFINE f == [i \in 0 .. 0 |-> start]
  <2>1. f \in [0 .. 0 -> X] /\ Runs(f, 0)
    OBVIOUS
  <2>. HIDE DEF f
  <2>2. \E g \in [0 .. 0 -> X] : Runs(g, 0)
    BY <2>1
  <2>. QED
    BY <2>2
<1>2. ASSUME NEW m \in 1 .. n, m - 1 \in S PROVE m \in S
  <2>1. PICK f \in [0 .. m - 1 -> X] : Runs(f, m - 1)
    BY <1>2
  <2>. DEFINE g == [i \in 0 .. m |-> IF i = m THEN step[<<f[m - 1], m>>] ELSE f[i]]
  <2>2. f[m - 1] \in X
    OBVIOUS
  <2>3. step[<<f[m - 1], m>>] \in X
    BY <2>2
  <2>4. g \in [0 .. m -> X]
    BY <2>3
  <2>5. ASSUME NEW i \in 0 .. m
        PROVE  g[i] = IF i = 0 THEN start ELSE step[<<g[i - 1], i>>]
    <3>1. CASE i = m
      <4>1. g[m - 1] = f[m - 1]
        OBVIOUS
      <4>. HIDE DEF Runs
      <4>2. g[i] = step[<<f[m - 1], m>>] /\ i # 0
        BY <3>1
      <4>. HIDE DEF g
      <4>. QED
        BY <3>1, <4>1, <4>2
    <3>2. CASE i # m
      <4>1. i \in 0 .. m - 1 /\ g[i] = f[i]
        BY <3>2
      <4>2. i # 0 => g[i - 1] = f[i - 1]
        BY <3>2
      <4>. QED
        BY <2>1, <4>1, <4>2
    <3>. QED
      BY <3>1, <3>2
  <2>. HIDE DEF g
  <2>6. Runs(g, m)
    BY <2>5
  <2>. QED
    BY <2>4, <2>6
<1>. HIDE DEF S
<1>3. n \in S
  BY <1>1, <1>2, UpTo
<1>4. PICK f \in [0 .. n -> X] : Runs(f, n)
  BY <1>3 DEF S
<1>5. \A i \in 0 .. n : f[i] = IF i = 0 THEN start ELSE step[<<f[i - 1], i>>]
  BY <1>4, Zenon
<1>6. f[0] = start /\ \A i \in 1 .. n : f[i] = step[<<f[i - 1], i>>]
  <2>1. 0 \in 0 .. n /\ \A i \in 1 .. n : i \in 0 .. n /\ i # 0
    OBVIOUS
  <2>. HIDE DEF Runs
  <2>. QED
    BY <1>5, <2>1
<1>. HIDE DEF Runs
<1>. QED
  BY <1>6 DEF IsLoop

-------------------------------------------------------------------------------
(* The loops of root.go *)

FindStates == [found : BOOLEAN, skipNext : BOOLEAN, subcmd : STRING \cup {NoCommand}]
FindStart == Search(FALSE, FALSE, NoCommand)

\* The turns of the loop, as long as nothing is found, and after that.
LEMMA FindSteps ==
    ASSUME NEW arg, NEW c
    PROVE  /\ FindStep(Search(TRUE, FALSE, c), arg) = Search(TRUE, FALSE, c)
           /\ FindStep(Search(FALSE, TRUE, NoCommand), arg) = Search(FALSE, FALSE, NoCommand)
           /\ arg \in Dashed \ {"--"} =>
                FindStep(Search(FALSE, FALSE, NoCommand), arg)
                  = Search(FALSE, arg \in ValueFlags, NoCommand)
           /\ arg \notin Dashed =>
                FindStep(Search(FALSE, FALSE, NoCommand), arg) = Search(TRUE, FALSE, arg)
<1>1. FindStep(Search(TRUE, FALSE, c), arg) = Search(TRUE, FALSE, c)
  BY DEF FindStep, Search
<1>2. FindStep(Search(FALSE, TRUE, NoCommand), arg) = Search(FALSE, FALSE, NoCommand)
  BY DEF FindStep, Search
<1>3. ~Search(FALSE, FALSE, NoCommand).found /\ ~Search(FALSE, FALSE, NoCommand).skipNext
  BY DEF Search
<1>4. ASSUME arg \in Dashed \ {"--"}
      PROVE  FindStep(Search(FALSE, FALSE, NoCommand), arg)
               = Search(FALSE, arg \in ValueFlags, NoCommand)
  BY <1>3, <1>4, Zenon DEF FindStep
<1>5. ASSUME arg \notin Dashed
      PROVE  FindStep(Search(FALSE, FALSE, NoCommand), arg) = Search(TRUE, FALSE, arg)
  <2>1. arg # "--"
    BY <1>5 DEF Dashed
  <2>. QED
    BY <1>3, <1>5, <2>1, Zenon DEF FindStep
<1>. QED
  BY <1>1, <1>2, <1>4, <1>5, Zenon

LEMMA FindLoop ==
    ASSUME NEW args \in Seq(STRING)
    PROVE  \E f : /\ f[0] = FindStart
                  /\ \A i \in 1 .. Len(args) : f[i] = FindStep(f[i - 1], args[i])
                  /\ findSubcommand(args) = f[Len(args)].subcmd
<1>. DEFINE n == Len(args)
            step == [p \in FindStates \X (1 .. n) |-> FindStep(p[1], args[p[2]])]
            after == CHOOSE g : g = [i \in 0 .. n |-> IF i = 0 THEN FindStart
                                                      ELSE FindStep(g[i - 1], args[i])]
<1>1. n \in Nat /\ \A i \in 1 .. n : args[i] \in STRING
  OBVIOUS
<1>2. ASSUME NEW acc \in FindStates, NEW i \in 1 .. n PROVE FindStep(acc, args[i]) \in FindStates
  <2>1. \A b \in BOOLEAN : \A x \in BOOLEAN : \A c \in STRING \cup {NoCommand} :
           Search(b, x, c) \in FindStates
    BY DEF Search, FindStates
  <2>2. args[i] \in STRING \cup {NoCommand} /\ NoCommand \in STRING \cup {NoCommand}
    BY <1>1
  <2>. QED
    BY <2>1, <2>2, (args[i] \in ValueFlags) \in BOOLEAN, Zenon DEF FindStep
<1>. HIDE DEF n
<1>3. step \in [FindStates \X (1 .. n) -> FindStates]
  BY <1>2
<1>4. FindStart \in FindStates
  BY DEF FindStart, FindStates, Search
<1>. HIDE DEF step
<1>5. PICK f : IsLoop(f, n, FindStates, FindStart, step)
  BY <1>1, <1>3, <1>4, LoopExists, Zenon
<1>6. ASSUME NEW i \in 0 .. n, i # 0 PROVE step[<<f[i - 1], i>>] = FindStep(f[i - 1], args[i])
  BY <1>1, <1>5, <1>6, <<f[i - 1], i>> \in FindStates \X (1 .. n) DEF step, IsLoop
<1>7. f = [i \in 0 .. n |-> IF i = 0 THEN FindStart ELSE FindStep(f[i - 1], args[i])]
  <2>1. ASSUME NEW i \in 0 .. n
        PROVE  f[i] = IF i = 0 THEN FindStart ELSE FindStep(f[i - 1], args[i])
    <3>1. i # 0 => i \in 1 .. n
      BY <1>1
    <3>. QED
      BY <1>5, <1>6, <3>1, Zenon DEF IsLoop
  <2>2. f \in [0 .. n -> FindStates]
    BY <1>5 DEF IsLoop
  <2>. QED
    BY <2>1, <2>2
<1>8. after = [i \in 0 .. n |-> IF i = 0 THEN FindStart ELSE FindStep(after[i - 1], args[i])]
  BY <1>7
<1>9. findSubcommand(args) = after[n].subcmd
  BY DEF findSubcommand, FindStart, n
<1>. HIDE DEF after
<1>10. after[0] = FindStart /\ \A i \in 1 .. n : after[i] = FindStep(after[i - 1], args[i])
  BY <1>1, <1>8
<1>. QED
  BY <1>9, <1>10 DEF n

SplitStates ==
    [skipNext : BOOLEAN, globalFlags : Seq(STRING), passthroughArgs : Seq(STRING)]
SplitStart == [skipNext |-> FALSE, globalFlags |-> <<>>, passthroughArgs |-> <<>>]

LEMMA SplitLoop ==
    ASSUME NEW args \in Seq(STRING)
    PROVE  \E f : /\ f[0] = SplitStart
                  /\ \A i \in 0 .. Len(args) : f[i] \in SplitStates
                  /\ \A i \in 1 .. Len(args) : f[i] = SplitStep(f[i - 1], args[i])
                  /\ splitGlobalFlags(args) = f[Len(args)]
<1>. DEFINE n == Len(args)
            step == [p \in SplitStates \X (1 .. n) |-> SplitStep(p[1], args[p[2]])]
            after == CHOOSE g : g = [i \in 0 .. n |-> IF i = 0 THEN SplitStart
                                                      ELSE SplitStep(g[i - 1], args[i])]
<1>1. n \in Nat /\ \A i \in 1 .. n : args[i] \in STRING
  OBVIOUS
<1>2. ASSUME NEW acc \in SplitStates, NEW i \in 1 .. n
      PROVE  SplitStep(acc, args[i]) \in SplitStates
  <2>1. /\ Append(acc.passthroughArgs, args[i]) \in Seq(STRING)
        /\ Append(acc.globalFlags, args[i]) \in Seq(STRING)
        /\ <<args[i]>> \in Seq(STRING)
    BY <1>1, AppendProperties DEF SplitStates
  <2>. HIDE DEF n
  <2>. QED
    BY <1>1, <2>1 DEF SplitStep, SplitStates
<1>. HIDE DEF n
<1>3. step \in [SplitStates \X (1 .. n) -> SplitStates]
  BY <1>2
<1>4. SplitStart \in SplitStates
  BY DEF SplitStart, SplitStates
<1>. HIDE DEF step
<1>5. PICK f : IsLoop(f, n, SplitStates, SplitStart, step)
  BY <1>1, <1>3, <1>4, LoopExists, Zenon
<1>6. ASSUME NEW i \in 0 .. n, i # 0 PROVE step[<<f[i - 1], i>>] = SplitStep(f[i - 1], args[i])
  BY <1>1, <1>5, <1>6, <<f[i - 1], i>> \in SplitStates \X (1 .. n) DEF step, IsLoop
<1>7. f = [i \in 0 .. n |-> IF i = 0 THEN SplitStart ELSE SplitStep(f[i - 1], args[i])]
  <2>1. ASSUME NEW i \in 0 .. n
        PROVE  f[i] = IF i = 0 THEN SplitStart ELSE SplitStep(f[i - 1], args[i])
    <3>1. i # 0 => i \in 1 .. n
      BY <1>1
    <3>. QED
      BY <1>5, <1>6, <3>1, Zenon DEF IsLoop
  <2>2. f \in [0 .. n -> SplitStates]
    BY <1>5 DEF IsLoop
  <2>. QED
    BY <2>1, <2>2
<1>8. after = [i \in 0 .. n |-> IF i = 0 THEN SplitStart ELSE SplitStep(after[i - 1], args[i])]
  BY <1>7
<1>9. splitGlobalFlags(args) = after[n]
  BY DEF splitGlobalFlags, SplitStart, n
<1>. HIDE DEF after
<1>10. after[0] = SplitStart /\ \A i \in 1 .. n : after[i] = SplitStep(after[i - 1], args[i])
  BY <1>1, <1>8
<1>. DEFINE typed == {i \in 0 .. n : after[i] \in SplitStates}
<1>11. 0 .. n \subseteq typed
  <2>1. 0 \in typed
    BY <1>1, <1>4, <1>10
  <2>2. ASSUME NEW i \in 1 .. n, i - 1 \in typed PROVE i \in typed
    BY <1>1, <1>2, <1>10, <2>2
  <2>. QED
    BY <1>1, <2>1, <2>2, UpTo
<1>. QED
  BY <1>9, <1>10, <1>11 DEF n

\* Which arguments are values of global flags.
LEMMA ValuesOf ==
    ASSUME NEW args \in Seq(STRING)
    PROVE  /\ Len(args) # 0 => IsValue(args)[1] = FALSE
           /\ \A i \in 2 .. Len(args) :
                 IsValue(args)[i] = (args[i - 1] \in ValueFlags /\ ~IsValue(args)[i - 1])
<1>. DEFINE n == Len(args)
            step == [p \in BOOLEAN \X (1 .. n) |->
                        p[2] > 1 /\ args[p[2] - 1] \in ValueFlags /\ ~p[1]]
            value == CHOOSE g : g = [i \in 0 .. n |->
                        i > 1 /\ args[i - 1] \in ValueFlags /\ ~g[i - 1]]
<1>1. n \in Nat
  OBVIOUS
<1>. HIDE DEF n
<1>2. step \in [BOOLEAN \X (1 .. n) -> BOOLEAN]
  OBVIOUS
<1>. HIDE DEF step
<1>3. PICK f : IsLoop(f, n, BOOLEAN, FALSE, step)
  BY <1>1, <1>2, FALSE \in BOOLEAN, LoopExists, Zenon
<1>4. ASSUME NEW i \in 0 .. n, i # 0
      PROVE  step[<<f[i - 1], i>>] = (i > 1 /\ args[i - 1] \in ValueFlags /\ ~f[i - 1])
  BY <1>1, <1>3, <1>4, <<f[i - 1], i>> \in BOOLEAN \X (1 .. n) DEF step, IsLoop
<1>5. f = [i \in 0 .. n |-> i > 1 /\ args[i - 1] \in ValueFlags /\ ~f[i - 1]]
  BY <1>1, <1>3, <1>4 DEF IsLoop
<1>6. value = [i \in 0 .. n |-> i > 1 /\ args[i - 1] \in ValueFlags /\ ~value[i - 1]]
  BY <1>5
<1>7. IsValue(args) = value
  BY DEF IsValue, n
<1>. HIDE DEF value
<1>8. \A i \in 0 .. n : value[i] = (i > 1 /\ args[i - 1] \in ValueFlags /\ ~value[i - 1])
  BY <1>6
<1>9. n # 0 => value[1] = FALSE
  <2>1. n # 0 => 1 \in 0 .. n /\ (1 > 1) = FALSE
    BY <1>1
  <2>. QED
    BY <1>8, <2>1, Zenon
<1>10. \A i \in 2 .. n : i \in 0 .. n /\ i > 1
  BY <1>1
<1>. QED
  BY <1>7, <1>8, <1>9, <1>10, Zenon DEF n

-------------------------------------------------------------------------------
(* Where the subcommand is *)

LEMMA ValuesAreBoolean ==
    ASSUME NEW args \in Seq(STRING), NEW i \in 1 .. Len(args)
    PROVE  IsValue(args)[i] \in BOOLEAN
<1>1. Len(args) \in Nat
  BY LenProperties
<1>2. CASE i = 1
  <2>1. Len(args) # 0
    BY <1>1
  <2>. QED
    BY <1>2, <2>1, ValuesOf, Zenon
<1>3. CASE i # 1
  <2>1. i \in 2 .. Len(args)
    BY <1>1, <1>3
  <2>. QED
    BY <2>1, ValuesOf, Zenon
<1>. QED
  BY <1>2, <1>3

LEMMA WordsFacts ==
    ASSUME NEW args \in Seq(STRING), Words(args) # {}
    PROVE  LET at == Min(Words(args)) IN
           /\ at \in 1 .. Len(args)
           /\ args[at] \notin Dashed /\ IsValue(args)[at] = FALSE
           /\ \A i \in 1 .. at - 1 : args[i] \in Dashed \/ IsValue(args)[i]
<1>1. Len(args) \in Nat /\ DOMAIN args = 1 .. Len(args)
  BY LenProperties
<1>2. Words(args) \in SUBSET (1 .. Len(args))
  BY <1>1 DEF Words
<1>3. Min(Words(args)) \in Words(args) /\ \A y \in Words(args) : Min(Words(args)) <= y
  BY <1>2, MinOfNaturals
<1>4. \A i \in 1 .. Min(Words(args)) - 1 : i \in DOMAIN args /\ i \notin Words(args)
  BY <1>1, <1>2, <1>3
<1>5. \A i \in 1 .. Len(args) : IsValue(args)[i] \in BOOLEAN
  BY ValuesAreBoolean
<1>. QED
  BY <1>1, <1>2, <1>3, <1>4, <1>5, Zenon DEF Words

\* Nothing is read as a subcommand when there is none.
LEMMA FindsSubcommand ==
    ASSUME NEW args \in Seq(STRING), Words(args) # {},
           \A i \in Dashes(args) : i > Min(Words(args))
    PROVE  findSubcommand(args) = args[Min(Words(args))]
<1>. DEFINE n == Len(args)
            at == Min(Words(args))
<1>1. PICK f : /\ f[0] = FindStart
               /\ \A i \in 1 .. n : f[i] = FindStep(f[i - 1], args[i])
               /\ findSubcommand(args) = f[n].subcmd
  BY FindLoop
<1>2. /\ at \in 1 .. n
      /\ args[at] \notin Dashed /\ IsValue(args)[at] = FALSE
      /\ \A i \in 1 .. at - 1 : args[i] \in Dashed \/ IsValue(args)[i]
  BY WordsFacts
<1>3. n \in Nat /\ DOMAIN args = 1 .. n
  BY LenProperties
<1>4. IsValue(args)[1] = FALSE
  <2>1. n # 0
    BY <1>2, <1>3
  <2>. QED
    BY <2>1, ValuesOf, Zenon
<1>5. \A i \in 2 .. n :
         IsValue(args)[i] = (args[i - 1] \in ValueFlags /\ ~IsValue(args)[i - 1])
  BY ValuesOf
<1>6. \A i \in 1 .. at - 1 : args[i] # "--"
  BY <1>2, <1>3 DEF Dashes
<1>. HIDE DEF n, at
<1>. DEFINE Searching(i) == f[i] = Search(FALSE, IsValue(args)[i + 1], NoCommand)
            searching == {i \in 0 .. at - 1 : Searching(i)}
            done == {i \in 0 .. n : i >= at => f[i] = f[at]}
<1>7. Searching(0)
  BY <1>1, <1>4, 0 + 1 = 1 DEF FindStart
<1>8. ASSUME NEW i \in 1 .. at - 1, Searching(i - 1) PROVE Searching(i)
  <2>1. i \in 1 .. n /\ i + 1 \in 2 .. n /\ (i + 1) - 1 = i /\ (i - 1) + 1 = i
    BY <1>2, <1>3
  <2>2. f[i - 1] = Search(FALSE, IsValue(args)[i], NoCommand)
    BY <1>8, <2>1
  <2>3. IsValue(args)[i + 1] = (args[i] \in ValueFlags /\ ~IsValue(args)[i])
    BY <1>5, <2>1
  <2>4. f[i] = FindStep(f[i - 1], args[i])
    BY <1>1, <2>1
  <2>5. CASE IsValue(args)[i] = TRUE
    <3>1. IsValue(args)[i + 1] = FALSE
      BY <2>3, <2>5
    <3>. QED
      BY <2>2, <2>4, <2>5, <3>1, FindSteps, Zenon
  <2>6. CASE IsValue(args)[i] = FALSE
    <3>1. args[i] \in Dashed \ {"--"}
      BY <1>2, <1>6, <2>6
    <3>2. IsValue(args)[i + 1] = (args[i] \in ValueFlags)
      BY <2>3, <2>6
    <3>. QED
      BY <2>2, <2>4, <2>6, <3>1, <3>2, FindSteps, Zenon
  <2>7. IsValue(args)[i] \in BOOLEAN
    BY <2>1, ValuesAreBoolean DEF n
  <2>. QED
    BY <2>5, <2>6, <2>7
<1>. HIDE DEF Searching
<1>9. Searching(at - 1)
  <2>1. at - 1 \in Nat /\ 0 \in searching /\ at - 1 \in 0 .. at - 1
    BY <1>2, <1>3, <1>7
  <2>2. ASSUME NEW i \in 1 .. at - 1, i - 1 \in searching PROVE i \in searching
    BY <1>8, <2>1, <2>2
  <2>. HIDE DEF searching
  <2>3. 0 .. at - 1 \subseteq searching
    BY <2>1, <2>2, UpTo
  <2>. QED
    BY <2>1, <2>3 DEF searching
<1>10. f[at] = Search(TRUE, FALSE, args[at])
  <2>1. (at - 1) + 1 = at /\ args[at] # "--"
    BY <1>2, <1>3 DEF Dashed
  <2>2. f[at - 1] = Search(FALSE, FALSE, NoCommand)
    BY <1>2, <1>9, <2>1 DEF Searching
  <2>3. f[at] = FindStep(f[at - 1], args[at])
    BY <1>1, <1>2
  <2>4. FindStep(Search(FALSE, FALSE, NoCommand), args[at]) = Search(TRUE, FALSE, args[at])
    BY <1>2, FindSteps, Zenon
  <2>. QED
    BY <2>2, <2>3, <2>4
<1>11. n \in done
  <2>1. 0 \in done /\ n \in 0 .. n
    BY <1>2, <1>3
  <2>2. ASSUME NEW i \in 1 .. n, i - 1 \in done PROVE i \in done
    <3>1. CASE i <= at
      BY <1>2, <3>1
    <3>2. CASE i > at
      <4>1. f[i - 1] = f[at]
        BY <1>2, <2>2, <3>2
      <4>2. f[i] = f[i - 1]
        <5>1. f[i] = FindStep(f[i - 1], args[i]) /\ f[i - 1] = Search(TRUE, FALSE, args[at])
          BY <1>1, <1>10, <4>1
        <5>2. FindStep(Search(TRUE, FALSE, args[at]), args[i]) = Search(TRUE, FALSE, args[at])
          BY FindSteps, Zenon
        <5>. QED
          BY <5>1, <5>2
      <4>. QED
        BY <4>1, <4>2
    <3>. QED
      BY <1>2, <3>1, <3>2
  <2>. QED
    BY <1>3, <2>1, <2>2, UpTo
<1>12. f[n] = f[at]
  BY <1>2, <1>3, <1>11
<1>. QED
  BY <1>1, <1>10, <1>12 DEF at, Search

-------------------------------------------------------------------------------
(* What is passed on *)

Flags == STRING \ {"--"}

\* The turns of splitGlobalFlags before the subcommand, at it and after it.
LEMMA SplitSteps ==
    ASSUME NEW acc \in SplitStates, NEW arg \in STRING
    PROVE  /\ acc.passthroughArgs # <<>> =>
                /\ SplitStep(acc, arg).passthroughArgs = Append(acc.passthroughArgs, arg)
                /\ SplitStep(acc, arg).globalFlags = acc.globalFlags
           /\ acc.passthroughArgs = <<>> /\ acc.skipNext =>
                /\ SplitStep(acc, arg).passthroughArgs = <<>>
                /\ SplitStep(acc, arg).skipNext = FALSE
                /\ SplitStep(acc, arg).globalFlags = Append(acc.globalFlags, arg)
           /\ acc.passthroughArgs = <<>> /\ ~acc.skipNext /\ arg \in Dashed =>
                /\ SplitStep(acc, arg).passthroughArgs = <<>>
                /\ SplitStep(acc, arg).skipNext = (arg \in ValueFlags)
                /\ SplitStep(acc, arg).globalFlags
                     \in {acc.globalFlags, Append(acc.globalFlags, arg)}
           /\ acc.passthroughArgs = <<>> /\ ~acc.skipNext /\ arg \notin Dashed =>
                /\ SplitStep(acc, arg).passthroughArgs = <<arg>>
                /\ SplitStep(acc, arg).globalFlags = acc.globalFlags
<1>1. ASSUME acc.passthroughArgs # <<>>
      PROVE  /\ SplitStep(acc, arg).passthroughArgs = Append(acc.passthroughArgs, arg)
             /\ SplitStep(acc, arg).globalFlags = acc.globalFlags
  BY <1>1 DEF SplitStep, SplitStates
<1>2. ASSUME acc.passthroughArgs = <<>>, acc.skipNext
      PROVE  /\ SplitStep(acc, arg).passthroughArgs = <<>>
             /\ SplitStep(acc, arg).skipNext = FALSE
             /\ SplitStep(acc, arg).globalFlags = Append(acc.globalFlags, arg)
  BY <1>2 DEF SplitStep, SplitStates
<1>3. ASSUME acc.passthroughArgs = <<>>, ~acc.skipNext, arg \in Dashed
      PROVE  /\ SplitStep(acc, arg).passthroughArgs = <<>>
             /\ SplitStep(acc, arg).skipNext = (arg \in ValueFlags)
             /\ SplitStep(acc, arg).globalFlags
                  \in {acc.globalFlags, Append(acc.globalFlags, arg)}
  <2>1. acc.skipNext = FALSE
    BY <1>3 DEF SplitStates
  <2>2. CASE arg \in ValueFlags
    BY <1>3, <2>1, <2>2 DEF SplitStep, SplitStates
  <2>3. CASE arg \notin ValueFlags
    BY <1>3, <2>1, <2>3 DEF SplitStep, SplitStates
  <2>. QED
    BY <2>2, <2>3
<1>4. ASSUME acc.passthroughArgs = <<>>, ~acc.skipNext, arg \notin Dashed
      PROVE  /\ SplitStep(acc, arg).passthroughArgs = <<arg>>
             /\ SplitStep(acc, arg).globalFlags = acc.globalFlags
  BY <1>4 DEF SplitStep, SplitStates, Dashed
<1>. QED
  BY <1>1, <1>2, <1>3, <1>4, Zenon

\* All from the subcommand on is passed on, and no -- is left before it.
LEMMA PassesOn ==
    ASSUME NEW args \in Seq(STRING), Words(args) # {},
           \A i \in Dashes(args) : i > Min(Words(args))
    PROVE  /\ splitGlobalFlags(args).globalFlags \in Seq(Flags)
           /\ splitGlobalFlags(args).passthroughArgs
                = SubSeq(args, Min(Words(args)), Len(args))
<1>. DEFINE n == Len(args)
            at == Min(Words(args))
<1>1. PICK f : /\ f[0] = SplitStart
               /\ \A i \in 0 .. n : f[i] \in SplitStates
               /\ \A i \in 1 .. n : f[i] = SplitStep(f[i - 1], args[i])
               /\ splitGlobalFlags(args) = f[n]
  BY SplitLoop
<1>2. /\ at \in 1 .. n
      /\ args[at] \notin Dashed /\ IsValue(args)[at] = FALSE
      /\ \A i \in 1 .. at - 1 : args[i] \in Dashed \/ IsValue(args)[i]
  BY WordsFacts
<1>3. n \in Nat /\ DOMAIN args = 1 .. n /\ \A i \in 1 .. n : args[i] \in STRING
  BY LenProperties, ElementOfSeq
<1>4. IsValue(args)[1] = FALSE
  <2>1. n # 0
    BY <1>2, <1>3
  <2>. QED
    BY <2>1, ValuesOf, Zenon
<1>5. \A i \in 2 .. n :
         IsValue(args)[i] = (args[i - 1] \in ValueFlags /\ ~IsValue(args)[i - 1])
  BY ValuesOf
<1>6. \A i \in 1 .. at - 1 : args[i] \in Flags
  BY <1>2, <1>3 DEF Dashes, Flags
<1>7. \A i \in 1 .. n : IsValue(args)[i] \in BOOLEAN
  BY ValuesAreBoolean
<1>. HIDE DEF n, at
<1>. DEFINE Before(i) == /\ f[i].passthroughArgs = <<>>
                         /\ f[i].skipNext = IsValue(args)[i + 1]
                         /\ f[i].globalFlags \in Seq(Flags)
            After(i) == /\ f[i].passthroughArgs = SubSeq(args, at, i)
                        /\ f[i].globalFlags \in Seq(Flags)
            before == {i \in 0 .. at - 1 : Before(i)}
            after == {i \in 0 .. n : i >= at => After(i)}
<1>8. Before(0)
  <2>1. f[0].passthroughArgs = <<>> /\ f[0].skipNext = FALSE /\ f[0].globalFlags = <<>>
    BY <1>1 DEF SplitStart
  <2>2. <<>> \in Seq(Flags) /\ 0 + 1 = 1
    OBVIOUS
  <2>. QED
    BY <1>4, <2>1, <2>2, Zenon
<1>9. ASSUME NEW i \in 1 .. at - 1, Before(i - 1) PROVE Before(i)
  <2>1. /\ i \in 1 .. n /\ i + 1 \in 2 .. n /\ (i + 1) - 1 = i /\ (i - 1) + 1 = i
        /\ i - 1 \in 0 .. n
    BY <1>2, <1>3
  <2>2. /\ f[i - 1].passthroughArgs = <<>>
        /\ f[i - 1].skipNext = IsValue(args)[i]
        /\ f[i - 1].globalFlags \in Seq(Flags)
    BY <1>9, <2>1
  <2>3. IsValue(args)[i + 1] = (args[i] \in ValueFlags /\ ~IsValue(args)[i])
    BY <1>5, <2>1
  <2>4. f[i] = SplitStep(f[i - 1], args[i]) /\ f[i - 1] \in SplitStates /\ args[i] \in STRING
    BY <1>1, <1>3, <2>1
  <2>5. Append(f[i - 1].globalFlags, args[i]) \in Seq(Flags)
    BY <1>6, <2>2, AppendProperties
  <2>6. CASE IsValue(args)[i] = TRUE
    <3>1. IsValue(args)[i + 1] = FALSE
      BY <2>3, <2>6
    <3>2. f[i - 1].passthroughArgs = <<>> /\ f[i - 1].skipNext
      BY <2>2, <2>6
    <3>3. /\ f[i].passthroughArgs = <<>>
          /\ f[i].skipNext = FALSE
          /\ f[i].globalFlags = Append(f[i - 1].globalFlags, args[i])
      <4>0. f[i - 1] \in SplitStates /\ args[i] \in STRING
        BY <2>4
      <4>1. /\ SplitStep(f[i - 1], args[i]).passthroughArgs = <<>>
            /\ SplitStep(f[i - 1], args[i]).skipNext = FALSE
            /\ SplitStep(f[i - 1], args[i]).globalFlags = Append(f[i - 1].globalFlags, args[i])
        BY <3>2, <4>0, SplitSteps, Zenon
      <4>. QED
        BY <2>4, <4>1, Zenon
    <3>. QED
      BY <2>5, <3>1, <3>3, Zenon
  <2>7. CASE IsValue(args)[i] = FALSE
    <3>1. args[i] \in Dashed
      BY <1>2, <2>7
    <3>2. IsValue(args)[i + 1] = (args[i] \in ValueFlags)
      BY <2>3, <2>7
    <3>3. f[i - 1].passthroughArgs = <<>> /\ ~f[i - 1].skipNext
      BY <2>2, <2>7
    <3>4. /\ f[i].passthroughArgs = <<>>
          /\ f[i].skipNext = (args[i] \in ValueFlags)
          /\ f[i].globalFlags
                \in {f[i - 1].globalFlags, Append(f[i - 1].globalFlags, args[i])}
      <4>1. /\ SplitStep(f[i - 1], args[i]).passthroughArgs = <<>>
            /\ SplitStep(f[i - 1], args[i]).skipNext = (args[i] \in ValueFlags)
            /\ SplitStep(f[i - 1], args[i]).globalFlags
                 \in {f[i - 1].globalFlags, Append(f[i - 1].globalFlags, args[i])}
        BY <2>4, <3>1, <3>3, SplitSteps, Zenon
      <4>. QED
        BY <2>4, <4>1, Zenon
    <3>. QED
      BY <2>2, <2>5, <3>2, <3>4, Zenon
  <2>. QED
    BY <1>7, <2>1, <2>6, <2>7
<1>. HIDE DEF Before
<1>10. Before(at - 1)
  <2>1. at - 1 \in Nat /\ 0 \in before /\ at - 1 \in 0 .. at - 1
    BY <1>2, <1>3, <1>8
  <2>2. ASSUME NEW i \in 1 .. at - 1, i - 1 \in before PROVE i \in before
    BY <1>9, <2>1, <2>2
  <2>. HIDE DEF before
  <2>3. 0 .. at - 1 \subseteq before
    BY <2>1, <2>2, UpTo
  <2>. QED
    BY <2>1, <2>3 DEF before
<1>11. After(at)
  <2>1. /\ (at - 1) + 1 = at /\ at - 1 \in 0 .. n
        /\ f[at] = SplitStep(f[at - 1], args[at])
        /\ f[at - 1] \in SplitStates /\ args[at] \in STRING
    BY <1>1, <1>2, <1>3
  <2>2. /\ f[at - 1].passthroughArgs = <<>> /\ ~f[at - 1].skipNext
        /\ f[at - 1].globalFlags \in Seq(Flags)
    BY <1>2, <1>10, <2>1 DEF Before
  <2>3. f[at].passthroughArgs = <<args[at]>> /\ f[at].globalFlags = f[at - 1].globalFlags
    <3>1. /\ SplitStep(f[at - 1], args[at]).passthroughArgs = <<args[at]>>
          /\ SplitStep(f[at - 1], args[at]).globalFlags = f[at - 1].globalFlags
      BY <1>2, <2>1, <2>2, SplitSteps, Zenon
    <3>. QED
      BY <2>1, <3>1
  <2>4. SubSeq(args, at, at) = <<args[at]>>
    <3>1. \A i \in at .. at : args[i] \in STRING
      BY <1>2, <1>3
    <3>2. /\ SubSeq(args, at, at) \in Seq(STRING)
          /\ Len(SubSeq(args, at, at)) = 1
          /\ SubSeq(args, at, at)[1] = args[at]
      BY <1>2, <1>3, <3>1, SubSeqProperties
    <3>3. <<args[at]>> \in Seq(STRING) /\ Len(<<args[at]>>) = 1
      BY <2>1
    <3>4. \A j \in 1 .. 1 : SubSeq(args, at, at)[j] = <<args[at]>>[j]
      BY <3>2
    <3>. QED
      BY <3>2, <3>3, <3>4, SeqEqual, Zenon
  <2>. QED
    BY <2>2, <2>3, <2>4
<1>12. ASSUME NEW i \in 1 .. n, i - 1 >= at, After(i - 1) PROVE After(i)
  <2>1. /\ f[i] = SplitStep(f[i - 1], args[i]) /\ f[i - 1] \in SplitStates
        /\ args[i] \in STRING /\ i - 1 \in 0 .. n
    BY <1>1, <1>3
  <2>2. f[i - 1].passthroughArgs # <<>>
    <3>1. \A j \in at .. i - 1 : args[j] \in STRING
      BY <1>2, <1>3
    <3>2. Len(SubSeq(args, at, i - 1)) # 0
      BY <1>2, <1>3, <1>12, <3>1, SubSeqProperties
    <3>3. Len(<<>>) = 0
      BY EmptySeq
    <3>. QED
      BY <1>12, <3>2, <3>3, Zenon
  <2>3. /\ f[i].passthroughArgs = Append(SubSeq(args, at, i - 1), args[i])
        /\ f[i].globalFlags = f[i - 1].globalFlags
    <3>1. /\ SplitStep(f[i - 1], args[i]).passthroughArgs
                = Append(f[i - 1].passthroughArgs, args[i])
          /\ SplitStep(f[i - 1], args[i]).globalFlags = f[i - 1].globalFlags
      BY <2>1, <2>2, SplitSteps, Zenon
    <3>. QED
      BY <1>12, <2>1, <3>1
  <2>4. SubSeq(args, at, i) = SubSeq(args, at, i - 1) \o <<args[i]>>
    BY <1>2, <1>3, <1>12, SubSeqRecursiveSecond DEF n
  <2>5. SubSeq(args, at, i - 1) \in Seq(STRING)
    BY <1>2, <1>3, <1>12, SubSeqProperties
  <2>6. Append(SubSeq(args, at, i - 1), args[i]) = SubSeq(args, at, i - 1) \o <<args[i]>>
    BY <2>1, <2>5, AppendIsConcat
  <2>. QED
    BY <1>12, <2>3, <2>4, <2>6
<1>. HIDE DEF After
<1>13. n \in after
  <2>1. 0 \in after /\ n \in 0 .. n
    BY <1>2, <1>3
  <2>2. ASSUME NEW i \in 1 .. n, i - 1 \in after PROVE i \in after
    <3>1. i < at \/ i = at \/ i - 1 >= at
      BY <1>2
    <3>2. i - 1 >= at => After(i - 1)
      BY <2>2
    <3>. QED
      BY <1>2, <1>11, <1>12, <3>1, <3>2
  <2>. QED
    BY <1>3, <2>1, <2>2, UpTo
<1>14. After(n)
  BY <1>2, <1>3, <1>13
<1>. QED
  BY <1>1, <1>14 DEF After, at, n

LEMMA SingletonSeq ==
    ASSUME NEW S, NEW x \in S
    PROVE  <<x>> \in Seq(S) /\ Len(<<x>>) = 1 /\ <<x>>[1] = x
  OBVIOUS

\* With a subcommand for docker compose, what newPassthroughCmd finds behind the
\* first -- is what was typed from the subcommand on.
LEMMA Passed ==
    ASSUME NEW args \in Seq(STRING), Words(args) # {},
           \A i \in Dashes(args) : i > Min(Words(args)),
           args[Min(Words(args))] \notin knownCmds \cup {NoCommand}
    PROVE  /\ Execute(args) # <<>> /\ Execute(args)[1] = "__passthrough"
           /\ passthroughArgsOf(Execute(args)) = SubSeq(args, Min(Words(args)), Len(args))
<1>. DEFINE at == Min(Words(args))
            rest == SubSeq(args, at, Len(args))
            given == splitGlobalFlags(args).globalFlags
            first == <<"__passthrough">>
            separator == <<"--">>
            front == first \o given
            head == front \o separator
            whole == head \o rest
            Strings == STRING \cup {"__passthrough", "--"}
<1>1. at \in 1 .. Len(args) /\ Len(args) \in Nat
  BY WordsFacts, LenProperties
<1>2. /\ rest \in Seq(STRING) /\ Len(rest) = Len(args) - at + 1
      /\ given \in Seq(Flags) /\ splitGlobalFlags(args).passthroughArgs = rest
  <2>1. \A i \in at .. Len(args) : args[i] \in STRING
    BY <1>1, ElementOfSeq
  <2>2. rest \in Seq(STRING) /\ Len(rest) = Len(args) - at + 1
    BY <1>1, <2>1, SubSeqProperties
  <2>. QED
    BY <2>2, PassesOn
<1>3. Execute(args) = whole
  <2>1. shouldPassthrough(args)
    BY FindsSubcommand DEF shouldPassthrough
  <2>. QED
    BY <1>2, <2>1 DEF Execute
<1>. HIDE DEF at, rest, given
<1>4. given \in Seq(Strings) /\ rest \in Seq(Strings) /\ Len(given) \in Nat /\ \A i \in 1 .. Len(given) : given[i] # "--"
  <2>1. \A i \in 1 .. Len(given) : given[i] \in Flags
    BY <1>2, ElementOfSeq
  <2>2. given \in Seq(Strings) /\ rest \in Seq(Strings)
    <3>1. Flags \subseteq Strings /\ STRING \subseteq Strings
      BY DEF Flags
    <3>. HIDE DEF Strings
    <3>. QED
      BY <1>2, <3>1, SeqMonotonic
  <2>. QED
    BY <2>1, <2>2, LenProperties DEF Flags
<1>11. /\ first \in Seq(Strings) /\ Len(first) = 1 /\ first[1] = "__passthrough"
      /\ separator \in Seq(Strings) /\ Len(separator) = 1 /\ separator[1] = "--"
  <2>1. "__passthrough" \in Strings /\ "--" \in Strings
    OBVIOUS
  <2>. HIDE DEF Strings
  <2>. QED
    BY <2>1, SingletonSeq, Zenon
<1>. HIDE DEF Strings
<1>5. /\ front \in Seq(Strings) /\ Len(front) = Len(given) + 1
      /\ front[1] = "__passthrough" /\ \A i \in 1 .. Len(front) : front[i] # "--"
  <2>2. /\ front \in Seq(Strings) /\ Len(front) = 1 + Len(given)
        /\ \A i \in 1 .. 1 + Len(given) :
              front[i] = IF i <= 1 THEN first[i] ELSE given[i - 1]
    BY <1>4, <1>11, ConcatProperties
  <2>3. "__passthrough" # "--"
    OBVIOUS
  <2>. HIDE DEF front, first
  <2>. QED
    BY <1>4, <1>11, <2>2, <2>3
<1>. HIDE DEF front
<1>6. /\ head \in Seq(Strings) /\ Len(head) = Len(given) + 2
      /\ head[1] = "__passthrough" /\ head[Len(given) + 2] = "--"
      /\ \A i \in 1 .. Len(given) + 1 : head[i] # "--"
  <2>2. /\ head \in Seq(Strings) /\ Len(head) = Len(front) + 1
        /\ \A i \in 1 .. Len(front) + 1 :
              head[i] = IF i <= Len(front) THEN front[i] ELSE separator[i - Len(front)]
    BY <1>5, <1>11, ConcatProperties
  <2>. HIDE DEF head, separator
  <2>3. Len(front) = Len(given) + 1 /\ Len(given) \in Nat /\ Len(front) \in Nat
    BY <1>4, <1>5
  <2>4. \A i \in 1 .. Len(front) : head[i] = front[i]
    BY <2>2, <2>3
  <2>5. head[Len(front) + 1] = separator[1]
    BY <2>2, <2>3
  <2>6. head[1] = "__passthrough" /\ head[Len(given) + 2] = "--"
    BY <1>5, <1>11, <2>3, <2>4, <2>5
  <2>7. \A i \in 1 .. Len(given) + 1 : head[i] # "--"
    BY <1>5, <2>3, <2>4
  <2>. QED
    BY <2>2, <2>3, <2>6, <2>7
<1>. HIDE DEF head
<1>7. /\ whole \in Seq(Strings) /\ Len(whole) = Len(head) + Len(rest)
      /\ DOMAIN whole = 1 .. Len(head) + Len(rest)
      /\ \A i \in 1 .. Len(head) : whole[i] = head[i]
  <2>1. /\ whole \in Seq(Strings) /\ Len(whole) = Len(head) + Len(rest)
        /\ \A i \in 1 .. Len(head) + Len(rest) :
              whole[i] = IF i <= Len(head) THEN head[i] ELSE rest[i - Len(head)]
    <3>1. head \in Seq(Strings) /\ rest \in Seq(Strings)
      BY <1>4, <1>6
    <3>. QED
      BY <3>1, ConcatProperties
  <2>2. DOMAIN whole = 1 .. Len(whole)
    BY <2>1, LenProperties
  <2>. HIDE DEF whole
  <2>. QED
    BY <1>1, <1>2, <1>4, <1>6, <2>1, <2>2
<1>8. SubSeq(whole, Len(head) + 1, Len(whole)) = rest
  <2>1. /\ Len(head) + 1 \in Len(head) + 1 .. Len(head) + Len(rest)
        /\ Len(head) + Len(rest) \in Len(head) + 1 .. Len(head) + Len(rest)
        /\ (Len(head) + 1) - Len(head) = 1
        /\ (Len(head) + Len(rest)) - Len(head) = Len(rest)
    BY <1>1, <1>2, <1>4, <1>6
  <2>2. SubSeq(whole, Len(head) + 1, Len(head) + Len(rest)) = SubSeq(rest, 1, Len(rest))
    BY <1>2, <1>4, <1>6, <2>1, SubSeqOfConcat2
  <2>. QED
    BY <1>2, <1>7, <2>2, SubSeqFull
<1>. HIDE DEF whole
<1>9. whole # <<>> /\ whole[1] = "__passthrough"
  <2>1. 1 \in 1 .. Len(head) /\ Len(whole) # 0
    BY <1>1, <1>2, <1>4, <1>6, <1>7
  <2>. QED
    BY <1>6, <1>7, <2>1, EmptySeq
<1>10. passthroughArgsOf(whole) = rest
  <2>. DEFINE dashes == {i \in DOMAIN whole : whole[i] = "--"}
  <2>1. /\ Len(head) \in dashes /\ dashes \in SUBSET Nat
        /\ \A i \in dashes : Len(head) <= i
    <3>1. Len(head) \in DOMAIN whole /\ DOMAIN whole \subseteq Nat
      BY <1>1, <1>2, <1>4, <1>6, <1>7
    <3>2. ASSUME NEW i \in DOMAIN whole, i < Len(head) PROVE whole[i] # "--"
      <4>1. i \in 1 .. Len(given) + 1 /\ i \in 1 .. Len(head)
        BY <1>4, <1>6, <3>1, <3>2, <1>7
      <4>. QED
        BY <1>6, <1>7, <4>1
    <3>3. whole[Len(head)] = "--"
      BY <1>1, <1>4, <1>6, <1>7
    <3>. QED
      BY <1>6, <3>1, <3>2, <3>3
  <2>. HIDE DEF dashes
  <2>2. Min(dashes) = Len(head)
    <3>1. Min(dashes) \in dashes /\ \A y \in dashes : Min(dashes) <= y
      BY <2>1, MinOfNaturals
    <3>2. Min(dashes) \in Nat /\ Len(head) \in Nat
      BY <2>1, <3>1
    <3>3. Min(dashes) <= Len(head) /\ Len(head) <= Min(dashes)
      BY <2>1, <3>1
    <3>. QED
      BY <3>2, <3>3
  <2>. QED
    BY <1>8, <2>1, <2>2 DEF passthroughArgsOf, dashes
<1>. QED
  BY <1>3, <1>9, <1>10 DEF at, rest

LEMMA LeftToCobra ==
    ASSUME NEW args \in Seq(STRING), Words(args) # {},
           \A i \in Dashes(args) : i > Min(Words(args)),
           args[Min(Words(args))] \in knownCmds \cup {NoCommand}
    PROVE  Execute(args) = args
  BY FindsSubcommand DEF Execute, shouldPassthrough

-------------------------------------------------------------------------------
(* The inductive invariant *)

Labels == ParseEnvLabels(input.services)

IsSetUp ==
    /\ CanResolveAll(Labels, Endpoints(NewRoutes))
    /\ routes = NewRoutes
    /\ entries = NewEntries(NewRoutes, ResolveAllEnvLabels(Labels, Endpoints(NewRoutes), ProxyPort))

NothingSetUp == routes = <<>> /\ entries = {}

PassedOn == {"passthrough", "setUp", "compose", "running", "ended"}

(***************************************************************************)
(* What each stage knows of those before: every variable is what the       *)
(* functions of root.go, parse.go and passthrough.go make of the input.    *)
(***************************************************************************)
InvocationInv ==
    /\ input \in Inputs
    /\ stage \in Stages
    /\ flags = NoFlags
    /\ stage # "given" => argv = Execute(input.args)
    /\ stage = "native" => ~(argv # <<>> /\ argv[1] = "__passthrough")
    /\ stage \in PassedOn =>
         /\ argv # <<>> /\ argv[1] = "__passthrough"
         /\ userArgs = passthroughArgsOf(argv) /\ userArgs # <<>>
    /\ stage \in {"setUp", "compose"} => needsSetup
    /\ stage \in {"setUp", "compose", "running", "ended"} /\ needsSetup =>
         cf = Parse(input.services, {}) /\ DOMAIN cf # {}
    /\ stage \in {"compose", "running"} /\ needsSetup => IsSetUp
    /\ stage = "ended" => NothingSetUp \/ (needsSetup /\ IsSetUp)
    /\ ~(stage \in {"compose", "running", "ended"} /\ needsSetup) => NothingSetUp
    /\ stage \in {"running", "ended"} =>
         composeArgs = buildComposeArgs(composePath,
                         IF needsSetup THEN OverridePath ELSE NoOverride, userArgs)

\* What an unchanged variable leaves as it is.
LEMMA Unchanged ==
    /\ userArgs' = userArgs => needsSetup' = needsSetup
    /\ input' = input /\ flags' = flags => composePath' = composePath
    /\ routes' = routes /\ entries' = entries => NothingSetUp' = NothingSetUp
    /\ input' = input /\ cf' = cf => NewRoutes' = NewRoutes
    /\ input' = input /\ cf' = cf /\ routes' = routes /\ entries' = entries =>
         IsSetUp' = IsSetUp
<1>1. userArgs' = userArgs => needsSetup' = needsSetup
  BY DEF needsSetup
<1>2. input' = input /\ flags' = flags => composePath' = composePath
  BY DEF composePath
<1>3. routes' = routes /\ entries' = entries => NothingSetUp' = NothingSetUp
  BY DEF NothingSetUp
<1>4. input' = input /\ cf' = cf => NewRoutes' = NewRoutes
  BY DEF NewRoutes
<1>5. input' = input => Labels' = Labels
  BY DEF Labels
<1>6. input' = input /\ cf' = cf /\ routes' = routes /\ entries' = entries =>
        IsSetUp' = IsSetUp
  BY <1>4, <1>5 DEF IsSetUp
<1>. QED
  BY <1>1, <1>2, <1>3, <1>4, <1>6

LEMMA NothingIgnored == getIgnoredServices(NoFlags) = {}
  BY DEF getIgnoredServices, NoFlags

LEMMA InvocationInvInductive ==
    /\ Init => InvocationInv
    /\ InvocationInv /\ [Next]_vars => InvocationInv'
<1>1. Init => InvocationInv
  BY DEF Init, InvocationInv, Stages, PassedOn, NothingSetUp
<1>2. ASSUME InvocationInv, [Next]_vars PROVE InvocationInv'
  <2>. USE <1>2
  <2>1. CASE Rewrite
    BY <2>1, Unchanged DEF Rewrite, InvocationInv, Stages, PassedOn
  <2>2. CASE Dispatch
    BY <2>2, Unchanged DEF Dispatch, InvocationInv, Stages, PassedOn, ParsedFlags
  <2>3. CASE NoComposeFile
    BY <2>3, Unchanged DEF NoComposeFile, InvocationInv, Stages, PassedOn
  <2>4. CASE ReadComposeFile
    BY <2>4, Unchanged, NothingIgnored DEF ReadComposeFile, InvocationInv, Stages, PassedOn
  <2>5. CASE SetUp
    <3>1. /\ stage = "setUp" /\ input' = input /\ argv' = argv /\ userArgs' = userArgs
          /\ flags' = flags /\ cf' = cf /\ composeArgs' = composeArgs
      BY <2>5 DEF SetUp
    <3>2. (stage' = "compose" /\ IsSetUp') \/ (stage' = "error" /\ NothingSetUp')
      <4>1. NewRoutes' = NewRoutes /\ Labels' = Labels
        BY <3>1, Unchanged DEF Labels
      <4>2. NothingSetUp
        BY <3>1 DEF InvocationInv
      <4>3. CASE CanResolveAll(Labels, Endpoints(NewRoutes))
        BY <2>5, <4>1, <4>3 DEF SetUp, Labels, IsSetUp
      <4>4. CASE ~CanResolveAll(Labels, Endpoints(NewRoutes))
        BY <2>5, <4>2, <4>4 DEF SetUp, Labels, NothingSetUp
      <4>. QED
        BY <4>3, <4>4
    <3>. QED
      BY <3>1, <3>2, Unchanged DEF InvocationInv, Stages, PassedOn
  <2>6. CASE Compose
    BY <2>6, Unchanged DEF Compose, InvocationInv, Stages, PassedOn
  <2>7. CASE Return
    <3>1. shouldCleanup(userArgs) => NothingSetUp'
      BY <2>7 DEF Return, NothingSetUp
    <3>. QED
      BY <2>7, <3>1, Unchanged DEF Return, InvocationInv, Stages, PassedOn
  <2>8. CASE UNCHANGED vars
    BY <2>8, Unchanged DEF vars, InvocationInv
  <2>. QED
    BY <2>1, <2>2, <2>3, <2>4, <2>5, <2>6, <2>7, <2>8 DEF Next
<1>. QED
  BY <1>1, <1>2

LEMMA InvocationInvHolds == Spec => []InvocationInv
  BY InvocationInvInductive, PTL DEF Spec

-------------------------------------------------------------------------------
(* Arguments *)

\* What cobra sees of a command line whose subcommand is not passed on is not
\* the hidden command.
LEMMA NotHidden ==
    ASSUME NEW args \in Seq(STRING), Words(args) # {},
           \A i \in Dashes(args) : i > Min(Words(args)),
           findSubcommand(args) # "__passthrough"
    PROVE  args[1] # "__passthrough"
<1>. SUFFICES ASSUME args[1] = "__passthrough" PROVE FALSE
  OBVIOUS
<1>1. /\ Min(Words(args)) \in 1 .. Len(args) /\ Len(args) \in Nat
      /\ \A i \in 1 .. Min(Words(args)) - 1 : args[i] \in Dashed \/ IsValue(args)[i]
  BY WordsFacts, LenProperties
<1>2. "__passthrough" \notin Dashed
  BY FlagsAssumption DEF Dashed, ValueFlags, knownCmds
<1>3. IsValue(args)[1] = FALSE
  <2>1. Len(args) # 0
    BY <1>1
  <2>. QED
    BY <2>1, ValuesOf, Zenon
<1>4. Min(Words(args)) = 1
  BY <1>1, <1>2, <1>3
<1>5. findSubcommand(args) = args[1]
  BY <1>4, FindsSubcommand
<1>. QED
  BY <1>5

(***************************************************************************)
(* Whatever is typed, docker compose is given the arguments from the       *)
(* subcommand on, as they are, behind the compose file and the override,   *)
(* and is never given the program's own commands (root.go:71-184 with      *)
(* passthrough.go:27-41 and 239-273).                                      *)
(***************************************************************************)
THEOREM ArgumentsReachCompose == Spec => []ArgumentsArrive
<1>1. ASSUME InvocationInv PROVE ArgumentsArrive
  <2>. DEFINE args == input.args
              at == Min(Words(args))
              passed == Words(args) # {} /\ \A i \in Dashes(args) : i > at
  <2>1. args \in Seq(STRING) /\ findSubcommand(args) # "__passthrough"
    BY <1>1, InputsAssumption DEF InvocationInv
  <2>2. ASSUME passed, args[at] \in knownCmds \cup {NoCommand}
        PROVE  Execute(args) # <<>> /\ Execute(args)[1] # "__passthrough"
    <3>1. Execute(args) = args
      BY <2>1, <2>2, LeftToCobra
    <3>2. at \in 1 .. Len(args) /\ Len(args) \in Nat
      BY <2>1, <2>2, WordsFacts, LenProperties
    <3>3. 1 \in 1 .. Len(args) /\ Len(args) # 0
      BY <3>2
    <3>4. args[1] # "__passthrough"
      BY <2>1, <2>2, NotHidden
    <3>. QED
      BY <2>1, <3>1, <3>3, <3>4, EmptySeq
  <2>3. ASSUME passed, args[at] \notin knownCmds \cup {NoCommand}
        PROVE  /\ Execute(args) # <<>> /\ Execute(args)[1] = "__passthrough"
               /\ passthroughArgsOf(Execute(args)) = SubSeq(args, at, Len(args))
               /\ SubSeq(args, at, Len(args))[1] = args[at]
    <3>1. /\ Execute(args) # <<>> /\ Execute(args)[1] = "__passthrough"
          /\ passthroughArgsOf(Execute(args)) = SubSeq(args, at, Len(args))
      BY <2>1, <2>3, Passed
    <3>2. at \in 1 .. Len(args) /\ Len(args) \in Nat
      BY <2>1, <2>3, WordsFacts, LenProperties
    <3>3. \A i \in at .. Len(args) : args[i] \in STRING
      BY <2>1, <3>2, ElementOfSeq
    <3>4. SubSeq(args, at, Len(args))[1] = args[at]
      <4>. HIDE DEF args, at
      <4>. QED
        BY <3>2, <3>3, SubSeqProperties
    <3>. QED
      BY <3>1, <3>4
  <2>4. ASSUME stage \in {"running", "ended"}, passed
        PROVE  /\ args[at] \notin knownCmds
               /\ composeArgs = <<"-f", composePath>>
                    \o (IF args[at] \in {"up", "run"} THEN <<"-f", OverridePath>> ELSE <<>>)
                    \o SubSeq(args, at, Len(args))
    <3>1. /\ Execute(args) # <<>> /\ Execute(args)[1] = "__passthrough"
          /\ userArgs = passthroughArgsOf(Execute(args))
          /\ composeArgs = buildComposeArgs(composePath,
                             IF needsSetup THEN OverridePath ELSE NoOverride, userArgs)
      BY <1>1, <2>4 DEF InvocationInv, PassedOn
    <3>2. args[at] \notin knownCmds \cup {NoCommand}
      BY <2>2, <2>4, <3>1
    <3>3. userArgs = SubSeq(args, at, Len(args)) /\ (needsSetup <=> args[at] \in {"up", "run"})
      BY <2>3, <2>4, <3>1, <3>2 DEF needsSetup
    <3>. HIDE DEF args, at
    <3>4. CASE needsSetup
      BY <3>1, <3>2, <3>3, <3>4, InvocationAssumption DEF buildComposeArgs
    <3>5. CASE ~needsSetup
      BY <3>1, <3>2, <3>3, <3>5 DEF buildComposeArgs
    <3>. QED
      BY <3>4, <3>5
  <2>5. ASSUME stage = "native", passed PROVE args[at] \in knownCmds \cup {NoCommand}
    <3>1. ~(Execute(args) # <<>> /\ Execute(args)[1] = "__passthrough")
      BY <1>1, <2>5 DEF InvocationInv
    <3>. QED
      BY <2>3, <2>5, <3>1
  <2>. QED
    BY <2>4, <2>5, Zenon DEF ArgumentsArrive
<1>. QED
  BY <1>1, InvocationInvHolds, PTL

-------------------------------------------------------------------------------
(* Ports *)

LEMMA Tokens ==
    /\ Colon # Slash
    /\ \A n : Has(Num(n), "num") /\ Num(n).num = n
    /\ \A x : Has(x, "num") => x # Colon /\ x # Slash
<1>1. Colon # Slash
  BY DEF Colon, Slash, Text
<1>2. \A n : Has(Num(n), "num") /\ Num(n).num = n
  BY DEF Has, Num
<1>3. \A t : DOMAIN Text(t) = {"text"}
  BY DEF Text
<1>4. \A x : Has(x, "num") => x # Colon /\ x # Slash
  BY <1>3 DEF Has, Colon, Slash
<1>. QED
  BY <1>1, <1>2, <1>4

\* A set of numbers up to n whose largest element is known.
LEMMA MaxIs ==
    ASSUME NEW n \in Nat, NEW S \in SUBSET (0 .. n), NEW x \in S, \A y \in S : y <= x
    PROVE  Max(S) = x
<1>1. Max(S) \in S /\ \A y \in S : Max(S) >= y
  BY MaxOfNaturals
<1>2. Max(S) \in 0 .. n /\ x \in 0 .. n
  BY <1>1
<1>3. Max(S) >= x /\ Max(S) <= x
  BY <1>1
<1>. QED
  BY <1>2, <1>3

LEMMA AtMostTwo == \A x, y : Cardinality({x, y}) <= 2
<1>. TAKE x, y
<1>1. IsFiniteSet({x}) /\ Cardinality({x}) = 1
  BY FS_Singleton
<1>2. Cardinality({x} \cup {y}) = IF y \in {x} THEN Cardinality({x}) ELSE Cardinality({x}) + 1
  BY <1>1, FS_AddElement
<1>3. {x} \cup {y} = {x, y}
  OBVIOUS
<1>. QED
  BY <1>1, <1>2, <1>3

(***************************************************************************)
(* A port string that has one of the documented formats after expansion is *)
(* read as the format says.                                                *)
(***************************************************************************)
LEMMA ReadsFormat ==
    ASSUME NEW s, NEW meaning, HasFormat(expandEnvVar(s), meaning)
    PROVE  /\ parsePortString(s) # NoMapping
           /\ parsePortString(s).containerPort = meaning.containerPort
           /\ IsTCP(parsePortString(s)) <=> meaning.tcp
<1>. DEFINE e == expandEnvVar(s)
<1>1. PICK at \in {1, 3, 5} :
        /\ IsList(e) /\ Len(e) \in {at, at + 2}
        /\ e[at] = Num(meaning.containerPort)
        /\ at > 1 => e[at - 1] = Colon /\ Has(e[at - 2], "num")
        /\ at = 5 => e[2] = Colon /\ e[1] \notin {Colon, Slash}
        /\ Len(e) = at + 2 => e[at + 1] = Slash /\ e[at + 2] \notin {Colon, Slash}
        /\ meaning.tcp <=> Len(e) = at \/ e[at + 2] = Text("tcp")
  BY DEF HasFormat
<1>. HIDE DEF e
<1>. DEFINE slashes == {i \in DOMAIN e : e[i] = Slash}
            end == IF slashes = {} THEN Len(e) + 1 ELSE Max(slashes)
            colons == {i \in 1 .. end - 1 : e[i] = Colon}
            last == Max(colons \cup {0})
            lastButOne == Max((colons \ {last}) \cup {0})
            protocol == SubSeq(e, end + 1, Len(e))
            mapping == [containerPort |-> e[end - 1].num, protocol |-> protocol]
<1>2. e \in Seq(Range(e)) /\ Len(e) \in Nat /\ DOMAIN e = 1 .. Len(e)
  BY <1>1, LenProperties DEF IsList
<1>3. \A i \in 1 .. at : e[i] # Slash
  BY <1>1, Tokens
<1>4. slashes = IF Len(e) = at THEN {} ELSE {at + 1}
  <2>1. CASE Len(e) = at
    BY <1>2, <1>3, <2>1
  <2>2. CASE Len(e) = at + 2
    <3>1. e[at + 1] = Slash /\ e[at + 2] # Slash
      BY <1>1, <2>2
    <3>. QED
      BY <1>2, <1>3, <2>2, <3>1
  <2>. QED
    BY <1>1, <2>1, <2>2
<1>5. end = at + 1
  <2>1. CASE Len(e) = at
    BY <1>4, <2>1
  <2>2. CASE Len(e) # at
    <3>1. slashes = {at + 1} /\ at + 1 \in Nat
      BY <1>4, <2>2
    <3>2. Max(slashes) = at + 1
      BY <3>1, MaxIs
    <3>. QED
      BY <3>1, <3>2
  <2>. QED
    BY <2>1, <2>2
<1>. HIDE DEF slashes, end
<1>6. colons = IF at = 1 THEN {} ELSE IF at = 3 THEN {2} ELSE {2, 4}
  <2>1. e[at] # Colon
    BY <1>1, Tokens
  <2>2. CASE at = 1
    BY <1>5, <2>1, <2>2
  <2>3. CASE at = 3
    <3>1. e[1] # Colon /\ e[2] = Colon /\ e[3] # Colon
      BY <1>1, <2>1, <2>3, Tokens
    <3>. QED
      BY <1>5, <2>3, <3>1
  <2>4. CASE at = 5
    <3>1. e[1] # Colon /\ e[2] = Colon /\ e[3] # Colon /\ e[4] = Colon /\ e[5] # Colon
      BY <1>1, <2>1, <2>4, Tokens
    <3>. QED
      BY <1>5, <2>4, <3>1
  <2>. QED
    BY <2>2, <2>3, <2>4
<1>. HIDE DEF colons
<1>7. last = at - 1
  <2>. DEFINE S == colons \cup {0}
  <2>1. S \in SUBSET (0 .. 4) /\ at - 1 \in S /\ \A y \in S : y <= at - 1
    BY <1>6
  <2>. HIDE DEF S
  <2>2. Max(S) = at - 1
    BY <2>1, MaxIs
  <2>. QED
    BY <2>2 DEF S
<1>. HIDE DEF last
<1>8. lastButOne = IF at = 5 THEN 2 ELSE 0
  <2>. DEFINE S == (colons \ {last}) \cup {0}
              x == IF at = 5 THEN 2 ELSE 0
  <2>1. S \in SUBSET (0 .. 4) /\ x \in S /\ \A y \in S : y <= x
    BY <1>6, <1>7
  <2>. HIDE DEF S, x
  <2>2. Max(S) = x
    BY <2>1, MaxIs
  <2>. QED
    BY <2>2 DEF S, x
<1>. HIDE DEF lastButOne
<1>9. Cardinality(colons) <= 2
  <2>1. Cardinality({}) = 0 /\ Cardinality({2}) = 1 /\ Cardinality({2, 4}) <= 2
    BY FS_EmptySet, FS_Singleton, AtMostTwo
  <2>. QED
    BY <1>6, <2>1
<1>10. IsNumber(e, last, end)
  BY <1>1, <1>5, <1>7, Tokens DEF IsNumber
<1>11. colons # {} => IsNumber(e, lastButOne, last)
  BY <1>1, <1>6, <1>7, <1>8 DEF IsNumber
<1>12. parsePortString(s) = mapping
  BY <1>9, <1>10, <1>11 DEF parsePortString, e, slashes, end, colons, last, lastButOne
<1>13. mapping # NoMapping
  <2>1. DOMAIN mapping = {"containerPort", "protocol"} /\ DOMAIN NoMapping = {"unreadable"}
    BY DEF NoMapping
  <2>. QED
    BY <2>1
<1>14. mapping.containerPort = meaning.containerPort
  BY <1>1, <1>5, Tokens
<1>15. protocol \in {<<>>, <<Text("tcp")>>} <=> meaning.tcp
  <2>1. CASE Len(e) = at
    BY <1>1, <1>2, <1>5, <2>1, SubSeqEmpty
  <2>2. CASE Len(e) = at + 2
    <3>. DEFINE T == Range(e) \cup {Text("tcp")}
    <3>1. e[at + 2] \in T /\ Text("tcp") \in T
      BY <1>2, <2>2, ElementOfSeq
    <3>2. \A i \in at + 2 .. at + 2 : e[i] \in T
      BY <3>1
    <3>. HIDE DEF T
    <3>3. Len(protocol) = 1 /\ protocol[1] = e[at + 2] /\ protocol \in Seq(T)
      BY <1>1, <1>5, <2>2, <3>2, SubSeqProperties
    <3>4. <<Text("tcp")>> \in Seq(T) /\ Len(<<Text("tcp")>>) = 1 /\ <<Text("tcp")>>[1] = Text("tcp")
      BY <3>1, SingletonSeq
    <3>5. protocol # <<>>
      <4>1. Len(<<>>) = 0 /\ 0 # 1
        BY EmptySeq
      <4>. QED
        BY <3>3, <4>1, Zenon
    <3>6. protocol = <<Text("tcp")>> <=> e[at + 2] = Text("tcp")
      <4>1. ASSUME e[at + 2] = Text("tcp") PROVE protocol = <<Text("tcp")>>
        <5>. HIDE DEF protocol
        <5>1. \A i \in 1 .. Len(protocol) : protocol[i] = <<Text("tcp")>>[i]
          BY <3>3, <3>4, <4>1
        <5>. QED
          BY <3>3, <3>4, <5>1, SeqEqual
      <4>. QED
        BY <3>3, <3>4, <4>1
    <3>. QED
      BY <1>1, <2>2, <3>5, <3>6
  <2>. QED
    BY <1>1, <2>1, <2>2
<1>. QED
  BY <1>12, <1>13, <1>14, <1>15 DEF IsTCP

\* The first port that is TCP, if there is one.
LEMMA FirstTCPPort ==
    ASSUME NEW ports, IsList(ports), \A i \in DOMAIN ports : ports[i] \in DOMAIN Documented
    PROVE  LET tcp == {i \in DOMAIN ports : Documented[ports[i]].tcp} IN
           /\ parseFirstTCPPort(ports) # NoMapping <=> tcp # {}
           /\ tcp # {} => parseFirstTCPPort(ports).containerPort
                            = Documented[ports[Min(tcp)]].containerPort
<1>. DEFINE tcp == {i \in DOMAIN ports : Documented[ports[i]].tcp}
<1>1. \A i \in DOMAIN ports :
        /\ parsePortString(ports[i]) # NoMapping
        /\ parsePortString(ports[i]).containerPort = Documented[ports[i]].containerPort
        /\ IsTCP(parsePortString(ports[i])) <=> Documented[ports[i]].tcp
  <2>. SUFFICES ASSUME NEW i \in DOMAIN ports
                PROVE  /\ parsePortString(ports[i]) # NoMapping
                       /\ parsePortString(ports[i]).containerPort = Documented[ports[i]].containerPort
                       /\ IsTCP(parsePortString(ports[i])) <=> Documented[ports[i]].tcp
    BY Zenon
  <2>1. HasFormat(expandEnvVar(ports[i]), Documented[ports[i]])
    BY DocumentedAssumption
  <2>. QED
    BY <2>1, ReadsFormat, Zenon
<1>2. {i \in DOMAIN ports : IsTCP(parsePortString(ports[i]))} = tcp
  BY <1>1
<1>3. parseFirstTCPPort(ports)
        = IF tcp = {} THEN NoMapping ELSE parsePortString(ports[Min(tcp)])
  BY <1>2, Zenon DEF parseFirstTCPPort
<1>4. DOMAIN ports \subseteq Nat
  BY LenProperties DEF IsList
<1>5. tcp # {} => Min(tcp) \in tcp
  BY <1>4, MinOfNaturals
<1>6. tcp # {} => Min(tcp) \in DOMAIN ports
  BY <1>5
<1>. HIDE DEF tcp
<1>. QED
  BY <1>1, <1>3, <1>6, Zenon DEF tcp

\* The services and their ports, as the code reads them.
LEMMA ParsedServices ==
    ASSUME NEW services
    PROVE  LET parsed == Parse(services, {})
               first(name) == parseFirstTCPPort(services[name].ports)
           IN
           /\ DOMAIN parsed = {name \in DOMAIN services : first(name) # NoMapping}
           /\ \A name \in DOMAIN parsed :
                /\ parsed[name].containerPort = first(name).containerPort
                /\ parsed[name].type \in {"tcp", "http"}
<1>1. \A port : ClassifyPort(port) \in {"tcp", "http"}
  BY DEF ClassifyPort
<1>. QED
  BY <1>1 DEF Parse

(***************************************************************************)
(* Every port string in a documented format is read as documented, however *)
(* many ports a service has and wherever variables stand in them           *)
(* (parse.go:136-264).                                                     *)
(***************************************************************************)
THEOREM PortsReadAsDocumented == Spec => []PortsAsDocumented
<1>1. ASSUME InvocationInv PROVE PortsAsDocumented
  <2>. SUFFICES ASSUME stage = "setUp", NEW name \in DOMAIN input.services,
                       \A i \in DOMAIN input.services[name].ports :
                          input.services[name].ports[i] \in DOMAIN Documented
                PROVE  LET ports == input.services[name].ports
                           tcp == {i \in DOMAIN ports : Documented[ports[i]].tcp}
                       IN  /\ name \in DOMAIN cf <=> tcp # {}
                           /\ tcp # {} => cf[name].containerPort
                                            = Documented[ports[Min(tcp)]].containerPort
    BY Zenon DEF PortsAsDocumented
  <2>. DEFINE ports == input.services[name].ports
              tcp == {i \in DOMAIN ports : Documented[ports[i]].tcp}
  <2>1. cf = Parse(input.services, {})
    BY <1>1 DEF InvocationInv
  <2>2. IsList(ports)
    BY <1>1, InputsAssumption DEF InvocationInv
  <2>3. /\ parseFirstTCPPort(ports) # NoMapping <=> tcp # {}
        /\ tcp # {} => parseFirstTCPPort(ports).containerPort
                         = Documented[ports[Min(tcp)]].containerPort
    BY <2>2, FirstTCPPort, Zenon
  <2>4. /\ name \in DOMAIN cf <=> parseFirstTCPPort(ports) # NoMapping
        /\ name \in DOMAIN cf => cf[name].containerPort = parseFirstTCPPort(ports).containerPort
    BY <2>1, ParsedServices
  <2>. QED
    BY <2>3, <2>4
<1>. QED
  BY <1>1, InvocationInvHolds, PTL

-------------------------------------------------------------------------------
(* What is set up *)

\* The places of the services with a port in the order of all names.
Places == {i \in DOMAIN NameOrder : NameOrder[i] \in DOMAIN cf}

\* The services are some of those in the file, and each has a place.
LEMMA ServicesFacts ==
    ASSUME input \in Inputs, cf = Parse(input.services, {})
    PROVE  /\ \A name \in DOMAIN cf : cf[name].type \in {"tcp", "http"}
           /\ \A name \in DOMAIN cf : \E i \in Places : NameOrder[i] = name
<1>1. \A name \in DOMAIN cf : name \in DOMAIN input.services /\ cf[name].type \in {"tcp", "http"}
  BY ParsedServices
<1>2. DOMAIN input.services \subseteq Range(NameOrder)
  BY InputsAssumption
<1>3. \A name \in DOMAIN cf : \E i \in Places : NameOrder[i] = name
  BY <1>1, <1>2 DEF Range, Places
<1>. QED
  BY <1>1, <1>3

LEMMA PlaceFacts ==
    /\ Places \subseteq Nat
    /\ \A i \in Places : NameOrder[i] \in DOMAIN cf
    /\ \A i, j \in Places : NameOrder[i] = NameOrder[j] => i = j
    /\ \A i, j \in Places : FirstPort + i = FirstPort + j => i = j
    /\ \A i \in Places :
         /\ FirstPort + i \in Nat /\ FirstPort + i >= FirstPort
         /\ FirstPort + i # ProxyPort /\ FirstPort + i # 0
<1>1. Places \subseteq Nat /\ FirstPort \in Nat /\ ProxyPort \in Nat /\ ProxyPort < FirstPort
  BY InvocationAssumption DEF Places
<1>2. \A i, j \in Places : NameOrder[i] = NameOrder[j] => i = j
  BY InvocationAssumption DEF Places
<1>3. \A i \in Places : NameOrder[i] \in DOMAIN cf
  BY DEF Places
<1>. QED
  BY <1>1, <1>2, <1>3

\* The routes place by place.
LEMMA RoutesByPlace ==
    /\ DOMAIN NewRoutes = Places
    /\ \A i \in Places :
         /\ NewRoutes[i].hostname = BuildHostname(NameOrder[i], input.project)
         /\ NewRoutes[i].hostPort = FirstPort + i
         /\ NewRoutes[i].containerPort = cf[NameOrder[i]].containerPort
         /\ NewRoutes[i].service = NameOrder[i]
         /\ NewRoutes[i].type = cf[NameOrder[i]].type
  BY DEF NewRoutes, Places

LEMMA RoutesOfServices ==
    ASSUME input \in Inputs, cf = Parse(input.services, {})
    PROVE  {NewRoutes[i].service : i \in DOMAIN NewRoutes} = DOMAIN cf
<1>1. {NewRoutes[i].service : i \in DOMAIN NewRoutes} = {NameOrder[i] : i \in Places}
  BY RoutesByPlace
<1>2. \A name \in DOMAIN cf : \E i \in Places : NameOrder[i] = name
  BY ServicesFacts
<1>3. \A i \in Places : NameOrder[i] \in DOMAIN cf
  BY PlaceFacts
<1>4. {NameOrder[i] : i \in Places} = DOMAIN cf
  BY <1>2, <1>3, Zenon
<1>. QED
  BY <1>1, <1>4

\* The entries of the override file: for a service with a port, for one without.
RouteEntry(i, env) ==
    [service |-> NameOrder[i], hostPort |-> FirstPort + i,
     containerPort |-> cf[NameOrder[i]].containerPort,
     environment |-> Environment(NameOrder[i], env)]
LabelEntry(name, env) ==
    [service |-> name, hostPort |-> 0, containerPort |-> 0, environment |-> env[name]]

LEMMA EntriesByPlace ==
    ASSUME input \in Inputs, cf = Parse(input.services, {}), NEW env
    PROVE  NewEntries(NewRoutes, env)
             = {RouteEntry(i, env) : i \in Places}
                 \cup {LabelEntry(name, env) : name \in DOMAIN env \ DOMAIN cf}
<1>1. {NewRoutes[i].service : i \in DOMAIN NewRoutes} = DOMAIN cf
  BY RoutesOfServices
<1>2. {[service |-> NewRoutes[i].service, hostPort |-> NewRoutes[i].hostPort,
        containerPort |-> NewRoutes[i].containerPort,
        environment |-> Environment(NewRoutes[i].service, env)] : i \in DOMAIN NewRoutes}
        = {RouteEntry(i, env) : i \in Places}
  BY RoutesByPlace DEF RouteEntry
<1>. QED
  BY <1>1, <1>2 DEF NewEntries, LabelEntry

(***************************************************************************)
(* Type correctness: the stages and what they may rely on, and that routes *)
(* and override come and go together (passthrough.go:47-263).              *)
(***************************************************************************)
THEOREM TypeCorrect == Spec => []TypeOK
<1>1. ASSUME InvocationInv PROVE TypeOK
  <2>1. /\ stage \in Stages /\ flags = NoFlags
        /\ stage \in {"passthrough", "setUp", "compose", "running", "ended"} => userArgs # <<>>
        /\ stage = "setUp" => DOMAIN cf # {}
    BY <1>1 DEF InvocationInv, PassedOn
  <2>2. CASE NothingSetUp
    BY <2>1, <2>2 DEF TypeOK, NothingSetUp
  <2>3. CASE ~NothingSetUp
    <3>1. /\ input \in Inputs /\ cf = Parse(input.services, {}) /\ DOMAIN cf # {}
          /\ IsSetUp
      BY <1>1, <2>3 DEF InvocationInv, Stages
    <3>2. PICK i \in Places : TRUE
      BY <3>1, ServicesFacts
    <3>3. routes # <<>>
      <4>1. DOMAIN <<>> = {}
        OBVIOUS
      <4>. QED
        BY <3>1, <3>2, <4>1, RoutesByPlace DEF IsSetUp
    <3>4. entries # {}
      <4>. DEFINE env == ResolveAllEnvLabels(Labels, Endpoints(NewRoutes), ProxyPort)
      <4>. HIDE DEF env
      <4>1. NewEntries(NewRoutes, env)
              = {RouteEntry(j, env) : j \in Places}
                  \cup {LabelEntry(name, env) : name \in DOMAIN env \ DOMAIN cf}
        BY <3>1, EntriesByPlace, Zenon
      <4>2. RouteEntry(i, env) \in NewEntries(NewRoutes, env)
        BY <3>2, <4>1
      <4>. QED
        BY <3>1, <4>2 DEF IsSetUp, env
    <3>5. \A j \in DOMAIN routes : routes[j].hostPort >= FirstPort /\ routes[j].service \in DOMAIN cf
      <4>1. ASSUME NEW j \in Places
            PROVE  NewRoutes[j].hostPort >= FirstPort /\ NewRoutes[j].service \in DOMAIN cf
        <5>1. NewRoutes[j].hostPort = FirstPort + j /\ NewRoutes[j].service = NameOrder[j]
          BY RoutesByPlace
        <5>. QED
          BY <5>1, PlaceFacts
      <4>2. routes = NewRoutes /\ DOMAIN routes = Places
        BY <3>1, RoutesByPlace DEF IsSetUp
      <4>. QED
        BY <4>1, <4>2
    <3>. QED
      BY <2>1, <3>3, <3>4, <3>5 DEF TypeOK
  <2>. QED
    BY <2>2, <2>3
<1>. QED
  BY <1>1, InvocationInvHolds, PTL

-------------------------------------------------------------------------------
(* Requests *)

\* The host port of a route leads to its service's container and no other.
LEMMA ContainerOfRoute ==
    ASSUME input \in Inputs, cf = Parse(input.services, {}), IsSetUp, NEW i \in Places
    PROVE  Container(FirstPort + i) = {<<NameOrder[i], cf[NameOrder[i]].containerPort>>}
<1>. DEFINE env == ResolveAllEnvLabels(Labels, Endpoints(NewRoutes), ProxyPort)
            mine == {e \in entries : e.hostPort = FirstPort + i}
<1>1. entries = {RouteEntry(j, env) : j \in Places}
                  \cup {LabelEntry(name, env) : name \in DOMAIN env \ DOMAIN cf}
  BY EntriesByPlace DEF IsSetUp
<1>. HIDE DEF env
<1>2. \A j \in Places : RouteEntry(j, env).hostPort = FirstPort + j
  BY DEF RouteEntry
<1>3. \A name : LabelEntry(name, env).hostPort = 0
  BY DEF LabelEntry
<1>4. mine = {RouteEntry(i, env)}
  <2>1. RouteEntry(i, env) \in mine
    BY <1>1, <1>2
  <2>2. ASSUME NEW e \in mine PROVE e = RouteEntry(i, env)
    BY <1>1, <1>2, <1>3, PlaceFacts
  <2>. QED
    BY <2>1, <2>2
<1>5. /\ RouteEntry(i, env).service = NameOrder[i]
      /\ RouteEntry(i, env).containerPort = cf[NameOrder[i]].containerPort
  BY DEF RouteEntry
<1>. QED
  BY <1>4, <1>5 DEF Container

\* The endpoint of a service is that of its own route.
LEMMA EndpointOfService ==
    ASSUME input \in Inputs, cf = Parse(input.services, {})
    PROVE  /\ DOMAIN Endpoints(NewRoutes) = DOMAIN cf
           /\ \A i \in Places : Endpoints(NewRoutes)[NameOrder[i]] = Endpoint(NewRoutes[i])
<1>1. DOMAIN Endpoints(NewRoutes) = DOMAIN cf
  BY RoutesOfServices DEF Endpoints
<1>2. ASSUME NEW i \in Places
      PROVE  Endpoints(NewRoutes)[NameOrder[i]] = Endpoint(NewRoutes[i])
  <2>. DEFINE all == {NewRoutes[j] : j \in DOMAIN NewRoutes}
              chosen == CHOOSE r \in all : r.service = NameOrder[i]
  <2>1. NewRoutes[i] \in all /\ NewRoutes[i].service = NameOrder[i]
    BY RoutesByPlace
  <2>2. chosen \in all /\ chosen.service = NameOrder[i]
    BY <2>1, Zenon
  <2>3. PICK j \in Places : chosen = NewRoutes[j]
    BY <2>2, RoutesByPlace
  <2>. HIDE DEF chosen, all
  <2>4. NameOrder[j] = NameOrder[i]
    BY <2>2, <2>3, RoutesByPlace
  <2>5. chosen = NewRoutes[i]
    BY <2>3, <2>4, PlaceFacts
  <2>6. NameOrder[i] \in {NewRoutes[k].service : k \in DOMAIN NewRoutes}
    BY RoutesByPlace
  <2>. QED
    BY <2>5, <2>6, Zenon DEF Endpoints, chosen, all
<1>. QED
  BY <1>1, <1>2

LEMMA HostFacts ==
    /\ \A h, port : [hostname |-> h, port |-> port] # NoHost
                    /\ [hostname |-> h, port |-> port].hostname = h
    /\ NotFound.status # 200
    /\ \A port : ForwardTo(port).status = 200 /\ ForwardTo(port).port = port
<1>1. \A h, port : DOMAIN [hostname |-> h, port |-> port] = {"hostname", "port"}
  OBVIOUS
<1>2. DOMAIN NoHost = {"hostname"} /\ "port" # "hostname"
  BY DEF NoHost
<1>3. \A h, port : [hostname |-> h, port |-> port] # NoHost
  BY <1>1, <1>2, Zenon
<1>. QED
  BY <1>3 DEF NotFound, ForwardTo

\* What a service with a hostname of its own answers.
LEMMA AnswersUnderHostname ==
    ASSUME input \in Inputs, cf = Parse(input.services, {}), IsSetUp,
           NEW name \in DOMAIN cf, HasOwnHostname(name)
    PROVE  LeadsTo(BuildHostname(name, input.project), ProxyPort)
             = IF cf[name].type = "http" THEN {<<name, cf[name].containerPort>>} ELSE {}
<1>. DEFINE hostname == BuildHostname(name, input.project)
            host == [hostname |-> hostname, port |-> ProxyPort]
            matching == {i \in DOMAIN routes :
                           routes[i].hostname = host.hostname /\ routes[i].type # "tcp"}
<1>1. PICK at \in Places : NameOrder[at] = name
  BY ServicesFacts
<1>2. \A i \in Places :
        BuildHostname(NameOrder[i], input.project) = hostname
          <=> ServiceSubdomain[NameOrder[i]] = ServiceSubdomain[name]
  BY DEF BuildHostname
<1>3. host # NoHost /\ host.hostname = hostname
  BY HostFacts
<1>. HIDE DEF host, hostname
<1>4. matching = {i \in Places : ServiceSubdomain[NameOrder[i]] = ServiceSubdomain[name]
                                   /\ cf[NameOrder[i]].type = "http"}
  <2>1. \A i \in Places : cf[NameOrder[i]].type # "tcp" <=> cf[NameOrder[i]].type = "http"
    BY PlaceFacts, ServicesFacts
  <2>. QED
    BY <1>2, <1>3, <2>1, RoutesByPlace DEF IsSetUp
<1>5. ASSUME NEW i \in matching PROVE i = at
  <2>1. /\ i \in Places /\ NameOrder[i] \in DOMAIN cf /\ cf[NameOrder[i]].type = "http"
        /\ ServiceSubdomain[NameOrder[i]] = ServiceSubdomain[name]
    BY <1>4, PlaceFacts
  <2>2. NameOrder[i] = name
    BY <2>1 DEF HasOwnHostname
  <2>. QED
    BY <1>1, <2>1, <2>2, PlaceFacts
<1>6. CASE cf[name].type = "http"
  <2>1. matching = {at}
    BY <1>1, <1>4, <1>5, <1>6
  <2>2. Min(matching) = at
    <3>1. {at} \in SUBSET Nat
      BY <1>1, PlaceFacts
    <3>2. Min({at}) \in {at}
      BY <3>1, MinOfNaturals
    <3>. QED
      BY <2>1, <3>2
  <2>3. routes[at].hostPort = FirstPort + at
    BY <1>1, RoutesByPlace DEF IsSetUp
  <2>4. matching # {}
    BY <2>1
  <2>. HIDE DEF matching
  <2>5. ServeHTTP(host, routes) = ForwardTo(FirstPort + at)
    BY <1>3, <2>2, <2>3, <2>4, Zenon DEF ServeHTTP, matching
  <2>6. LeadsTo(hostname, ProxyPort) = Container(FirstPort + at)
    <3>1. ServeHTTP(host, routes).status = 200 /\ ServeHTTP(host, routes).port = FirstPort + at
      BY <2>5, HostFacts
    <3>. QED
      BY <3>1, Zenon DEF LeadsTo, host
  <2>. QED
    BY <1>1, <1>6, <2>6, ContainerOfRoute DEF hostname
<1>7. CASE cf[name].type # "http"
  <2>1. matching = {}
    BY <1>1, <1>4, <1>5, <1>7
  <2>. HIDE DEF matching
  <2>2. ServeHTTP(host, routes) = NotFound
    BY <1>3, <2>1, Zenon DEF ServeHTTP, matching
  <2>3. LeadsTo(hostname, ProxyPort) = {}
    BY <2>2, HostFacts, Zenon DEF LeadsTo, host
  <2>. QED
    BY <1>7, <2>3 DEF hostname
<1>. QED
  BY <1>6, <1>7

(***************************************************************************)
(* Whatever the services of a project are called and whichever ports they  *)
(* have, the proxy's choice of a route (handler.go:23-52) never mixes them *)
(* up, except two HTTP services whose names make one hostname.             *)
(***************************************************************************)
THEOREM ServicesAnswer == Spec => []ServicesReachable
<1>1. ASSUME InvocationInv PROVE ServicesReachable
  <2>. SUFFICES ASSUME stage = "running", needsSetup, NEW name \in DOMAIN cf, HasOwnHostname(name)
                PROVE  LeadsTo(BuildHostname(name, input.project), ProxyPort)
                         = IF cf[name].type = "http" THEN {<<name, cf[name].containerPort>>} ELSE {}
    BY Zenon DEF ServicesReachable
  <2>1. input \in Inputs /\ cf = Parse(input.services, {}) /\ IsSetUp
    BY <1>1 DEF InvocationInv
  <2>. QED
    BY <2>1, AnswersUnderHostname
<1>. QED
  BY <1>1, InvocationInvHolds, PTL

-------------------------------------------------------------------------------
(* Environment labels *)

\* The last label for a variable is one of the service's own labels.
LEMMA ExtractedLabels ==
    ASSUME NEW labels, IsList(labels), NEW v \in DOMAIN extractEnvLabels(labels)
    PROVE  \E i \in DOMAIN labels :
             Has(labels[i], "ours") /\ extractEnvLabels(labels)[v] = labels[i].value
<1>. DEFINE ours == {i \in DOMAIN labels : Has(labels[i], "ours")}
            same == {i \in ours : labels[i].ours = v}
<1>1. v \in {labels[i].ours : i \in ours} /\ extractEnvLabels(labels)[v] = labels[Max(same)].value
  BY DEF extractEnvLabels
<1>2. same # {} /\ Len(labels) \in Nat /\ same \in SUBSET (0 .. Len(labels))
  <2>1. Len(labels) \in Nat /\ DOMAIN labels = 1 .. Len(labels)
    BY LenProperties DEF IsList
  <2>. QED
    BY <1>1, <2>1
<1>. HIDE DEF same
<1>3. Max(same) \in same
  BY <1>2, MaxOfNaturals
<1>4. Max(same) \in DOMAIN labels /\ Has(labels[Max(same)], "ours")
  BY <1>3 DEF same
<1>. QED
  BY <1>1, <1>4

\* A token is a text or a placeholder.
LEMMA TokensOfLabels ==
    ASSUME input \in Inputs,
           NEW name \in DOMAIN Labels, NEW v \in DOMAIN Labels[name],
           NEW j \in DOMAIN Labels[name][v]
    PROVE  DOMAIN Labels[name][v][j] \in {{"text"}, {"service", "property"}}
<1>. DEFINE labels == input.services[name].labels
<1>1. name \in DOMAIN input.services /\ Labels[name] = extractEnvLabels(labels)
  BY DEF Labels, ParseEnvLabels
<1>2. /\ IsList(labels)
      /\ \A i \in DOMAIN labels : Has(labels[i], "ours") =>
           \A k \in DOMAIN labels[i].value :
              DOMAIN labels[i].value[k] \in {{"text"}, {"service", "property"}}
  BY <1>1, InputsAssumption, Zenon
<1>. HIDE DEF labels
<1>3. PICK i \in DOMAIN labels : Has(labels[i], "ours") /\ Labels[name][v] = labels[i].value
  BY <1>1, <1>2, ExtractedLabels
<1>. QED
  BY <1>2, <1>3

\* The labels after resolution, one by one.
ResolvedFrom(env, labels, eps) ==
    /\ DOMAIN env = DOMAIN labels
    /\ \A name \in DOMAIN labels :
         /\ DOMAIN env[name] = DOMAIN labels[name]
         /\ \A v \in DOMAIN labels[name] :
              /\ DOMAIN env[name][v] = DOMAIN labels[name][v]
              /\ \A i \in DOMAIN labels[name][v] :
                   env[name][v][i] = Resolved(labels[name][v][i], eps, ProxyPort)

LEMMA ResolvedLabels ==
    ASSUME NEW labels, NEW eps
    PROVE  ResolvedFrom(ResolveAllEnvLabels(labels, eps, ProxyPort), labels, eps)
  BY DEF ResolvedFrom, ResolveAllEnvLabels, ResolveEnvTemplate

\* An entry has the environment of its service, and the port of its route.
LEMMA EntryFacts ==
    ASSUME input \in Inputs, cf = Parse(input.services, {}), IsSetUp, NEW e \in entries
    PROVE  LET env == ResolveAllEnvLabels(Labels, Endpoints(NewRoutes), ProxyPort) IN
           /\ e.service \in DOMAIN cf \cup DOMAIN Labels
           /\ e.environment = Environment(e.service, env)
           /\ e.service \in DOMAIN cf =>
                \E i \in Places : e.service = NameOrder[i] /\ e = RouteEntry(i, env)
           /\ e.service \notin DOMAIN cf =>
                e.service \in DOMAIN Labels /\ e = LabelEntry(e.service, env)
<1>. DEFINE env == ResolveAllEnvLabels(Labels, Endpoints(NewRoutes), ProxyPort)
<1>1. entries = {RouteEntry(j, env) : j \in Places}
                  \cup {LabelEntry(name, env) : name \in DOMAIN env \ DOMAIN cf}
  BY EntriesByPlace DEF IsSetUp
<1>2. DOMAIN env = DOMAIN Labels
  BY ResolvedLabels DEF ResolvedFrom
<1>. HIDE DEF env
<1>3. CASE \E j \in Places : e = RouteEntry(j, env)
  <2>1. PICK j \in Places : e = RouteEntry(j, env)
    BY <1>3
  <2>2. e.service = NameOrder[j] /\ e.environment = Environment(NameOrder[j], env)
    BY <2>1 DEF RouteEntry
  <2>. QED
    BY <2>1, <2>2, PlaceFacts DEF env
<1>4. CASE \E name \in DOMAIN env \ DOMAIN cf : e = LabelEntry(name, env)
  <2>1. PICK name \in DOMAIN env \ DOMAIN cf : e = LabelEntry(name, env)
    BY <1>4
  <2>2. e.service = name /\ e.environment = env[name]
    BY <2>1 DEF LabelEntry
  <2>3. e.environment = Environment(e.service, env)
    BY <2>1, <2>2 DEF Environment
  <2>. QED
    BY <1>2, <2>1, <2>2, <2>3 DEF env
<1>. QED
  BY <1>1, <1>3, <1>4

\* No placeholder is left of one that can be resolved.
LEMMA NothingUnresolved ==
    ASSUME NEW token, NEW eps, CanResolve(token, eps),
           DOMAIN token \in {{"text"}, {"service", "property"}}
    PROVE  ~Has(Resolved(token, eps, ProxyPort), "service")
<1>1. CASE DOMAIN token = {"text"}
  BY <1>1 DEF Resolved, Has
<1>2. CASE DOMAIN token = {"service", "property"}
  <2>1. ~Has(token, "text") /\ Has(token, "service")
    BY <1>2 DEF Has
  <2>2. CASE token.service = "proxy"
    <3>1. Resolved(token, eps, ProxyPort) = [port |-> ProxyPort]
      BY <2>1, <2>2 DEF Resolved
    <3>. QED
      BY <3>1 DEF Has
  <2>3. CASE token.service # "proxy"
    <3>. DEFINE ep == eps[token.service]
                url == [http |-> ep.type = "http", host |-> ep.hostname, port |-> ep.port]
    <3>1. token.property \in {"url", "host", "port"}
      BY <2>1, <2>3 DEF CanResolve
    <3>2. Resolved(token, eps, ProxyPort)
            \in {url, [host |-> ep.hostname], [port |-> ep.port]}
      BY <2>1, <2>3, <3>1, Zenon DEF Resolved
    <3>3. /\ DOMAIN url = {"http", "host", "port"}
          /\ DOMAIN [host |-> ep.hostname] = {"host"} /\ DOMAIN [port |-> ep.port] = {"port"}
      BY Zenon
    <3>. HIDE DEF url
    <3>. QED
      BY <3>2, <3>3 DEF Has
  <2>. QED
    BY <2>2, <2>3
<1>. QED
  BY <1>1, <1>2

(***************************************************************************)
(* The override file has an entry for each service with a route or a label *)
(* and for no other, with the route's port and every label resolved        *)
(* (override.go:18-59 on what passthrough.go:141-191 gives it).            *)
(***************************************************************************)
THEOREM OverrideHasAll == Spec => []OverrideComplete
<1>1. ASSUME InvocationInv, stage = "running", needsSetup
      PROVE  /\ {e.service : e \in entries} = DOMAIN cf \cup DOMAIN Labels
             /\ \A e, f \in entries : e.service = f.service => e = f
             /\ \A e \in entries :
                  /\ e.hostPort # 0 <=> e.service \in DOMAIN cf
                  /\ e.service \in DOMAIN Labels =>
                       DOMAIN e.environment = DOMAIN Labels[e.service]
                  /\ \A v \in DOMAIN e.environment : \A i \in DOMAIN e.environment[v] :
                       ~Has(e.environment[v][i], "service")
  <2>. DEFINE eps == Endpoints(NewRoutes)
              env == ResolveAllEnvLabels(Labels, eps, ProxyPort)
  <2>1. input \in Inputs /\ cf = Parse(input.services, {}) /\ IsSetUp
    BY <1>1 DEF InvocationInv
  <2>2. entries = {RouteEntry(j, env) : j \in Places}
                    \cup {LabelEntry(name, env) : name \in DOMAIN env \ DOMAIN cf}
    BY <2>1, EntriesByPlace DEF IsSetUp
  <2>3. ResolvedFrom(env, Labels, eps)
    BY ResolvedLabels, Zenon
  <2>4. CanResolveAll(Labels, eps)
    BY <2>1 DEF IsSetUp
  <2>. HIDE DEF env, eps
  <2>5. {e.service : e \in entries} = DOMAIN cf \cup DOMAIN Labels
    <3>1. ASSUME NEW name \in DOMAIN cf PROVE \E e \in entries : e.service = name
      <4>1. PICK j \in Places : NameOrder[j] = name
        BY <2>1, ServicesFacts
      <4>2. RouteEntry(j, env).service = name
        BY <4>1 DEF RouteEntry
      <4>. QED
        BY <2>2, <4>2
    <3>2. ASSUME NEW name \in DOMAIN Labels, name \notin DOMAIN cf
          PROVE  \E e \in entries : e.service = name
      <4>1. LabelEntry(name, env).service = name
        BY DEF LabelEntry
      <4>. QED
        BY <2>2, <2>3, <3>2, <4>1 DEF ResolvedFrom
    <3>3. \A e \in entries : e.service \in DOMAIN cf \cup DOMAIN Labels
      BY <2>1, EntryFacts, Zenon
    <3>. QED
      BY <3>1, <3>2, <3>3, Zenon
  <2>6. ASSUME NEW e \in entries
        PROVE  /\ e.environment = Environment(e.service, env)
               /\ e.service \in DOMAIN cf =>
                    \E i \in Places : e.service = NameOrder[i] /\ e = RouteEntry(i, env)
               /\ e.service \notin DOMAIN cf => e = LabelEntry(e.service, env)
    BY <2>1, EntryFacts DEF env, eps
  <2>7. ASSUME NEW e \in entries, NEW f \in entries, e.service = f.service PROVE e = f
    <3>1. CASE e.service \in DOMAIN cf
      <4>1. PICK i \in Places : e.service = NameOrder[i] /\ e = RouteEntry(i, env)
        BY <2>6, <3>1
      <4>2. PICK j \in Places : f.service = NameOrder[j] /\ f = RouteEntry(j, env)
        BY <2>6, <2>7, <3>1
      <4>. QED
        BY <2>7, <4>1, <4>2, PlaceFacts
    <3>2. CASE e.service \notin DOMAIN cf
      BY <2>6, <2>7, <3>2
    <3>. QED
      BY <3>1, <3>2
  <2>8. ASSUME NEW e \in entries PROVE e.hostPort # 0 <=> e.service \in DOMAIN cf
    <3>1. CASE e.service \in DOMAIN cf
      <4>1. PICK i \in Places : e = RouteEntry(i, env)
        BY <2>6, <3>1
      <4>2. e.hostPort = FirstPort + i
        BY <4>1 DEF RouteEntry
      <4>. QED
        BY <3>1, <4>2, PlaceFacts
    <3>2. CASE e.service \notin DOMAIN cf
      <4>1. e.hostPort = 0
        BY <2>6, <3>2 DEF LabelEntry
      <4>. QED
        BY <3>2, <4>1
    <3>. QED
      BY <3>1, <3>2
  <2>9. ASSUME NEW e \in entries, e.service \in DOMAIN Labels
        PROVE  e.environment = env[e.service]
    BY <2>3, <2>6, <2>9 DEF ResolvedFrom, Environment
  <2>10. ASSUME NEW e \in entries, NEW v \in DOMAIN e.environment,
                NEW i \in DOMAIN e.environment[v]
         PROVE  ~Has(e.environment[v][i], "service")
    <3>1. CASE e.service \in DOMAIN Labels
      <4>. DEFINE token == Labels[e.service][v][i]
      <4>1. /\ v \in DOMAIN Labels[e.service] /\ i \in DOMAIN Labels[e.service][v]
            /\ e.environment[v][i] = Resolved(token, eps, ProxyPort)
        BY <2>3, <2>9, <2>10, <3>1 DEF ResolvedFrom
      <4>2. CanResolve(token, eps)
        BY <2>4, <3>1, <4>1, Zenon DEF CanResolveAll
      <4>3. DOMAIN token \in {{"text"}, {"service", "property"}}
        BY <2>1, <3>1, <4>1, TokensOfLabels
      <4>. QED
        BY <4>1, <4>2, <4>3, NothingUnresolved
    <3>2. CASE e.service \notin DOMAIN Labels
      BY <2>3, <2>6, <2>10, <3>2 DEF ResolvedFrom, Environment, NoEnvironment
    <3>. QED
      BY <3>1, <3>2
  <2>11. ASSUME NEW e \in entries, e.service \in DOMAIN Labels
         PROVE  DOMAIN e.environment = DOMAIN Labels[e.service]
    BY <2>3, <2>9, <2>11 DEF ResolvedFrom
  <2>. QED
    BY <2>5, <2>7, <2>8, <2>10, <2>11
<1>2. InvocationInv => OverrideComplete
  BY <1>1, Zenon DEF OverrideComplete, Labels
<1>. QED
  BY <1>2, InvocationInvHolds, PTL

\* The address that {{service.url}} becomes.
LEMMA UrlOfService ==
    ASSUME NEW token, NEW eps, ~Has(token, "text"), token.service # "proxy",
           token.property = "url"
    PROVE  /\ Resolved(token, eps, ProxyPort).http <=> eps[token.service].type = "http"
           /\ Resolved(token, eps, ProxyPort).host = eps[token.service].hostname
           /\ Resolved(token, eps, ProxyPort).port = eps[token.service].port
<1>. DEFINE ep == eps[token.service]
            http == ep.type = "http"
            url == [http |-> http, host |-> ep.hostname, port |-> ep.port]
<1>1. Resolved(token, eps, ProxyPort) = url
  BY Zenon DEF Resolved
<1>. HIDE DEF http
<1>2. url.http = http /\ url.host = ep.hostname /\ url.port = ep.port
  BY Zenon
<1>. HIDE DEF url
<1>. QED
  BY <1>1, <1>2, Zenon DEF http

(***************************************************************************)
(* A label {{service.url}} of any service, resolved with the endpoints of  *)
(* one command, leads to the service it names (envlabel.go:25-155 with     *)
(* passthrough.go:148-166 and handler.go:23-52).                           *)
(***************************************************************************)
THEOREM LabelsReachServices == Spec => []LabelsLeadToServices
<1>1. ASSUME InvocationInv, stage = "running",
             NEW e \in entries, NEW v \in DOMAIN e.environment, NEW i \in DOMAIN e.environment[v],
             Has(Labels[e.service][v][i], "service"),
             Labels[e.service][v][i].property = "url"
      PROVE  LET hole == Labels[e.service][v][i]
                 address == e.environment[v][i]
             IN  /\ address.http <=> cf[hole.service].type = "http"
                 /\ HasOwnHostname(hole.service) \/ ~address.http =>
                      LeadsTo(address.host, address.port)
                        = {<<hole.service, cf[hole.service].containerPort>>}
  <2>. DEFINE eps == Endpoints(NewRoutes)
              env == ResolveAllEnvLabels(Labels, eps, ProxyPort)
              hole == Labels[e.service][v][i]
              address == e.environment[v][i]
  <2>1. input \in Inputs /\ cf = Parse(input.services, {}) /\ IsSetUp
    <3>1. needsSetup
      BY <1>1 DEF InvocationInv, NothingSetUp
    <3>. QED
      BY <1>1, <3>1 DEF InvocationInv
  <2>2. e.environment = Environment(e.service, env)
    BY <2>1, EntryFacts, Zenon
  <2>3. ResolvedFrom(env, Labels, eps)
    BY ResolvedLabels, Zenon
  <2>4. CanResolveAll(Labels, eps)
    BY <2>1 DEF IsSetUp
  <2>5. DOMAIN eps = DOMAIN cf /\ \A j \in Places : eps[NameOrder[j]] = Endpoint(NewRoutes[j])
    BY <2>1, EndpointOfService, Zenon
  <2>. HIDE DEF env, eps
  <2>6. e.service \in DOMAIN Labels
    BY <1>1, <2>2, <2>3 DEF ResolvedFrom, Environment, NoEnvironment
  <2>7. /\ v \in DOMAIN Labels[e.service] /\ i \in DOMAIN Labels[e.service][v]
        /\ address = Resolved(hole, eps, ProxyPort)
    BY <1>1, <2>2, <2>3, <2>6 DEF ResolvedFrom, Environment
  <2>8. ~Has(hole, "text")
    <3>1. DOMAIN hole \in {{"text"}, {"service", "property"}}
      BY <2>1, <2>6, <2>7, TokensOfLabels
    <3>. QED
      BY <1>1, <3>1 DEF Has
  <2>9. hole.service \in DOMAIN cf /\ hole.service # "proxy"
    <3>1. CanResolve(hole, eps)
      BY <2>4, <2>6, <2>7, Zenon DEF CanResolveAll
    <3>. QED
      BY <1>1, <2>5, <2>8, <3>1 DEF CanResolve
  <2>. HIDE DEF hole
  <2>10. PICK at \in Places : NameOrder[at] = hole.service
    BY <2>1, <2>9, ServicesFacts
  <2>11. eps[hole.service] = Endpoint(NewRoutes[at])
    BY <2>5, <2>10
  <2>12. /\ address.http <=> eps[hole.service].type = "http"
         /\ address.host = eps[hole.service].hostname /\ address.port = eps[hole.service].port
    <3>1. hole.property = "url"
      BY <1>1 DEF hole
    <3>. HIDE DEF address
    <3>. QED
      BY <2>7, <2>8, <2>9, <3>1, UrlOfService
  <2>. HIDE DEF address
  <2>13. /\ NewRoutes[at].type = cf[hole.service].type
         /\ NewRoutes[at].hostPort = FirstPort + at
         /\ NewRoutes[at].hostname = BuildHostname(hole.service, input.project)
         /\ cf[hole.service].type \in {"tcp", "http"}
    BY <2>1, <2>9, <2>10, RoutesByPlace, ServicesFacts
  <2>14. CASE cf[hole.service].type = "tcp"
    <3>1. /\ Endpoint(NewRoutes[at]).hostname = Localhost
          /\ Endpoint(NewRoutes[at]).port = FirstPort + at
          /\ Endpoint(NewRoutes[at]).type = "tcp"
      BY <2>13, <2>14 DEF Endpoint
    <3>2. ~address.http /\ address.host = Localhost /\ address.port = FirstPort + at
      BY <2>11, <2>12, <3>1
    <3>3. LeadsTo(Localhost, FirstPort + at) = Container(FirstPort + at)
      BY PlaceFacts DEF LeadsTo
    <3>4. Container(FirstPort + at) = {<<hole.service, cf[hole.service].containerPort>>}
      BY <2>1, <2>10, ContainerOfRoute
    <3>. QED
      BY <2>14, <3>2, <3>3, <3>4 DEF hole, address
  <2>15. CASE cf[hole.service].type = "http"
    <3>1. /\ Endpoint(NewRoutes[at]).hostname = BuildHostname(hole.service, input.project)
          /\ Endpoint(NewRoutes[at]).port = ProxyPort
          /\ Endpoint(NewRoutes[at]).type = "http"
      BY <2>13, <2>15 DEF Endpoint
    <3>2. /\ address.http /\ address.port = ProxyPort
          /\ address.host = BuildHostname(hole.service, input.project)
      BY <2>11, <2>12, <3>1
    <3>3. HasOwnHostname(hole.service) =>
            LeadsTo(BuildHostname(hole.service, input.project), ProxyPort)
              = {<<hole.service, cf[hole.service].containerPort>>}
      BY <2>1, <2>9, <2>15, AnswersUnderHostname
    <3>. QED
      BY <2>15, <3>2, <3>3 DEF hole, address
  <2>. QED
    BY <2>13, <2>14, <2>15
<1>2. InvocationInv => LabelsLeadToServices
  BY <1>1, Zenon DEF LabelsLeadToServices, Labels
<1>. QED
  BY <1>2, InvocationInvHolds, PTL
=============================================================================
