----------------------------- MODULE Arguments -----------------------------
(***************************************************************************)
(* From the command line to what the child does (main, before the fork and *)
(* after it), and to the environment of the command when it has the lock.  *)
(* argv, without the name of the program, is a sequence of words, each a   *)
(* sequence of symbols.  getopt is the one of the GNU C library, which     *)
(* passes over the words that are not options and puts them last.          *)
(***************************************************************************)
EXTENDS StringTokenizer, CommandEnvironment

CONSTANTS
  Inputs,    \* pairs of a command line and an environment
  Digit,     \* the values of the symbols that are digits
  Unsigned   \* 2^32: the values of an unsigned int

(* A command line is a sequence of words, a word one of symbols; an        *)
(* environment is a sequence of entries.                                   *)
ASSUME InputsAssumption ==
  \A i \in Inputs :
    /\ i[1] \in Seq(ToSet(i[1])) /\ i[2] \in Seq(ToSet(i[2]))
    /\ \A w \in ToSet(i[1]) : w \in Seq(ToSet(w))

ASSUME DigitAssumption == Digit \in [DOMAIN Digit -> 0 .. 9]

VARIABLES
  argv,      \* the command line
  at,        \* the next word that getopt looks at
  before,    \* argv[optind-1], once getopt is done
  operands,  \* the words from optind on
  given,     \* history: the options handled, each with its (nonempty) argument
  flags,     \* which of query, is_any and is_waiting are true
  resource,  \* the variable of that name
  resMap,    \* res_map: name to count
  numbers,   \* retry_num, beacon_time and port, by their options
  counts,    \* the resources of the DistributedLock, each with its count
  doing,     \* what the child does with them
  status

scanned == <<argv, at, before, operands, given>>
settings == <<prefix, flags, resource, resMap, numbers>>
child == <<counts, doing, environment>>
vars == <<envp, pc, status, scanned, settings, child, tokenizer>>

Opt(c) == <<"-", c>>
Plain == {"d", "h", "v"}
Numeric == {"b", "n", "p"}
Queries == {"q", "Q", "W"}
WithArgument == Numeric \cup Queries \cup {"B", "e", "r"}
Dashes == Opt("-")
IsOption(w) == Len(w) > 1 /\ w[1] = "-"

FlagOf == [c \in Queries |->
             CASE c = "q" -> "query" [] c = "Q" -> "any" [] c = "W" -> "waiting"]

NoCall == [call |-> "none", about |-> <<>>]
NoStatus == -1

HasColon(w) == Delim \in ToSet(w)

(* atoi: the digits that w begins with.  (The one of the C library also     *)
(* passes over blanks and takes a sign, and has the range of an int: the    *)
(* words of Inputs have no blanks and no signs, and their numbers fit.)     *)
Atoi(w) ==
  LET digits == Max({k \in 0 .. Len(w) : \A i \in 1 .. k : w[i] \in DOMAIN Digit})
      value[k \in 0 .. digits] == IF k = 0 THEN 0 ELSE 10 * value[k - 1] + Digit[w[k]]
  IN  value[digits]

End(s) == pc' = "ended" /\ status' = s

-----------------------------------------------------------------------------
(* getopt: the word it looks at, and the one that follows.                 *)
Here(w) == pc = "options" /\ at <= Len(argv) /\ argv[at] = w

Arg == argv[at + 1]

TakeOption(c) ==
  /\ Here(Opt(c)) /\ at < Len(argv)
  /\ at' = at + 2 /\ before' = Arg
  /\ given' = IF Arg = <<>> THEN given ELSE Append(given, <<c, Arg>>)
  /\ UNCHANGED <<argv, operands, envp, child>>

PassOver ==
  /\ pc = "options" /\ at <= Len(argv) /\ ~ IsOption(argv[at])
  /\ operands' = Append(operands, argv[at])
  /\ at' = at + 1
  /\ UNCHANGED <<argv, before, given, settings, envp, child, pc, status, tokenizer>>

(* The options end, with "--" or with the words.                           *)
EndOfOptions ==
  /\ pc = "options" /\ pc' = "parsed"
  /\ \/ Here(Dashes) /\ before' = Dashes
        /\ operands' = operands \o SubSeq(argv, at + 1, Len(argv))
     \/ at > Len(argv) /\ UNCHANGED <<before, operands>>
  /\ UNCHANGED <<argv, at, given, settings, envp, child, status, tokenizer>>

(* -d sets detach_i, which DistLockCli is about.                           *)
Detach ==
  /\ Here(Opt("d"))
  /\ at' = at + 1 /\ before' = Opt("d")
  /\ UNCHANGED <<argv, operands, given, settings, envp, child, pc, status, tokenizer>>

ShowHelp ==
  /\ Here(Opt("h")) \/ Here(Opt("v"))
  /\ End(0)
  /\ UNCHANGED <<scanned, settings, envp, child, tokenizer>>

(* An unknown option, one without its argument, or -r with an empty one.   *)
Usage ==
  /\ \/ Here(Opt("?"))
     \/ at = Len(argv) /\ \E c \in WithArgument : Here(Opt(c))
     \/ at < Len(argv) /\ Here(Opt("r")) /\ Arg = <<>>
  /\ End(1)
  /\ UNCHANGED <<scanned, settings, envp, child, tokenizer>>

-----------------------------------------------------------------------------
(* -n, -b and -p; -b alone takes an empty word, for 0.                     *)
Number ==
  /\ \E c \in Numeric :
       /\ TakeOption(c)
       /\ numbers' = IF Arg = <<>> /\ c # "b" THEN numbers
                      ELSE [numbers EXCEPT ![c] = Atoi(Arg) % Unsigned]
  /\ UNCHANGED <<prefix, flags, resource, resMap, pc, status, tokenizer>>

(* -e, with its spaces replaced.                                           *)
Prefix ==
  /\ TakeOption("e")
  /\ prefix' = [i \in DOMAIN Arg |-> IF Arg[i] = " " THEN "_" ELSE Arg[i]]
  /\ UNCHANGED <<flags, resource, resMap, numbers, pc, status, tokenizer>>

(* -B: nothing here depends on the address, which may be an empty word.    *)
Address == TakeOption("B") /\ UNCHANGED <<settings, pc, status, tokenizer>>

(* A query option with an empty word has no effect.                        *)
NoQuery ==
  /\ \E c \in Queries : TakeOption(c) /\ Arg = <<>>
  /\ UNCHANGED <<settings, pc, status, tokenizer>>

(* Mutants of Query: the flag of an earlier option stays; or the resource  *)
(* does.                                                                   *)
QueryAsWell ==
  /\ \E c \in Queries :
       /\ TakeOption(c) /\ Arg # <<>>
       /\ flags' = flags \cup {FlagOf[c]} /\ resource' = Arg
       /\ resMap' = Put(resMap, Arg, 1)
  /\ UNCHANGED <<prefix, numbers, pc, status, tokenizer>>

QueryFirst ==
  /\ \E c \in Queries :
       /\ TakeOption(c) /\ Arg # <<>>
       /\ flags' = {FlagOf[c]}
       /\ resource' = IF resource = <<>> THEN Arg ELSE resource
       /\ resMap' = Put(resMap, Arg, 1)
  /\ UNCHANGED <<prefix, numbers, pc, status, tokenizer>>

(* -q, -Q and -W: the word is the name, whatever it contains.              *)
Query ==
  /\ \E c \in Queries :
       /\ TakeOption(c) /\ Arg # <<>>
       /\ flags' = {FlagOf[c]} /\ resource' = Arg
       /\ resMap' = Put(resMap, Arg, 1)
  /\ UNCHANGED <<prefix, numbers, pc, status, tokenizer>>

(* -r: the count is one, or has to be read from the word.                  *)
Resource ==
  /\ TakeOption("r") /\ Arg # <<>>
  /\ resource' = Arg
  /\ IF HasColon(Arg)
     THEN Construct(Arg) /\ pc' = "tokens" /\ UNCHANGED resMap
     ELSE resMap' = Put(resMap, Arg, 1) /\ UNCHANGED <<pc, tokenizer>>
  /\ UNCHANGED <<prefix, flags, numbers, status>>

ReadTokens ==
  /\ pc = "tokens" /\ Len(tokens) < 2
  /\ Tokenize
  /\ UNCHANGED <<scanned, settings, envp, child, pc, status>>

(* Mutant of Counted: only a new name is entered.                          *)
CountedOnce ==
  /\ pc = "tokens" /\ Len(tokens) = 2
  /\ IF Atoi(tokens[2]) < 1
     THEN End(1) /\ UNCHANGED resMap
     ELSE /\ resMap' = IF tokens[1] \in DOMAIN resMap THEN resMap
                       ELSE Put(resMap, tokens[1], Atoi(tokens[2]))
          /\ pc' = "options" /\ UNCHANGED status
  /\ UNCHANGED <<scanned, prefix, flags, resource, numbers, envp, child, tokenizer>>

(* The first token and the second; the rest is ignored.                    *)
Counted ==
  /\ pc = "tokens" /\ Len(tokens) = 2
  /\ IF Atoi(tokens[2]) < 1
     THEN End(1) /\ UNCHANGED resMap
     ELSE /\ resMap' = Put(resMap, tokens[1], Atoi(tokens[2]))
          /\ pc' = "options" /\ UNCHANGED status
  /\ UNCHANGED <<scanned, prefix, flags, resource, numbers, envp, child, tokenizer>>

-----------------------------------------------------------------------------
(* The child: every resource is created and, if its count is above one,    *)
(* given its count.                                                        *)
DefineResources ==
  /\ pc = "parsed"
  /\ IF resMap = <<>>
     THEN End(1) /\ UNCHANGED counts
     ELSE /\ counts' = [r \in DOMAIN resMap |-> IF resMap[r] > 1 THEN resMap[r] ELSE 1]
          /\ pc' = "defined" /\ UNCHANGED status
  /\ UNCHANGED <<scanned, settings, envp, doing, environment, tokenizer>>

(* One branch for each of the flags alone, one for none, none for two.     *)
AskQuery ==
  /\ pc = "defined" /\ flags # {}
  /\ IF Cardinality(flags) = 1
     THEN /\ doing' = [call |-> CHOOSE f \in flags : TRUE, about |-> resource]
          /\ \E answer \in {0, 1} : End(answer)
     ELSE UNCHANGED doing /\ End(0)
  /\ UNCHANGED <<scanned, settings, envp, counts, environment, tokenizer>>

(* Mutant of Execute: "--" is looked for anywhere.                         *)
ExecuteIfDashes ==
  /\ pc = "defined" /\ flags = {}
  /\ IF Dashes \in ToSet(argv) /\ operands # <<>>
     THEN doing' = [NoCall EXCEPT !.call = "acquire"] /\ pc' = "inherit" /\ UNCHANGED status
     ELSE UNCHANGED doing /\ End(2)
  /\ UNCHANGED <<scanned, settings, envp, counts, environment, tokenizer>>

(* The command is what follows "--", and is run with the lock.             *)
Execute ==
  /\ pc = "defined" /\ flags = {}
  /\ IF before = Dashes /\ operands # <<>>
     THEN doing' = [NoCall EXCEPT !.call = "acquire"] /\ pc' = "inherit" /\ UNCHANGED status
     ELSE UNCHANGED doing /\ End(2)
  /\ UNCHANGED <<scanned, settings, envp, counts, environment, tokenizer>>

(* Its process makes its environment.                                      *)
RegisterId ==
  /\ pc = "id" /\ pc' = "resources"
  /\ RegisterEnv(prefix \o <<"_ID">>, <<"own id">>)

RegisterResources ==
  /\ pc = "resources" /\ pc' = "exec"
  /\ RegisterEnv(prefix \o <<"_RESOURCES">>, ResourceList(resMap))

Environ ==
  /\ Inherit \/ Inherited \/ RegisterId \/ RegisterResources
  /\ UNCHANGED <<scanned, settings, envp, counts, doing, status, tokenizer>>

-----------------------------------------------------------------------------
Init ==
  /\ \E i \in Inputs : argv = i[1] /\ envp = i[2]
  /\ prefix = GetEnv(<<"DISTLOCK_PREFIX">>, <<"DISTLOCK">>)
  /\ at = 1 /\ before = <<"dist_lock">> /\ operands = <<>> /\ given = <<>>
  /\ flags = {} /\ resource = <<>> /\ resMap = <<>>
  /\ numbers = [c \in Numeric |-> CASE c = "b" -> 50 [] c = "n" -> 0 [] c = "p" -> 5000]
  /\ counts = <<>> /\ doing = NoCall
  /\ input = <<>> /\ str = <<>> /\ cur = 1 /\ place = "none" /\ tokens = <<>>
  /\ left = envp /\ list = <<>> /\ array = NoArray /\ wild = {}
  /\ pc = "options" /\ status = NoStatus

Next ==
  \/ PassOver \/ EndOfOptions \/ Detach \/ ShowHelp \/ Usage
  \/ Number \/ Prefix \/ Address \/ NoQuery \/ Query \/ Resource \/ ReadTokens \/ Counted
  \/ DefineResources \/ AskQuery \/ Execute \/ Environ

Spec == Init /\ [][Next]_vars /\ WF_vars(Next)

-----------------------------------------------------------------------------
(* The name and the count that an option asks for.                         *)
Field(w, i) == IF i <= Len(Fields(w, Delim)) THEN Fields(w, Delim)[i] ELSE <<>>
NameIn(g) == IF g[1] = "r" THEN Field(g[2], 1) ELSE g[2]
CountIn(g) == IF g[1] = "r" /\ HasColon(g[2]) THEN Atoi(Field(g[2], 2)) ELSE 1

Asking == {i \in DOMAIN given : given[i][1] \in Queries}
Named == Asking \cup {i \in DOMAIN given : given[i][1] = "r"}

(* What is locked is what was named, no more and no less, each with the    *)
(* count it was named with last; and no count, be it overridden later, was *)
(* anything but a positive number.                                         *)
DefinedAsAsked ==
  pc = "defined" =>
    /\ DOMAIN counts = {NameIn(given[i]) : i \in Named}
    /\ \A r \in DOMAIN counts :
         counts[r] = CountIn(given[Max({i \in Named : NameIn(given[i]) = r})])
    /\ \A i \in Named : CountIn(given[i]) >= 1

(* The tool never ends with the status 0 of a free resource without having *)
(* queried or acquired, unless it was asked for help.                      *)
SomethingIsDone ==
  status = 0 => \/ doing # NoCall
                \/ \E i \in DOMAIN argv : i = at /\ argv[i] \in {Opt("h"), Opt("v")}

(* Used as the usage message says, with queries or with -r, the tool asks  *)
(* what the last query option asks.                                        *)
AsksLast ==
  doing.call \notin {"none", "acquire"} /\ Named = Asking =>
    LET g == given[Max(Asking)] IN doing = [call |-> FlagOf[g[1]], about |-> g[2]]

(* A command is only run if there is one, and it ends with all the words   *)
(* that follow a "--".                                                     *)
CommandIsGiven ==
  doing.call = "acquire" =>
    /\ operands # <<>>
    /\ \E i \in DOMAIN argv :
         argv[i] = Dashes /\ IsSuffix(SubSeq(argv, i + 1, Len(argv)), operands)

(* The names in the environment of the tool, and those of the variables    *)
(* that it adds.                                                           *)
Names == {e.name : e \in ToSet(envp)}
Own == {prefix \o <<"_ID">>, prefix \o <<"_RESOURCES">>}

EachOnce ==
  /\ {v.name : v \in ToSet(array)} = Names \cup Own
  /\ Len(array) = Cardinality(Names \cup Own)

(* The command has each variable once: those of the lock around it tell it *)
(* what this tool holds, even when an outer dist_lock has set them, and    *)
(* all others are as they were.  Nothing that is not its own has been      *)
(* deleted on the way there.                                               *)
PassesOn ==
  pc = "exec" =>
    LET ValIn(s, name) == s[Max({i \in DOMAIN s : s[i].name = name})].val
        ValOf(name) == ValIn(array, name)
        Was(name) == ValIn(envp, name)
    IN  /\ EachOnce
        /\ \A n \in Names \ Own : ValOf(n) = IF Was(n) = NoVal THEN n ELSE Was(n)
        /\ ToSet(Fields(ValOf(prefix \o <<"_RESOURCES">>), ",")) =
             {r \o <<":", ToString(counts[r])>> : r \in DOMAIN counts}
        /\ DeletesOwn

(* Whatever is typed, the loops over it end, and something comes of it.    *)
Ends == <>(pc \in {"ended", "exec"})

=============================================================================
