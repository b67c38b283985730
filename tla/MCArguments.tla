---------------------------- MODULE MCArguments ----------------------------
(* Three kinds of input: short command lines, one resource of any spelling, *)
(* and one command with any environment.                                   *)
EXTENDS Arguments

CONSTANTS MaxWords, MaxLetters, MaxEntries

MCDigit == [d \in {"2"} |-> 2]

A == <<"a">>
B == <<"b", "x">>
CommandWords ==
  {Opt("d"), Opt("h"), Opt("?"), Opt("n"), Opt("B"), Opt("q"), Opt("W"), Opt("r"), Dashes,
   <<>>, A, <<"a", ":", "2">>, <<"b", "x", ":", "x">>, B}

Spellings == BoundedSeq({":", "a", "2"}, MaxLetters)

Entries ==
  {[name |-> <<"PATH">>, val |-> <<"/bin">>], [name |-> <<"PATH">>, val |-> <<"/sbin">>],
   [name |-> <<"DISTLOCK_PREFIX">>, val |-> <<"LOCK">>],
   [name |-> <<"LOCK", "_ID">>, val |-> <<"outer id">>],
   [name |-> <<"DISTLOCK", "_RESOURCES">>, val |-> <<"a", ":", "1">>],
   [name |-> <<"WORD">>, val |-> NoVal]}

Command == <<Opt("r"), A, Opt("r"), <<"b", ":", "2">>, Dashes, A>>

MCInputs ==
  BoundedSeq(CommandWords, MaxWords) \X {<<>>}
  \cup {<<Opt("r"), w>> : w \in Spellings} \X {<<>>}
  \cup {Command, <<Opt("e"), <<"M", " ", "Y">>>> \o Command} \X BoundedSeq(Entries, MaxEntries)

=============================================================================
