------------------------- MODULE CommandEnvironment -------------------------
(***************************************************************************)
(* The environment that the command is run with: the one of the tool, read *)
(* into the map env_list, and two variables of its own.  env_array, which  *)
(* execvpe takes, is built anew after each change, and its lines deleted   *)
(* by their number in the map, which has changed by then.  A name or a     *)
(* value is a sequence of symbols.                                         *)
(***************************************************************************)
EXTENDS Integers, SequencesExt, TLC

VARIABLES
  envp,    \* the environment of the tool: entries [name, val]
  prefix,  \* prefix_env
  left,    \* the entries not yet read
  list,    \* env_list
  array,   \* env_array without its final NULL; NoArray before the first
  wild,    \* history: places deleted that are not in the array
  pc       \* where main is

environment == <<left, list, array, wild>>

(* The val of an entry without "=", and the null pointer.                  *)
NoVal == <<"no value">>
NoArray == <<[name |-> <<"NULL">>, val |-> NoVal]>>

(* getenv: the first of its name, or other.                                *)
GetEnv(name, other) ==
  LET named == SelectSeq(envp, LAMBDA e : e.name = name /\ e.val # NoVal)
  IN  IF named = <<>> THEN other ELSE named[1].val

(* m[x] = y                                                                *)
Put(m, x, y) == [z \in DOMAIN m \cup {x} |-> IF z = x THEN y ELSE m[z]]

Lines(m) ==
  LET names == SetToSeq(DOMAIN m)
  IN  [i \in DOMAIN names |-> [name |-> names[i], val |-> m[names[i]]]]

(* The list of resources and counts, "r:n,s:m".                            *)
ResourceList(m) ==
  LET lines == Lines(m)
      text[i \in 0 .. Len(lines)] ==
        IF i = 0 THEN <<>>
        ELSE text[i - 1] \o lines[i].name \o <<":", ToString(lines[i].val), ",">>
  IN  Front(text[Len(lines)])

-----------------------------------------------------------------------------
(* Mutant of UpdateArray: that there is an array is taken for granted.     *)
UpdateArrayAlways(m) ==
  /\ wild' = wild \cup {i \in 1 .. Cardinality(DOMAIN m) - 1 :
                           array = NoArray \/ i > Len(array)}
  /\ array' = Lines(m)

(* updateEnvironmentArray                                                  *)
UpdateArray(m) ==
  /\ wild' = wild \cup {i \in 1 .. Cardinality(DOMAIN m) - 1 :
                           array # NoArray /\ i > Len(array)}
  /\ array' = Lines(m)

(* inheritEnvironment: without "=" the whole word is the value, too.       *)
Inherit ==
  /\ pc = "inherit" /\ left # <<>>
  /\ LET e == Head(left)
     IN  list' = Put(list, e.name, IF e.val = NoVal THEN e.name ELSE e.val)
  /\ left' = Tail(left)
  /\ UNCHANGED <<array, wild, pc>>

Inherited ==
  /\ pc = "inherit" /\ left = <<>> /\ pc' = "id"
  /\ UpdateArray(list)
  /\ UNCHANGED <<left, list>>

(* Mutant of RegisterEnv: the array is left as it is.                      *)
RegisterOnly(name, val) ==
  /\ list' = Put(list, name, val)
  /\ UNCHANGED <<left, array, wild>>

RegisterEnv(name, val) ==
  /\ list' = Put(list, name, val)
  /\ UpdateArray(list')
  /\ UNCHANGED left

-----------------------------------------------------------------------------
(* However the map has grown, nothing but lines of the old array is        *)
(* deleted.                                                                *)
DeletesOwn == wild = {}

=============================================================================
