--------------------------- MODULE StringTokenizer ---------------------------
(***************************************************************************)
(* StringTokenizer, with a delimiter of one character, as the tool uses it *)
(* for "resource:count".  The constructor edits the string in place: it    *)
(* squeezes runs of delimiters, one erasure at a time, and trims both      *)
(* ends.  nextToken then takes the tokens off the front.                   *)
(***************************************************************************)
EXTENDS Integers, SequencesExt

CONSTANT Delim   \* delim

VARIABLES
  input,   \* the string the constructor is given
  str,     \* token_str
  cur,     \* curr_pos, counted from 1
  place,   \* where the constructor is
  tokens   \* history: what nextToken has returned

tokenizer == <<input, str, cur, place, tokens>>

(* std::string::find, 0 for npos.                                          *)
Find(s, from) ==
  LET found == {i \in from .. Len(s) : s[i] = Delim}
  IN  IF found = {} THEN 0 ELSE Min(found)

-----------------------------------------------------------------------------
(* The constructor is entered with s, which is not empty.                  *)
Construct(s) ==
  /\ input' = s /\ str' = s /\ cur' = 1
  /\ place' = "seek" /\ tokens' = <<>>

(* The outer loop of the constructor: past the next delimiter,             *)
Seek ==
  /\ place = "seek"
  /\ IF Find(str, cur) = 0
     THEN place' = "leading" /\ UNCHANGED cur
     ELSE place' = "squeeze" /\ cur' = Find(str, cur) + 1
  /\ UNCHANGED <<input, str, tokens>>

(* Mutant of Squeeze: the search begins anew.                              *)
SqueezeAnew ==
  /\ place = "squeeze"
  /\ IF Find(str, cur) = cur
     THEN str' = RemoveAt(str, cur) /\ UNCHANGED <<place, cur>>
     ELSE place' = "seek" /\ cur' = 1 /\ UNCHANGED str
  /\ UNCHANGED <<input, tokens>>

(* the inner one: the delimiters that follow it are erased.                *)
Squeeze ==
  /\ place = "squeeze"
  /\ IF Find(str, cur) = cur
     THEN str' = RemoveAt(str, cur) /\ UNCHANGED place
     ELSE place' = "seek" /\ UNCHANGED str
  /\ UNCHANGED <<input, cur, tokens>>

TrimLeading ==
  /\ place = "leading" /\ place' = "ending"
  /\ str' = IF Find(str, 1) = 1 THEN Tail(str) ELSE str
  /\ UNCHANGED <<input, cur, tokens>>

(* Mutant of TrimEnding: there is a delimiter, wherever it is.             *)
TrimEndingAnywhere ==
  /\ place = "ending" /\ place' = "ready"
  /\ str' = IF Find(str, 1) # 0 THEN Front(str) ELSE str
  /\ UNCHANGED <<input, cur, tokens>>

(* The last delimiter is erased if it is the last character.               *)
TrimEnding ==
  /\ place = "ending" /\ place' = "ready"
  /\ str' = IF str # <<>> /\ Last(str) = Delim THEN Front(str) ELSE str
  /\ UNCHANGED <<input, cur, tokens>>

(* nextToken: "" when there are no more.                                   *)
NextToken ==
  /\ place = "ready"
  /\ LET end == IF Find(str, 1) = 0 THEN Len(str) + 1 ELSE Find(str, 1)
     IN  /\ tokens' = Append(tokens, SubSeq(str, 1, end - 1))
         /\ str' = SubSeq(str, end + 1, Len(str))
  /\ UNCHANGED <<input, cur, place>>

Tokenize == Seek \/ Squeeze \/ TrimLeading \/ TrimEnding \/ NextToken

-----------------------------------------------------------------------------
(* The longest runs of other characters than d in s, in their order: those *)
(* of the first i characters, from those of the first i - 1.               *)
Extend(runs, s, i, d) ==
  IF s[i] = d THEN runs
  ELSE IF i = 1 \/ s[i - 1] = d THEN Append(runs, <<s[i]>>)
  ELSE [runs EXCEPT ![Len(runs)] = Append(@, s[i])]

Runs(s, d) ==
  LET upTo[i \in 0 .. Len(s)] == IF i = 0 THEN <<>> ELSE Extend(upTo[i - 1], s, i, d)
  IN  upTo

Fields(s, d) == Runs(s, d)[Len(s)]

(* Whatever is erased in place, the fields of the input are the tokens     *)
(* that have been returned and the fields of the rest; empty tokens follow *)
(* when nothing is left, and not before.                                   *)
KeepsFields ==
  \E n \in 0 .. Len(tokens) :
    /\ SubSeq(tokens, 1, n) \o Fields(str, Delim) = Fields(input, Delim)
    /\ n < Len(tokens) => str = <<>>
    /\ \A i \in n + 1 .. Len(tokens) : tokens[i] = <<>>

=============================================================================
