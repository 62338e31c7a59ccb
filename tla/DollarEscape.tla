---------------------------- MODULE DollarEscape ----------------------------
(***************************************************************************)
(* '$' on its way through gobackup.yml (internal/render/escape.go).        *)
(* gobackup runs os.ExpandEnv over the file, which has no way to write a   *)
(* literal '$': every '$' that is not a variable reference is replaced by  *)
(* a reference to a variable that holds one.                               *)
(* A token is a byte, or a word: name bytes that begin with a letter.      *)
(***************************************************************************)
EXTENDS Naturals, Sequences, SequencesExt

CONSTANTS
  Marks,     \* tokens without a name byte, "$" and the braces among them
  Digits,    \* single name bytes that are no letter: digits, underscore
  Letters,   \* single letters; every other token is a word
  Specials   \* single bytes os.ExpandEnv takes for a shell's own variable

Open == "{"
Close == "}"

ASSUME TokenAssumption ==
  /\ {"$", Open, Close} \subseteq Marks /\ Specials \subseteq Marks \cup Digits
  /\ "GB_DOLLAR" \notin Marks \cup Digits \cup Letters

IsName(tok) == tok \notin Marks

(* Deviation: a '$' is doubled, as in a shell or a compose file.           *)
SentinelDoubled == <<"$", "$">>

Sentinel == <<"$", Open, "GB_DOLLAR", Close>>

(* Where the name that begins at i ends, i - 1 if none does.               *)
NameEnd(s, i) ==
  Max({i - 1} \cup {j \in i..Len(s) : \A k \in i..j : IsName(s[k])})

(* A letter and at least one more name byte.                               *)
IsVarName(s, i, j) ==
  i <= j /\ s[i] \notin Digits /\ (i < j \/ s[i] \notin Letters)

(* refPrefixLen: the end of the reference whose '$' is at i, else i.       *)
RefEnd(s, i) ==
  LET name == IF i < Len(s) /\ s[i + 1] = Open THEN i + 2 ELSE i + 1
      end  == NameEnd(s, name)
  IN IF ~IsVarName(s, name, end) THEN i
     ELSE IF name = i + 1 THEN end
     ELSE IF end < Len(s) /\ s[end + 1] = Close THEN end + 1 ELSE i

(* A text read from its start: at i, what is written and where to go on.   *)
Scan(n, steps) ==
  LET from[i \in 1..(n + 1)] ==
        IF i = n + 1 THEN <<>> ELSE steps[i].out \o from[steps[i].next]
  IN from[1]

EscapeStep(s, i) ==
  [out  |-> IF s[i] # "$" THEN <<s[i]>>
            ELSE IF RefEnd(s, i) = i THEN Sentinel
            ELSE SubSeq(s, i, RefEnd(s, i)),
   next |-> IF s[i] # "$" THEN i + 1 ELSE RefEnd(s, i) + 1]

EscapeBareDollars(s) == Scan(Len(s), [i \in DOMAIN s |-> EscapeStep(s, i)])

(* What the engine's environment holds for a name; any other value would   *)
(* do.  Values are not expanded again.                                     *)
ValueOf(name) == IF name = <<"GB_DOLLAR">> THEN <<"$">>
                 ELSE <<"value of">> \o name

(* os.ExpandEnv of Go's library: of a '$' at i, the name and where it      *)
(* ends.  A braced name is whatever comes before the next brace.           *)
Closings(s, i) == {j \in i..Len(s) : s[j] = Close}

ShellName(s, i) ==
  LET closing == Closings(s, i + 2)
      name == SubSeq(s, i + 2, Min(closing) - 1)
  IN IF s[i + 1] = Open
     THEN IF closing = {} THEN [name |-> <<>>, end |-> i + 1]
          ELSE [name |-> name, end |-> Min(closing)]
     ELSE IF s[i + 1] \in Specials
     THEN [name |-> <<s[i + 1]>>, end |-> i + 1]
     ELSE [name |-> SubSeq(s, i + 1, NameEnd(s, i + 1)),
           end |-> NameEnd(s, i + 1)]

ExpandStep(s, i) ==
  LET ref == ShellName(s, i)
  IN IF s[i] # "$" \/ i = Len(s) \/ ref.end = i
     THEN [out |-> <<s[i]>>, next |-> i + 1]
     ELSE [out |-> IF ref.name = <<>> THEN <<>> ELSE ValueOf(ref.name),
           next |-> ref.end + 1]

ExpandEnv(s) == Scan(Len(s), [i \in DOMAIN s |-> ExpandStep(s, i)])

(* What a text means: the references the documentation defines stand for   *)
(* their values, every other character for itself.                         *)
Names(s, a, b) == IsVarName(s, a, b) /\ \A k \in a..b : IsName(s[k])

References(s) ==
  {r \in (1..Len(s)) \X (1..Len(s)) :
     LET i == r[1]  j == r[2]
     IN /\ i < j /\ s[i] = "$"
        /\ \/ s[i + 1] = Open /\ s[j] = Close /\ Names(s, i + 2, j - 1)
           \/ Names(s, i + 1, j) /\ (j = Len(s) \/ ~IsName(s[j + 1]))}

Starts(s, i) == \E r \in References(s) : r[1] = i
Inside(s, i) == \E r \in References(s) : r[1] < i /\ i <= r[2]

MeaningAt(s, i) ==
  IF Starts(s, i)
  THEN LET r == CHOOSE q \in References(s) : q[1] = i
       IN ValueOf(IF s[i + 1] = Open THEN SubSeq(s, i + 2, r[2] - 1)
                  ELSE SubSeq(s, i + 1, r[2]))
  ELSE IF Inside(s, i) THEN <<>> ELSE <<s[i]>>

Meaning(s) == FlattenSeq([i \in DOMAIN s |-> MeaningAt(s, i)])
=============================================================================
