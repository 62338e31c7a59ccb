------------------------------- MODULE Trees -------------------------------
(***************************************************************************)
(* Configuration trees, map[string]any in the code: a function from paths, *)
(* non-empty sequences of keys, to nodes.  A node above another is a map.  *)
(* A text is a sequence of tokens; a list holds texts only.  "strings" is  *)
(* the list discovery leaves behind, a []string and not an []any.          *)
(* (internal/labels/parse.go: setPath; internal/render: merge.go,          *)
(* model.go: hasLeaf, setLeaf, validateModel.)                             *)
(***************************************************************************)
EXTENDS Naturals, Sequences, SequencesExt

(* Keys, and tokens of texts; the provers have to be told that a string is *)
(* in STRING.                                                              *)
Token == STRING \cup {"GB", "_", "$", "{", "}", "-", "/", "volumes",
                      "archive", "includes", "excludes", "default", "!none",
                      "GB_DOLLAR", "value of", "/gobackup-secrets/"}

Kinds == {"map", "text", "list", "strings", "bool", "int"}

IsNode(node) ==
  /\ node \in [kind : Kinds, val : Seq(Seq(Token))]
  /\ node.kind = "text" => Len(node.val) = 1
  /\ node.kind = "map" => node.val = <<>>

Path == Seq(Token) \ {<<>>}

Map == [kind |-> "map", val |-> <<>>]
Text(t) == [kind |-> "text", val |-> <<t>>]
List(ts) == [kind |-> "list", val |-> ts]
Strings(ts) == [kind |-> "strings", val |-> ts]

IsMap(t, p) == p \in DOMAIN t /\ t[p].kind = "map"
IsText(t, p) == p \in DOMAIN t /\ t[p].kind = "text"
Leaves(t) == {p \in DOMAIN t : t[p].kind # "map"}

(* The maps on the way to p, and what hangs below p with p itself.         *)
Above(p) == {SubSeq(p, 1, i) : i \in 1..(Len(p) - 1)}
Under(S, p) == {q \in S : IsPrefix(p, q)}

Empty == [p \in {} |-> Map]

(* What decoding makes: all above a key are maps.                          *)
WellFormed(t) ==
  /\ DOMAIN t \subseteq Path /\ \A p \in DOMAIN t : IsNode(t[p])
  /\ \A p \in DOMAIN t : \A a \in Above(p) : IsMap(t, a)

(* Every map has a leaf below it.                                          *)
Filled(t) == \A p \in DOMAIN t : IsMap(t, p)
                => \E q \in Leaves(t) : IsPrefix(p, q)

(* Deviation: a child map is made afresh, as if its lookup always failed.  *)
SetPathFresh(t, p, v) ==
  LET dropped == UNION {Under(DOMAIN t, a) : a \in Above(p) \cup {p}}
      kept == DOMAIN t \ dropped
  IN [q \in kept \cup Above(p) \cup {p} |->
        IF q = p THEN v ELSE IF q \in Above(p) THEN Map ELSE t[q]]

(* setPath and setLeaf: maps are made where there are none, whatever was   *)
(* there, and what p held goes, with all that hung below it.               *)
SetPath(t, p, v) ==
  LET kept == DOMAIN t \ Under(DOMAIN t, p)
  IN [q \in kept \cup Above(p) \cup {p} |->
        IF q = p THEN v ELSE IF q \in Above(p) THEN Map ELSE t[q]]

(* What of the base an overlay hides: all below a key both have, unless    *)
(* both hold a map there.                                                  *)
Hidden(base, over) ==
  UNION {Under(DOMAIN base, p) :
           p \in {q \in DOMAIN base \cap DOMAIN over :
                    ~(IsMap(base, q) /\ IsMap(over, q))}}

DeepMerge(base, over) ==
  [p \in (DOMAIN base \ Hidden(base, over)) \cup DOMAIN over |->
     IF p \in DOMAIN over THEN over[p] ELSE base[p]]

OptOut == Text(<<"!none">>)

(* Lists are not walked.                                                   *)
PruneOptOut(t) == [p \in {q \in DOMAIN t : t[q] # OptOut} |-> t[p]]

HasChild(t, key) == IsMap(t, <<key>>)
                    /\ \E p \in DOMAIN t : Len(p) = 2 /\ p[1] = key

(* Deviation: a key is enough, whatever it holds.                          *)
ValidModelByKey(t) == <<"storages">> \in DOMAIN t
                      /\ (\E k \in {"databases", "archive"} : <<k>> \in DOMAIN t)

(* validateModel: what gobackup asks of a model.                           *)
ValidModel(t) == HasChild(t, "storages")
                 /\ (HasChild(t, "databases") \/ <<"archive">> \in DOMAIN t)
=============================================================================
