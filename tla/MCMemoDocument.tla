--------------------------- MODULE MCMemoDocument ---------------------------
(***************************************************************************)
(* Values for MemoDocument: two rules, one of which has a max_size; a short   *)
(* and a long text; s3_backend blocks with at most one thing wrong.          *)
(***************************************************************************)
EXTENDS MemoDocument, TLC

CONSTANTS a, ab, short, long

\* All that is optional is there, or nothing.
Full == [x \in Attributes |-> "right"]
Least == [x \in Attributes |-> IF x \in Required THEN "right" ELSE "absent"]

MCBlocks ==
  {Full, Least}
    \cup {[Full EXCEPT ![x] = "absent"] : x \in Required \cup Google}
    \cup {[Full EXCEPT ![x] = "wrong"] : x \in Attributes \ {"object_key_template"}}
    \cup {[Least EXCEPT ![x] = "right"] : x \in Google}
    \cup {[Full EXCEPT ![x] = "malformed"] :
            x \in {"viewer_base_url", "viewer_session_encrypt_key"}}

MCOrders == {<<a>>, <<ab, a>>}
MCLengthOf == [t \in Texts |-> IF t = short THEN 1 ELSE 3]
MCSizeLimit == [n \in Names |-> IF n = a THEN 2 ELSE NoLimit]

NoBegins == {}
RuleNames == {<<a, ab>>}

\* Where the texts go makes no difference.
Alike == Permutations(Dirs)
=============================================================================
