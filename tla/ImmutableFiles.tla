--------------------------- MODULE ImmutableFiles ---------------------------
(***************************************************************************)
(* What the file API promises: a map from opaque file ids to contents in   *)
(* which an id, once given, names the same content for ever.               *)
(***************************************************************************)
CONSTANTS Ids, Contents

VARIABLE files

Init == files = [i \in {} |-> CHOOSE c \in Contents : TRUE]

Create(i, c) ==
    /\ i \in Ids \ DOMAIN files
    /\ files' = [j \in DOMAIN files \cup {i} |-> IF j = i THEN c ELSE files[j]]

Next == \E i \in Ids, c \in Contents : Create(i, c)

Spec == Init /\ [][Next]_files
=============================================================================
