---------------------------- MODULE MCConfigSync ----------------------------
(* Instance of ConfigSync for TLC. *)
EXTENDS ConfigSync

CONSTANTS g1, g2, e1

Group(g) == [group |-> g, models |-> <<e1>>]

(* A file without a group, two that differ by one group, one with both in the other order, and    *)
(* one that repeats a name.                                                                       *)
FilesInUse ==
    {<<>>,
     <<Group(g1)>>,
     <<Group(g1), Group(g2)>>,
     <<Group(g2), [group |-> g1, models |-> <<>>]>>,
     <<[group |-> g2, models |-> <<e1, e1>>]>>}
=============================================================================
