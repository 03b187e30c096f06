---------------------------- MODULE MCAdminStore ----------------------------
(* Instance of AdminStore for TLC. *)
EXTENDS AdminStore, TLC

(* No property tells the ids, the handlers or the requests apart. *)
Symmetry ==
    Permutations(Orgs) \cup Permutations(Names) \cup Permutations(Teams) \cup
        Permutations(Keys) \cup Permutations(Admins) \cup Permutations(Requests)
=============================================================================
