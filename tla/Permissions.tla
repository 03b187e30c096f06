---------------------------- MODULE Permissions ----------------------------
(***************************************************************************)
(* Which models a key may use: the lists that the admin API writes         *)
(* (normalizeModelList in src/cmd/admin.go), their combination             *)
(* (EffectiveModelList in src/internal/auth/auth.go), and the two places   *)
(* that read it: isValidModel in src/cmd/main.go lets a request through,   *)
(* accessibleModelGroups in src/internal/proxy/proxy.go answers            *)
(* GET /v1/models.                                                         *)
(*                                                                         *)
(* A list is a sequence of names, as strings.Split returns it; names are   *)
(* told apart after strings.TrimSpace, which every reader applies, and a   *)
(* name in a request has no comma in it.                                   *)
(***************************************************************************)
EXTENDS Integers, SequencesExt

CONSTANTS
    Groups,   \* the configured model groups, p.groups
    Unknown,  \* names that no group has
    Star,     \* "*"
    Blank,    \* "", or white space
    MaxLen    \* bound on the length of a list

Models == Groups \cup Unknown
Entries == Models \cup {Star, Blank}
Lists == BoundedSeq(Entries, MaxLen)

ASSUME EntryAssumption == {Star, Blank} \cap Models = {} /\ Star # Blank
ASSUME BoundAssumption == MaxLen \in Nat

VARIABLES
    teamList,  \* janus_auth_team.model_list of a team
    keyList    \* janus_auth_key.model_list of one of its keys

columns == <<teamList, keyList>>

(* The two loops over a list: one passes on what is among these names, the *)
(* other the first occurrence of each, as the `seen` map lets it through   *)
KeepIf(out, name, names) == IF name \in names THEN Append(out, name) ELSE out
KeepNew(out, name) == IF name \in ToSet(out) THEN out ELSE Append(out, name)

Kept(list, names) == FoldLeft(LAMBDA out, name : KeepIf(out, name, names), <<>>, list)
Distinct(list) == FoldLeft(LAMBDA out, name : KeepNew(out, name), <<>>, list)

Named(list) == Kept(list, Entries \ {Blank})

(* Mutant of normalizeModelList: a "*" after the first name is dropped *)
normalizeModelListFirst(list, allModels) ==
    IF allModels \/ Named(list) = <<>> \/ Head(Named(list)) = Star THEN <<Star>>
    ELSE Kept(Named(list), Entries \ {Star})

normalizeModelList(list, allModels) ==
    IF allModels \/ Named(list) = <<>> \/ Star \in ToSet(list) THEN <<Star>>
    ELSE Named(list)

(* Mutant of normalizedPermissionList: a "*" among names is kept *)
normalizedPermissionListKeeps(list) ==
    IF Named(list) = <<>> THEN <<Star>> ELSE Distinct(Named(list))

normalizedPermissionList(list) ==
    IF Named(list) = <<>> \/ Star \in ToSet(list) THEN <<Star>>
    ELSE Distinct(Named(list))

isWildcardModelList(list) == Len(list) = 1 /\ list[1] = Star

EffectiveModelList(teamModelList, keyModelList) ==
    LET team == normalizedPermissionList(teamModelList)
        key == normalizedPermissionList(keyModelList)
    IN CASE isWildcardModelList(team) -> key
         [] isWildcardModelList(key) -> team
         [] OTHER -> Kept(key, ToSet(team))

(* Mutant of isValidModel: an empty list permits everything, as a column *)
isValidModelEmpty(model, list) ==
    list # <<>> => list[1] = Star \/ model \in ToSet(list)

isValidModel(model, list) ==
    /\ list # <<>>
    /\ list[1] = Star \/ model \in ToSet(list)

(* The names in the answer, which are those of groups, sorted *)
accessibleModelGroups(list) ==
    IF list = <<>> THEN {}
    ELSE IF list[1] = Star THEN Groups
    ELSE Groups \cap ToSet(list)

Effective == EffectiveModelList(teamList, keyList)

-----------------------------------------------------------------------------
(* A column may hold any text: it may be older than the admin API.         *)
ListsInit == teamList \in Lists /\ keyList \in Lists

(* createTeam, updateTeam *)
WriteTeam(list, allModels) ==
    /\ teamList' = normalizeModelList(list, allModels)
    /\ UNCHANGED keyList

(* createKey, updateKey *)
WriteKey(list, allModels) ==
    /\ keyList' = normalizeModelList(list, allModels)
    /\ UNCHANGED teamList

ListsNext == \E list \in Lists, allModels \in BOOLEAN :
            WriteTeam(list, allModels) \/ WriteKey(list, allModels)

ListsSpec == ListsInit /\ [][ListsNext]_columns

-----------------------------------------------------------------------------
(* The meaning of a column: an empty one, or one with a "*" anywhere in    *)
(* it, permits everything, and any other permits what it names.            *)
Permits(list, model) ==
    \/ \A name \in ToSet(list) : name = Blank
    \/ {Star, model} \cap ToSet(list) # {}

(* "Key/team model permission intersection" (doc/plan.md): a request gets  *)
(* through to a model if and only if both columns permit the model; two    *)
(* lists with nothing in common permit nothing, although an empty column   *)
(* permits everything.                                                     *)
Intersection ==
    \A model \in Models :
        isValidModel(model, Effective) <=> Permits(teamList, model) /\ Permits(keyList, model)

(* GET /v1/models lists the groups that a request may name, and no other.  *)
ListedIsUsable ==
    accessibleModelGroups(Effective) = {g \in Groups : isValidModel(g, Effective)}

(* What the admin API writes means what the request's list meant: dropping *)
(* blanks and stopping at a "*" changes no permission.                     *)
WritesKeepMeaning ==
    [][\A list \in Lists, model \in Models :
          /\ WriteTeam(list, FALSE) => (Permits(teamList', model) <=> Permits(list, model))
          /\ WriteKey(list, FALSE) => (Permits(keyList', model) <=> Permits(list, model))]_columns
=============================================================================
