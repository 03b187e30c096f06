----------------------------- MODULE ConfigSync -----------------------------
(* The synchronisation of the model groups and endpoints of the YAML file to *)
(* janus_model_group and janus_model_endpoint when a gateway starts          *)
(* (cmd/config_sync.go), by several gateways that start on one database,     *)
(* each with its own file and in one transaction of its own. PostgreSQL runs *)
(* it at READ COMMITTED: each statement sees what is committed when it runs, *)
(* a row that a transaction wrote is locked until it ends, and one of those  *)
(* that wait for each other is aborted.                                      *)
(*                                                                           *)
(* A row is named by its group, or by its group and its endpoint: both ids   *)
(* are for ever those of the (unique) names, as no row is deleted. Of its    *)
(* columns only enabled is kept; the others are copied from the file.        *)
EXTENDS Naturals, Sequences, FiniteSets, SequencesExt

CONSTANTS
    Replicas,  \* the gateways
    Groups,    \* names of groups, trimmed
    Endpoints, \* names of endpoints, trimmed
    Files,     \* the files in use: sequences of [group : Groups, models : Seq(Endpoints)]
    MaxSyncs   \* bound: synchronisations ever started

ASSUME NameAssumption == IsFiniteSet(Groups) /\ IsFiniteSet(Endpoints)
ASSUME FileAssumption == Files \subseteq Seq([group : Groups, models : Seq(Endpoints)])
ASSUME BoundAssumption == MaxSyncs \in Nat

VARIABLES
    db,     \* what is committed: every row's "absent", "enabled" or "disabled"
    pc,     \* where each replica is
    file,   \* the file each replica was last started with
    seen,   \* what its transaction read of db
    todo,   \* the statements its transaction has left
    writes, \* what its transaction wrote: the rows it has locked, with their new values
    since,  \* history: the files of the others that committed since its transaction began to read
    syncs   \* the synchronisations started

vars == <<db, pc, file, seen, todo, writes, since, syncs>>

GroupRows == {<<g>> : g \in Groups}
EndpointRows == {<<g, e>> : g \in Groups, e \in Endpoints}
Rows == GroupRows \cup EndpointRows
Values == {"absent", "enabled", "disabled"}
NoWrites == [w \in {} |-> "absent"]

InTransaction == {r \in Replicas : pc[r] \in {"readGroups", "readEndpoints", "apply"}}

-----------------------------------------------------------------------------
(* The plan, from a file f and from what the transaction read, s. *)

(* Rows of the file, in the order of the file. *)
GroupsOf(f) == [i \in DOMAIN f |-> <<f[i].group>>]
EndpointsOf(f) ==
    FlattenSeq([i \in DOMAIN f |-> [j \in DOMAIN f[i].models |-> <<f[i].group, f[i].models[j]>>]])

Desired(f) == ToSet(GroupsOf(f)) \cup ToSet(EndpointsOf(f))

(* Only repeated groups are looked for. *)
RefusedByGroups(f) == ~IsInjective(GroupsOf(f))

(* A file that repeats a name is refused. *)
Refused(f) == ~IsInjective(GroupsOf(f)) \/ ~IsInjective(EndpointsOf(f))

StaleGroups(f, s) == {w \in GroupRows \ Desired(f) : s[w] = "enabled"}

(* The endpoints of a group that is gone are left to the group. *)
StaleEndpointsOfGroups(f, s) ==
    {w \in EndpointRows \ Desired(f) : s[w] = "enabled" /\ <<w[1]>> \in Desired(f)}

(* An endpoint whose group was not there when the groups were read is stale, as its name of a group *)
(* is then the empty one.                                                                           *)
StaleEndpoints(f, s) ==
    {w \in EndpointRows : s[w] = "enabled" /\ (w \in Desired(f) => s[<<w[1]>>] = "absent")}

(* An upsert is an update or an insert by what was read. *)
Upsert(w, s) == [op |-> IF s[w] = "absent" THEN "insert" ELSE "update", row |-> w]
Disable(w) == [op |-> "disable", row |-> w]
ForAll(rows, Statement(_)) == [i \in DOMAIN rows |-> Statement(rows[i])]

(* The plan with the groups taken from a map. *)
UpsertOrdersOfMap(f) == {gs \o EndpointsOf(f) : gs \in SetToSeqs(ToSet(GroupsOf(f)))}

(* The transactions' statements: groups, then endpoints, in the order of the file, then the stale *)
(* endpoints and the stale groups, in the order in which the database returned them.              *)
UpsertOrders(f) == {GroupsOf(f) \o EndpointsOf(f)}
DisableOrders(f, s) ==
    {es \o gs : es \in SetToSeqs(StaleEndpoints(f, s)), gs \in SetToSeqs(StaleGroups(f, s))}

Plans(f, s) ==
    {ForAll(u, LAMBDA w : Upsert(w, s)) \o ForAll(d, Disable) :
        u \in UpsertOrders(f), d \in DisableOrders(f, s)}

-----------------------------------------------------------------------------
(* A gateway starts, or is started again, with some file. *)
Start(r) ==
    /\ pc[r] \in {"stopped", "running"}
    /\ syncs < MaxSyncs
    /\ syncs' = syncs + 1
    /\ \E f \in Files : file' = [file EXCEPT ![r] = f]
    /\ pc' = [pc EXCEPT ![r] = "readGroups"]
    /\ since' = [since EXCEPT ![r] = {}]
    /\ UNCHANGED <<db, seen, todo, writes>>

ReadGroups(r) ==
    /\ pc[r] = "readGroups"
    /\ seen' = [seen EXCEPT ![r] = [w \in Rows |-> IF w \in GroupRows THEN db[w] ELSE "absent"]]
    /\ since' = [since EXCEPT ![r] = {}]
    /\ pc' = [pc EXCEPT ![r] = "readEndpoints"]
    /\ UNCHANGED <<db, file, todo, writes, syncs>>

(* What ends a transaction without effect, and the start with it: run returns the error. *)
RollBack(r) ==
    /\ pc' = [pc EXCEPT ![r] = "stopped"]
    /\ todo' = [todo EXCEPT ![r] = <<>>]
    /\ writes' = [writes EXCEPT ![r] = NoWrites]
    /\ UNCHANGED <<db, file, seen, since, syncs>>

(* The second read, and the plan. *)
ReadEndpoints(r) ==
    LET s == [w \in Rows |-> IF w \in GroupRows THEN seen[r][w] ELSE db[w]]
    IN  /\ pc[r] = "readEndpoints"
        /\ ~Refused(file[r])
        /\ seen' = [seen EXCEPT ![r] = s]
        /\ \E plan \in Plans(file[r], s) : todo' = [todo EXCEPT ![r] = plan]
        /\ pc' = [pc EXCEPT ![r] = "apply"]
        /\ UNCHANGED <<db, file, writes, since, syncs>>

RefuseFile(r) ==
    /\ pc[r] = "readEndpoints"
    /\ Refused(file[r])
    /\ RollBack(r)

(* The transaction that holds the row of r's next statement, if there is one. *)
Holders(r) ==
    IF pc[r] = "apply" /\ todo[r] # <<>>
    THEN {s \in Replicas \ {r} : Head(todo[r]).row \in DOMAIN writes[s]}
    ELSE {}

Write(r, op, value) ==
    /\ pc[r] = "apply"
    /\ todo[r] # <<>>
    /\ Head(todo[r]).op = op
    /\ Holders(r) = {}
    /\ writes' = [writes EXCEPT ![r] =
           [w \in DOMAIN @ \cup {Head(todo[r]).row} |->
               IF w = Head(todo[r]).row THEN value ELSE @[w]]]
    /\ todo' = [todo EXCEPT ![r] = Tail(@)]
    /\ UNCHANGED <<db, pc, file, seen, since, syncs>>

(* As an update of the other columns only. *)
UpdateButEnabled(r) ==
    /\ todo[r] # <<>>
    /\ Write(r, "update", db[Head(todo[r]).row])

Update(r) == Write(r, "update", "enabled")

Insert(r) ==
    /\ Write(r, "insert", "enabled")
    /\ db[Head(todo[r]).row] = "absent"

DisableStale(r) == Write(r, "disable", "disabled")

(* As an upsert that keeps trying. *)
DuplicateRetries(r) ==
    /\ pc[r] = "apply"
    /\ todo[r] # <<>>
    /\ Head(todo[r]).op = "insert"
    /\ Holders(r) = {}
    /\ db[Head(todo[r]).row] # "absent"
    /\ UNCHANGED vars

(* An insert of a name that was committed since it was read to be absent. *)
Duplicate(r) ==
    /\ pc[r] = "apply"
    /\ todo[r] # <<>>
    /\ Head(todo[r]).op = "insert"
    /\ Holders(r) = {}
    /\ db[Head(todo[r]).row] # "absent"
    /\ RollBack(r)

Commit(r) ==
    /\ pc[r] = "apply"
    /\ todo[r] = <<>>
    /\ db' = [w \in Rows |-> IF w \in DOMAIN writes[r] THEN writes[r][w] ELSE db[w]]
    /\ writes' = [writes EXCEPT ![r] = NoWrites]
    /\ pc' = [pc EXCEPT ![r] = "running"]
    /\ since' = [s \in Replicas |-> IF s = r THEN since[s] ELSE since[s] \cup {file[r]}]
    /\ UNCHANGED <<file, seen, todo, syncs>>

(* An error of the database, or the gateway is killed: the transaction is rolled back. *)
Fail(r) ==
    /\ r \in InTransaction
    /\ RollBack(r)

(* Every one of these transactions waits for another of them. *)
Deadlocked(rs) == rs # {} /\ \A r \in rs : Holders(r) \cap rs # {}

(* PostgreSQL aborts one of the transactions that wait for each other. *)
AbortDeadlocked(r) ==
    /\ \E rs \in SUBSET Replicas : r \in rs /\ Deadlocked(rs)
    /\ RollBack(r)

Step(r) ==
    \/ ReadGroups(r)
    \/ ReadEndpoints(r)
    \/ RefuseFile(r)
    \/ Update(r)
    \/ Insert(r)
    \/ DisableStale(r)
    \/ Duplicate(r)
    \/ Commit(r)
    \/ AbortDeadlocked(r)

Init ==
    /\ db = [w \in Rows |-> "absent"]
    /\ pc = [r \in Replicas |-> "stopped"]
    /\ file = [r \in Replicas |-> <<>>]
    /\ seen = [r \in Replicas |-> [w \in Rows |-> "absent"]]
    /\ todo = [r \in Replicas |-> <<>>]
    /\ writes = [r \in Replicas |-> NoWrites]
    /\ since = [r \in Replicas |-> {}]
    /\ syncs = 0

Next == \E r \in Replicas : Start(r) \/ Step(r) \/ Fail(r)

Spec == Init /\ [][Next]_vars

(* A gateway that starts goes on, and the database answers and resolves deadlocks. *)
FairSpec == Spec /\ \A r \in Replicas : WF_vars(Step(r))

-----------------------------------------------------------------------------
(* The types of the variables; no row is written twice by one transaction. *)
TypeOK ==
    /\ db \in [Rows -> Values]
    /\ pc \in [Replicas -> {"stopped", "readGroups", "readEndpoints", "apply", "running"}]
    /\ file \in [Replicas -> Files \cup {<<>>}]
    /\ seen \in [Replicas -> [Rows -> Values]]
    /\ todo \in [Replicas -> Seq([op : {"insert", "update", "disable"}, row : Rows])]
    /\ DOMAIN writes = Replicas
    /\ \A r \in Replicas :
           /\ writes[r] \in [DOMAIN writes[r] -> Values \ {"absent"}]
           /\ DOMAIN writes[r] \subseteq Rows \ {todo[r][i].row : i \in DOMAIN todo[r]}
    /\ since \in [Replicas -> SUBSET (Files \cup {<<>>})]
    /\ syncs \in 0..MaxSyncs

Enabled == {w \in Rows : db[w] = "enabled"}

(* When a replica's synchronisation commits, everything in its file is enabled, whatever other    *)
(* replicas with other files committed in between: the rows it has written stay locked.           *)
CommitEnablesFile ==
    [][\A r \in Replicas :
           pc[r] = "apply" /\ pc'[r] = "running" => Desired(file[r]) \subseteq Enabled']_vars

(* When it commits and nobody with another file has committed since it began to read, the database *)
(* mirrors the file: what is enabled is what the file has, and what was removed from the file is    *)
(* disabled. Replicas with the same file may overlap at will.                                       *)
CommitMirrorsFile ==
    [][\A r \in Replicas :
           pc[r] = "apply" /\ pc'[r] = "running" /\ since[r] \subseteq {file[r]} =>
               Enabled' = Desired(file[r])]_vars

(* Replicas that start with the same file, if it has a group, do not run into a deadlock, although  *)
(* they disable stale rows in no particular order: the first row of the file lines them up.         *)
SameFileNoDeadlock ==
    \A rs \in SUBSET Replicas :
        Deadlocked(rs) => (\E r, s \in rs : file[r] # file[s]) \/ (\E r \in rs : file[r] = <<>>)

(* The rows that r's transaction was to write, and those that it has still to write. *)
Planned(r) ==
    Desired(file[r]) \cup StaleEndpoints(file[r], seen[r]) \cup StaleGroups(file[r], seen[r])

Left(r) == {todo[r][i].row : i \in DOMAIN todo[r]}

(* r never gets to its i-th statement: before it comes an insert of a row that is there. *)
Blocked(r, i) ==
    \E k \in 1..(i - 1) : todo[r][k].op = "insert" /\ db[todo[r][k].row] # "absent"

(* What r has written is what its file says, and what it would write twice, or disable although *)
(* its file has it, it never gets to.                                                           *)
OnPlan(r) ==
    /\ DOMAIN writes[r] \cup Left(r) = Planned(r)
    /\ \A w \in DOMAIN writes[r] :
           writes[r][w] = IF w \in Desired(file[r]) THEN "enabled" ELSE "disabled"
    /\ \A i \in DOMAIN todo[r] :
           /\ todo[r][i].op # "disable" => todo[r][i].row \in Desired(file[r])
           /\ todo[r][i].op = "disable" /\ todo[r][i].row \in Desired(file[r]) => Blocked(r, i)
           /\ \A j \in DOMAIN todo[r] :
                  i < j /\ todo[r][i].row = todo[r][j].row => Blocked(r, i)

(* The first group of the file is the first row to be locked. *)
FirstGroupFirst(r) ==
    file[r] # <<>> =>
        LET first == <<file[r][1].group>>
        IN  IF DOMAIN writes[r] = {} THEN todo[r] # <<>> /\ todo[r][1].row = first
            ELSE first \in DOMAIN writes[r]

(* A row that was read to be off stays so, unless a replica with another file commits. *)
Settled(r, rows) ==
    since[r] \subseteq {file[r]} =>
        \A w \in rows \ Desired(file[r]) : db[w] = "enabled" => seen[r][w] = "enabled"

(* What is inductive of these (ConfigSyncProofs). *)
IInv ==
    /\ TypeOK
    /\ \A g \in Groups, e \in Endpoints : db[<<g, e>>] # "absent" => db[<<g>>] # "absent"
    /\ \A r, s \in Replicas : r # s => DOMAIN writes[r] \cap DOMAIN writes[s] = {}
    /\ \A r \in Replicas :
           /\ \A w \in Rows : seen[r][w] # "absent" => db[w] # "absent"
           /\ IF pc[r] = "apply" THEN OnPlan(r) /\ FirstGroupFirst(r) /\ Settled(r, Rows)
              ELSE DOMAIN writes[r] = {} /\ todo[r] = <<>>
           /\ pc[r] = "readEndpoints" => Settled(r, GroupRows)

(* A start always comes to an end: whatever the replicas wait for, each commits or fails. *)
SyncsEnd ==
    \A r \in Replicas : r \in InTransaction ~> r \notin InTransaction
=============================================================================
