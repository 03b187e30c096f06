------------------------------ MODULE AdminStore ------------------------------
(***************************************************************************)
(* The rows of organizations, teams and keys, which the admin API writes   *)
(* (src/cmd/admin.go), and the billing that refers to them: the rows of    *)
(* janus_spend_log and the charges of a key (src/internal/spend/spend.go). *)
(* The tables are those of scripts/db/create_core_tables.sql.              *)
(*                                                                         *)
(* Every statement is committed on its own and checked by the database     *)
(* against the foreign keys; a handler of two statements may find the      *)
(* second on a changed database.  A statement that fails changes nothing   *)
(* and is no step.  The names of teams and keys, model lists and limits    *)
(* are left out, and so is what the handlers do to the key cache, which is *)
(* in KeyCache.                                                            *)
(*                                                                         *)
(* Money is counted in units of the last decimal place of NUMERIC(20, 8);  *)
(* what a request costs has finer parts, and the database rounds it.       *)
(***************************************************************************)
EXTENDS Integers, FiniteSets, Functions

CONSTANTS
    Orgs, Teams, Keys,  \* ids, none of which a sequence gives out twice
    Names,              \* names of organizations
    Admins,             \* admin handlers
    Requests,           \* requests, each with its handler
    Balances,           \* what an administrator sets a balance to, in units
    Spends,             \* what a request costs, in parts of a unit
    Parts,              \* parts of a unit
    NoRow,              \* there is no row of this id
    NoKey,              \* a handler that works on no key
    NoTeam

ASSUME MoneyAssumption == Balances \subseteq Int /\ Spends \subseteq Nat /\ Parts \in Nat \ {0}

KeyRows == [team : Teams, org : Orgs, balance : Int, spent : Nat]

ASSUME RowAssumption ==
    NoRow \notin Orgs \cup Names \cup KeyRows /\ NoKey \notin Keys /\ NoTeam \notin Teams
ASSUME RequestsAssumption == IsFiniteSet(Requests)

VARIABLES
    name,     \* janus_auth_organization: the name of each organization
    team,     \* janus_auth_team: the organization of each team
    key,      \* janus_auth_key
    used,     \* the ids given out
    admin,    \* the admin handlers, between two statements
    req,      \* the requests, with what billing does for them
    granted   \* history: balance and total_spend together, when the balance was last set

vars == <<name, team, key, used, admin, req, granted>>

IdleAdmin == [pc |-> "idle", team |-> NoTeam, org |-> NoRow, key |-> NoKey, row |-> NoRow]
NewReq ==
    [pc |-> "new", key |-> NoKey, team |-> NoTeam, org |-> NoRow, amount |-> 0,
     log |-> "none", charge |-> "none"]

Init ==
    /\ name = [o \in Orgs |-> NoRow]
    /\ team = [t \in Teams |-> NoRow]
    /\ key = [k \in Keys |-> NoRow]
    /\ used = {}
    /\ admin = [a \in Admins |-> IdleAdmin]
    /\ req = [r \in Requests |-> NewReq]
    /\ granted = [k \in Keys |-> 0]

LiveOrgs == {o \in Orgs : name[o] # NoRow}
LiveTeams == {t \in Teams : team[t] # NoRow}
LiveKeys == {k \in Keys : key[k] # NoRow}

(* The requests with a row in janus_spend_log. *)
Logged == {r \in Requests : req[r].log = "row"}

-----------------------------------------------------------------------------
(* Organizations and teams: one statement each.                            *)

CreateOrganization(o, n) ==
    /\ o \notin used
    /\ \A p \in Orgs : name[p] # n
    /\ name' = [name EXCEPT ![o] = n]
    /\ used' = used \cup {o}
    /\ UNCHANGED <<team, key, admin, req, granted>>

UpdateOrganization(o, n) ==
    /\ o \in LiveOrgs
    /\ \A p \in Orgs \ {o} : name[p] # n
    /\ name' = [name EXCEPT ![o] = n]
    /\ UNCHANGED <<team, key, used, admin, req, granted>>

(* ON DELETE RESTRICT, for each of the three references *)
DeleteOrganization(o) ==
    /\ o \in LiveOrgs
    /\ \A t \in Teams : team[t] # o
    /\ \A k \in LiveKeys : key[k].org # o
    /\ \A r \in Logged : req[r].org # o
    /\ name' = [name EXCEPT ![o] = NoRow]
    /\ UNCHANGED <<team, key, used, admin, req, granted>>

CreateTeam(t, o) ==
    /\ t \notin used
    /\ o \in LiveOrgs
    /\ team' = [team EXCEPT ![t] = o]
    /\ used' = used \cup {t}
    /\ UNCHANGED <<name, key, admin, req, granted>>

DeleteTeam(t) ==
    /\ t \in LiveTeams
    /\ \A k \in LiveKeys : key[k].team # t
    /\ \A r \in Logged : req[r].team # t
    /\ team' = [team EXCEPT ![t] = NoRow]
    /\ UNCHANGED <<name, key, used, admin, req, granted>>

-----------------------------------------------------------------------------
(* Keys.                                                                   *)

(* mutant: the organization of the request is not compared *)
TeamOrganizationAsAsked(t, asked) ==
    IF team[t] = NoRow THEN {} ELSE IF asked \in Orgs THEN {asked} ELSE {team[t]}

(* validateTeamOrganization: the organization, or none if the team has     *)
(* another than the one asked for.  An id that is not positive, for which  *)
(* NoRow stands, is not compared.                                          *)
TeamOrganization(t, asked) ==
    IF team[t] # NoRow /\ asked \in {NoRow, team[t]} THEN {team[t]} ELSE {}

(* createKey's first statement *)
CheckTeam(a, t) ==
    /\ admin[a].pc = "idle"
    /\ \E asked \in Orgs \cup {NoRow} : \E o \in TeamOrganization(t, asked) :
          admin' = [admin EXCEPT ![a] = [IdleAdmin EXCEPT !.pc = "create", !.team = t, !.org = o]]
    /\ UNCHANGED <<name, team, key, used, req, granted>>

Finish(a) == admin' = [admin EXCEPT ![a] = IdleAdmin]

(* and its second, which the foreign keys may refuse *)
InsertKey(a) ==
    /\ admin[a].pc = "create"
    /\ Finish(a)
    /\ IF team[admin[a].team] # NoRow /\ admin[a].org \in LiveOrgs
       THEN \E k \in Keys \ used, b \in Balances :
                /\ key' = [key EXCEPT ![k] = [team |-> admin[a].team, org |-> admin[a].org,
                                              balance |-> b, spent |-> 0]]
                /\ used' = used \cup {k}
                /\ granted' = [granted EXCEPT ![k] = b]
       ELSE UNCHANGED <<key, used, granted>>
    /\ UNCHANGED <<name, team, req>>

(* updateKey and deleteKey look for the row first *)
FindKey(a, k) ==
    /\ admin[a].pc = "idle"
    /\ k \in LiveKeys
    /\ \E pc \in {"update", "delete"} :
          admin' = [admin EXCEPT ![a] = [IdleAdmin EXCEPT !.pc = pc, !.key = k, !.row = key[k]]]
    /\ UNCHANGED <<name, team, key, used, req, granted>>

(* UPDATE ... WHERE key_id = k, which need not find a row *)
UpdateWhere(k, Updated(_)) ==
    key' = [key EXCEPT ![k] = IF @ = NoRow THEN NoRow ELSE Updated(@)]

Grant(k, b) ==
    granted' = [granted EXCEPT ![k] = IF k \in LiveKeys THEN b + key[k].spent ELSE @]

(* mutant: the whole row is saved as it was read *)
SetBalanceInCopy(a) ==
    /\ admin[a].pc = "update"
    /\ \E b \in Balances :
          /\ UpdateWhere(admin[a].key, LAMBDA row : [admin[a].row EXCEPT !.balance = b])
          /\ Grant(admin[a].key, b)
    /\ Finish(a)
    /\ UNCHANGED <<name, team, used, req>>

(* updateKey with a balance among the columns of the request ... *)
SetBalance(a) ==
    /\ admin[a].pc = "update"
    /\ \E b \in Balances :
          /\ UpdateWhere(admin[a].key, LAMBDA row : [row EXCEPT !.balance = b])
          /\ Grant(admin[a].key, b)
    /\ Finish(a)
    /\ UNCHANGED <<name, team, used, req>>

(* mutant: the whole row is saved as it was read *)
UpdateOthersInCopy(a) ==
    /\ admin[a].pc = "update"
    /\ UpdateWhere(admin[a].key, LAMBDA row : admin[a].row)
    /\ Finish(a)
    /\ UNCHANGED <<name, team, used, req, granted>>

(* mutant: a key may be moved to another team *)
UpdateOthersAndMove(a) ==
    /\ admin[a].pc = "update"
    /\ \E t \in LiveTeams :
          UpdateWhere(admin[a].key, LAMBDA row : [row EXCEPT !.team = t, !.org = team[t]])
    /\ Finish(a)
    /\ UNCHANGED <<name, team, used, req, granted>>

(* ... or without: its team and its organization cannot be among them, and *)
(* the other columns are left out here                                     *)
UpdateOthers(a) ==
    /\ admin[a].pc = "update"
    /\ Finish(a)
    /\ UNCHANGED <<name, team, key, used, req, granted>>

(* mutant: the row is deleted, unless the spend log refers to it *)
DeleteKeyRow(a) ==
    /\ admin[a].pc = "delete"
    /\ IF \E r \in Logged : req[r].key = admin[a].key THEN UNCHANGED key
       ELSE key' = [key EXCEPT ![admin[a].key] = NoRow]
    /\ Finish(a)
    /\ UNCHANGED <<name, team, used, req, granted>>

(* 409, keyDeletionDisabledMessage *)
DeleteKey(a) ==
    /\ admin[a].pc = "delete"
    /\ Finish(a)
    /\ UNCHANGED <<name, team, key, used, req, granted>>

-----------------------------------------------------------------------------
(* Requests and billing.                                                   *)

(* checkKeyMiddleware: the request has a copy of the row from now on *)
Admit(r, k) ==
    /\ req[r].pc = "new"
    /\ k \in LiveKeys
    /\ req' = [req EXCEPT ![r] = [@ EXCEPT !.pc = "serving", !.key = k, !.team = key[k].team,
                                           !.org = key[k].org]]
    /\ UNCHANGED <<name, team, key, used, admin, granted>>

(* CreateSpendRecord and CreateKeySpendRecord: from here on the record and *)
(* the amount wait in memory, in a channel or with a flusher               *)
Bill(r) ==
    /\ req[r].pc = "serving"
    /\ \E s \in Spends :
          req' = [req EXCEPT ![r] = [@ EXCEPT !.pc = "served", !.amount = s,
                                              !.log = "waiting", !.charge = "waiting"]]
    /\ UNCHANGED <<name, team, key, used, admin, granted>>

HasParents(r) == key[req[r].key] # NoRow /\ team[req[r].team] # NoRow /\ req[r].org \in LiveOrgs

(* InsertBatchSpendRecord: one statement, which fails as a whole *)
InsertBatch(batch) ==
    /\ batch # {}
    /\ \A r \in batch : req[r].log = "waiting"
    /\ LET outcome == IF \A r \in batch : HasParents(r) THEN "row" ELSE "lost"
       IN req' = [r \in Requests |->
                     IF r \in batch THEN [req[r] EXCEPT !.log = outcome] ELSE req[r]]
    /\ UNCHANGED <<name, team, key, used, admin, granted>>

(* PostgreSQL rounds a NUMERIC half away from zero *)
Rounded(parts) ==
    IF parts >= 0 THEN (2 * parts + Parts) \div (2 * Parts)
    ELSE -((Parts - 2 * parts) \div (2 * Parts))

Cost(rs) == SumFunctionOnSet([r \in Requests |-> req[r].amount], rs)

Settle(batch, outcome) ==
    req' = [r \in Requests |-> IF r \in batch THEN [req[r] EXCEPT !.charge = outcome] ELSE req[r]]

(* mutant: both columns go down *)
ChargeTwice(k, batch) ==
    /\ batch # {}
    /\ \A r \in batch : req[r].charge = "waiting" /\ req[r].key = k
    /\ UpdateWhere(k, LAMBDA row : [row EXCEPT !.balance = Rounded(@ * Parts - Cost(batch)),
                                               !.spent = Rounded(@ * Parts - Cost(batch))])
    /\ Settle(batch, IF key[k] = NoRow THEN "lost" ELSE "charged")
    /\ UNCHANGED <<name, team, used, admin, granted>>

(* UpdateKeySpendRecord, for what a flusher has added up: the database     *)
(* subtracts and adds; to update no row, as the key is gone, is no error   *)
Charge(k, batch) ==
    /\ batch # {}
    /\ \A r \in batch : req[r].charge = "waiting" /\ req[r].key = k
    /\ UpdateWhere(k, LAMBDA row : [row EXCEPT !.balance = Rounded(@ * Parts - Cost(batch)),
                                               !.spent = Rounded(@ * Parts + Cost(batch))])
    /\ Settle(batch, IF key[k] = NoRow THEN "lost" ELSE "charged")
    /\ UNCHANGED <<name, team, used, admin, granted>>

AdminNext ==
    \/ \E o \in Orgs :
          \/ DeleteOrganization(o)
          \/ \E n \in Names : CreateOrganization(o, n) \/ UpdateOrganization(o, n)
    \/ \E t \in Teams : DeleteTeam(t) \/ \E o \in Orgs : CreateTeam(t, o)
    \/ \E a \in Admins :
          \/ \E t \in Teams : CheckTeam(a, t)
          \/ \E k \in Keys : FindKey(a, k)
          \/ InsertKey(a) \/ SetBalance(a) \/ UpdateOthers(a) \/ DeleteKey(a)

BillingNext ==
    \/ \E r \in Requests : Bill(r) \/ \E k \in Keys : Admit(r, k)
    \/ \E batch \in SUBSET Requests : InsertBatch(batch) \/ \E k \in Keys : Charge(k, batch)

Next == AdminNext \/ BillingNext

Spec == Init /\ [][Next]_vars

-----------------------------------------------------------------------------
(* The types of the rows and of what the handlers hold; an id in use has   *)
(* been given out.                                                         *)
RowsType ==
    /\ name \in [Orgs -> Names \cup {NoRow}]
    /\ team \in [Teams -> Orgs \cup {NoRow}]
    /\ key \in [Keys -> KeyRows \cup {NoRow}]
    /\ used \subseteq Orgs \cup Teams \cup Keys
    /\ LiveOrgs \cup LiveTeams \cup LiveKeys \subseteq used
    /\ granted \in [Keys -> Int]

AdminsType ==
    admin \in [Admins -> [pc : {"idle", "create", "update", "delete"},
                          team : Teams \cup {NoTeam}, org : Orgs \cup {NoRow},
                          key : Keys \cup {NoKey}, row : KeyRows \cup {NoRow}]]

RequestsType ==
    req \in [Requests -> [pc : {"new", "serving", "served"}, key : Keys \cup {NoKey},
                          team : Teams \cup {NoTeam}, org : Orgs \cup {NoRow},
                          amount : Spends \cup {0},
                          log : {"none", "waiting", "row", "lost"},
                          charge : {"none", "waiting", "charged", "lost"}]]

TypeOK == RowsType /\ AdminsType /\ RequestsType

(* A key belongs to the organization of its team.  Nothing in the schema   *)
(* says so, and createKey finds out in one statement what it writes in     *)
(* another, while teams and organizations come and go.                     *)
KeyInOrganizationOfTeam ==
    \A k \in LiveKeys : key[k].org \in LiveOrgs /\ team[key[k].team] = key[k].org

(* What a request in flight, or a record on its way to the spend log, says *)
(* of its key, team and organization is what the tables say.               *)
RecordsAttributable ==
    \A r \in Requests : req[r].pc # "new" =>
        /\ key[req[r].key] # NoRow => /\ key[req[r].key].team = req[r].team
                                      /\ key[req[r].key].org = req[r].org
        /\ team[req[r].team] \in {req[r].org, NoRow}

(* "buffered spend updates can be drained safely" (admin.go): no flush of  *)
(* records fails on a foreign key, and none of a charge finds its key      *)
(* gone, whatever administrators delete meanwhile.                         *)
FlushesSucceed == \A r \in Requests : req[r].log # "lost" /\ req[r].charge # "lost"

Charged(k) == {r \in Requests : req[r].key = k /\ req[r].charge = "charged"}

Abs(n) == IF n < 0 THEN -n ELSE n

(* The total of a key is what its requests cost, whatever updates came     *)
(* between, but for half a unit of rounding with every charge.             *)
TotalIsCharges ==
    \A k \in LiveKeys :
        2 * Abs(Parts * key[k].spent - Cost(Charged(k))) <= Parts * Cardinality(Charged(k))

(* The balance is what it was last set to, less what was charged since:    *)
(* neither undoes the other, but for a unit of rounding with every charge. *)
BalanceIsGrantLessCharges ==
    \A k \in LiveKeys :
        Abs(key[k].balance + key[k].spent - granted[k]) <= Cardinality(Charged(k))

(* What createKey found out of a team stays true, or the team is gone.     *)
TeamsRemembered ==
    \A a \in Admins : admin[a].pc = "create" =>
        /\ admin[a].team \in Teams \cap used /\ admin[a].org \in Orgs
        /\ team[admin[a].team] \in {admin[a].org, NoRow}

(* A key that was found does not go away, and only a request that was      *)
(* served is billed.                                                       *)
KeysStay ==
    /\ \A a \in Admins : admin[a].pc \in {"update", "delete"} => admin[a].key \in LiveKeys
    /\ \A r \in Requests :
          /\ req[r].pc # "new" => req[r].key \in LiveKeys
          /\ req[r].pc = "new" => req[r].key = NoKey
          /\ req[r].pc # "served" => req[r].log = "none" /\ req[r].charge = "none"

(* What is inductive of these (AdminStoreProofs). *)
IInv ==
    /\ TypeOK /\ TeamsRemembered /\ KeysStay
    /\ KeyInOrganizationOfTeam /\ RecordsAttributable /\ FlushesSucceed
    /\ TotalIsCharges /\ BalanceIsGrantLessCharges
=============================================================================
