-------------------------- MODULE AdminStoreProofs --------------------------
(***************************************************************************)
(* What holds of AdminStore for every number of organizations, teams,      *)
(* keys, handlers and requests, and for all amounts of money: keys stay in *)
(* the organization of their team, no flush finds a row gone, and balances *)
(* and totals add up to the charges.  At the end, what holds of the other  *)
(* part of the admin API, the model lists of Permissions.                  *)
(***************************************************************************)
EXTENDS AdminStore, Permissions, SumTheorems

-----------------------------------------------------------------------------
(* Money.                                                                  *)

(* Rounding moves a value by half a unit at most. *)
LEMMA RoundedProperties ==
    ASSUME NEW p \in Int
    PROVE  /\ Rounded(p) \in Int /\ (p >= 0 => Rounded(p) >= 0)
           /\ -Parts <= 2 * (Parts * Rounded(p) - p) /\ 2 * (Parts * Rounded(p) - p) <= Parts
BY MoneyAssumption DEF Rounded

(* What requests were charged adds up to a number. *)
LEMMA SumNat ==
    ASSUME RequestsType, NEW rs \in SUBSET Requests
    PROVE  Cost(rs) \in Nat
<1> DEFINE amount == [q \in Requests |-> req[q].amount]
<1>1. IsFiniteSet(rs)
  BY RequestsAssumption, FS_Subset
<1>2. \A r \in rs : amount[r] \in Nat
  <2>1. \A r \in Requests : req[r].amount \in Nat
    <3>1. \A r \in Requests : req[r].amount \in Spends \cup {0}
      BY DEF RequestsType
    <3>2. \A s \in Spends \cup {0} : s \in Nat
      BY MoneyAssumption
    <3> QED BY <3>1, <3>2
  <2> QED BY <2>1
<1>3. SumFunctionOnSet(amount, rs) \in Nat
  <2> HIDE DEF amount
  <2> QED BY <1>1, <1>2, SumType
<1> QED BY <1>3 DEF Cost

(* The sum over the charged requests of a key changes only with them. *)
LEMMA ChargedSame ==
    ASSUME NEW k, Charged(k)' = Charged(k),
           \A r \in Charged(k) : req'[r].amount = req[r].amount
    PROVE  /\ Cost(Charged(k))' = Cost(Charged(k))
           /\ Cardinality(Charged(k))' = Cardinality(Charged(k))
<1>1. PICK C : C = Charged(k) /\ C = Charged(k)'
  OBVIOUS
<1>2. C \subseteq Requests /\ IsFiniteSet(C)
  BY <1>1, RequestsAssumption, FS_Subset DEF Charged
<1>3. PICK f, g : /\ f = [q \in Requests |-> req[q].amount]
                  /\ g = [q \in Requests |-> req'[q].amount]
  OBVIOUS
<1>4. SumFunctionOnSet(f, C) = SumFunctionOnSet(g, C)
  <2>1. \A r \in C : f[r] = g[r]
    BY <1>1, <1>2, <1>3
  <2> QED BY <1>2, <2>1, SumSame
<1>5. Cost(Charged(k)) = SumFunctionOnSet(f, C) /\ Cost(Charged(k))' = SumFunctionOnSet(g, C)
  BY <1>1, <1>3 DEF Cost
<1>6. Cardinality(Charged(k))' = Cardinality(Charged(k))
  BY <1>1
<1> QED BY <1>4, <1>5, <1>6

Books(k) ==
    /\ 2 * Abs(Parts * key[k].spent - Cost(Charged(k))) <= Parts * Cardinality(Charged(k))
    /\ Abs(key[k].balance + key[k].spent - granted[k]) <= Cardinality(Charged(k))

Money == \A k \in LiveKeys : Books(k)

(* The sums of the invariant are the two properties of the runs. *)
LEMMA MoneyIs == Money <=> TotalIsCharges /\ BalanceIsGrantLessCharges
BY DEF Money, Books, TotalIsCharges, BalanceIsGrantLessCharges

(* The same after a step. *)
LEMMA MoneyIsNext == Money' <=> (TotalIsCharges /\ BalanceIsGrantLessCharges)'
BY MoneyIs, PTL

(* The books of a key, when its row, its grant and its charges are as before. *)
LEMMA BooksSame ==
    ASSUME NEW k, Books(k), key'[k] = key[k], granted'[k] = granted[k],
           Charged(k)' = Charged(k), \A r \in Charged(k) : req'[r].amount = req[r].amount
    PROVE  Books(k)'
BY ChargedSame DEF Books

-----------------------------------------------------------------------------
(* The rows and the handlers.                                              *)

Rows ==
    /\ TypeOK /\ TeamsRemembered /\ KeysStay
    /\ KeyInOrganizationOfTeam /\ RecordsAttributable /\ FlushesSucceed

(* The invariant: what it says of the rows, and of the sums. *)
LEMMA IInvIs == IInv <=> Rows /\ Money
BY MoneyIs DEF IInv, Rows

(* The same after a step. *)
LEMMA IInvIsNext == IInv' <=> Rows' /\ Money'
BY IInvIs, PTL

(* A key that is not live has no charges, and the request of a live key    *)
(* has its parents.                                                        *)
LEMMA RequestsOfLiveKeys ==
    ASSUME Rows, NEW r \in Requests, req[r].pc # "new"
    PROVE  /\ req[r].key \in LiveKeys /\ req[r].key \in Keys
           /\ key[req[r].key].team = req[r].team /\ key[req[r].key].org = req[r].org
           /\ team[req[r].team] = req[r].org /\ req[r].team \in Teams
           /\ req[r].org \in LiveOrgs
<1>1. req[r].key \in LiveKeys /\ req[r].key \in Keys
  BY DEF Rows, KeysStay, LiveKeys
<1>2. key[req[r].key] \in KeyRows
  BY <1>1 DEF Rows, TypeOK, RowsType, LiveKeys
<1> QED
  BY <1>1, <1>2 DEF Rows, RecordsAttributable, KeyInOrganizationOfTeam, LiveKeys, KeyRows

(* A statement on the organizations. *)
LEMMA NamesChange ==
    ASSUME IInv, UNCHANGED <<team, key, admin, req, granted>>,
           name' \in [Orgs -> Names \cup {NoRow}], used \subseteq used',
           used' \subseteq Orgs \cup Teams \cup Keys, LiveOrgs' \subseteq used',
           \A k \in LiveKeys : key[k].org \in LiveOrgs'
    PROVE  IInv'
<1>1. Rows /\ Money
  BY IInvIs
<1>2. LiveTeams' = LiveTeams /\ LiveKeys' = LiveKeys
  BY DEF LiveTeams, LiveKeys
<1>3. TypeOK'
  <2>1. LiveOrgs' \cup LiveTeams' \cup LiveKeys' \subseteq used'
    BY <1>1, <1>2 DEF Rows, TypeOK, RowsType
  <2> QED BY <1>1, <2>1 DEF Rows, TypeOK, RowsType, AdminsType, RequestsType
<1>4. TeamsRemembered'
  BY <1>1 DEF Rows, TeamsRemembered
<1>5. KeysStay' /\ KeyInOrganizationOfTeam' /\ RecordsAttributable' /\ FlushesSucceed'
  BY <1>1, <1>2 DEF Rows, KeysStay, KeyInOrganizationOfTeam, RecordsAttributable, FlushesSucceed
<1>6. Money'
  <2>1. ASSUME NEW k \in LiveKeys PROVE Books(k)'
    <3>1. Charged(k)' = Charged(k)
      BY DEF Charged
    <3> QED BY <1>1, <3>1, BooksSame DEF Money
  <2> QED BY <1>2, <2>1 DEF Money
<1> QED BY <1>3, <1>4, <1>5, <1>6, IInvIsNext DEF Rows

(* A statement on the teams. *)
LEMMA TeamsChange ==
    ASSUME IInv, UNCHANGED <<name, key, admin, req, granted>>,
           team' \in [Teams -> Orgs \cup {NoRow}], used \subseteq used',
           used' \subseteq Orgs \cup Teams \cup Keys, LiveTeams' \subseteq used',
           \A t \in Teams \cap used : team'[t] \in {team[t], NoRow},
           \A k \in LiveKeys : team'[key[k].team] = team[key[k].team]
    PROVE  IInv'
<1>1. Rows /\ Money
  BY IInvIs
<1>2. LiveOrgs' = LiveOrgs /\ LiveKeys' = LiveKeys
  BY DEF LiveOrgs, LiveKeys
<1>3. TypeOK'
  <2>1. LiveOrgs' \cup LiveTeams' \cup LiveKeys' \subseteq used'
    BY <1>1, <1>2 DEF Rows, TypeOK, RowsType
  <2> QED BY <1>1, <2>1 DEF Rows, TypeOK, RowsType, AdminsType, RequestsType
<1>4. TeamsRemembered'
  BY <1>1 DEF Rows, TeamsRemembered
<1>5. KeysStay' /\ KeyInOrganizationOfTeam' /\ FlushesSucceed'
  BY <1>1, <1>2 DEF Rows, KeysStay, KeyInOrganizationOfTeam, FlushesSucceed
<1>6. RecordsAttributable'
  <2>1. ASSUME NEW r \in Requests, req'[r].pc # "new"
        PROVE  team'[req[r].team] = req[r].org
    BY <1>1, <2>1, RequestsOfLiveKeys
  <2> QED BY <1>1, <2>1 DEF Rows, RecordsAttributable
<1>7. Money'
  <2>1. ASSUME NEW k \in LiveKeys PROVE Books(k)'
    <3>1. Charged(k)' = Charged(k)
      BY DEF Charged
    <3> QED BY <1>1, <3>1, BooksSame DEF Money
  <2> QED BY <1>2, <2>1 DEF Money
<1> QED BY <1>3, <1>4, <1>5, <1>6, <1>7, IInvIsNext DEF Rows

(* A handler's step that changes no row. *)
LEMMA AdminsChange ==
    ASSUME IInv, UNCHANGED <<name, team, key, used, req, granted>>, NEW a \in Admins, NEW h,
           admin' = [admin EXCEPT ![a] = h],
           h \in [pc : {"idle", "create", "update", "delete"},
                  team : Teams \cup {NoTeam}, org : Orgs \cup {NoRow},
                  key : Keys \cup {NoKey}, row : KeyRows \cup {NoRow}],
           h.pc = "create" => h.team \in Teams \cap used /\ h.org \in Orgs
                              /\ team[h.team] \in {h.org, NoRow},
           h.pc \in {"update", "delete"} => h.key \in LiveKeys
    PROVE  IInv'
<1>1. Rows /\ Money
  BY IInvIs
<1>2. LiveOrgs' = LiveOrgs /\ LiveTeams' = LiveTeams /\ LiveKeys' = LiveKeys
  BY DEF LiveOrgs, LiveTeams, LiveKeys
<1>3. AdminsType'
  BY <1>1 DEF Rows, TypeOK, AdminsType
<1>4. \A b \in Admins : admin'[b] = IF b = a THEN h ELSE admin[b]
  BY <1>1 DEF Rows, TypeOK, AdminsType
<1>5. TypeOK'
  BY <1>1, <1>2, <1>3 DEF Rows, TypeOK, RowsType, RequestsType
<1>6. TeamsRemembered'
  BY <1>1, <1>4 DEF Rows, TeamsRemembered
<1>7. KeysStay'
  BY <1>1, <1>2, <1>4 DEF Rows, KeysStay
<1>8. KeyInOrganizationOfTeam' /\ RecordsAttributable' /\ FlushesSucceed'
  BY <1>1, <1>2 DEF Rows, KeyInOrganizationOfTeam, RecordsAttributable, FlushesSucceed
<1>9. Money'
  <2>1. ASSUME NEW k \in LiveKeys PROVE Books(k)'
    <3>1. Charged(k)' = Charged(k)
      BY DEF Charged
    <3> QED BY <1>1, <3>1, BooksSame DEF Money
  <2> QED BY <1>2, <2>1 DEF Money
<1> QED BY <1>5, <1>6, <1>7, <1>8, <1>9, IInvIsNext DEF Rows

-----------------------------------------------------------------------------
(* The steps.                                                              *)

LEMMA OrganizationSteps ==
    ASSUME IInv, NEW o \in Orgs,
           \/ DeleteOrganization(o)
           \/ \E n \in Names : CreateOrganization(o, n) \/ UpdateOrganization(o, n)
    PROVE  IInv'
<1>1. /\ name \in [Orgs -> Names \cup {NoRow}] /\ used \subseteq Orgs \cup Teams \cup Keys
      /\ LiveOrgs \subseteq used /\ \A k \in LiveKeys : key[k].org \in LiveOrgs
  BY DEF IInv, TypeOK, RowsType, KeyInOrganizationOfTeam
<1>2. CASE DeleteOrganization(o)
  <2>1. LiveOrgs' \subseteq used' /\ \A k \in LiveKeys : key[k].org \in LiveOrgs'
    BY <1>1, <1>2 DEF DeleteOrganization, LiveOrgs
  <2> QED BY <1>1, <1>2, <2>1, NamesChange DEF DeleteOrganization
<1>3. CASE \E n \in Names : CreateOrganization(o, n) \/ UpdateOrganization(o, n)
  <2>1. PICK n \in Names : CreateOrganization(o, n) \/ UpdateOrganization(o, n)
    BY <1>3
  <2>2. /\ UNCHANGED <<team, key, admin, req, granted>>
        /\ name' = [name EXCEPT ![o] = n] /\ used' \in {used, used \cup {o}} /\ o \in used'
    BY <1>1, <2>1 DEF CreateOrganization, UpdateOrganization
  <2>3. LiveOrgs' \subseteq used' /\ LiveOrgs \subseteq LiveOrgs'
    BY <1>1, <2>2, RowAssumption DEF LiveOrgs
  <2> QED BY <1>1, <2>2, <2>3, NamesChange
<1> QED BY <1>2, <1>3

(* The handlers of teams that are one statement keep the invariant. *)
LEMMA TeamSteps ==
    ASSUME IInv, NEW t \in Teams, DeleteTeam(t) \/ \E o \in Orgs : CreateTeam(t, o)
    PROVE  IInv'
<1>1. /\ team \in [Teams -> Orgs \cup {NoRow}] /\ used \subseteq Orgs \cup Teams \cup Keys
      /\ LiveTeams \subseteq used
      /\ \A k \in LiveKeys : key[k].team \in Teams /\ key[k].team \in LiveTeams
  <2>1. /\ team \in [Teams -> Orgs \cup {NoRow}] /\ used \subseteq Orgs \cup Teams \cup Keys
        /\ LiveTeams \subseteq used /\ \A k \in LiveKeys : key[k] \in KeyRows
    BY DEF IInv, TypeOK, RowsType, LiveKeys
  <2>2. \A k \in LiveKeys : team[key[k].team] = key[k].org
    BY DEF IInv, KeyInOrganizationOfTeam
  <2> QED BY <2>1, <2>2, RowAssumption DEF LiveTeams, KeyRows
<1>2. CASE DeleteTeam(t)
  <2>1. /\ LiveTeams' \subseteq used' /\ \A k \in LiveKeys : team'[key[k].team] = team[key[k].team]
        /\ \A s \in Teams \cap used : team'[s] \in {team[s], NoRow}
    BY <1>1, <1>2 DEF DeleteTeam, LiveTeams
  <2> QED BY <1>1, <1>2, <2>1, TeamsChange DEF DeleteTeam
<1>3. CASE \E o \in Orgs : CreateTeam(t, o)
  <2>1. PICK o \in Orgs : CreateTeam(t, o)
    BY <1>3
  <2>2. /\ LiveTeams' \subseteq used' /\ \A k \in LiveKeys : team'[key[k].team] = team[key[k].team]
        /\ \A s \in Teams \cap used : team'[s] \in {team[s], NoRow}
    BY <1>1, <2>1 DEF CreateTeam, LiveTeams
  <2> QED BY <1>1, <2>1, <2>2, TeamsChange DEF CreateTeam
<1> QED BY <1>2, <1>3

HandlerTypes ==
    [pc : {"idle", "create", "update", "delete"}, team : Teams \cup {NoTeam},
     org : Orgs \cup {NoRow}, key : Keys \cup {NoKey}, row : KeyRows \cup {NoRow}]

(* A handler that is done is idle. *)
LEMMA FinishType == IdleAdmin \in HandlerTypes /\ IdleAdmin.pc = "idle"
BY DEF IdleAdmin, HandlerTypes

(* The statements of a handler of keys that change no amount keep the invariant. *)
LEMMA AdminLookups ==
    ASSUME IInv, NEW a \in Admins,
           \/ \E t \in Teams : CheckTeam(a, t)
           \/ \E k \in Keys : FindKey(a, k)
           \/ UpdateOthers(a) \/ DeleteKey(a)
    PROVE  IInv'
<1>1. CASE \E t \in Teams : CheckTeam(a, t)
  <2>1. PICK t \in Teams : CheckTeam(a, t)
    BY <1>1
  <2>2. PICK o \in {team[t]} : team[t] # NoRow /\
            admin' = [admin EXCEPT ![a] = [IdleAdmin EXCEPT !.pc = "create", !.team = t, !.org = o]]
    BY <2>1 DEF CheckTeam, TeamOrganization
  <2> DEFINE h == [IdleAdmin EXCEPT !.pc = "create", !.team = t, !.org = o]
  <2>3. team[t] \in Orgs /\ t \in used /\ o = team[t]
    BY <2>2 DEF IInv, TypeOK, RowsType, LiveTeams
  <2>4. /\ h \in HandlerTypes /\ h.pc = "create" /\ h.team = t /\ h.org = o
    BY <2>3 DEF IdleAdmin, HandlerTypes
  <2>5. admin' = [admin EXCEPT ![a] = h] /\ UNCHANGED <<name, team, key, used, req, granted>>
    BY <2>1, <2>2 DEF CheckTeam
  <2> HIDE DEF h
  <2> QED BY <2>3, <2>4, <2>5, AdminsChange DEF HandlerTypes
<1>2. CASE \E k \in Keys : FindKey(a, k)
  <2>1. PICK k \in Keys : FindKey(a, k)
    BY <1>2
  <2>2. PICK pc \in {"update", "delete"} :
            admin' = [admin EXCEPT ![a] = [IdleAdmin EXCEPT !.pc = pc, !.key = k, !.row = key[k]]]
    BY <2>1 DEF FindKey
  <2> DEFINE h == [IdleAdmin EXCEPT !.pc = pc, !.key = k, !.row = key[k]]
  <2>3. k \in LiveKeys /\ key[k] \in KeyRows \cup {NoRow}
    BY <2>1 DEF FindKey, IInv, TypeOK, RowsType
  <2>4. h \in HandlerTypes /\ h.pc = pc /\ h.key = k
    BY <2>3 DEF IdleAdmin, HandlerTypes
  <2>5. admin' = [admin EXCEPT ![a] = h] /\ UNCHANGED <<name, team, key, used, req, granted>>
    BY <2>1, <2>2 DEF FindKey
  <2> HIDE DEF h
  <2> QED BY <2>3, <2>4, <2>5, AdminsChange DEF HandlerTypes
<1>3. CASE UpdateOthers(a) \/ DeleteKey(a)
  <2>1. /\ admin' = [admin EXCEPT ![a] = IdleAdmin]
        /\ UNCHANGED <<name, team, key, used, req, granted>>
    BY <1>3 DEF UpdateOthers, DeleteKey, Finish
  <2> QED BY <2>1, FinishType, AdminsChange DEF HandlerTypes
<1> QED BY <1>1, <1>2, <1>3

(* A handler finishes with a statement on the keys: on the rows, what it   *)
(* leaves is right if every key keeps its team and its organization, and a *)
(* new one is in the organization of its team.                             *)
LEMMA KeysChange ==
    ASSUME Rows, UNCHANGED <<name, team, req>>, NEW a \in Admins, Finish(a),
           key' \in [Keys -> KeyRows \cup {NoRow}], granted' \in [Keys -> Int],
           used \subseteq used', used' \subseteq Orgs \cup Teams \cup Keys,
           LiveKeys' \subseteq used',
           \A k \in LiveKeys : k \in LiveKeys' /\ key'[k].team = key[k].team
                               /\ key'[k].org = key[k].org,
           \A k \in LiveKeys' \ LiveKeys :
               key'[k].org \in LiveOrgs /\ team[key'[k].team] = key'[k].org
    PROVE  Rows'
<1>1. LiveOrgs' = LiveOrgs /\ LiveTeams' = LiveTeams
  BY DEF LiveOrgs, LiveTeams
<1>2. \A b \in Admins : admin'[b] = IF b = a THEN IdleAdmin ELSE admin[b]
  BY DEF Finish, Rows, TypeOK, AdminsType
<1>3. TypeOK'
  <2>1. AdminsType'
    <3>1. admin' \in [Admins -> HandlerTypes]
      BY FinishType DEF Finish, Rows, TypeOK, AdminsType, HandlerTypes
    <3> QED BY <3>1 DEF AdminsType, HandlerTypes
  <2>2. RowsType'
    BY <1>1 DEF Rows, TypeOK, RowsType
  <2> QED BY <2>1, <2>2 DEF Rows, TypeOK, RequestsType
<1>4. TeamsRemembered'
  BY <1>2, FinishType DEF Rows, TeamsRemembered
<1>5. KeysStay'
  BY <1>2, FinishType DEF Rows, KeysStay
<1>6. KeyInOrganizationOfTeam'
  BY <1>1 DEF Rows, KeyInOrganizationOfTeam
<1>7. RecordsAttributable'
  <2>1. ASSUME NEW r \in Requests, req[r].pc # "new"
        PROVE  /\ key'[req[r].key].team = req[r].team /\ key'[req[r].key].org = req[r].org
               /\ team[req[r].team] = req[r].org
    BY <2>1, RequestsOfLiveKeys
  <2> QED BY <2>1 DEF RecordsAttributable
<1>8. FlushesSucceed'
  BY DEF Rows, FlushesSucceed
<1> QED BY <1>3, <1>4, <1>5, <1>6, <1>7, <1>8 DEF Rows

(* The insert of a key keeps the invariant. *)
LEMMA InsertKeyStep ==
    ASSUME IInv, NEW a \in Admins, InsertKey(a)
    PROVE  IInv'
<1>0. Rows /\ Money
  BY IInvIs
<1>1. /\ Finish(a) /\ UNCHANGED <<name, team, req>> /\ admin[a].pc = "create"
      /\ key \in [Keys -> KeyRows \cup {NoRow}] /\ granted \in [Keys -> Int]
      /\ used \subseteq Orgs \cup Teams \cup Keys /\ LiveKeys \subseteq used
  BY <1>0 DEF InsertKey, Rows, TypeOK, RowsType
<1>2. \A k \in Keys : Charged(k)' = Charged(k)
  BY <1>1 DEF Charged
<1>3. CASE UNCHANGED <<key, used, granted>>
  <2>1. LiveKeys' = LiveKeys
    BY <1>3 DEF LiveKeys
  <2>2. Rows'
    BY <1>0, <1>1, <1>3, <2>1, KeysChange
  <2>3. ASSUME NEW k \in LiveKeys PROVE Books(k)'
    BY <1>0, <1>1, <1>2, <1>3, BooksSame DEF Money, LiveKeys
  <2> QED BY <2>1, <2>2, <2>3, IInvIsNext DEF Money
<1>4. CASE ~UNCHANGED <<key, used, granted>>
  <2> DEFINE t == admin[a].team
             o == admin[a].org
  <2>1. /\ team[t] # NoRow /\ o \in LiveOrgs
        /\ \E k \in Keys \ used, b \in Balances :
              /\ key' = [key EXCEPT ![k] = [team |-> t, org |-> o, balance |-> b, spent |-> 0]]
              /\ used' = used \cup {k}
              /\ granted' = [granted EXCEPT ![k] = b]
    BY <1>4 DEF InsertKey
  <2>2. PICK k \in Keys \ used, b \in Balances :
              /\ key' = [key EXCEPT ![k] = [team |-> t, org |-> o, balance |-> b, spent |-> 0]]
              /\ used' = used \cup {k}
              /\ granted' = [granted EXCEPT ![k] = b]
    BY <2>1
  <2>3. t \in Teams /\ o \in Orgs /\ team[t] = o /\ b \in Int
    BY <1>0, <1>1, <2>1, MoneyAssumption DEF Rows, TeamsRemembered
  <2> HIDE DEF t, o
  <2> DEFINE row == [team |-> t, org |-> o, balance |-> b, spent |-> 0]
  <2>4. row \in KeyRows /\ row.team = t /\ row.org = o /\ row.balance = b /\ row.spent = 0
    BY <2>3 DEF KeyRows
  <2> HIDE DEF row
  <2>5. /\ key' \in [Keys -> KeyRows \cup {NoRow}] /\ granted' \in [Keys -> Int]
        /\ key'[k] = row /\ granted'[k] = b
        /\ \A l \in Keys \ {k} : key'[l] = key[l] /\ granted'[l] = granted[l]
    BY <1>1, <2>2, <2>3, <2>4 DEF row
  <2>6. LiveKeys' = LiveKeys \cup {k} /\ k \notin LiveKeys
    BY <1>1, <2>2, <2>4, <2>5, RowAssumption DEF LiveKeys
  <2>7. Rows'
    <3>1. \A l \in LiveKeys : l \in LiveKeys' /\ key'[l] = key[l]
      BY <2>5, <2>6 DEF LiveKeys
    <3>2. \A l \in LiveKeys' \ LiveKeys : key'[l].org \in LiveOrgs /\ team[key'[l].team] = key'[l].org
      BY <2>1, <2>3, <2>4, <2>5, <2>6
    <3> QED BY <1>0, <1>1, <2>2, <2>5, <2>6, <3>1, <3>2, KeysChange
  <2>8. Charged(k)' = {}
    BY <1>0, <1>2, <2>6 DEF Rows, KeysStay, Charged
  <2>9. Books(k)'
    <3>1. Cost(Charged(k))' = 0 /\ Cardinality(Charged(k))' = 0
      BY <2>8, SumEmpty, FS_EmptySet DEF Cost
    <3>2. key'[k].spent = 0 /\ key'[k].balance = b /\ granted'[k] = b
      BY <2>4, <2>5
    <3> QED BY <2>3, <3>1, <3>2, MoneyAssumption DEF Books, Abs
  <2>10. ASSUME NEW l \in LiveKeys PROVE Books(l)'
    <3>1. l # k /\ l \in Keys
      BY <2>6 DEF LiveKeys
    <3> QED BY <1>0, <1>1, <1>2, <2>5, <3>1, BooksSame DEF Money
  <2> QED BY <2>6, <2>7, <2>9, <2>10, IInvIsNext DEF Money
<1> QED BY <1>3, <1>4

(* The statement that sets the balance of a key keeps the invariant. *)
LEMMA SetBalanceStep ==
    ASSUME IInv, NEW a \in Admins, SetBalance(a)
    PROVE  IInv'
<1>0. Rows /\ Money
  BY IInvIs
<1>1. PICK k : k = admin[a].key
  OBVIOUS
<1>2. /\ Finish(a) /\ UNCHANGED <<name, team, used, req>>
      /\ key \in [Keys -> KeyRows \cup {NoRow}] /\ granted \in [Keys -> Int]
      /\ used \subseteq Orgs \cup Teams \cup Keys /\ LiveKeys \subseteq used
  BY <1>0 DEF SetBalance, Rows, TypeOK, RowsType
<1>3. k \in LiveKeys /\ k \in Keys /\ key[k] # NoRow /\ key[k] \in KeyRows
  BY <1>0, <1>1 DEF SetBalance, Rows, KeysStay, LiveKeys, TypeOK, RowsType
<1>4. PICK b \in Balances : /\ key' = [key EXCEPT ![k] = [key[k] EXCEPT !.balance = b]]
                            /\ granted' = [granted EXCEPT ![k] = b + key[k].spent]
  BY <1>1, <1>3 DEF SetBalance, UpdateWhere, Grant
<1>5. b \in Int
  BY MoneyAssumption
<1>6. /\ key' \in [Keys -> KeyRows \cup {NoRow}] /\ granted' \in [Keys -> Int]
      /\ key'[k] \in KeyRows
      /\ key'[k].balance = b /\ key'[k].spent = key[k].spent
      /\ key'[k].team = key[k].team /\ key'[k].org = key[k].org
      /\ granted'[k] = b + key[k].spent
      /\ \A l \in Keys \ {k} : key'[l] = key[l] /\ granted'[l] = granted[l]
  BY <1>2, <1>3, <1>4, <1>5 DEF KeyRows
<1>7. LiveKeys' = LiveKeys
  BY <1>3, <1>6, RowAssumption DEF LiveKeys
<1>8. Rows'
  <2>1. \A l \in LiveKeys : key'[l].team = key[l].team /\ key'[l].org = key[l].org
    BY <1>6 DEF LiveKeys
  <2> QED BY <1>0, <1>2, <1>6, <1>7, <2>1, KeysChange
<1>9. \A l \in Keys : Charged(l)' = Charged(l)
  BY <1>2 DEF Charged
<1>10. Books(k)'
  <2>1. Books(k) /\ key[k].spent \in Nat
    BY <1>0, <1>3 DEF Money, KeyRows
  <2>2. Cost(Charged(k))' = Cost(Charged(k)) /\ Cardinality(Charged(k))' = Cardinality(Charged(k))
    BY <1>2, <1>3, <1>9, ChargedSame
  <2>3. IsFiniteSet(Charged(k))
    BY RequestsAssumption, FS_Subset DEF Charged
  <2>4. Cardinality(Charged(k)) \in Nat
    BY <2>3, FS_CardinalityType
  <2>5. Abs(key'[k].balance + key'[k].spent - granted'[k]) = 0
    BY <1>5, <1>6, <2>1 DEF Abs
  <2> QED BY <1>6, <2>1, <2>2, <2>4, <2>5 DEF Books
<1>11. ASSUME NEW l \in LiveKeys, l # k PROVE Books(l)'
  <2>1. l \in Keys
    BY DEF LiveKeys
  <2> QED BY <1>0, <1>2, <1>6, <1>9, <1>11, <2>1, BooksSame DEF Money
<1> QED BY <1>7, <1>8, <1>10, <1>11, IInvIsNext DEF Money

(* What a request may become. *)
RequestOK(q) ==
    /\ q \in [pc : {"new", "serving", "served"}, key : Keys \cup {NoKey},
              team : Teams \cup {NoTeam}, org : Orgs \cup {NoRow},
              amount : Spends \cup {0},
              log : {"none", "waiting", "row"}, charge : {"none", "waiting", "charged"}]
    /\ q.pc # "new" => /\ q.key \in LiveKeys /\ key[q.key].team = q.team
                       /\ key[q.key].org = q.org /\ team[q.team] = q.org
    /\ q.pc = "new" => q.key = NoKey
    /\ q.pc # "served" => q.log = "none" /\ q.charge = "none"

(* What the rows say of a request that is known. *)
LEMMA RequestsOK == ASSUME Rows, NEW r \in Requests PROVE RequestOK(req[r])
<1>1. /\ req[r] \in [pc : {"new", "serving", "served"}, key : Keys \cup {NoKey},
                     team : Teams \cup {NoTeam}, org : Orgs \cup {NoRow},
                     amount : Spends \cup {0},
                     log : {"none", "waiting", "row", "lost"},
                     charge : {"none", "waiting", "charged", "lost"}]
      /\ req[r].log # "lost" /\ req[r].charge # "lost"
  BY DEF Rows, TypeOK, RequestsType, FlushesSucceed
<1>2. /\ req[r].pc = "new" => req[r].key = NoKey
      /\ req[r].pc # "served" => req[r].log = "none" /\ req[r].charge = "none"
  BY DEF Rows, KeysStay
<1> QED BY <1>1, <1>2, RequestsOfLiveKeys DEF RequestOK

(* A step of the requests alone keeps what the invariant says of the rows. *)
LEMMA RequestsRows ==
    ASSUME Rows, UNCHANGED <<name, team, key, used, admin, granted>>,
           req' \in [Requests -> {req'[r] : r \in Requests}],
           \A r \in Requests : RequestOK(req'[r])
    PROVE  Rows'
<1>1. LiveOrgs' = LiveOrgs /\ LiveTeams' = LiveTeams /\ LiveKeys' = LiveKeys
  BY DEF LiveOrgs, LiveTeams, LiveKeys
<1>2. RequestsType'
  <2> DEFINE R == [pc : {"new", "serving", "served"}, key : Keys \cup {NoKey},
                   team : Teams \cup {NoTeam}, org : Orgs \cup {NoRow},
                   amount : Spends \cup {0},
                   log : {"none", "waiting", "row", "lost"},
                   charge : {"none", "waiting", "charged", "lost"}]
  <2>1. \A r \in Requests : req'[r] \in R
    BY DEF RequestOK
  <2> HIDE DEF R
  <2>2. req' \in [Requests -> R]
    BY <2>1
  <2> QED BY <2>2 DEF RequestsType, R
<1>3. TypeOK' /\ TeamsRemembered' /\ KeyInOrganizationOfTeam'
  BY <1>1, <1>2 DEF Rows, TypeOK, RowsType, AdminsType, TeamsRemembered, KeyInOrganizationOfTeam
<1>4. KeysStay' /\ RecordsAttributable'
  BY <1>1 DEF Rows, KeysStay, RecordsAttributable, RequestOK
<1>5. FlushesSucceed'
  BY DEF FlushesSucceed, RequestOK
<1> QED BY <1>3, <1>4, <1>5 DEF Rows

(* Requests move on, and none of them is charged. *)
LEMMA RequestsMove ==
    ASSUME IInv, UNCHANGED <<name, team, key, used, admin, granted>>,
           req' \in [Requests -> {req'[r] : r \in Requests}],
           \A r \in Requests : RequestOK(req'[r]),
           \A r \in Requests : /\ req[r].charge = "charged" <=> req'[r].charge = "charged"
                               /\ req[r].charge = "charged" =>
                                      /\ req'[r].key = req[r].key
                                      /\ req'[r].amount = req[r].amount
    PROVE  IInv'
<1>1. Rows /\ Money /\ LiveKeys' = LiveKeys
  BY IInvIs DEF LiveKeys
<1>2. Rows'
  BY <1>1, RequestsRows
<1>3. ASSUME NEW k \in LiveKeys PROVE Books(k)'
  <2>1. Charged(k)' = Charged(k)
    BY DEF Charged
  <2>2. \A r \in Charged(k) : req'[r].amount = req[r].amount
    BY DEF Charged
  <2> QED BY <1>1, <2>1, <2>2, BooksSame DEF Money
<1> QED BY <1>1, <1>2, <1>3, IInvIsNext DEF Money

(* A request that is let in or billed keeps the invariant. *)
LEMMA RequestSteps ==
    ASSUME IInv, NEW r \in Requests, Bill(r) \/ \E k \in Keys : Admit(r, k)
    PROVE  IInv'
<1>0. Rows /\ \A q \in Requests : RequestOK(req[q])
  BY IInvIs, RequestsOK
<1>1. PICK h : req' = [req EXCEPT ![r] = h] /\ RequestOK(h)
               /\ h.charge # "charged" /\ req[r].charge # "charged"
  <2>1. CASE Bill(r)
    <3>1. PICK s \in Spends : req' = [req EXCEPT ![r] = [@ EXCEPT !.pc = "served", !.amount = s,
                                              !.log = "waiting", !.charge = "waiting"]]
      BY <2>1 DEF Bill
    <3> DEFINE h == [req[r] EXCEPT !.pc = "served", !.amount = s,
                                   !.log = "waiting", !.charge = "waiting"]
    <3>2. req[r].pc = "serving" /\ RequestOK(req[r])
      BY <1>0, <2>1 DEF Bill
    <3>3. RequestOK(h) /\ h.charge = "waiting" /\ req[r].charge = "none"
      BY <3>2 DEF RequestOK
    <3>4. req' = [req EXCEPT ![r] = h]
      BY <3>1 DEF Rows, TypeOK, RequestsType
    <3> QED BY <3>3, <3>4
  <2>2. CASE \E k \in Keys : Admit(r, k)
    <3>1. PICK k \in Keys : Admit(r, k)
      BY <2>2
    <3> DEFINE h == [req[r] EXCEPT !.pc = "serving", !.key = k, !.team = key[k].team,
                                   !.org = key[k].org]
    <3>2. req[r].pc = "new" /\ RequestOK(req[r]) /\ k \in LiveKeys /\ req' = [req EXCEPT ![r] = h]
      BY <1>0, <3>1 DEF Admit
    <3>3. key[k].team \in Teams /\ key[k].org \in Orgs /\ team[key[k].team] = key[k].org
      <4>1. key[k] \in KeyRows
        BY <1>0, <3>2 DEF Rows, TypeOK, RowsType, LiveKeys
      <4> QED BY <1>0, <3>2, <4>1 DEF KeyRows, Rows, KeyInOrganizationOfTeam
    <3>4. RequestOK(h) /\ h.charge = "none" /\ req[r].charge = "none"
      BY <3>2, <3>3 DEF RequestOK
    <3> QED BY <3>2, <3>4
  <2> QED BY <2>1, <2>2
<1>2. \A q \in Requests : req'[q] = IF q = r THEN h ELSE req[q]
  BY <1>0, <1>1 DEF Rows, TypeOK, RequestsType
<1>3. UNCHANGED <<name, team, key, used, admin, granted>>
  BY DEF Bill, Admit
<1>4. req' \in [Requests -> {req'[q] : q \in Requests}]
  BY <1>0, <1>1 DEF Rows, TypeOK, RequestsType
<1> QED BY <1>0, <1>1, <1>2, <1>3, <1>4, RequestsMove

(* The insert of a batch finds the parents of every record. *)
LEMMA InsertBatchStep ==
    ASSUME IInv, NEW batch \in SUBSET Requests, InsertBatch(batch)
    PROVE  IInv'
<1>0. Rows /\ \A q \in Requests : RequestOK(req[q])
  BY IInvIs, RequestsOK
<1>1. \A r \in batch : HasParents(r)
  <2>1. TAKE r \in batch
  <2>2. req[r].log = "waiting" /\ r \in Requests
    BY DEF InsertBatch
  <2>3. req[r].pc # "new"
    BY <1>0, <2>2 DEF RequestOK
  <2>4. /\ req[r].key \in LiveKeys /\ team[req[r].team] = req[r].org
        /\ req[r].org \in LiveOrgs
    BY <1>0, <2>2, <2>3, RequestsOfLiveKeys
  <2> QED BY <2>4, RowAssumption DEF HasParents, LiveKeys, LiveOrgs
<1>2. req' = [r \in Requests |-> IF r \in batch THEN [req[r] EXCEPT !.log = "row"] ELSE req[r]]
  BY <1>1 DEF InsertBatch
<1>3. \A r \in Requests : RequestOK(req'[r]) /\ req'[r].charge = req[r].charge
                          /\ req'[r].key = req[r].key /\ req'[r].amount = req[r].amount
  <2>1. TAKE r \in Requests
  <2>2. CASE r \in batch
    <3>1. RequestOK(req[r]) /\ req[r].log = "waiting" /\ req'[r] = [req[r] EXCEPT !.log = "row"]
      BY <1>0, <1>2, <2>2 DEF InsertBatch
    <3> QED BY <3>1 DEF RequestOK
  <2>3. CASE r \notin batch
    BY <1>0, <1>2, <2>3
  <2> QED BY <2>2, <2>3
<1>4. req' \in [Requests -> {req'[q] : q \in Requests}]
  BY <1>2
<1>5. UNCHANGED <<name, team, key, used, admin, granted>>
  BY DEF InsertBatch
<1> QED BY <1>3, <1>4, <1>5, RequestsMove

(* What a charge of s parts does to a balance b and a total t, and why     *)
(* their sum moves by one unit at most.                                    *)
LEMMA ChargeArithmetic ==
    ASSUME NEW b \in Int, NEW t \in Nat, NEW s \in Nat
    PROVE  LET bb == Rounded(b * Parts - s)
               tt == Rounded(t * Parts + s)
           IN /\ bb \in Int /\ tt \in Nat
              /\ 2 * Abs(Parts * tt - (Parts * t + s)) <= Parts
              /\ Abs((bb + tt) - (b + t)) <= 1
<1> DEFINE bb == Rounded(b * Parts - s)
           tt == Rounded(t * Parts + s)
<1>1. Parts \in Nat /\ Parts > 0
  BY MoneyAssumption
<1>2. PICK x \in Int, y \in Nat : x = b * Parts - s /\ y = t * Parts + s
  <2>1. b * Parts \in Int /\ t * Parts \in Nat
    BY <1>1
  <2> QED BY <2>1
<1>3. /\ bb \in Int /\ -Parts <= 2 * (Parts * bb - x) /\ 2 * (Parts * bb - x) <= Parts
  BY <1>2, RoundedProperties
<1>4. /\ tt \in Nat /\ -Parts <= 2 * (Parts * tt - y) /\ 2 * (Parts * tt - y) <= Parts
  BY <1>2, RoundedProperties
<1> HIDE DEF bb, tt
<1>5. 2 * Abs(Parts * tt - (Parts * t + s)) <= Parts
  BY <1>1, <1>2, <1>4 DEF Abs
<1>6. PICK d \in Int : d = (bb + tt) - (b + t)
  BY <1>3, <1>4
<1>7. -Parts <= Parts * d /\ Parts * d <= Parts
  <2>1. Parts * d = (Parts * bb - x) + (Parts * tt - y)
    BY <1>1, <1>2, <1>3, <1>4, <1>6
  <2> QED BY <1>1, <1>2, <1>3, <1>4, <2>1
<1>8. -1 <= d /\ d <= 1
  BY <1>1, <1>7
<1>9. Abs((bb + tt) - (b + t)) <= 1
  BY <1>6, <1>8 DEF Abs
<1> QED BY <1>3, <1>4, <1>5, <1>9 DEF bb, tt

(* A flusher charges a key, which is there. *)
LEMMA ChargeStep ==
    ASSUME IInv, NEW k \in Keys, NEW batch \in SUBSET Requests, Charge(k, batch)
    PROVE  IInv'
<1>0. Rows /\ Money /\ \A q \in Requests : RequestOK(req[q])
  BY IInvIs, RequestsOK
<1>1. /\ batch # {} /\ \A r \in batch : req[r].charge = "waiting" /\ req[r].key = k
      /\ UNCHANGED <<name, team, used, admin, granted>>
      /\ key \in [Keys -> KeyRows \cup {NoRow}]
  BY <1>0 DEF Charge, Rows, TypeOK, RowsType
<1>2. k \in LiveKeys /\ key[k] # NoRow /\ key[k] \in KeyRows
  <2>1. PICK r \in batch : TRUE
    BY <1>1
  <2>2. req[r].pc # "new" /\ req[r].key = k
    BY <1>0, <1>1 DEF RequestOK
  <2>3. k \in LiveKeys
    BY <1>0, <2>2 DEF RequestOK
  <2> QED BY <1>1, <2>3 DEF LiveKeys
<1>3. PICK s, b, t : s = Cost(batch) /\ b = key[k].balance /\ t = key[k].spent
  OBVIOUS
<1>4. s \in Nat /\ b \in Int /\ t \in Nat
  BY <1>0, <1>2, <1>3, SumNat DEF Rows, TypeOK, KeyRows
<1>5. PICK bb, tt : bb = Rounded(b * Parts - s) /\ tt = Rounded(t * Parts + s)
  OBVIOUS
<1>6. /\ key' = [key EXCEPT ![k] = [key[k] EXCEPT !.balance = bb, !.spent = tt]]
      /\ req' = [r \in Requests |->
                    IF r \in batch THEN [req[r] EXCEPT !.charge = "charged"] ELSE req[r]]
  BY <1>2, <1>3, <1>5 DEF Charge, UpdateWhere, Settle
<1>7. /\ bb \in Int /\ tt \in Nat
      /\ 2 * Abs(Parts * tt - (Parts * t + s)) <= Parts
      /\ Abs((bb + tt) - (b + t)) <= 1
  BY <1>4, <1>5, ChargeArithmetic
<1>8. /\ key' \in [Keys -> KeyRows \cup {NoRow}] /\ key'[k] \in KeyRows
      /\ key'[k].balance = bb /\ key'[k].spent = tt
      /\ key'[k].team = key[k].team /\ key'[k].org = key[k].org
      /\ \A l \in Keys \ {k} : key'[l] = key[l]
  BY <1>1, <1>2, <1>6, <1>7 DEF KeyRows
<1>9. LiveKeys' = LiveKeys
  BY <1>2, <1>8, RowAssumption DEF LiveKeys
<1>10. \A l \in LiveKeys : l \in Keys /\ key'[l].team = key[l].team /\ key'[l].org = key[l].org
  BY <1>8 DEF LiveKeys
<1>11. /\ \A r \in batch : req'[r] = [req[r] EXCEPT !.charge = "charged"] /\ RequestOK(req[r])
       /\ \A r \in Requests \ batch : req'[r] = req[r]
  BY <1>0, <1>6
<1>12. \A r \in Requests : RequestOK(req'[r]) /\ req'[r].key = req[r].key
                           /\ req'[r].amount = req[r].amount /\ req'[r].pc = req[r].pc
                           /\ req'[r].team = req[r].team /\ req'[r].org = req[r].org
  <2>1. TAKE r \in Requests
  <2>2. CASE r \in batch
    <3>1. /\ RequestOK(req[r]) /\ req[r].charge = "waiting"
          /\ req'[r] = [req[r] EXCEPT !.charge = "charged"]
      BY <1>1, <1>11, <2>2
    <3> QED BY <3>1 DEF RequestOK
  <2>3. CASE r \notin batch
    BY <1>0, <1>11, <2>3
  <2> QED BY <2>2, <2>3
<1>13. Rows'
  <2>1. LiveOrgs' = LiveOrgs /\ LiveTeams' = LiveTeams
    BY <1>1 DEF LiveOrgs, LiveTeams
  <2>2. RequestsType'
    <3> DEFINE R == [pc : {"new", "serving", "served"}, key : Keys \cup {NoKey},
                     team : Teams \cup {NoTeam}, org : Orgs \cup {NoRow},
                     amount : Spends \cup {0},
                     log : {"none", "waiting", "row", "lost"},
                     charge : {"none", "waiting", "charged", "lost"}]
    <3>1. \A r \in Requests : req'[r] \in R
      BY <1>12 DEF RequestOK
    <3> HIDE DEF R
    <3>2. req' \in [Requests -> R]
      BY <1>6, <3>1
    <3> QED BY <3>2 DEF RequestsType, R
  <2>3. TypeOK'
    BY <1>0, <1>1, <1>8, <1>9, <2>1, <2>2 DEF Rows, TypeOK, RowsType, AdminsType
  <2>4. TeamsRemembered' /\ KeyInOrganizationOfTeam'
    BY <1>0, <1>1, <1>9, <1>10, <2>1 DEF Rows, TeamsRemembered, KeyInOrganizationOfTeam
  <2>5. KeysStay'
    <3>1. \A r \in Requests : /\ req'[r].pc # "new" => req'[r].key \in LiveKeys
                              /\ req'[r].pc = "new" => req'[r].key = NoKey
                              /\ req'[r].pc # "served" => req'[r].log = "none" /\ req'[r].charge = "none"
      BY <1>12 DEF RequestOK
    <3> QED BY <1>0, <1>1, <1>9, <3>1 DEF Rows, KeysStay
  <2>6. RecordsAttributable'
    <3>1. ASSUME NEW r \in Requests, req'[r].pc # "new"
          PROVE  /\ key'[req'[r].key].team = req'[r].team /\ key'[req'[r].key].org = req'[r].org
                 /\ team[req'[r].team] = req'[r].org
      <4>1. RequestOK(req'[r])
        BY <1>12
      <4> QED BY <1>10, <3>1, <4>1 DEF RequestOK
    <3> QED BY <1>1, <3>1 DEF RecordsAttributable
  <2>7. FlushesSucceed'
    BY <1>12 DEF FlushesSucceed, RequestOK
  <2> QED BY <2>3, <2>4, <2>5, <2>6, <2>7 DEF Rows
<1>14. Books(k)'
  <2>1. PICK C : C = Charged(k)
    OBVIOUS
  <2>2. C \subseteq Requests /\ C \cap batch = {} /\ Charged(k)' = C \cup batch
    <3>1. C \subseteq Requests /\ \A r \in C : req[r].charge = "charged" /\ req[r].key = k
      BY <2>1 DEF Charged
    <3>2. ASSUME NEW r \in batch
          PROVE  req'[r].key = k /\ req'[r].charge = "charged"
      <4>1. RequestOK(req[r]) /\ req'[r] = [req[r] EXCEPT !.charge = "charged"] /\ req[r].key = k
        BY <1>1, <1>11
      <4> QED BY <4>1 DEF RequestOK
    <3>3. ASSUME NEW r \in Requests \ batch
          PROVE  req'[r].key = k /\ req'[r].charge = "charged" <=> r \in C
      BY <1>11, <2>1 DEF Charged
    <3>4. \A r \in Requests : req'[r].key = k /\ req'[r].charge = "charged" <=> r \in C \/ r \in batch
      BY <3>1, <3>2, <3>3, <1>1
    <3>5. C \cap batch = {}
      BY <1>1, <3>1
    <3>6. Charged(k)' = C \cup batch
      BY <3>1, <3>4 DEF Charged
    <3> QED BY <3>1, <3>5, <3>6
  <2>3. IsFiniteSet(C) /\ IsFiniteSet(batch)
    BY <2>2, RequestsAssumption, FS_Subset
  <2>4. PICK n, m : n = Cardinality(C) /\ m = Cardinality(C \cup batch)
    OBVIOUS
  <2>5. n \in Nat /\ m \in Nat /\ m >= n + 1
    <3>1. Cardinality(batch) \in Nat /\ Cardinality(batch) # 0 /\ n \in Nat
      BY <1>1, <2>3, <2>4, FS_CardinalityType, FS_EmptySet
    <3>2. m = n + Cardinality(batch)
      <4>1. m = n + Cardinality(batch) - Cardinality(C \cap batch) /\ Cardinality({}) = 0
        BY <2>3, <2>4, FS_Union, FS_EmptySet
      <4>2. Cardinality(C \cap batch) = 0
        BY <2>2, <4>1
      <4> QED BY <3>1, <4>1, <4>2
    <3> QED BY <3>1, <3>2
  <2>6. PICK sum : sum = Cost(C)
    OBVIOUS
  <2>7. sum \in Nat /\ Cost(Charged(k))' = sum + s
    <3>1. PICK f, g : /\ f = [q \in Requests |-> req[q].amount]
                      /\ g = [q \in Requests |-> req'[q].amount]
      OBVIOUS
    <3>2. f = g /\ \A r \in Requests : f[r] \in Nat
      <4>1. \A r \in Requests : req[r].amount \in Spends \cup {0}
        BY <1>0 DEF Rows, TypeOK, RequestsType
      <4>2. \A q \in Spends \cup {0} : q \in Nat
        BY MoneyAssumption
      <4> QED BY <1>12, <3>1, <4>1, <4>2
    <3>3. /\ Cost(C) = SumFunctionOnSet(f, C) /\ Cost(batch) = SumFunctionOnSet(f, batch)
          /\ Cost(Charged(k))' = SumFunctionOnSet(g, C \cup batch)
      BY <2>2, <3>1 DEF Cost
    <3>4. SumFunctionOnSet(f, C \cup batch) = SumFunctionOnSet(f, C) + SumFunctionOnSet(f, batch)
      BY <2>2, <2>3, <3>2, SumUnion
    <3>5. SumFunctionOnSet(f, C) \in Nat
      BY <2>2, <2>3, <3>2, SumType
    <3> QED BY <1>3, <2>6, <3>2, <3>3, <3>4, <3>5
  <2>8. Cardinality(Charged(k))' = m
    BY <2>2, <2>4
  <2>9. PICK g : g = granted[k] /\ g \in Int
    BY <1>0 DEF Rows, TypeOK, RowsType
  <2>10. 2 * Abs(Parts * t - sum) <= Parts * n /\ Abs(b + t - g) <= n
    <3>1. Books(k)
      BY <1>0, <1>2 DEF Money
    <3>2. /\ 2 * Abs(Parts * key[k].spent - Cost(Charged(k))) <= Parts * Cardinality(Charged(k))
          /\ Abs(key[k].balance + key[k].spent - granted[k]) <= Cardinality(Charged(k))
      BY <3>1 DEF Books
    <3> QED BY <1>3, <2>1, <2>4, <2>6, <2>9, <3>2
  <2>11. 2 * Abs(Parts * tt - (sum + s)) <= Parts * m /\ Abs(bb + tt - g) <= m
    <3>1. PICK x \in Int, y \in Int, z \in Int, w \in Int, p \in Int :
              x = Parts * t /\ y = Parts * tt /\ z = Parts * n /\ w = Parts * m /\ p = Parts
      BY <1>4, <1>7, <2>5, MoneyAssumption
    <3>2. z + p <= w
      <4>1. Parts * m >= Parts * (n + 1)
        BY <2>5, MoneyAssumption
      <4>2. Parts * (n + 1) = z + p
        BY <2>5, <3>1, MoneyAssumption
      <4> QED BY <3>1, <4>1, <4>2
    <3>3. 2 * Abs(x - sum) <= z /\ 2 * Abs(y - (x + s)) <= p
      BY <1>7, <2>10, <3>1
    <3>4. 2 * Abs(y - (sum + s)) <= w
      BY <1>4, <2>7, <3>1, <3>2, <3>3 DEF Abs
    <3>5. Abs(bb + tt - g) <= m
      BY <1>4, <1>7, <2>5, <2>9, <2>10 DEF Abs
    <3> QED BY <3>1, <3>4, <3>5
  <2> QED BY <1>1, <1>8, <2>7, <2>8, <2>9, <2>11 DEF Books
<1>15. ASSUME NEW l \in LiveKeys, l # k PROVE Books(l)'
  <2>1. Charged(l)' = Charged(l)
    BY <1>1, <1>11, <1>12, <1>15 DEF Charged
  <2>2. \A r \in Charged(l) : req'[r].amount = req[r].amount
    BY <1>12 DEF Charged
  <2>3. l \in Keys
    BY DEF LiveKeys
  <2> QED BY <1>0, <1>1, <1>8, <1>15, <2>1, <2>2, <2>3, BooksSame DEF Money
<1> QED BY <1>9, <1>13, <1>14, <1>15, IInvIsNext DEF Money

(* The invariant holds at the start. *)
LEMMA InitInv == Init => IInv
<1> SUFFICES ASSUME Init PROVE IInv
  OBVIOUS
<1> USE DEF Init
<1>1. LiveOrgs = {} /\ LiveTeams = {} /\ LiveKeys = {}
  BY DEF LiveOrgs, LiveTeams, LiveKeys
<1>2. TypeOK
  BY <1>1 DEF TypeOK, RowsType, AdminsType, RequestsType, IdleAdmin, NewReq
<1>3. TeamsRemembered /\ KeysStay
  BY DEF TeamsRemembered, KeysStay, IdleAdmin, NewReq
<1>4. KeyInOrganizationOfTeam /\ RecordsAttributable /\ FlushesSucceed
  BY <1>1 DEF KeyInOrganizationOfTeam, RecordsAttributable, FlushesSucceed, NewReq
<1>5. TotalIsCharges /\ BalanceIsGrantLessCharges
  BY <1>1 DEF TotalIsCharges, BalanceIsGrantLessCharges
<1> QED BY <1>2, <1>3, <1>4, <1>5 DEF IInv

(* Every step keeps the invariant. *)
LEMMA NextInv == IInv /\ [Next]_vars => IInv'
<1> SUFFICES ASSUME IInv, [Next]_vars PROVE IInv'
  OBVIOUS
<1>1. CASE AdminNext
  BY <1>1, OrganizationSteps, TeamSteps, AdminLookups, InsertKeyStep, SetBalanceStep DEF AdminNext
<1>2. CASE BillingNext
  BY <1>2, RequestSteps, InsertBatchStep, ChargeStep DEF BillingNext
<1>3. CASE UNCHANGED vars
  <2>1. LiveOrgs' = LiveOrgs /\ \A k \in LiveKeys : key[k].org \in LiveOrgs
    BY <1>3 DEF vars, LiveOrgs, IInv, KeyInOrganizationOfTeam
  <2>2. /\ name' \in [Orgs -> Names \cup {NoRow}] /\ used' \subseteq Orgs \cup Teams \cup Keys
        /\ LiveOrgs' \subseteq used'
    BY <1>3, <2>1 DEF vars, IInv, TypeOK, RowsType
  <2> QED BY <1>3, <2>1, <2>2, NamesChange DEF vars
<1> QED BY <1>1, <1>2, <1>3 DEF Next

-----------------------------------------------------------------------------
(* The rows, the handlers and the books agree with each other in every     *)
(* state.                                                                  *)
THEOREM Inductive == Spec => []IInv
BY InitInv, NextInv, PTL DEF Spec

(* A key belongs to the organization of its team, though createKey looks   *)
(* in one statement and writes in another, while administrators delete.    *)
THEOREM KeysInOrganization == Spec => []KeyInOrganizationOfTeam
<1>1. IInv => KeyInOrganizationOfTeam
  BY DEF IInv
<1> QED BY <1>1, Inductive, PTL

(* What a request or a record says of its key, its team and its            *)
(* organization is what the tables say, as long as it is in flight.        *)
THEOREM RecordsAttributed == Spec => []RecordsAttributable
<1>1. IInv => RecordsAttributable
  BY DEF IInv
<1> QED BY <1>1, Inductive, PTL

(* No flush of records fails on a foreign key, and none of a charge finds  *)
(* its key gone, whatever administrators delete.                           *)
THEOREM FlushesFindRows == Spec => []FlushesSucceed
<1>1. IInv => FlushesSucceed
  BY DEF IInv
<1> QED BY <1>1, Inductive, PTL

(* total_spend is what the key's requests cost, but for half a unit of     *)
(* rounding with every charge, whatever updates come between.              *)
THEOREM TotalsAreCharges == Spec => []TotalIsCharges
<1>1. IInv => TotalIsCharges
  BY DEF IInv
<1> QED BY <1>1, Inductive, PTL

(* The balance is what it was last set to, less what was charged since,    *)
(* but for a unit of rounding with every charge.                           *)
THEOREM BalancesAddUp == Spec => []BalanceIsGrantLessCharges
<1>1. IInv => BalanceIsGrantLessCharges
  BY DEF IInv
<1> QED BY <1>1, Inductive, PTL

-----------------------------------------------------------------------------
(* The other thing that the admin API writes: model lists, in Permissions. *)
(* The lemmas hold for lists of any length.                                *)

(* FoldLeft is a recursion over the sets of the indices of a list, which   *)
(* takes out the greatest: `it' is a function on C that obeys it, for the  *)
(* loop of Kept and for that of Distinct.                                  *)

KeptOf(list, names, it, s) ==
    IF s = {} THEN <<>> ELSE KeepIf(it[s \ {Max(s)}], list[Max(s)], names)
KeptIs(list, names, C, it) == it = [s \in C |-> KeptOf(list, names, it, s)]

NewOf(list, it, s) == IF s = {} THEN <<>> ELSE KeepNew(it[s \ {Max(s)}], list[Max(s)])
NewIs(list, C, it) == it = [s \in C |-> NewOf(list, it, s)]

(* A set of numbers up to some number has a greatest. *)
LEMMA Greatest ==
    ASSUME NEW n \in Nat, NEW s \in SUBSET (1..n), s # {}
    PROVE  Max(s) \in s /\ \A x \in s : Max(s) >= x
<1> DEFINE T == {m \in Nat : \A x \in s : x <= m}
<1>1. \A x \in s : x \in Nat /\ x >= 1 /\ x <= n
  OBVIOUS
<1>2. n \in T /\ T \in SUBSET Nat
  BY <1>1
<1>3. PICK m \in T : \A k \in T : m <= k
  <2> HIDE DEF T
  <2> QED BY <1>2, LeastNat
<1>4. m \in Nat /\ \A x \in s : x <= m
  OBVIOUS
<1>5. m \in s
  <2>1. SUFFICES ASSUME m \notin s PROVE FALSE
    OBVIOUS
  <2>2. \A x \in s : x <= m - 1
    BY <1>1, <1>4, <2>1
  <2>3. m - 1 \in Nat
    <3>1. PICK x \in s : x \in Nat /\ x >= 1 /\ x <= m
      BY <1>1, <1>4
    <3> QED BY <1>4, <3>1
  <2>4. m - 1 \in T /\ ~(m <= m - 1)
    BY <1>4, <2>2, <2>3
  <2> QED BY <1>3, <2>4
<1>6. \E x \in s : \A y \in s : x >= y
  BY <1>1, <1>4, <1>5
<1> QED BY <1>6 DEF Max

(* The sets of indices by their size. *)
SmallSets(N, n) == {s \in SUBSET (1..N) : Cardinality(s) <= n}

LEMMA SmallFacts ==
    ASSUME NEW N \in Nat
    PROVE  /\ \A s \in SmallSets(N, 0) : s = {}
           /\ \A n \in Nat : n # 0 => /\ SmallSets(N, n - 1) \subseteq SmallSets(N, n)
                                      /\ \A s \in SmallSets(N, n) :
                                            s # {} => s \ {Max(s)} \in SmallSets(N, n - 1)
           /\ \E n \in Nat : SmallSets(N, n) = SUBSET (1..N)
<1>1. IsFiniteSet(1..N) /\ Cardinality(1..N) \in Nat
  BY FS_Interval, FS_CardinalityType
<1>2. \A s \in SUBSET (1..N) : IsFiniteSet(s) /\ Cardinality(s) \in Nat /\ Cardinality(s) <= Cardinality(1..N)
  BY <1>1, FS_Subset, FS_CardinalityType
<1>3. \A s \in SUBSET (1..N) : s # {} =>
         /\ s \ {Max(s)} \in SUBSET (1..N)
         /\ Cardinality(s \ {Max(s)}) = Cardinality(s) - 1
  BY <1>2, Greatest, FS_RemoveElement
<1>4. \A s \in SmallSets(N, 0) : s = {}
  BY <1>2, FS_EmptySet DEF SmallSets
<1>5. ASSUME NEW n \in Nat, n # 0
      PROVE  /\ SmallSets(N, n - 1) \subseteq SmallSets(N, n)
             /\ \A s \in SmallSets(N, n) : s # {} => s \ {Max(s)} \in SmallSets(N, n - 1)
  BY <1>2, <1>3 DEF SmallSets
<1>6. SmallSets(N, Cardinality(1..N)) = SUBSET (1..N)
  BY <1>2 DEF SmallSets
<1> QED BY <1>1, <1>4, <1>5, <1>6

(* The recursion of Kept has a value.                                      *)
LEMMA KeptExists ==
    ASSUME NEW list, NEW names, NEW N \in Nat
    PROVE  \E it : KeptIs(list, names, SUBSET (1..N), it)
<1> DEFINE Bad == {n \in Nat : ~\E it : KeptIs(list, names, SmallSets(N, n), it)}
<1>1. ASSUME Bad # {} PROVE FALSE
  <2>1. PICK n \in Bad : \A m \in Bad : n <= m
    <3>1. Bad \in SUBSET Nat
      OBVIOUS
    <3> HIDE DEF Bad
    <3> QED BY <1>1, <3>1, LeastNat
  <2>2. CASE n = 0
    <3> DEFINE it == [s \in SmallSets(N, 0) |-> <<>>]
    <3>1. KeptIs(list, names, SmallSets(N, 0), it)
      BY SmallFacts DEF KeptIs, KeptOf
    <3> QED BY <2>1, <2>2, <3>1
  <2>3. CASE n # 0
    <3>1. n - 1 \in Nat /\ n - 1 \notin Bad
      <4>1. n \in Nat
        OBVIOUS
      <4> HIDE DEF Bad
      <4> QED BY <2>1, <2>3, <4>1
    <3>2. PICK old : KeptIs(list, names, SmallSets(N, n - 1), old)
      BY <3>1
    <3> DEFINE it == [s \in SmallSets(N, n) |-> KeptOf(list, names, old, s)]
    <3>3. /\ SmallSets(N, n - 1) \subseteq SmallSets(N, n)
          /\ \A s \in SmallSets(N, n) : s # {} => s \ {Max(s)} \in SmallSets(N, n - 1)
      BY <2>3, SmallFacts
    <3>4. \A s \in SmallSets(N, n - 1) : it[s] = old[s]
      BY <3>2, <3>3 DEF KeptIs
    <3>5. \A s \in SmallSets(N, n) : KeptOf(list, names, it, s) = KeptOf(list, names, old, s)
      <4> HIDE DEF it
      <4> QED BY <3>3, <3>4 DEF KeptOf
    <3>6. KeptIs(list, names, SmallSets(N, n), it)
      BY <3>5 DEF KeptIs
    <3> QED BY <2>1, <3>6
  <2> QED BY <2>2, <2>3
<1>2. PICK n \in Nat : SmallSets(N, n) = SUBSET (1..N)
  BY SmallFacts
<1>3. n \notin Bad
  <2> HIDE DEF Bad
  <2> QED BY <1>1
<1>4. PICK it : KeptIs(list, names, SmallSets(N, n), it)
  BY <1>3
<1> QED BY <1>2, <1>4

(* The recursion of Distinct has a value.                                 *)
LEMMA NewExists ==
    ASSUME NEW list, NEW N \in Nat
    PROVE  \E it : NewIs(list, SUBSET (1..N), it)
<1> DEFINE Bad == {n \in Nat : ~\E it : NewIs(list, SmallSets(N, n), it)}
<1>1. ASSUME Bad # {} PROVE FALSE
  <2>1. PICK n \in Bad : \A m \in Bad : n <= m
    <3>1. Bad \in SUBSET Nat
      OBVIOUS
    <3> HIDE DEF Bad
    <3> QED BY <1>1, <3>1, LeastNat
  <2>2. CASE n = 0
    <3> DEFINE it == [s \in SmallSets(N, 0) |-> <<>>]
    <3>1. NewIs(list, SmallSets(N, 0), it)
      BY SmallFacts DEF NewIs, NewOf
    <3> QED BY <2>1, <2>2, <3>1
  <2>3. CASE n # 0
    <3>1. n - 1 \in Nat /\ n - 1 \notin Bad
      <4>1. n \in Nat
        OBVIOUS
      <4> HIDE DEF Bad
      <4> QED BY <2>1, <2>3, <4>1
    <3>2. PICK old : NewIs(list, SmallSets(N, n - 1), old)
      BY <3>1
    <3> DEFINE it == [s \in SmallSets(N, n) |-> NewOf(list, old, s)]
    <3>3. /\ SmallSets(N, n - 1) \subseteq SmallSets(N, n)
          /\ \A s \in SmallSets(N, n) : s # {} => s \ {Max(s)} \in SmallSets(N, n - 1)
      BY <2>3, SmallFacts
    <3>4. \A s \in SmallSets(N, n - 1) : it[s] = old[s]
      BY <3>2, <3>3 DEF NewIs
    <3>5. \A s \in SmallSets(N, n) : NewOf(list, it, s) = NewOf(list, old, s)
      <4> HIDE DEF it
      <4> QED BY <3>3, <3>4 DEF NewOf
    <3>6. NewIs(list, SmallSets(N, n), it)
      BY <3>5 DEF NewIs
    <3> QED BY <2>1, <3>6
  <2> QED BY <2>2, <2>3
<1>2. PICK n \in Nat : SmallSets(N, n) = SUBSET (1..N)
  BY SmallFacts
<1>3. n \notin Bad
  <2> HIDE DEF Bad
  <2> QED BY <1>1
<1>4. PICK it : NewIs(list, SmallSets(N, n), it)
  BY <1>3
<1> QED BY <1>2, <1>4

(* The sets of indices that the recursion meets are initial segments.      *)
LEMMA Prefix ==
    ASSUME NEW N \in Nat, NEW n \in 1..N
    PROVE  /\ (1..n) \ {Max(1..n)} = 1..(n - 1) /\ Max(1..n) = n
           /\ 1..n # {} /\ 1..n \in SUBSET (1..N) /\ 1..(n - 1) \in SUBSET (1..N)
<1>1. (1..n) \ {n} = 1..(n - 1) /\ 1..n # {} /\ 1..n \in SUBSET (1..N) /\ n \in 1..n /\ n \in Nat
      /\ 1..(n - 1) \in SUBSET (1..N)
  OBVIOUS
<1>2. Max(1..n) \in 1..n /\ \A x \in 1..n : Max(1..n) >= x
  BY <1>1, Greatest
<1>3. Max(1..n) = n
  BY <1>1, <1>2
<1> QED BY <1>1, <1>3

(* A loop goes through the list from the first name to the last.           *)
LEMMA KeptLoop ==
    ASSUME NEW S, NEW list \in Seq(S), NEW names
    PROVE  \E out : /\ out[0] = <<>> /\ Kept(list, names) = out[Len(list)]
                    /\ \A n \in 1..Len(list) : out[n] = KeepIf(out[n - 1], list[n], names)
<1> DEFINE N == Len(list)
           it == CHOOSE it : KeptIs(list, names, SUBSET (1..N), it)
           out == [n \in 0..N |-> it[1..n]]
<1>0. N \in Nat /\ DOMAIN list = 1..N
  OBVIOUS
<1> HIDE DEF N
<1>1. Kept(list, names) = it[1..N]
  BY <1>0 DEF Kept, FoldLeft, MapThenFoldSet, KeptIs, KeptOf
<1>2. KeptIs(list, names, SUBSET (1..N), it)
  BY <1>0, KeptExists
<1>3. \A s \in SUBSET (1..N) : it[s] = KeptOf(list, names, it, s)
  BY <1>2 DEF KeptIs
<1> HIDE DEF it
<1>4. out[0] = <<>>
  <2>1. 1..0 = {} /\ 0 \in 0..N
    BY <1>0
  <2> QED BY <1>3, <2>1 DEF KeptOf
<1>5. ASSUME NEW n \in 1..N
      PROVE  out[n] = KeepIf(out[n - 1], list[n], names)
  <2>1. it[1..n] = KeepIf(it[1..(n - 1)], list[n], names)
    BY <1>0, <1>3, Prefix DEF KeptOf
  <2>2. n \in 0..N /\ n - 1 \in 0..N
    BY <1>0
  <2> QED BY <2>1, <2>2
<1>6. out[N] = it[1..N]
  BY <1>0
<1> HIDE DEF out
<1> QED BY <1>1, <1>4, <1>5, <1>6 DEF N

(* The same of the loop that drops repetitions.                            *)
LEMMA NewLoop ==
    ASSUME NEW S, NEW list \in Seq(S)
    PROVE  \E out : /\ out[0] = <<>> /\ Distinct(list) = out[Len(list)]
                    /\ \A n \in 1..Len(list) : out[n] = KeepNew(out[n - 1], list[n])
<1> DEFINE N == Len(list)
           it == CHOOSE it : NewIs(list, SUBSET (1..N), it)
           out == [n \in 0..N |-> it[1..n]]
<1>0. N \in Nat /\ DOMAIN list = 1..N
  OBVIOUS
<1> HIDE DEF N
<1>1. Distinct(list) = it[1..N]
  BY <1>0 DEF Distinct, FoldLeft, MapThenFoldSet, NewIs, NewOf
<1>2. NewIs(list, SUBSET (1..N), it)
  BY <1>0, NewExists
<1>3. \A s \in SUBSET (1..N) : it[s] = NewOf(list, it, s)
  BY <1>2 DEF NewIs
<1> HIDE DEF it
<1>4. out[0] = <<>>
  <2>1. 1..0 = {} /\ 0 \in 0..N
    BY <1>0
  <2> QED BY <1>3, <2>1 DEF NewOf
<1>5. ASSUME NEW n \in 1..N
      PROVE  out[n] = KeepNew(out[n - 1], list[n])
  <2>1. it[1..n] = KeepNew(it[1..(n - 1)], list[n])
    BY <1>0, <1>3, Prefix DEF NewOf
  <2>2. n \in 0..N /\ n - 1 \in 0..N
    BY <1>0
  <2> QED BY <2>1, <2>2
<1>6. out[N] = it[1..N]
  BY <1>0
<1> HIDE DEF out
<1> QED BY <1>1, <1>4, <1>5, <1>6 DEF N
(* Appending a name adds it to the names in a list.                        *)
LEMMA AppendSet ==
    ASSUME NEW S, NEW s \in Seq(S), NEW x \in S
    PROVE  /\ Append(s, x) \in Seq(S)
           /\ ToSet(Append(s, x)) = ToSet(s) \cup {x}
<1> DEFINE t == Append(s, x)
<1>1. /\ Len(s) \in Nat /\ DOMAIN s = 1..Len(s) /\ t \in Seq(S)
      /\ DOMAIN t = 1..(Len(s) + 1) /\ t[Len(s) + 1] = x
      /\ \A i \in 1..Len(s) : t[i] = s[i]
  OBVIOUS
<1> HIDE DEF t
<1>2. \A i \in 1..(Len(s) + 1) : i \in 1..Len(s) \/ i = Len(s) + 1
  BY <1>1
<1>3. 1..Len(s) \subseteq 1..(Len(s) + 1) /\ Len(s) + 1 \in 1..(Len(s) + 1)
  BY <1>1
<1>4. ToSet(t) \subseteq ToSet(s) \cup {x}
  BY <1>1, <1>2 DEF ToSet
<1>5. ToSet(s) \cup {x} \subseteq ToSet(t)
  <2>1. x \in ToSet(t)
    BY <1>1, <1>3 DEF ToSet
  <2>2. ASSUME NEW i \in 1..Len(s) PROVE s[i] \in ToSet(t)
    BY <1>1, <1>3, <2>2 DEF ToSet
  <2>3. \A y \in ToSet(s) : \E i \in 1..Len(s) : y = s[i]
    BY <1>1 DEF ToSet
  <2> QED BY <2>1, <2>2, <2>3
<1>6. t \in Seq(S) /\ ToSet(t) = ToSet(s) \cup {x}
  BY <1>1, <1>4, <1>5
<1> QED BY <1>6 DEF t

(* A list is empty if and only if no name is in it; its first name is in   *)
(* it.                                                                     *)
LEMMA EmptyList ==
    ASSUME NEW S, NEW s \in Seq(S)
    PROVE  /\ s = <<>> <=> ToSet(s) = {}
           /\ ToSet(<<>>) = {}
           /\ s # <<>> => Len(s) \in Nat /\ Len(s) >= 1 /\ s[1] \in ToSet(s)
           /\ ToSet(s) \subseteq S
<1>1. Len(s) \in Nat /\ DOMAIN s = 1..Len(s) /\ (s = <<>> <=> Len(s) = 0) /\ \A i \in 1..Len(s) : s[i] \in S
  OBVIOUS
<1>2. ToSet(<<>>) = {}
  BY DEF ToSet
<1>3. ASSUME s # <<>> PROVE Len(s) >= 1 /\ 1 \in DOMAIN s /\ s[1] \in ToSet(s)
  <2>1. Len(s) >= 1 /\ 1 \in DOMAIN s
    BY <1>1, <1>3
  <2> QED BY <2>1 DEF ToSet
<1>4. ToSet(s) \subseteq S
  BY <1>1 DEF ToSet
<1> QED BY <1>1, <1>2, <1>3, <1>4

(* The names up to the n-th of a list.                                     *)
Upto(list, n) == {list[m] : m \in 1..n}

(* The names up to the n-th are those before it and the n-th.              *)
LEMMA UptoStep ==
    ASSUME NEW S, NEW list \in Seq(S)
    PROVE  /\ Upto(list, 0) = {}
           /\ Upto(list, Len(list)) = ToSet(list)
           /\ \A n \in 1..Len(list) : n \in Nat /\ list[n] \in S
                                      /\ Upto(list, n) = Upto(list, n - 1) \cup {list[n]}
<1>1. DOMAIN list = 1..Len(list) /\ Len(list) \in Nat /\ \A i \in 1..Len(list) : list[i] \in S
  OBVIOUS
<1>2. Upto(list, 0) = {}
  BY DEF Upto
<1>3. Upto(list, Len(list)) = ToSet(list)
  BY <1>1 DEF Upto, ToSet
<1>4. ASSUME NEW n \in 1..Len(list)
      PROVE  n \in Nat /\ Upto(list, n) = Upto(list, n - 1) \cup {list[n]}
  <2>1. 1..n = 1..(n - 1) \cup {n} /\ n \in Nat
    BY <1>1
  <2> QED BY <2>1 DEF Upto
<1> QED BY <1>1, <1>2, <1>3, <1>4

(* Kept leaves, of the names in a list, those among the given ones.        *)
LEMMA KeptFacts ==
    ASSUME NEW S, NEW list \in Seq(S), NEW names
    PROVE  /\ Kept(list, names) \in Seq(S)
           /\ ToSet(Kept(list, names)) = ToSet(list) \cap names
<1>1. PICK out : /\ out[0] = <<>> /\ Kept(list, names) = out[Len(list)]
                 /\ \A n \in 1..Len(list) : out[n] = KeepIf(out[n - 1], list[n], names)
  BY KeptLoop
<1> DEFINE Good(n) == out[n] \in Seq(S) /\ ToSet(out[n]) = Upto(list, n) \cap names
           Bad == {n \in 0..Len(list) : ~Good(n)}
<1>2. Len(list) \in Nat
  OBVIOUS
<1>3. Good(0)
  <2>1. <<>> \in Seq(S) /\ ToSet(<<>>) = {}
    BY EmptyList
  <2> QED BY <1>1, <2>1, UptoStep
<1>4. ASSUME NEW n \in 1..Len(list), Good(n - 1) PROVE Good(n)
  <2>1. list[n] \in S /\ Upto(list, n) = Upto(list, n - 1) \cup {list[n]}
    BY UptoStep
  <2>2. CASE list[n] \in names
    <3>1. out[n] = Append(out[n - 1], list[n])
      BY <1>1, <2>2 DEF KeepIf
    <3>2. out[n] \in Seq(S) /\ ToSet(out[n]) = ToSet(out[n - 1]) \cup {list[n]}
      BY <1>4, <2>1, <3>1, AppendSet
    <3> QED BY <1>4, <2>1, <2>2, <3>2
  <2>3. CASE list[n] \notin names
    <3>1. out[n] = out[n - 1]
      BY <1>1, <2>3 DEF KeepIf
    <3> QED BY <1>4, <2>1, <2>3, <3>1
  <2> QED BY <2>2, <2>3
<1>5. Bad = {}
  <2>1. SUFFICES ASSUME Bad # {} PROVE FALSE
    OBVIOUS
  <2>2. Bad \in SUBSET Nat /\ \A n \in Bad : n \in 0..Len(list) /\ ~Good(n)
    BY <1>2
  <2>2a. \A n \in 0..Len(list) : n \notin Bad => Good(n)
    OBVIOUS
  <2> HIDE DEF Bad, Good
  <2>3. PICK n \in Bad : \A m \in Bad : n <= m
    BY <2>1, <2>2, LeastNat
  <2>4. n \in 1..Len(list)
    BY <1>2, <1>3, <2>2, <2>3
  <2>5. n - 1 \in 0..Len(list) /\ n - 1 \notin Bad
    BY <1>2, <2>3, <2>4
  <2> QED BY <1>4, <2>2, <2>2a, <2>3, <2>4, <2>5
<1>6. Good(Len(list))
  <2>1. Len(list) \in 0..Len(list)
    BY <1>2
  <2> QED BY <1>5, <2>1
<1> QED BY <1>1, <1>6, UptoStep

(* Distinct drops repetitions, and no name altogether.                     *)
LEMMA DistinctFacts ==
    ASSUME NEW S, NEW list \in Seq(S)
    PROVE  /\ Distinct(list) \in Seq(S)
           /\ ToSet(Distinct(list)) = ToSet(list)
<1>1. PICK out : /\ out[0] = <<>> /\ Distinct(list) = out[Len(list)]
                 /\ \A n \in 1..Len(list) : out[n] = KeepNew(out[n - 1], list[n])
  BY NewLoop
<1> DEFINE Good(n) == out[n] \in Seq(S) /\ ToSet(out[n]) = Upto(list, n)
           Bad == {n \in 0..Len(list) : ~Good(n)}
<1>2. Len(list) \in Nat
  OBVIOUS
<1>3. Good(0)
  <2>1. <<>> \in Seq(S) /\ ToSet(<<>>) = {}
    BY EmptyList
  <2> QED BY <1>1, <2>1, UptoStep
<1>4. ASSUME NEW n \in 1..Len(list), Good(n - 1) PROVE Good(n)
  <2>1. list[n] \in S /\ Upto(list, n) = Upto(list, n - 1) \cup {list[n]}
    BY UptoStep
  <2>2. CASE list[n] \notin ToSet(out[n - 1])
    <3>1. out[n] = Append(out[n - 1], list[n])
      BY <1>1, <2>2 DEF KeepNew
    <3>2. out[n] \in Seq(S) /\ ToSet(out[n]) = ToSet(out[n - 1]) \cup {list[n]}
      BY <1>4, <2>1, <3>1, AppendSet
    <3> QED BY <1>4, <2>1, <3>2
  <2>3. CASE list[n] \in ToSet(out[n - 1])
    <3>1. out[n] = out[n - 1]
      BY <1>1, <2>3 DEF KeepNew
    <3> QED BY <1>4, <2>1, <2>3, <3>1
  <2> QED BY <2>2, <2>3
<1>5. Bad = {}
  <2>1. SUFFICES ASSUME Bad # {} PROVE FALSE
    OBVIOUS
  <2>2. Bad \in SUBSET Nat /\ \A n \in Bad : n \in 0..Len(list) /\ ~Good(n)
    BY <1>2
  <2>2a. \A n \in 0..Len(list) : n \notin Bad => Good(n)
    OBVIOUS
  <2> HIDE DEF Bad, Good
  <2>3. PICK n \in Bad : \A m \in Bad : n <= m
    BY <2>1, <2>2, LeastNat
  <2>4. n \in 1..Len(list)
    BY <1>2, <1>3, <2>2, <2>3
  <2>5. n - 1 \in 0..Len(list) /\ n - 1 \notin Bad
    BY <1>2, <2>3, <2>4
  <2> QED BY <1>4, <2>2, <2>2a, <2>3, <2>4, <2>5
<1>6. Good(Len(list))
  <2>1. Len(list) \in 0..Len(list)
    BY <1>2
  <2> QED BY <1>5, <2>1
<1> QED BY <1>1, <1>6, UptoStep

(* normalizedPermissionList: a list that is empty, blank or has a star     *)
(* becomes one star, any other the names in it, without blanks.            *)
Everything(list) == Star \in ToSet(list) \/ ToSet(list) \subseteq {Blank}

(* Named drops the blanks, and leaves nothing of a list of blanks.         *)
LEMMA NamedFacts ==
    ASSUME NEW list \in Seq(Entries)
    PROVE  /\ Named(list) \in Seq(Entries)
           /\ ToSet(Named(list)) = ToSet(list) \ {Blank}
           /\ Named(list) = <<>> <=> ToSet(list) \subseteq {Blank}
<1>1. /\ Named(list) \in Seq(Entries)
      /\ ToSet(Named(list)) = ToSet(list) \cap (Entries \ {Blank})
  BY KeptFacts DEF Named
<1>2. ToSet(list) \subseteq Entries
  BY EmptyList
<1>3. ToSet(Named(list)) = ToSet(list) \ {Blank}
  BY <1>1, <1>2
<1>4. Named(list) = <<>> <=> ToSet(Named(list)) = {}
  BY <1>1, EmptyList
<1> QED BY <1>1, <1>3, <1>4

LEMMA Normalized ==
    ASSUME NEW list \in Seq(Entries)
    PROVE  LET p == normalizedPermissionList(list)
           IN /\ p \in Seq(Entries) /\ p # <<>>
              /\ Everything(list) => p = <<Star>>
              /\ ~Everything(list) =>
                    ToSet(p) = ToSet(list) \ {Blank} /\ Star \notin ToSet(p)
<1> DEFINE p == normalizedPermissionList(list)
<1>1. Star \in Entries
  BY DEF Entries
<1>2. ASSUME Everything(list) PROVE p = <<Star>>
  BY <1>2, NamedFacts DEF Everything, normalizedPermissionList
<1>3. ASSUME ~Everything(list)
      PROVE  /\ p \in Seq(Entries) /\ p # <<>>
             /\ ToSet(p) = ToSet(list) \ {Blank} /\ Star \notin ToSet(p)
  <2>1. Named(list) # <<>> /\ Star \notin ToSet(list)
    BY <1>3, NamedFacts DEF Everything
  <2>2. p = Distinct(Named(list))
    BY <2>1 DEF normalizedPermissionList
  <2>3. p \in Seq(Entries) /\ ToSet(p) = ToSet(Named(list))
    BY <2>2, NamedFacts, DistinctFacts
  <2>4. p # <<>>
    <3>1. ToSet(Named(list)) # {}
      BY <2>1, NamedFacts, EmptyList
    <3> HIDE DEF p
    <3> QED BY <2>3, <3>1, EmptyList
  <2> QED BY <2>1, <2>3, <2>4, NamedFacts
<1>4. <<Star>> \in Seq(Entries) /\ <<Star>> # <<>>
  BY <1>1
<1> QED BY <1>2, <1>3, <1>4

(* What a column permits, apart from how blanks and stars stand in it.     *)
LEMMA PermitsNormalized ==
    ASSUME NEW list \in Seq(Entries), NEW model \in Models
    PROVE  Permits(list, model) <=>
              Everything(list) \/ model \in ToSet(list) \ {Blank}
<1>1. model # Star /\ model # Blank
  BY EntryAssumption
<1>2. (\A n \in ToSet(list) : n = Blank) <=> ToSet(list) \subseteq {Blank}
  OBVIOUS
<1> QED BY <1>1, <1>2 DEF Permits, Everything

(* A list of names without a star is not taken for a wildcard.             *)
LEMMA NoWildcard ==
    ASSUME NEW p \in Seq(Entries), p # <<>>, Star \notin ToSet(p)
    PROVE  ~isWildcardModelList(p) /\ p[1] # Star
<1>1. p[1] \in ToSet(p)
  BY EmptyList
<1> QED BY <1>1 DEF isWildcardModelList

(* EffectiveModelList permits what both of its lists permit, whatever they *)
(* hold: stars, blanks, repetitions, or nothing in common.                 *)
LEMMA EffectiveFacts ==
    ASSUME NEW teamNames \in Seq(Entries), NEW keyNames \in Seq(Entries),
           NEW model \in Models
    PROVE  isValidModel(model, EffectiveModelList(teamNames, keyNames))
              <=> Permits(teamNames, model) /\ Permits(keyNames, model)
<1> DEFINE t == normalizedPermissionList(teamNames)
           k == normalizedPermissionList(keyNames)
           list == EffectiveModelList(teamNames, keyNames)
           may(column) == Everything(column) \/ model \in ToSet(column) \ {Blank}
<1>1. Permits(teamNames, model) <=> may(teamNames)
  BY PermitsNormalized
<1>2. Permits(keyNames, model) <=> may(keyNames)
  BY PermitsNormalized
<1>3. /\ t \in Seq(Entries) /\ t # <<>> /\ (Everything(teamNames) => t = <<Star>>)
      /\ ~Everything(teamNames) =>
            ToSet(t) = ToSet(teamNames) \ {Blank} /\ Star \notin ToSet(t)
  BY Normalized
<1>4. /\ k \in Seq(Entries) /\ k # <<>> /\ (Everything(keyNames) => k = <<Star>>)
      /\ ~Everything(keyNames) =>
            ToSet(k) = ToSet(keyNames) \ {Blank} /\ Star \notin ToSet(k)
  BY Normalized
<1>5. list = CASE isWildcardModelList(t) -> k
               [] isWildcardModelList(k) -> t
               [] OTHER -> Kept(k, ToSet(t))
  BY DEF EffectiveModelList
<1>6. isWildcardModelList(<<Star>>)
  BY DEF isWildcardModelList
<1> SUFFICES isValidModel(model, list) <=> may(teamNames) /\ may(keyNames)
  BY <1>1, <1>2
<1> HIDE DEF t, k, list
<1>7. isValidModel(model, k) <=> may(keyNames)
  <2>1. CASE Everything(keyNames)
    BY <1>4, <2>1 DEF isValidModel
  <2>2. CASE ~Everything(keyNames)
    <3>1. k[1] # Star
      BY <1>4, <2>2, NoWildcard
    <3> QED BY <1>4, <2>2, <3>1 DEF isValidModel
  <2> QED BY <2>1, <2>2
<1>8. isValidModel(model, t) <=> may(teamNames)
  <2>1. CASE Everything(teamNames)
    BY <1>3, <2>1 DEF isValidModel
  <2>2. CASE ~Everything(teamNames)
    <3>1. t[1] # Star
      BY <1>3, <2>2, NoWildcard
    <3> QED BY <1>3, <2>2, <3>1 DEF isValidModel
  <2> QED BY <2>1, <2>2
<1>9. CASE Everything(teamNames)
  <2>1. list = k
    <3>1. isWildcardModelList(t)
      BY <1>3, <1>6, <1>9
    <3>2. CASE Everything(keyNames)
      <4>1. k = t /\ isWildcardModelList(k)
        BY <1>3, <1>4, <1>6, <1>9, <3>2
      <4>2. list = CASE TRUE -> k [] TRUE -> k [] OTHER -> Kept(k, ToSet(t))
        BY <1>5, <3>1, <4>1
      <4> QED BY <4>2
    <3>3. CASE ~Everything(keyNames)
      <4>1. ~isWildcardModelList(k)
        BY <1>4, <3>3, NoWildcard
      <4> QED BY <1>5, <3>1, <4>1
    <3> QED BY <3>2, <3>3
  <2> QED BY <1>7, <1>9, <2>1
<1>10. CASE ~Everything(teamNames) /\ Everything(keyNames)
  <2>1. ~isWildcardModelList(t) /\ isWildcardModelList(k)
    BY <1>3, <1>4, <1>6, <1>10, NoWildcard
  <2>2. list = t
    BY <1>5, <2>1
  <2> QED BY <1>8, <1>10, <2>2
<1>11. CASE ~Everything(teamNames) /\ ~Everything(keyNames)
  <2>1. ~isWildcardModelList(t) /\ ~isWildcardModelList(k)
    BY <1>3, <1>4, <1>11, NoWildcard
  <2>2. list = Kept(k, ToSet(t))
    BY <1>5, <2>1
  <2>3. list \in Seq(Entries) /\ ToSet(list) = ToSet(k) \cap ToSet(t)
    BY <1>4, <2>2, KeptFacts
  <2>4. isValidModel(model, list) <=> model \in ToSet(list)
    <3>1. list # <<>> => list[1] # Star
      BY <1>4, <1>11, <2>3, NoWildcard
    <3>2. list = <<>> <=> ToSet(list) = {}
      BY <2>3, EmptyList
    <3> QED BY <3>1, <3>2 DEF isValidModel
  <2> QED BY <1>3, <1>4, <1>11, <2>3, <2>4
<1> QED BY <1>9, <1>10, <1>11

(* What normalizeModelList stores permits what it was given permits.       *)
LEMMA StoredMeans ==
    ASSUME NEW list \in Seq(Entries), NEW model \in Models
    PROVE  /\ normalizeModelList(list, FALSE) \in Seq(Entries)
           /\ Permits(normalizeModelList(list, FALSE), model) <=> Permits(list, model)
<1> DEFINE stored == normalizeModelList(list, FALSE)
<1>1. <<Star>> \in Seq(Entries) /\ ToSet(<<Star>>) = {Star}
  BY DEF Entries, ToSet
<1>2. CASE Everything(list)
  <2>1. stored = <<Star>>
    BY <1>2, NamedFacts DEF Everything, normalizeModelList
  <2>2. Everything(stored)
    BY <1>1, <2>1 DEF Everything
  <2> QED BY <1>1, <1>2, <2>1, <2>2, PermitsNormalized
<1>3. CASE ~Everything(list)
  <2>1. stored = Named(list)
    BY <1>3, NamedFacts DEF Everything, normalizeModelList
  <2>2. stored \in Seq(Entries) /\ ToSet(stored) = ToSet(list) \ {Blank}
    BY <2>1, NamedFacts
  <2>3. ~Everything(stored)
    BY <1>3, <2>2, EntryAssumption DEF Everything
  <2> HIDE DEF stored
  <2>4. Permits(stored, model) <=> model \in ToSet(stored) \ {Blank}
    BY <2>2, <2>3, PermitsNormalized
  <2>5. Permits(list, model) <=> model \in ToSet(list) \ {Blank}
    BY <1>3, PermitsNormalized
  <2>6. stored \in Seq(Entries) /\ (Permits(stored, model) <=> Permits(list, model))
    BY <2>2, <2>4, <2>5
  <2> QED BY <2>6 DEF stored
<1> QED BY <1>2, <1>3

(* The lists of the model are sequences of names.                          *)
LEMMA ListsAreSequences == Lists \subseteq Seq(Entries)
BY BoundAssumption DEF Lists, BoundedSeq, SeqOf

(* normalizeModelList makes a list of names of a list of names.            *)
LEMMA StoredIsList ==
    ASSUME NEW list \in Seq(Entries), NEW all \in BOOLEAN
    PROVE  normalizeModelList(list, all) \in Seq(Entries)
<1>1. <<Star>> \in Seq(Entries)
  BY DEF Entries
<1> QED BY <1>1, NamedFacts DEF normalizeModelList

(* Both columns always hold lists of names: the types of Permissions.      *)
THEOREM ColumnsAreLists == ListsSpec => [](teamList \in Seq(Entries) /\ keyList \in Seq(Entries))
<1> DEFINE Inv == teamList \in Seq(Entries) /\ keyList \in Seq(Entries)
<1>1. ListsInit => Inv
  BY ListsAreSequences DEF ListsInit
<1>2. Inv /\ [ListsNext]_columns => Inv'
  <2> SUFFICES ASSUME Inv, [ListsNext]_columns PROVE Inv'
    OBVIOUS
  <2>1. ASSUME NEW list \in Lists, NEW allModels \in BOOLEAN,
               WriteTeam(list, allModels) \/ WriteKey(list, allModels)
        PROVE  Inv'
    <3>1. normalizeModelList(list, allModels) \in Seq(Entries)
      BY ListsAreSequences, StoredIsList
    <3> QED BY <2>1, <3>1 DEF WriteTeam, WriteKey
  <2>2. CASE UNCHANGED columns
    BY <2>2 DEF columns
  <2> QED BY <2>1, <2>2 DEF ListsNext
<1> QED BY <1>1, <1>2, PTL DEF ListsSpec

(* A request gets through to a model if and only if both columns permit it *)
(* (doc/plan.md), for all lists of any length.                             *)
THEOREM ModelsIntersect == ListsSpec => []Intersection
<1> DEFINE Inv == teamList \in Seq(Entries) /\ keyList \in Seq(Entries)
<1>1. Inv => Intersection
  BY EffectiveFacts DEF Intersection, Effective
<1> QED BY <1>1, ColumnsAreLists, PTL

(* GET /v1/models lists just what the gate lets through.                   *)
THEOREM ListingAgrees == ListsSpec => []ListedIsUsable
<1>1. ListedIsUsable
  BY DEF ListedIsUsable, accessibleModelGroups, isValidModel
<1> QED BY <1>1, PTL

(* What createTeam, updateTeam, createKey and updateKey store permits what *)
(* the request's list did.                                                 *)
THEOREM WritesMean == ListsSpec => WritesKeepMeaning
<1> DEFINE Means == \A list \in Lists, model \in Models :
          /\ WriteTeam(list, FALSE) => (Permits(teamList', model) <=> Permits(list, model))
          /\ WriteKey(list, FALSE) => (Permits(keyList', model) <=> Permits(list, model))
<1>1. Means
  BY ListsAreSequences, StoredMeans DEF WriteTeam, WriteKey
<1> QED BY <1>1, PTL DEF WritesKeepMeaning
=============================================================================
