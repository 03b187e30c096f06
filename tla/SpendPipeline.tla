--------------------------- MODULE SpendPipeline ---------------------------
(***************************************************************************)
(* Billing: logSpendMiddleware and the flushers in src/cmd/main.go, the    *)
(* queues in src/internal/proxy/proxy.go and src/internal/spend/spend.go.  *)
(*                                                                         *)
(* When the upstream has answered, the request's handler sends a record on *)
(* the channel SpendLogQueue and the amount on the channel of its key; a   *)
(* full channel blocks it.  Every minute the background goroutine starts   *)
(* one goroutine that empties SpendLogQueue into janus_spend_log and one   *)
(* that empties the keys' channels into janus_auth_key, whether or not     *)
(* the ones it started before have ended.  A database error is logged and  *)
(* the batch is gone; so is all that is in memory when the process stops.  *)
(*                                                                         *)
(* Records and amounts are represented by the request they bill.  An       *)
(* amount is not negative, so that a sum is positive if one part of it is. *)
(***************************************************************************)
EXTENDS Integers, Sequences

CONSTANTS
    Requests,     \* each is one request
    Keys,         \* key ids
    Amounts,      \* spend of a request
    NoSpend,      \* an answer without usage or price
    NoKey,        \* the key of a request that has not been billed
    NoChan,       \* keySpendQueue has no channel
    LogCap,       \* capacity of SpendLogQueue
    KeyCap,       \* capacity of a key's channel
    LogFlushers,  \* bound: the goroutines of FlushSpendLog at one time
    KeyFlushers   \* bound: the goroutines of FlushKeySpend at one time

ASSUME AmountAssumption == Amounts \subseteq Nat /\ NoSpend \notin Nat
ASSUME CapAssumption == LogCap \in Nat \ {0} /\ KeyCap \in Nat \ {0}
ASSUME SentinelAssumption == NoKey \notin Keys /\ NoChan \notin Nat

VARIABLES
    req,       \* the handlers
    logQ,      \* SpendLogQueue
    chans,     \* the channels created for keys
    queue,     \* keySpendQueue: the number of a key's channel, or NoChan
    bg,        \* what the background goroutine starts next
    logF,      \* the goroutines of FlushSpendLog
    keyF,      \* the goroutines of FlushKeySpend
    rows,      \* database: how many rows of janus_spend_log bill a request
    charges,   \* database: how often a request was added to total_spend
    logSent,   \* history: the requests whose record was sent
    keySent    \* history: the requests whose amount, if positive, was sent

vars == <<req, logQ, chans, queue, bg, logF, keyF, rows, charges, logSent, keySent>>
db == <<rows, charges>>
history == <<logSent, keySent>>
flushers == <<bg, logF, keyF>>

NewReq == [pc |-> "new", key |-> NoKey, amount |-> NoSpend, chan |-> NoChan]
IdleLogF == [pc |-> "idle", batch |-> {}]
IdleKeyF == [pc |-> "idle", snap |-> [k \in Keys |-> NoChan], key |-> NoKey, taken |-> {}]

Init ==
    /\ req = [r \in Requests |-> NewReq]
    /\ logQ = <<>>
    /\ chans = <<>>
    /\ queue = [k \in Keys |-> NoChan]
    /\ bg = "log"
    /\ logF = [f \in LogFlushers |-> IdleLogF]
    /\ keyF = [f \in KeyFlushers |-> IdleKeyF]
    /\ rows = [r \in Requests |-> 0]
    /\ charges = [r \in Requests |-> 0]
    /\ logSent = {}
    /\ keySent = {}

-----------------------------------------------------------------------------
(* A handler: logSpendMiddleware after c.Next().                           *)

(* The upstream's answer has usage and a price, or the handler goes on to  *)
(* the key's channel without a record, or does nothing at all.             *)
Answer(r) ==
    /\ req[r].pc = "new"
    /\ \E k \in Keys :
          \/ \E a \in Amounts :
                req' = [req EXCEPT ![r] = [@ EXCEPT !.pc = "log", !.key = k, !.amount = a]]
          \/ req' = [req EXCEPT ![r] = [@ EXCEPT !.pc = "find", !.key = k]]
          \/ req' = [req EXCEPT ![r].pc = "done"]
    /\ UNCHANGED <<logQ, chans, queue, flushers, db, history>>

(* CreateSpendRecord's ch <- record *)
SendRecord(r) ==
    /\ req[r].pc = "log"
    /\ Len(logQ) < LogCap
    /\ logQ' = Append(logQ, r)
    /\ logSent' = logSent \cup {r}
    /\ req' = [req EXCEPT ![r].pc = "find"]
    /\ UNCHANGED <<chans, queue, flushers, db, keySent>>

Got(r, c) == req' = [req EXCEPT ![r].pc = "charge", ![r].chan = c]

(* Mutant of FindQueue: the lookup's `ok` is not tested *)
FindQueueUntested(r) ==
    /\ req[r].pc = "find"
    /\ Got(r, queue[req[r].key])
    /\ UNCHANGED <<logQ, chans, queue, flushers, db, history>>

(* GetOrCreateKeySpendQueue under RLock *)
FindQueue(r) ==
    /\ req[r].pc = "find"
    /\ IF queue[req[r].key] # NoChan THEN Got(r, queue[req[r].key])
       ELSE req' = [req EXCEPT ![r].pc = "create"]
    /\ UNCHANGED <<logQ, chans, queue, flushers, db, history>>

(* ... and under Lock: another handler may have created the channel since *)
FindQueueAgain(r) ==
    /\ req[r].pc = "create"
    /\ queue[req[r].key] # NoChan
    /\ Got(r, queue[req[r].key])
    /\ UNCHANGED <<logQ, chans, queue, flushers, db, history>>

(* Mutant of CreateQueue: no second look under the write lock *)
CreateQueueUnchecked(r) ==
    /\ req[r].pc = "create"
    /\ chans' = Append(chans, <<>>)
    /\ queue' = [queue EXCEPT ![req[r].key] = Len(chans) + 1]
    /\ Got(r, Len(chans) + 1)
    /\ UNCHANGED <<logQ, flushers, db, history>>

CreateQueue(r) ==
    /\ req[r].pc = "create"
    /\ queue[req[r].key] = NoChan
    /\ chans' = Append(chans, <<>>)
    /\ queue' = [queue EXCEPT ![req[r].key] = Len(chans) + 1]
    /\ Got(r, Len(chans) + 1)
    /\ UNCHANGED <<logQ, flushers, db, history>>

Done(r) == req' = [req EXCEPT ![r].pc = "done", ![r].chan = NoChan]

(* CreateKeySpendRecord: nothing to send, or ch <- spendAmount *)
SendNothing(r) ==
    /\ req[r].pc = "charge"
    /\ req[r].amount = NoSpend
    /\ Done(r)
    /\ UNCHANGED <<logQ, chans, queue, flushers, db, history>>

SendAmount(r) ==
    LET c == req[r].chan
    IN /\ req[r].pc = "charge"
       /\ req[r].amount # NoSpend
       /\ Len(chans[c]) < KeyCap
       /\ chans' = [chans EXCEPT ![c] = Append(@, r)]
       /\ keySent' = IF req[r].amount > 0 THEN keySent \cup {r} ELSE keySent
       /\ Done(r)
       /\ UNCHANGED <<logQ, queue, flushers, db, logSent>>

HandlerStep(r) ==
    \/ SendRecord(r) \/ FindQueue(r) \/ FindQueueAgain(r) \/ CreateQueue(r)
    \/ SendNothing(r) \/ SendAmount(r)

-----------------------------------------------------------------------------
(* The background goroutine, at a tick: go FlushSpendLog(SpendLogQueue),   *)
(* then go FlushKeySpend(SnapshotKeySpendQueue()).                         *)

StartLogFlusher(f) ==
    /\ bg = "log"
    /\ logF[f].pc = "idle"
    /\ logF' = [logF EXCEPT ![f].pc = "drain"]
    /\ bg' = "key"
    /\ UNCHANGED <<req, logQ, chans, queue, keyF, db, history>>

(* Mutant of StartKeyFlusher: only this flusher is started in the loop *)
StartKeyFlusherOnly(f) ==
    /\ bg = "key"
    /\ keyF[f].pc = "idle"
    /\ keyF' = [keyF EXCEPT ![f].pc = "next", ![f].snap = queue]
    /\ UNCHANGED <<req, logQ, chans, queue, bg, logF, db, history>>

StartKeyFlusher(f) ==
    /\ bg = "key"
    /\ keyF[f].pc = "idle"
    /\ keyF' = [keyF EXCEPT ![f].pc = "next", ![f].snap = queue]
    /\ bg' = "log"
    /\ UNCHANGED <<req, logQ, chans, queue, logF, db, history>>

(* FlushSpendLog: one receive at a time until the channel is empty *)
TakeRecord(f) ==
    /\ logF[f].pc = "drain"
    /\ logQ # <<>>
    /\ logF' = [logF EXCEPT ![f].batch = @ \cup {Head(logQ)}]
    /\ logQ' = Tail(logQ)
    /\ UNCHANGED <<req, chans, queue, bg, keyF, db, history>>

(* Mutant of NoMoreRecords: with a batch in hand, wait for more *)
NoMoreRecordsWaits(f) ==
    /\ logF[f].pc = "drain"
    /\ logQ = <<>>
    /\ logF' = [logF EXCEPT ![f] = IF @.batch = {} THEN IdleLogF ELSE @]
    /\ UNCHANGED <<req, logQ, chans, queue, bg, keyF, db, history>>

NoMoreRecords(f) ==
    /\ logF[f].pc = "drain"
    /\ logQ = <<>>
    /\ logF' = [logF EXCEPT ![f] =
                  IF @.batch = {} THEN IdleLogF ELSE [@ EXCEPT !.pc = "insert"]]
    /\ UNCHANGED <<req, logQ, chans, queue, bg, keyF, db, history>>

(* Mutant of Insert: go on with the same batch *)
InsertWithoutReset(f) ==
    /\ logF[f].pc = "insert"
    /\ rows' = [r \in Requests |-> IF r \in logF[f].batch THEN rows[r] + 1 ELSE rows[r]]
    /\ logF' = [logF EXCEPT ![f].pc = "drain"]
    /\ UNCHANGED <<req, logQ, chans, queue, bg, keyF, charges, history>>

(* InsertBatchSpendRecord: one statement, for the whole batch *)
Insert(f) ==
    /\ logF[f].pc = "insert"
    /\ rows' = [r \in Requests |-> IF r \in logF[f].batch THEN rows[r] + 1 ELSE rows[r]]
    /\ logF' = [logF EXCEPT ![f] = IdleLogF]
    /\ UNCHANGED <<req, logQ, chans, queue, bg, keyF, charges, history>>

InsertError(f) ==
    /\ logF[f].pc = "insert"
    /\ logF' = [logF EXCEPT ![f] = IdleLogF]
    /\ UNCHANGED <<req, logQ, chans, queue, bg, keyF, db, history>>

LogFlusherStep(f) == TakeRecord(f) \/ NoMoreRecords(f) \/ Insert(f) \/ InsertError(f)

(* FlushKeySpend: the snapshot's keys in any order *)
NextKey(f, k) ==
    /\ keyF[f].pc = "next"
    /\ keyF[f].snap[k] # NoChan
    /\ keyF' = [keyF EXCEPT ![f].pc = "drain", ![f].key = k]
    /\ UNCHANGED <<req, logQ, chans, queue, bg, logF, db, history>>

NoMoreKeys(f) ==
    /\ keyF[f].pc = "next"
    /\ \A k \in Keys : keyF[f].snap[k] = NoChan
    /\ keyF' = [keyF EXCEPT ![f] = IdleKeyF]
    /\ UNCHANGED <<req, logQ, chans, queue, bg, logF, db, history>>

TakeAmount(f) ==
    LET c == keyF[f].snap[keyF[f].key]
    IN /\ keyF[f].pc = "drain"
       /\ chans[c] # <<>>
       /\ keyF' = [keyF EXCEPT ![f].taken = @ \cup {Head(chans[c])}]
       /\ chans' = [chans EXCEPT ![c] = Tail(@)]
       /\ UNCHANGED <<req, logQ, queue, bg, logF, db, history>>

(* nextKey *)
KeyFlushed(f) ==
    keyF' = [keyF EXCEPT ![f] = [pc |-> "next", snap |-> [@.snap EXCEPT ![keyF[f].key] = NoChan],
                                 key |-> NoKey, taken |-> {}]]

(* totalSpend > 0 *)
Positive(taken) == \E r \in taken : req[r].amount > 0

(* Mutant of NoMoreAmounts: return instead of goto nextKey *)
NoMoreAmountsReturns(f) ==
    /\ keyF[f].pc = "drain"
    /\ chans[keyF[f].snap[keyF[f].key]] = <<>>
    /\ keyF' = [keyF EXCEPT ![f] = IF Positive(@.taken) THEN [@ EXCEPT !.pc = "update"]
                                   ELSE IdleKeyF]
    /\ UNCHANGED <<req, logQ, chans, queue, bg, logF, db, history>>

NoMoreAmounts(f) ==
    /\ keyF[f].pc = "drain"
    /\ chans[keyF[f].snap[keyF[f].key]] = <<>>
    /\ IF Positive(keyF[f].taken) THEN keyF' = [keyF EXCEPT ![f].pc = "update"]
       ELSE KeyFlushed(f)
    /\ UNCHANGED <<req, logQ, chans, queue, bg, logF, db, history>>

(* UpdateKeySpendRecord: one statement, for the sum *)
Update(f) ==
    /\ keyF[f].pc = "update"
    /\ charges' = [r \in Requests |->
                     IF r \in keyF[f].taken THEN charges[r] + 1 ELSE charges[r]]
    /\ KeyFlushed(f)
    /\ UNCHANGED <<req, logQ, chans, queue, bg, logF, rows, history>>

(* Mutant of UpdateError: a retry, though the statement was committed *)
UpdateErrorRetries(f) ==
    /\ keyF[f].pc = "update"
    /\ charges' = [r \in Requests |->
                     IF r \in keyF[f].taken THEN charges[r] + 1 ELSE charges[r]]
    /\ UNCHANGED <<req, logQ, chans, queue, bg, logF, keyF, rows, history>>

(* Mutant of UpdateError: totalSpend is not set to 0 for the next key *)
UpdateErrorCarries(f) ==
    /\ keyF[f].pc = "update"
    /\ keyF' = [keyF EXCEPT ![f].pc = "next", ![f].snap[keyF[f].key] = NoChan]
    /\ UNCHANGED <<req, logQ, chans, queue, bg, logF, db, history>>

UpdateError(f) ==
    /\ keyF[f].pc = "update"
    /\ KeyFlushed(f)
    /\ UNCHANGED <<req, logQ, chans, queue, bg, logF, db, history>>

KeyFlusherStep(f) ==
    \/ TakeAmount(f) \/ NoMoreAmounts(f) \/ Update(f) \/ UpdateError(f) \/ NoMoreKeys(f)
    \/ \E k \in Keys : NextKey(f, k)

(* The process stops, and another one takes the requests that are new. *)
Crash ==
    /\ req' = [r \in Requests |-> IF req[r].pc = "new" THEN NewReq
                    ELSE [req[r] EXCEPT !.pc = "done", !.chan = NoChan]]
    /\ logQ' = <<>>
    /\ chans' = <<>>
    /\ queue' = [k \in Keys |-> NoChan]
    /\ bg' = "log"
    /\ logF' = [f \in LogFlushers |-> IdleLogF]
    /\ keyF' = [f \in KeyFlushers |-> IdleKeyF]
    /\ UNCHANGED <<db, history>>

Next ==
    \/ \E r \in Requests : Answer(r) \/ HandlerStep(r)
    \/ \E f \in LogFlushers : StartLogFlusher(f) \/ LogFlusherStep(f)
    \/ \E f \in KeyFlushers : StartKeyFlusher(f) \/ KeyFlusherStep(f)
    \/ Crash

Spec == Init /\ [][Next]_vars

(* A goroutine that can run does run, and the ticker keeps firing.  That   *)
(* a request is ever answered, and that the database ever works, is not    *)
(* assumed.                                                                *)
Fairness ==
    /\ \A r \in Requests : WF_vars(HandlerStep(r))
    /\ WF_vars(\E f \in LogFlushers : StartLogFlusher(f))
    /\ WF_vars(\E f \in KeyFlushers : StartKeyFlusher(f))
    /\ \A f \in LogFlushers : WF_vars(LogFlusherStep(f))
    /\ \A f \in KeyFlushers : WF_vars(KeyFlusherStep(f))

FairSpec == Spec /\ Fairness

-----------------------------------------------------------------------------
HandlerPCs == {"new", "log", "find", "create", "charge", "done"}
Chan == DOMAIN chans

(* A handler knows its key once the answer is there, and its key's channel *)
(* once it has looked for it.                                              *)
RequestsType ==
    /\ req \in [Requests -> [pc : HandlerPCs, key : Keys \cup {NoKey},
                             amount : Amounts \cup {NoSpend}, chan : Chan \cup {NoChan}]]
    /\ \A r \in Requests :
          /\ req[r].pc \in HandlerPCs \ {"new", "done"} => req[r].key \in Keys
          /\ req[r].pc = "charge" => req[r].chan \in Chan

QueuesType ==
    /\ logQ \in Seq(Requests)
    /\ chans \in Seq(Seq(Requests))
    /\ queue \in [Keys -> Chan \cup {NoChan}]

LogFlushersType ==
    /\ bg \in {"log", "key"}
    /\ logF \in [LogFlushers -> [pc : {"idle", "drain", "insert"}, batch : SUBSET Requests]]

KeyFlushersType ==
    /\ keyF \in [KeyFlushers -> [pc : {"idle", "next", "drain", "update"},
                                  snap : [Keys -> Chan \cup {NoChan}],
                                  key : Keys \cup {NoKey}, taken : SUBSET Requests]]
    /\ \A f \in KeyFlushers : keyF[f].pc \in {"drain", "update"} =>
          keyF[f].key \in Keys /\ keyF[f].snap[keyF[f].key] # NoChan

BooksType ==
    /\ rows \in [Requests -> Nat] /\ charges \in [Requests -> Nat]
    /\ logSent \subseteq Requests /\ keySent \subseteq Requests

TypeOK == RequestsType /\ QueuesType /\ LogFlushersType /\ KeyFlushersType /\ BooksType

Items(seq) == {seq[i] : i \in DOMAIN seq}

(* Where a record may wait: SpendLogQueue and the flushers' batches, or    *)
(* the channels that keySpendQueue leads to and the flushers' sums.        *)
LogPending == Items(logQ) \cup UNION {logF[f].batch : f \in LogFlushers}

KeyPending ==
    (UNION {Items(chans[queue[k]]) : k \in {q \in Keys : queue[q] # NoChan}})
        \cup UNION {keyF[f].taken : f \in KeyFlushers}

(* The state of a record in the ledger; "double" is none of the ledger's.  *)
BookOf(r, sent, pending, count) ==
    IF r \in pending THEN IF count[r] = 0 THEN "pending" ELSE "double"
    ELSE IF count[r] # 0 THEN IF count[r] = 1 THEN "booked" ELSE "double"
    ELSE IF r \in sent THEN "lost" ELSE "none"

(* A request that costs nothing has no place in the ledger of charges.     *)
Costs(r) == req[r].amount \in Nat \ {0}

LogBook == [r \in Requests |-> BookOf(r, logSent, LogPending, rows)]

ChargeBook ==
    [r \in Requests |-> IF Costs(r) THEN BookOf(r, keySent, KeyPending, charges) ELSE "none"]

(* A record is in one place at most: once in SpendLogQueue, or with one    *)
(* flusher.                                                                *)
LogOnce ==
    /\ \A i, j \in DOMAIN logQ : logQ[i] = logQ[j] => i = j
    /\ \A f \in LogFlushers : logF[f].batch \cap Items(logQ) = {}
    /\ \A f, g \in LogFlushers : f # g => logF[f].batch \cap logF[g].batch = {}

(* Only a handler that has not sent its record may still do so, and what   *)
(* waits has not been inserted.                                            *)
LogCounted ==
    /\ \A r \in LogPending : r \in logSent /\ rows[r] = 0
    /\ \A r \in Requests :
          /\ rows[r] # 0 => rows[r] = 1 /\ r \in logSent
          /\ req[r].pc \in {"new", "log"} => r \notin logSent

(* No channel is ever lost sight of: keySpendQueue leads to each.          *)
ChannelsReached == \A c \in Chan : \E k \in Keys : queue[k] = c

(* An amount is in one place at most: once in one channel, or with one     *)
(* flusher.                                                                *)
KeyOnce ==
    /\ \A c, d \in Chan : \A i \in DOMAIN chans[c], j \in DOMAIN chans[d] :
          chans[c][i] = chans[d][j] => c = d /\ i = j
    /\ \A f \in KeyFlushers, c \in Chan : keyF[f].taken \cap Items(chans[c]) = {}
    /\ \A f, g \in KeyFlushers : f # g => keyF[f].taken \cap keyF[g].taken = {}

(* The same for amounts, which the handler sends last.                     *)
KeyCounted ==
    /\ \A r \in KeyPending :
          /\ req[r].pc = "done" /\ req[r].amount \in Nat /\ charges[r] = 0
          /\ Costs(r) => r \in keySent
    /\ \A r \in Requests :
          /\ charges[r] # 0 => charges[r] = 1 /\ req[r].pc = "done"
          /\ charges[r] # 0 /\ Costs(r) => r \in keySent
          /\ r \in keySent => req[r].pc = "done"

(* A sum that is not sent to the database has no part that is positive.    *)
IdleTakesNothing ==
    \A f \in KeyFlushers : keyF[f].pc \in {"idle", "next"} => keyF[f].taken = {}

(* A flusher's sum has amounts of requests of one key only, the key that   *)
(* it is about to charge: whichever channel they came through, and         *)
(* whatever became of the keys that it flushed before.                     *)
ChargesOwnKey ==
    \A f \in KeyFlushers : \A r \in keyF[f].taken : req[r].key = keyF[f].key

(* No two keys share a channel, a channel has amounts of its key only, and *)
(* handlers and flushers hold the channels that keySpendQueue has.         *)
ChannelsOwned ==
    /\ \A j, k \in Keys : queue[j] # NoChan /\ queue[j] = queue[k] => j = k
    /\ \A k \in Keys : queue[k] # NoChan =>
          \A r \in Items(chans[queue[k]]) : req[r].key = k
    /\ \A r \in Requests : req[r].pc = "charge" => req[r].chan = queue[req[r].key]
    /\ \A f \in KeyFlushers, k \in Keys : keyF[f].snap[k] \in {NoChan, queue[k]}

(* What is inductive of these (SpendPipelineProofs).                       *)
IInv ==
    /\ TypeOK
    /\ LogOnce /\ LogCounted
    /\ ChannelsReached /\ KeyOnce /\ KeyCounted /\ IdleTakesNothing
    /\ ChannelsOwned /\ ChargesOwnKey

LogLedger == INSTANCE SpendLedger WITH book <- LogBook
ChargeLedger == INSTANCE SpendLedger WITH book <- ChargeBook

(* The spend log implements the ledger: however flushers, handlers and     *)
(* crashes interleave, a request gets one row in janus_spend_log or none.  *)
LogIsLedger == LogLedger!LedgerSpec

(* So do the keys' charges: an amount is taken off the balance once, by    *)
(* whichever flusher received it, or never.                                *)
ChargeIsLedger == ChargeLedger!LedgerSpec

(* What was queued is lost only when the database fails or the process     *)
(* stops: no interleaving leaves it in a channel that nothing empties.     *)
Lost == {r \in Requests : LogBook[r] = "lost" \/ ChargeBook[r] = "lost"}

LossNeedsFailure ==
    [][Lost' # Lost => \/ Crash
                       \/ \E f \in LogFlushers : InsertError(f)
                       \/ \E f \in KeyFlushers : UpdateError(f)]_vars

(* A handler that a full channel blocks gets its records off: the client's *)
(* connection does not hang on billing, even if the database always fails. *)
HandlersFinish ==
    \A r \in Requests : req[r].pc \notin {"new", "done"} ~> req[r].pc = "done"

(* Nothing waits in memory forever. *)
LogSettles == LogLedger!Settles
ChargeSettles == ChargeLedger!Settles
=============================================================================
