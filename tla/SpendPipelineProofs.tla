------------------------- MODULE SpendPipelineProofs -------------------------
(***************************************************************************)
(* What holds of SpendPipeline for every number of requests, keys and      *)
(* flushers and every capacity of the channels: its types, and that the    *)
(* spend log and the charges of the keys each implement SpendLedger.       *)
(***************************************************************************)
EXTENDS SpendPipeline, SequenceTheorems, TLAPS

(* The items of a queue. *)
LEMMA ItemsProperties ==
    ASSUME NEW S, NEW s \in Seq(S)
    PROVE  /\ Items(s) \subseteq S
           /\ \A i \in DOMAIN s : s[i] \in Items(s)
           /\ \A x \in Items(s) : \E i \in DOMAIN s : s[i] = x
<1>1. DOMAIN s = 1..Len(s)
  BY LenProperties
<1>2. \A i \in 1..Len(s) : s[i] \in S
  BY ElementOfSeq
<1> QED BY <1>1, <1>2 DEF Items

(* The items of a queue with one more at its end. *)
LEMMA ItemsAppend ==
    ASSUME NEW S, NEW s \in Seq(S), NEW x \in S
    PROVE  /\ Append(s, x) \in Seq(S)
           /\ Items(Append(s, x)) = Items(s) \cup {x}
           /\ DOMAIN Append(s, x) = DOMAIN s \cup {Len(s) + 1}
           /\ Len(s) + 1 \notin DOMAIN s
           /\ \A i \in DOMAIN s : Append(s, x)[i] = s[i]
           /\ Append(s, x)[Len(s) + 1] = x
<1> DEFINE t == Append(s, x)
<1>1. /\ t \in Seq(S) /\ Len(t) = Len(s) + 1
      /\ \A i \in 1..Len(s) : t[i] = s[i]
      /\ t[Len(s) + 1] = x
  BY AppendProperties
<1>2. Len(s) \in Nat /\ DOMAIN s = 1..Len(s) /\ DOMAIN t = 1..Len(t)
  BY <1>1, LenProperties
<1>3. DOMAIN t = DOMAIN s \cup {Len(s) + 1} /\ Len(s) + 1 \notin DOMAIN s
  BY <1>1, <1>2
<1> HIDE DEF t
<1>4. Items(t) = Items(s) \cup {x}
  BY <1>1, <1>2, <1>3 DEF Items
<1> QED BY <1>1, <1>2, <1>3, <1>4 DEF t

(* The items of a queue without its first. *)
LEMMA ItemsTail ==
    ASSUME NEW S, NEW s \in Seq(S), s # <<>>
    PROVE  /\ Head(s) \in S /\ Tail(s) \in Seq(S)
           /\ 1 \in DOMAIN s /\ s[1] = Head(s)
           /\ Items(s) = {Head(s)} \cup Items(Tail(s))
           /\ \A i \in DOMAIN Tail(s) : i + 1 \in DOMAIN s /\ i + 1 # 1 /\ Tail(s)[i] = s[i + 1]
<1>1. /\ Head(s) \in S /\ Tail(s) \in Seq(S)
      /\ Len(Tail(s)) = Len(s) - 1
      /\ \A i \in 1..Len(Tail(s)) : Tail(s)[i] = s[i + 1]
  BY HeadTailProperties
<1>2. Len(s) \in Nat \ {0} /\ DOMAIN s = 1..Len(s) /\ DOMAIN Tail(s) = 1..Len(Tail(s))
  BY <1>1, LenProperties, EmptySeq
<1>3. Head(s) = s[1]
  OBVIOUS
<1>4. \A i \in DOMAIN Tail(s) : i + 1 \in DOMAIN s /\ i + 1 # 1 /\ Tail(s)[i] = s[i + 1]
  BY <1>1, <1>2
<1>5. \A i \in DOMAIN s : i = 1 \/ (i - 1 \in DOMAIN Tail(s) /\ Tail(s)[i - 1] = s[i])
  BY <1>1, <1>2
<1>6. Items(s) = {Head(s)} \cup Items(Tail(s))
  <2>1. 1 \in DOMAIN s
    BY <1>2
  <2>2. ASSUME NEW x \in Items(s)
        PROVE  x = Head(s) \/ x \in Items(Tail(s))
    BY <1>3, <1>5 DEF Items
  <2>3. ASSUME NEW x \in Items(Tail(s))
        PROVE  x \in Items(s)
    BY <1>4 DEF Items
  <2>4. Head(s) \in Items(s)
    BY <1>3, <2>1 DEF Items
  <2> QED BY <2>2, <2>3, <2>4
<1> QED BY <1>1, <1>2, <1>3, <1>4, <1>6

(* An empty queue has no items. *)
LEMMA ItemsEmpty == Items(<<>>) = {}
BY DEF Items

-----------------------------------------------------------------------------
(* The types.                                                              *)

LEMMA ChannelTypes ==
    ASSUME QueuesType
    PROVE  /\ Len(chans) \in Nat /\ Chan = 1..Len(chans)
           /\ NoChan \notin Chan
           /\ \A c \in Chan : chans[c] \in Seq(Requests) /\ Len(chans[c]) \in Nat
<1>1. Len(chans) \in Nat /\ Chan = 1..Len(chans)
  BY LenProperties DEF QueuesType, Chan
<1>2. \A c \in Chan : chans[c] \in Seq(Requests)
  BY <1>1, ElementOfSeq DEF QueuesType
<1>3. \A c \in Chan : Len(chans[c]) \in Nat
  BY <1>2, LenProperties
<1> QED BY <1>1, <1>2, <1>3, SentinelAssumption

(* TypeOK holds at the start. *)
LEMMA InitType == Init => TypeOK
<1> SUFFICES ASSUME Init PROVE TypeOK
  OBVIOUS
<1> USE DEF Init
<1>1. RequestsType
  BY DEF RequestsType, NewReq, HandlerPCs
<1>2. QueuesType
  BY EmptySeq DEF QueuesType
<1>3. LogFlushersType /\ KeyFlushersType /\ BooksType
  BY DEF LogFlushersType, KeyFlushersType, BooksType, IdleLogF, IdleKeyF
<1> QED BY <1>1, <1>2, <1>3 DEF TypeOK

Handler(C) ==
    [pc : HandlerPCs, key : Keys \cup {NoKey}, amount : Amounts \cup {NoSpend},
     chan : C \cup {NoChan}]

HandlerOK(h, C) ==
    /\ h \in Handler(C)
    /\ h.pc \in HandlerPCs \ {"new", "done"} => h.key \in Keys
    /\ h.pc = "charge" => h.chan \in C

(* One handler moves on; the channels may have become more. *)
LEMMA HandlerMoves ==
    ASSUME RequestsType, NEW r \in Requests, NEW h, req' = [req EXCEPT ![r] = h],
           HandlerOK(h, Chan'), Chan \subseteq Chan'
    PROVE  RequestsType'
BY DEF RequestsType, HandlerOK, Handler

(* A handler is done. *)
LEMMA HandlerDone ==
    ASSUME RequestsType, NEW r \in Requests, Done(r), Chan \subseteq Chan'
    PROVE  RequestsType'
<1> DEFINE h == [req[r] EXCEPT !.pc = "done", !.chan = NoChan]
<1>1. req' = [req EXCEPT ![r] = h]
  BY DEF Done, RequestsType
<1>2. HandlerOK(h, Chan')
  BY DEF RequestsType, HandlerOK, Handler, HandlerPCs
<1> QED BY <1>1, <1>2, HandlerMoves

(* What a step of a handler leaves alone, and where it gets a channel. *)
LEMMA HandlerType ==
    ASSUME TypeOK, NEW r \in Requests, Answer(r) \/ HandlerStep(r)
    PROVE  TypeOK'
<1> USE DEF TypeOK
<1>0. /\ Len(chans) \in Nat /\ Chan = 1..Len(chans) /\ NoChan \notin Chan
      /\ \A c \in Chan : chans[c] \in Seq(Requests)
  BY ChannelTypes
<1>1. CASE Answer(r)
  <2>1. UNCHANGED <<logQ, chans, queue, bg, logF, keyF, rows, charges, logSent, keySent>>
    BY <1>1 DEF Answer, flushers, db, history
  <2>2. RequestsType'
    <3>1. HandlerOK(req[r], Chan)
      BY DEF RequestsType, HandlerOK, Handler
    <3>2. PICK k \in Keys :
            \/ \E a \in Amounts :
                  req' = [req EXCEPT ![r] = [@ EXCEPT !.pc = "log", !.key = k, !.amount = a]]
            \/ req' = [req EXCEPT ![r] = [@ EXCEPT !.pc = "find", !.key = k]]
            \/ req' = [req EXCEPT ![r].pc = "done"]
      BY <1>1 DEF Answer
    <3>3. CASE \E a \in Amounts :
                  req' = [req EXCEPT ![r] = [@ EXCEPT !.pc = "log", !.key = k, !.amount = a]]
      <4>1. PICK a \in Amounts :
                  req' = [req EXCEPT ![r] = [@ EXCEPT !.pc = "log", !.key = k, !.amount = a]]
        BY <3>3
      <4> DEFINE h == [req[r] EXCEPT !.pc = "log", !.key = k, !.amount = a]
      <4>2. HandlerOK(h, Chan')
        BY <2>1, <3>1 DEF HandlerOK, Handler, HandlerPCs, Chan
      <4> QED BY <2>1, <4>1, <4>2, HandlerMoves DEF Chan
    <3>4. CASE req' = [req EXCEPT ![r] = [@ EXCEPT !.pc = "find", !.key = k]]
      <4> DEFINE h == [req[r] EXCEPT !.pc = "find", !.key = k]
      <4>1. HandlerOK(h, Chan')
        BY <2>1, <3>1 DEF HandlerOK, Handler, HandlerPCs, Chan
      <4> QED BY <2>1, <3>4, <4>1, HandlerMoves DEF Chan
    <3>5. CASE req' = [req EXCEPT ![r].pc = "done"]
      BY <2>1, <3>5 DEF RequestsType, HandlerPCs, Chan
    <3> QED BY <3>2, <3>3, <3>4, <3>5
  <2> QED
    BY <2>1, <2>2 DEF QueuesType, LogFlushersType, KeyFlushersType, BooksType, Chan
<1>2. CASE SendRecord(r)
  <2>1. UNCHANGED <<chans, queue, bg, logF, keyF, rows, charges, keySent>>
    BY <1>2 DEF SendRecord, flushers, db
  <2>2. RequestsType'
    BY <1>2, <2>1 DEF RequestsType, SendRecord, HandlerPCs, Chan
  <2>3. logQ' \in Seq(Requests)
    BY <1>2, ItemsAppend DEF SendRecord, QueuesType
  <2>4. logSent' \subseteq Requests
    BY <1>2 DEF SendRecord, BooksType
  <2> QED
    BY <2>1, <2>2, <2>3, <2>4 DEF QueuesType, LogFlushersType, KeyFlushersType, BooksType, Chan
<1>3. CASE FindQueue(r) \/ FindQueueAgain(r) \/ SendNothing(r)
  <2>1. UNCHANGED <<logQ, chans, queue, bg, logF, keyF, rows, charges, logSent, keySent>>
    BY <1>3 DEF FindQueue, FindQueueAgain, SendNothing, flushers, db, history
  <2>2. RequestsType'
    <3>1. CASE FindQueue(r)
      <4> DEFINE k == req[r].key
      <4>1. HandlerOK(req[r], Chan) /\ k \in Keys
        BY <3>1 DEF RequestsType, HandlerOK, Handler, HandlerPCs, FindQueue
      <4>2. CASE queue[k] # NoChan
        <5> DEFINE h == [req[r] EXCEPT !.pc = "charge", !.chan = queue[k]]
        <5>1. req' = [req EXCEPT ![r] = h]
          BY <3>1, <4>2 DEF FindQueue, Got, RequestsType
        <5>2. queue[k] \in Chan
          BY <4>1, <4>2 DEF QueuesType
        <5>3. HandlerOK(h, Chan')
          BY <2>1, <4>1, <5>2 DEF HandlerOK, Handler, HandlerPCs, Chan
        <5> QED BY <2>1, <5>1, <5>3, HandlerMoves DEF Chan
      <4>3. CASE queue[k] = NoChan
        <5> DEFINE h == [req[r] EXCEPT !.pc = "create"]
        <5>1. req' = [req EXCEPT ![r] = h]
          BY <3>1, <4>3 DEF FindQueue, RequestsType
        <5>2. HandlerOK(h, Chan')
          BY <2>1, <4>1 DEF HandlerOK, Handler, HandlerPCs, Chan
        <5> QED BY <2>1, <5>1, <5>2, HandlerMoves DEF Chan
      <4> QED BY <4>2, <4>3
    <3>2. CASE FindQueueAgain(r)
      <4> DEFINE k == req[r].key
                 h == [req[r] EXCEPT !.pc = "charge", !.chan = queue[k]]
      <4>1. HandlerOK(req[r], Chan) /\ k \in Keys /\ queue[k] # NoChan
        BY <3>2 DEF RequestsType, HandlerOK, Handler, HandlerPCs, FindQueueAgain
      <4>2. req' = [req EXCEPT ![r] = h]
        BY <3>2 DEF FindQueueAgain, Got, RequestsType
      <4>3. queue[k] \in Chan
        BY <4>1 DEF QueuesType
      <4>4. HandlerOK(h, Chan')
        BY <2>1, <4>1, <4>3 DEF HandlerOK, Handler, HandlerPCs, Chan
      <4> QED BY <2>1, <4>2, <4>4, HandlerMoves DEF Chan
    <3>3. CASE SendNothing(r)
      <4>1. Done(r)
        BY <3>3 DEF SendNothing
      <4> QED BY <2>1, <4>1, HandlerDone DEF Chan
    <3> QED BY <1>3, <3>1, <3>2, <3>3
  <2> QED
    BY <2>1, <2>2 DEF QueuesType, LogFlushersType, KeyFlushersType, BooksType, Chan
<1>4. CASE CreateQueue(r)
  <2>1. UNCHANGED <<logQ, bg, logF, keyF, rows, charges, logSent, keySent>>
    BY <1>4 DEF CreateQueue, flushers, db, history
  <2>2. chans' \in Seq(Seq(Requests)) /\ Chan' = Chan \cup {Len(chans) + 1}
    <3>1. <<>> \in Seq(Requests)
      BY EmptySeq
    <3> QED BY <1>4, <3>1, ItemsAppend DEF CreateQueue, QueuesType, Chan
  <2>3. RequestsType'
    <3> DEFINE h == [req[r] EXCEPT !.pc = "charge", !.chan = Len(chans) + 1]
    <3>1. HandlerOK(req[r], Chan) /\ req[r].key \in Keys
      BY <1>4 DEF RequestsType, HandlerOK, Handler, HandlerPCs, CreateQueue
    <3>2. req' = [req EXCEPT ![r] = h]
      BY <1>4 DEF CreateQueue, Got, RequestsType
    <3>3. HandlerOK(h, Chan')
      BY <2>2, <3>1 DEF HandlerOK, Handler, HandlerPCs
    <3> QED BY <2>2, <3>2, <3>3, HandlerMoves
  <2>4. QueuesType'
    BY <1>4, <2>1, <2>2 DEF QueuesType, CreateQueue
  <2>5. KeyFlushersType'
    BY <2>1, <2>2 DEF KeyFlushersType
  <2> QED
    BY <2>1, <2>3, <2>4, <2>5 DEF LogFlushersType, BooksType
<1>5. CASE SendAmount(r)
  <2> DEFINE c == req[r].chan
  <2>1. UNCHANGED <<logQ, queue, bg, logF, keyF, rows, charges, logSent>>
    BY <1>5 DEF SendAmount, flushers, db
  <2>2. c \in Chan /\ chans' = [chans EXCEPT ![c] = Append(@, r)]
    BY <1>5 DEF SendAmount, RequestsType
  <2>3. Append(chans[c], r) \in Seq(Requests)
    BY <1>0, <2>2, ItemsAppend
  <2>4. chans' \in Seq(Seq(Requests)) /\ Chan' = Chan
    <3> HIDE DEF c
    <3> QED BY <1>0, <2>2, <2>3, ExceptSeq DEF QueuesType, Chan
  <2>5. RequestsType'
    <3>1. Done(r)
      BY <1>5 DEF SendAmount
    <3> QED BY <2>4, <3>1, HandlerDone
  <2>6. keySent' \subseteq Requests
    BY <1>5 DEF SendAmount, BooksType
  <2> QED
    BY <2>1, <2>4, <2>5, <2>6 DEF QueuesType, LogFlushersType, KeyFlushersType, BooksType
<1> QED
  BY <1>1, <1>2, <1>3, <1>4, <1>5 DEF HandlerStep

(* The flusher of records keeps the types. *)
LEMMA LogFlusherType ==
    ASSUME TypeOK, NEW f \in LogFlushers, StartLogFlusher(f) \/ LogFlusherStep(f)
    PROVE  TypeOK'
<1> USE DEF TypeOK
<1>1. UNCHANGED <<req, chans, queue, keyF, charges, logSent, keySent>>
  BY DEF StartLogFlusher, LogFlusherStep, TakeRecord, NoMoreRecords, Insert, InsertError,
         db, history
<1>2. RequestsType' /\ KeyFlushersType'
  BY <1>1 DEF RequestsType, KeyFlushersType, Chan
<1>3. QueuesType'
  <2>1. CASE TakeRecord(f)
    BY <1>1, <2>1, ItemsTail DEF QueuesType, TakeRecord, Chan
  <2>2. CASE ~TakeRecord(f)
    <3>1. UNCHANGED logQ
      BY <2>2 DEF StartLogFlusher, LogFlusherStep, NoMoreRecords, Insert, InsertError
    <3> QED BY <1>1, <3>1 DEF QueuesType, Chan
  <2> QED BY <2>1, <2>2
<1>4. LogFlushersType'
  <2>1. CASE StartLogFlusher(f)
    BY <2>1 DEF LogFlushersType, StartLogFlusher
  <2>2. CASE TakeRecord(f)
    <3>1. Head(logQ) \in Requests
      BY <2>2, ItemsTail DEF QueuesType, TakeRecord
    <3> QED BY <2>2, <3>1 DEF LogFlushersType, TakeRecord
  <2>3. CASE NoMoreRecords(f)
    BY <2>3 DEF LogFlushersType, NoMoreRecords, IdleLogF
  <2>4. CASE Insert(f) \/ InsertError(f)
    BY <2>4 DEF LogFlushersType, Insert, InsertError, IdleLogF
  <2> QED BY <2>1, <2>2, <2>3, <2>4 DEF LogFlusherStep
<1>5. BooksType'
  <2>1. CASE Insert(f)
    BY <1>1, <2>1 DEF BooksType, Insert
  <2>2. CASE ~Insert(f)
    <3>1. UNCHANGED rows
      BY <2>2 DEF StartLogFlusher, LogFlusherStep, TakeRecord, NoMoreRecords, InsertError, db
    <3> QED BY <1>1, <3>1 DEF BooksType
  <2> QED BY <2>1, <2>2
<1> QED BY <1>2, <1>3, <1>4, <1>5

KeyFlusherOK(e) ==
    /\ e \in [pc : {"idle", "next", "drain", "update"}, snap : [Keys -> Chan \cup {NoChan}],
              key : Keys \cup {NoKey}, taken : SUBSET Requests]
    /\ e.pc \in {"drain", "update"} => e.key \in Keys /\ e.snap[e.key] # NoChan

(* A flusher of charges that moves to a sound state keeps the types of them all. *)
LEMMA KeyFlusherMoves ==
    ASSUME KeyFlushersType, NEW f \in KeyFlushers, NEW e, keyF' = [keyF EXCEPT ![f] = e],
           KeyFlusherOK(e), Chan' = Chan
    PROVE  KeyFlushersType'
BY DEF KeyFlushersType, KeyFlusherOK

(* A flusher that starts keeps its key and what it took. *)
LEMMA KeyFlusherStarts ==
    ASSUME NEW P, NEW S, NEW K, NEW T, NEW g \in [pc : P, snap : S, key : K, taken : T],
           NEW p \in P, NEW q \in S
    PROVE  /\ [g EXCEPT !.pc = p, !.snap = q] \in [pc : P, snap : S, key : K, taken : T]
           /\ [g EXCEPT !.pc = p, !.snap = q].pc = p
OBVIOUS

(* The flusher of charges keeps the types. *)
LEMMA KeyFlusherType ==
    ASSUME TypeOK, NEW f \in KeyFlushers, StartKeyFlusher(f) \/ KeyFlusherStep(f)
    PROVE  TypeOK'
<1> USE DEF TypeOK
<1>0. /\ Len(chans) \in Nat /\ Chan = 1..Len(chans) /\ NoChan \notin Chan
      /\ \A c \in Chan : chans[c] \in Seq(Requests)
  BY ChannelTypes
<1>1. UNCHANGED <<req, logQ, queue, logF, rows, logSent, keySent>>
  BY DEF StartKeyFlusher, KeyFlusherStep, NextKey, NoMoreKeys, TakeAmount, NoMoreAmounts,
         Update, UpdateError, db, history
<1> DEFINE c == keyF[f].snap[keyF[f].key]
<1>2. CASE TakeAmount(f)
  <2>1. c \in Chan /\ chans[c] # <<>>
    BY <1>2 DEF TakeAmount, KeyFlushersType
  <2>2. chans[c] \in Seq(Requests) /\ Tail(chans[c]) \in Seq(Requests)
        /\ Head(chans[c]) \in Requests
    BY <1>0, <2>1, ItemsTail
  <2>3. chans' = [chans EXCEPT ![c] = Tail(chans[c])]
    BY <1>2 DEF TakeAmount
  <2>4. chans' \in Seq(Seq(Requests)) /\ Chan' = Chan
    <3> HIDE DEF c
    <3> QED BY <1>0, <2>1, <2>2, <2>3, ExceptSeq DEF QueuesType, Chan
  <2>5. KeyFlushersType'
    <3>1. keyF' = [keyF EXCEPT ![f].taken = @ \cup {Head(chans[c])}]
      BY <1>2 DEF TakeAmount
    <3> HIDE DEF c
    <3> QED BY <2>2, <2>4, <3>1 DEF KeyFlushersType
  <2>6. UNCHANGED <<bg, charges>>
    BY <1>2 DEF TakeAmount, db
  <2> QED
    BY <1>1, <2>4, <2>5, <2>6 DEF RequestsType, QueuesType, LogFlushersType, BooksType
<1>3. CASE ~TakeAmount(f)
  <2>1. UNCHANGED chans
    BY <1>3 DEF StartKeyFlusher, KeyFlusherStep, NextKey, NoMoreKeys, NoMoreAmounts,
                Update, UpdateError
  <2>2. bg' \in {"log", "key"}
    BY <1>3 DEF StartKeyFlusher, KeyFlusherStep, NextKey, NoMoreKeys, NoMoreAmounts,
                Update, UpdateError, LogFlushersType
  <2>3. BooksType'
    <3>1. CASE Update(f)
      BY <1>1, <3>1 DEF BooksType, Update
    <3>2. CASE ~Update(f)
      <4>1. UNCHANGED charges
        BY <1>3, <3>2 DEF StartKeyFlusher, KeyFlusherStep, NextKey, NoMoreKeys,
                          NoMoreAmounts, UpdateError, db
      <4> QED BY <1>1, <4>1 DEF BooksType
    <3> QED BY <3>1, <3>2
  <2>4. KeyFlushersType'
    <3>1. CASE StartKeyFlusher(f)
      <4> DEFINE e == [keyF[f] EXCEPT !.pc = "next", !.snap = queue]
      <4>1. keyF' = [keyF EXCEPT ![f] = e]
        BY <3>1 DEF StartKeyFlusher, KeyFlushersType
      <4>2. queue \in [Keys -> Chan \cup {NoChan}]
        BY DEF QueuesType
      <4>3. keyF[f] \in [pc : {"idle", "next", "drain", "update"},
                          snap : [Keys -> Chan \cup {NoChan}],
                          key : Keys \cup {NoKey}, taken : SUBSET Requests]
        BY DEF KeyFlushersType
      <4>4. KeyFlusherOK(e)
        BY <4>2, <4>3, KeyFlusherStarts DEF KeyFlusherOK
      <4> QED BY <2>1, <4>1, <4>4, KeyFlusherMoves DEF Chan
    <3>2. CASE \E k \in Keys : NextKey(f, k)
      <4>1. PICK k \in Keys : NextKey(f, k)
        BY <3>2
      <4> DEFINE e == [keyF[f] EXCEPT !.pc = "drain", !.key = k]
      <4>2. keyF' = [keyF EXCEPT ![f] = e] /\ keyF[f].snap[k] # NoChan
        BY <4>1 DEF NextKey, KeyFlushersType
      <4>3. KeyFlusherOK(e)
        BY <4>2 DEF KeyFlushersType, KeyFlusherOK
      <4> QED BY <2>1, <4>2, <4>3, KeyFlusherMoves DEF Chan
    <3>3. CASE NoMoreKeys(f)
      BY <2>1, <3>3 DEF KeyFlushersType, NoMoreKeys, IdleKeyF, Chan
    <3>4. CASE KeyFlushed(f)
      <4> DEFINE g == keyF[f]
                 e == [pc |-> "next", snap |-> [g.snap EXCEPT ![g.key] = NoChan],
                       key |-> NoKey, taken |-> {}]
      <4>1. keyF' = [keyF EXCEPT ![f] = e]
        BY <3>4 DEF KeyFlushed, KeyFlushersType
      <4>2. e.snap \in [Keys -> Chan \cup {NoChan}]
        BY DEF KeyFlushersType
      <4> QED BY <2>1, <4>1, <4>2 DEF KeyFlushersType, Chan
    <3>5. CASE NoMoreAmounts(f) /\ ~KeyFlushed(f)
      <4> DEFINE e == [keyF[f] EXCEPT !.pc = "update"]
      <4>1. keyF' = [keyF EXCEPT ![f] = e] /\ keyF[f].pc = "drain"
        BY <3>5 DEF NoMoreAmounts, KeyFlushersType
      <4>2. KeyFlusherOK(keyF[f])
        BY DEF KeyFlushersType, KeyFlusherOK
      <4>3. KeyFlusherOK(e)
        BY <4>1, <4>2 DEF KeyFlusherOK
      <4> QED BY <2>1, <4>1, <4>3, KeyFlusherMoves DEF Chan
    <3> QED
      BY <1>3, <3>1, <3>2, <3>3, <3>4, <3>5 DEF KeyFlusherStep, Update, UpdateError
  <2> QED
    BY <1>1, <2>1, <2>2, <2>3, <2>4 DEF RequestsType, QueuesType, LogFlushersType, Chan
<1> QED BY <1>2, <1>3

(* The stop of the process keeps the types. *)
LEMMA CrashType ==
    ASSUME TypeOK, Crash
    PROVE  TypeOK'
<1> USE DEF TypeOK
<1>1. RequestsType'
  <2> DEFINE h(r) == [req[r] EXCEPT !.pc = "done", !.chan = NoChan]
  <2>1. req' = [r \in Requests |-> IF req[r].pc = "new" THEN NewReq ELSE h(r)]
    BY DEF Crash
  <2>2. HandlerOK(NewReq, Chan')
    BY DEF HandlerOK, Handler, HandlerPCs, NewReq
  <2>3. ASSUME NEW r \in Requests PROVE HandlerOK(h(r), Chan')
    BY DEF RequestsType, HandlerOK, Handler, HandlerPCs
  <2> HIDE DEF h
  <2> QED BY <2>1, <2>2, <2>3 DEF RequestsType, HandlerOK, Handler
<1>2. QueuesType'
  BY EmptySeq DEF QueuesType, Crash
<1>3. LogFlushersType' /\ KeyFlushersType'
  BY DEF LogFlushersType, KeyFlushersType, Crash, IdleLogF, IdleKeyF
<1>4. BooksType'
  BY DEF BooksType, Crash, db, history
<1> QED BY <1>1, <1>2, <1>3, <1>4

(* Every step keeps the types. *)
LEMMA NextType == TypeOK /\ [Next]_vars => TypeOK'
<1>1. CASE UNCHANGED vars
  BY <1>1 DEF vars, TypeOK, RequestsType, QueuesType, LogFlushersType, KeyFlushersType,
              BooksType, Chan
<1> QED
  BY <1>1, HandlerType, LogFlusherType, KeyFlusherType, CrashType DEF Next

(* Every variable keeps its type. *)
THEOREM TypeCorrect == Spec => []TypeOK
BY InitType, NextType, PTL DEF Spec

-----------------------------------------------------------------------------
(* The spend log.  Each step leaves the book as it is, or is one of the    *)
(* ledger's, and keeps LogOnce and LogCounted.                             *)

LogInv == LogOnce /\ LogCounted

(* A record that is pending is in the queue or in the batch of a flusher. *)
LEMMA LogPlaces ==
    \A r : r \in LogPending <=> r \in Items(logQ) \/ \E f \in LogFlushers : r \in logF[f].batch
BY DEF LogPending

(* The state of a record in the ledger, from where it is. *)
LEMMA LogBookIs ==
    ASSUME LogCounted, NEW r \in Requests
    PROVE  LogBook[r] = IF r \in LogPending THEN "pending"
                        ELSE IF rows[r] = 1 THEN "booked"
                        ELSE IF r \in logSent THEN "lost" ELSE "none"
BY DEF LogCounted, LogBook, BookOf

(* A step that moves no record leaves the ledger as it is. *)
LEMMA LogStill ==
    ASSUME TypeOK, LogInv, UNCHANGED <<logQ, rows, logSent>>,
           \A f \in LogFlushers : logF'[f].batch = logF[f].batch,
           \A r \in Requests : req'[r].pc \in {"new", "log"} => req[r].pc \in {"new", "log"}
    PROVE  LogInv' /\ LogBook' = LogBook
<1>1. LogPending' = LogPending
  BY DEF LogPending, Items
<1>2. LogOnce'
  BY DEF LogInv, LogOnce, Items
<1>3. LogCounted'
  BY <1>1 DEF LogInv, LogCounted
<1>4. LogBook' = LogBook
  BY <1>1 DEF LogBook, BookOf
<1> QED BY <1>2, <1>3, <1>4 DEF LogInv

(* A record that is queued is submitted to the ledger. *)
LEMMA LogSend ==
    ASSUME TypeOK, LogInv, NEW r \in Requests, SendRecord(r)
    PROVE  LogInv' /\ LogLedger!Submit(r)
<1>1. /\ logQ \in Seq(Requests) /\ logQ' = Append(logQ, r) /\ req[r].pc = "log"
      /\ UNCHANGED <<logF, rows>> /\ logSent' = logSent \cup {r}
      /\ req'[r].pc = "find" /\ \A q \in Requests \ {r} : req'[q] = req[q]
  BY DEF TypeOK, QueuesType, RequestsType, SendRecord, flushers, db
<1>2. /\ Items(logQ') = Items(logQ) \cup {r}
      /\ DOMAIN logQ' = DOMAIN logQ \cup {Len(logQ) + 1} /\ Len(logQ) + 1 \notin DOMAIN logQ
      /\ \A i \in DOMAIN logQ : logQ'[i] = logQ[i] /\ logQ[i] \in Items(logQ)
      /\ logQ'[Len(logQ) + 1] = r
  BY <1>1, ItemsAppend, ItemsProperties
<1>3. r \notin logSent /\ r \notin LogPending /\ rows[r] = 0
  BY <1>1 DEF LogInv, LogCounted
<1>4. Items(logQ)' = Items(logQ')
  BY DEF Items
<1>5. \A q : q \in LogPending' <=> q \in LogPending \/ q = r
  BY <1>1, <1>2, <1>4 DEF LogPending
<1>6. LogOnce'
  <2>1. \A i, j \in DOMAIN logQ' : logQ'[i] = logQ'[j] => i = j
    BY <1>2, <1>3, LogPlaces DEF LogInv, LogOnce
  <2> QED BY <1>1, <1>2, <1>3, <1>4, <2>1, LogPlaces DEF LogInv, LogOnce
<1>7. LogCounted'
  BY <1>1, <1>3, <1>5 DEF LogInv, LogCounted
<1>8. LogBook[r] = "none" /\ LogBook'[r] = "pending"
  BY <1>1, <1>3, <1>5 DEF LogBook, BookOf
<1>9. \A q \in Requests \ {r} : LogBook'[q] = LogBook[q]
  BY <1>1, <1>5 DEF LogBook, BookOf
<1>10. LogLedger!Submit(r)
  <2>1. LogBook' = [q \in Requests |-> IF q \in {r} THEN "pending" ELSE LogBook[q]]
    BY <1>8, <1>9 DEF LogBook
  <2> QED BY <1>8, <2>1 DEF LogLedger!Submit, LogLedger!Move
<1> QED BY <1>6, <1>7, <1>10 DEF LogInv

(* A record that moves from the queue to a batch stays pending. *)
LEMMA LogTake ==
    ASSUME TypeOK, LogInv, NEW f \in LogFlushers, TakeRecord(f)
    PROVE  LogInv' /\ LogBook' = LogBook
<1> DEFINE h == Head(logQ)
<1>1. /\ logQ \in Seq(Requests) /\ logQ # <<>> /\ logQ' = Tail(logQ)
      /\ UNCHANGED <<req, rows, logSent>>
      /\ logF'[f].batch = logF[f].batch \cup {h}
      /\ \A g \in LogFlushers \ {f} : logF'[g] = logF[g]
  BY DEF TypeOK, QueuesType, LogFlushersType, TakeRecord, db, history
<1>2. /\ Items(logQ) = {h} \cup Items(logQ') /\ 1 \in DOMAIN logQ /\ logQ[1] = h
      /\ \A i \in DOMAIN logQ' : i \in Int /\ i + 1 \in DOMAIN logQ /\ i + 1 # 1
                                 /\ logQ'[i] = logQ[i + 1]
  <2>1. logQ' \in Seq(Requests)
    BY <1>1, ItemsTail
  <2>2. DOMAIN logQ' \subseteq Int
    BY <2>1, LenProperties
  <2> QED BY <1>1, <2>2, ItemsTail
<1>3. Items(logQ)' = Items(logQ')
  BY DEF Items
<1> HIDE DEF h
<1>4. \A q : q \in LogPending' <=> q \in LogPending
  BY <1>1, <1>2, <1>3 DEF LogPending
<1>5. LogPending' = LogPending
  BY <1>4
<1>6. LogOnce'
  <2>1. ASSUME NEW i \in DOMAIN logQ', NEW j \in DOMAIN logQ', logQ'[i] = logQ'[j]
        PROVE  i = j
    <3>1. i + 1 = j + 1
      BY <1>2, <2>1 DEF LogInv, LogOnce
    <3> QED BY <1>2, <3>1
  <2>2. h \notin Items(logQ')
    <3>1. SUFFICES ASSUME NEW i \in DOMAIN logQ', logQ'[i] = h
                   PROVE  FALSE
      BY DEF Items
    <3> QED BY <1>2, <3>1 DEF LogInv, LogOnce
  <2>3. \A g \in LogFlushers : logF'[g].batch \cap Items(logQ') = {}
    BY <1>1, <1>2, <2>2 DEF LogInv, LogOnce
  <2>4. \A g, k \in LogFlushers : g # k => logF'[g].batch \cap logF'[k].batch = {}
    BY <1>1, <1>2 DEF LogInv, LogOnce
  <2> QED BY <1>3, <2>1, <2>3, <2>4 DEF LogOnce
<1>7. LogCounted'
  BY <1>1, <1>5 DEF LogInv, LogCounted
<1>8. LogBook' = LogBook
  BY <1>1, <1>5 DEF LogBook, BookOf
<1> QED BY <1>6, <1>7, <1>8 DEF LogInv

(* A flusher's batch is gone, with or without a row for each of it. *)
LEMMA LogFlushed ==
    ASSUME TypeOK, LogInv, NEW f \in LogFlushers, UNCHANGED <<req, logQ, logSent>>,
           logF' = [logF EXCEPT ![f] = IdleLogF]
    PROVE  /\ LogOnce'
           /\ \A r : r \in LogPending' <=> r \in LogPending /\ r \notin logF[f].batch
<1>1. logF'[f].batch = {} /\ \A g \in LogFlushers \ {f} : logF'[g] = logF[g]
  BY DEF TypeOK, LogFlushersType, IdleLogF
<1>2. Items(logQ)' = Items(logQ)
  BY DEF Items
<1>3. LogOnce'
  BY <1>1, <1>2 DEF LogInv, LogOnce
<1>4. \A r : r \in LogPending' <=> r \in LogPending /\ r \notin logF[f].batch
  BY <1>1, <1>2 DEF LogInv, LogOnce, LogPending
<1> QED BY <1>3, <1>4

(* The insert of a batch books its records. *)
LEMMA LogInsert ==
    ASSUME TypeOK, LogInv, NEW f \in LogFlushers, Insert(f)
    PROVE  LogInv' /\ LogLedger!Book
<1> DEFINE batch == logF[f].batch
<1>1. /\ UNCHANGED <<req, logQ, logSent>> /\ logF' = [logF EXCEPT ![f] = IdleLogF]
      /\ rows' = [r \in Requests |-> IF r \in batch THEN rows[r] + 1 ELSE rows[r]]
      /\ batch \subseteq Requests
  BY DEF Insert, history, TypeOK, LogFlushersType
<1>2. batch \subseteq LogPending
  BY DEF LogPending
<1>3. LogOnce' /\ \A r : r \in LogPending' <=> r \in LogPending /\ r \notin batch
  BY <1>1, LogFlushed
<1>4. /\ \A r \in batch : rows[r] = 0 /\ rows'[r] = 1 /\ r \in logSent
      /\ \A r \in Requests \ batch : rows'[r] = rows[r]
  BY <1>1, <1>2 DEF LogInv, LogCounted
<1> HIDE DEF batch
<1>5. LogCounted'
  <2>1. \A r \in LogPending' : r \in logSent' /\ rows'[r] = 0
    <3>1. TAKE r \in LogPending'
    <3>2. r \in LogPending /\ r \notin batch /\ r \in Requests
      BY <1>3 DEF TypeOK, BooksType, LogInv, LogCounted
    <3> QED BY <1>1, <1>4, <3>2 DEF LogInv, LogCounted
  <2>2. \A r \in Requests : /\ rows'[r] # 0 => rows'[r] = 1 /\ r \in logSent'
                            /\ req'[r].pc \in {"new", "log"} => r \notin logSent'
    <3>1. TAKE r \in Requests
    <3> QED BY <1>1, <1>4 DEF LogInv, LogCounted
  <2> QED BY <2>1, <2>2 DEF LogCounted
<1>6. LogLedger!Move(batch, "pending", "booked")
  <2>1. \A r \in batch : LogBook[r] = "pending" /\ LogBook'[r] = "booked"
    BY <1>1, <1>2, <1>3, <1>4 DEF LogBook, BookOf
  <2>2. \A r \in Requests \ batch : LogBook'[r] = LogBook[r]
    BY <1>1, <1>3, <1>4 DEF LogBook, BookOf
  <2>3. LogBook' = [r \in Requests |-> IF r \in batch THEN "booked" ELSE LogBook[r]]
    BY <1>1, <2>1, <2>2 DEF LogBook
  <2> QED BY <2>1, <2>3 DEF LogLedger!Move
<1> QED BY <1>1, <1>3, <1>5, <1>6 DEF LogInv, LogLedger!Book

(* An insert that fails loses its batch. *)
LEMMA LogInsertError ==
    ASSUME TypeOK, LogInv, NEW f \in LogFlushers, InsertError(f)
    PROVE  LogInv' /\ LogLedger!Lose
<1> DEFINE batch == logF[f].batch
<1>1. /\ UNCHANGED <<req, logQ, logSent, rows>> /\ logF' = [logF EXCEPT ![f] = IdleLogF]
      /\ batch \subseteq Requests
  BY DEF InsertError, history, db, TypeOK, LogFlushersType
<1>2. batch \subseteq LogPending
  BY DEF LogPending
<1>3. LogOnce' /\ \A r : r \in LogPending' <=> r \in LogPending /\ r \notin batch
  BY <1>1, LogFlushed
<1>4. \A r \in batch : rows[r] = 0 /\ r \in logSent
  BY <1>2 DEF LogInv, LogCounted
<1> HIDE DEF batch
<1>5. LogCounted'
  BY <1>1, <1>3 DEF LogInv, LogCounted
<1>6. LogLedger!Move(batch, "pending", "lost")
  <2>1. \A r \in batch : LogBook[r] = "pending" /\ LogBook'[r] = "lost"
    BY <1>1, <1>2, <1>3, <1>4 DEF LogBook, BookOf
  <2>2. \A r \in Requests \ batch : LogBook'[r] = LogBook[r]
    BY <1>1, <1>3 DEF LogBook, BookOf
  <2>3. LogBook' = [r \in Requests |-> IF r \in batch THEN "lost" ELSE LogBook[r]]
    BY <1>1, <2>1, <2>2 DEF LogBook
  <2> QED BY <2>1, <2>3 DEF LogLedger!Move
<1> QED BY <1>1, <1>3, <1>5, <1>6 DEF LogInv, LogLedger!Lose

(* A stop of the process loses what is pending. *)
LEMMA LogCrash ==
    ASSUME TypeOK, LogInv, Crash
    PROVE  LogInv' /\ LogLedger!Lose
<1>1. /\ logQ' = <<>> /\ \A f \in LogFlushers : logF'[f].batch = {}
      /\ UNCHANGED <<rows, logSent>>
      /\ \A r \in Requests : req'[r].pc \in {"new", "log"} => req[r].pc \in {"new", "log"}
  BY DEF Crash, IdleLogF, db, history, NewReq, TypeOK, RequestsType
<1>2. LogPending' = {} /\ Items(logQ)' = {}
  BY <1>1, ItemsEmpty DEF LogPending, Items
<1>3. LogOnce'
  BY <1>1, <1>2 DEF LogOnce
<1>4. LogCounted'
  BY <1>1, <1>2 DEF LogInv, LogCounted
<1> DEFINE gone == LogPending \cap Requests
<1>5. LogLedger!Move(gone, "pending", "lost")
  <2>1. \A r \in gone : LogBook[r] = "pending" /\ LogBook'[r] = "lost"
    BY <1>1, <1>2 DEF LogInv, LogCounted, LogBook, BookOf
  <2>2. \A r \in Requests \ gone : LogBook'[r] = LogBook[r]
    BY <1>1, <1>2 DEF LogBook, BookOf
  <2> HIDE DEF gone
  <2>3. LogBook' = [r \in Requests |-> IF r \in gone THEN "lost" ELSE LogBook[r]]
    BY <2>1, <2>2 DEF LogBook
  <2> QED BY <2>1, <2>3 DEF LogLedger!Move
<1>6. gone \in SUBSET Requests
  OBVIOUS
<1> QED BY <1>3, <1>4, <1>5, <1>6 DEF LogInv, LogLedger!Lose

(* Nothing is in the ledger at the start. *)
LEMMA LogInit == Init => LogInv /\ LogLedger!LedgerInit
<1> SUFFICES ASSUME Init PROVE LogInv /\ LogLedger!LedgerInit
  OBVIOUS
<1>1. /\ logQ = <<>> /\ \A f \in LogFlushers : logF[f].batch = {}
      /\ logSent = {} /\ \A r \in Requests : rows[r] = 0
  BY DEF Init, IdleLogF
<1>2. LogPending = {} /\ Items(logQ) = {}
  BY <1>1, ItemsEmpty DEF LogPending
<1>3. LogOnce
  BY <1>1, <1>2 DEF LogOnce
<1>4. LogCounted
  BY <1>1, <1>2 DEF LogCounted
<1>5. LogLedger!LedgerInit
  BY <1>1, <1>2 DEF LogLedger!LedgerInit, LogBook, BookOf
<1> QED BY <1>3, <1>4, <1>5 DEF LogInv

(* A step is one of the ledger's, or leaves the book as it is; a record    *)
(* gets lost only where the database fails or the process stops.           *)
LogSteps ==
    \/ LogBook' = LogBook
    \/ LogLedger!Book
    \/ \E r \in Requests : LogLedger!Submit(r)
    \/ LogLedger!Lose /\ (Crash \/ \E f \in LogFlushers : InsertError(f))

(* Every step is one of those, or leaves the records alone. *)
LEMMA LogNext ==
    ASSUME TypeOK, LogInv, [Next]_vars
    PROVE  LogInv' /\ LogSteps
<1> USE DEF LogSteps
<1>1. ASSUME NEW r \in Requests, Answer(r) \/ HandlerStep(r)
      PROVE  LogInv' /\ LogSteps
  <2>1. CASE SendRecord(r)
    BY <2>1, LogSend
  <2>2. CASE ~SendRecord(r)
    <3>1. UNCHANGED <<logQ, rows, logSent, logF>>
      BY <1>1, <2>2 DEF Answer, HandlerStep, FindQueue, FindQueueAgain, CreateQueue,
                        SendNothing, SendAmount, flushers, db, history
    <3>2. \A q \in Requests : req'[q].pc \in {"new", "log"} => req[q].pc \in {"new", "log"}
      <4>1. CASE Answer(r)
        BY <4>1 DEF Answer, TypeOK, RequestsType
      <4>2. CASE HandlerStep(r)
        BY <2>2, <4>2 DEF HandlerStep, FindQueue, FindQueueAgain, CreateQueue, Got,
                          SendNothing, SendAmount, Done, TypeOK, RequestsType
      <4> QED BY <1>1, <4>1, <4>2
    <3> QED BY <3>1, <3>2, LogStill
  <2> QED BY <2>1, <2>2
<1>2. ASSUME NEW f \in LogFlushers, StartLogFlusher(f) \/ LogFlusherStep(f)
      PROVE  LogInv' /\ LogSteps
  <2>1. CASE StartLogFlusher(f) \/ NoMoreRecords(f)
    <3>1. UNCHANGED <<req, logQ, rows, logSent>>
      BY <2>1 DEF StartLogFlusher, NoMoreRecords, db, history
    <3>2. \A g \in LogFlushers : logF'[g].batch = logF[g].batch
      <4> USE DEF TypeOK, LogFlushersType
      <4>1. CASE StartLogFlusher(f)
        BY <4>1 DEF StartLogFlusher
      <4>2. CASE NoMoreRecords(f)
        BY <4>2 DEF NoMoreRecords, IdleLogF
      <4> QED BY <2>1, <4>1, <4>2
    <3> QED BY <3>1, <3>2, LogStill
  <2> QED BY <1>2, <2>1, LogTake, LogInsert, LogInsertError DEF LogFlusherStep
<1>3. ASSUME NEW f \in KeyFlushers, StartKeyFlusher(f) \/ KeyFlusherStep(f)
      PROVE  LogInv' /\ LogSteps
  <2>1. UNCHANGED <<req, logQ, logF, rows, logSent>>
    BY <1>3 DEF StartKeyFlusher, KeyFlusherStep, NextKey, NoMoreKeys, TakeAmount,
                NoMoreAmounts, Update, UpdateError, db, history
  <2> QED BY <2>1, LogStill
<1>4. CASE UNCHANGED vars
  BY <1>4, LogStill DEF vars
<1> QED
  BY <1>1, <1>2, <1>3, <1>4, LogCrash DEF Next

(* Those are the steps of the ledger. *)
LEMMA LogStepsAreLedgers == LogSteps => [LogLedger!LedgerNext]_LogBook
BY DEF LogSteps, LogLedger!LedgerNext

(* However handlers, flushers and crashes interleave, a request gets one   *)
(* row in janus_spend_log, or none.                                        *)
THEOREM LogImplementsLedger == Spec => LogIsLedger
<1>1. Init => TypeOK /\ LogInv /\ LogLedger!LedgerInit
  BY InitType, LogInit
<1>2. TypeOK /\ LogInv /\ [Next]_vars =>
         TypeOK' /\ LogInv' /\ [LogLedger!LedgerNext]_LogBook
  BY NextType, LogNext, LogStepsAreLedgers
<1> QED BY <1>1, <1>2, PTL DEF Spec, LogIsLedger, LogLedger!LedgerSpec

-----------------------------------------------------------------------------
(* The charges of the keys, in the same way.                               *)

KeyInv == ChannelsReached /\ KeyOnce /\ KeyCounted /\ IdleTakesNothing

(* Where an amount may wait, as all channels are reached. *)
KeyPlaces ==
    \A r : r \in KeyPending <=> \/ \E c \in Chan : r \in Items(chans[c])
                                \/ \E f \in KeyFlushers : r \in keyF[f].taken

(* Where the amounts of a key are, from the types. *)
LEMMA KeyPlacesOK == TypeOK /\ ChannelsReached => KeyPlaces
<1> SUFFICES ASSUME TypeOK, ChannelsReached PROVE KeyPlaces
  OBVIOUS
<1>1. \A k \in Keys : queue[k] # NoChan => queue[k] \in Chan
  BY DEF TypeOK, QueuesType
<1>2. NoChan \notin Chan
  BY ChannelTypes DEF TypeOK
<1>3. ASSUME NEW r \in KeyPending
      PROVE  \/ \E c \in Chan : r \in Items(chans[c])
             \/ \E f \in KeyFlushers : r \in keyF[f].taken
  BY <1>1 DEF KeyPending
<1>4. ASSUME NEW c \in Chan, NEW r \in Items(chans[c])
      PROVE  r \in KeyPending
  <2>1. PICK k \in Keys : queue[k] = c
    BY DEF ChannelsReached
  <2> QED BY <1>2, <2>1 DEF KeyPending
<1>5. ASSUME NEW f \in KeyFlushers, NEW r \in keyF[f].taken
      PROVE  r \in KeyPending
  BY DEF KeyPending
<1> QED BY <1>3, <1>4, <1>5 DEF KeyPlaces

(* The same after a step. *)
LEMMA KeyPlacesNext == (TypeOK /\ ChannelsReached)' => KeyPlaces'
BY KeyPlacesOK, PTL

(* What is pending are amounts of requests. *)
LEMMA KeyPendingType ==
    ASSUME TypeOK, ChannelsReached
    PROVE  KeyPending \subseteq Requests
<1>1. \A c \in Chan : Items(chans[c]) \subseteq Requests
  BY ChannelTypes, ItemsProperties DEF TypeOK
<1> QED BY <1>1, KeyPlacesOK DEF KeyPlaces, TypeOK, KeyFlushersType

(* Handlers before their amount is sent, and flushers that neither receive *)
(* nor drop an amount, do not touch the book.                              *)
LEMMA KeyStill ==
    ASSUME TypeOK, KeyInv, TypeOK', UNCHANGED <<chans, queue, charges, keySent>>,
           \A f \in KeyFlushers : keyF'[f].taken = keyF[f].taken, IdleTakesNothing',
           \A r \in Requests : req[r].pc # "new" => req'[r].amount = req[r].amount,
           \A r \in Requests : req[r].pc = "done" => req'[r].pc = "done"
    PROVE  KeyInv' /\ ChargeBook' = ChargeBook
<1>1. KeyPending' = KeyPending
  BY DEF KeyPending, Items
<1>2. ChannelsReached' /\ KeyOnce'
  BY DEF KeyInv, ChannelsReached, KeyOnce, Chan, Items
<1>3. \A r \in Requests : r \in KeyPending \/ charges[r] # 0 \/ r \in keySent =>
           req[r].pc = "done" /\ req'[r].pc = "done" /\ req'[r].amount = req[r].amount
  BY DEF KeyInv, KeyCounted
<1>4. KeyPending \subseteq Requests
  BY KeyPendingType DEF KeyInv
<1>5. KeyCounted'
  <2>1. \A r \in KeyPending : /\ req'[r].pc = "done" /\ req'[r].amount \in Nat /\ charges[r] = 0
                              /\ Costs(r)' => r \in keySent
    BY <1>3, <1>4 DEF KeyInv, KeyCounted, Costs
  <2>2. \A r \in Requests : /\ charges[r] # 0 => charges[r] = 1 /\ req'[r].pc = "done"
                            /\ charges[r] # 0 /\ Costs(r)' => r \in keySent
                            /\ r \in keySent => req'[r].pc = "done"
    BY <1>3 DEF KeyInv, KeyCounted, Costs
  <2> QED BY <1>1, <2>1, <2>2 DEF KeyCounted
<1>6. ChargeBook' = ChargeBook
  <2>1. \A r \in Requests : ChargeBook'[r] = ChargeBook[r]
    BY <1>1, <1>3 DEF ChargeBook, BookOf, Costs
  <2> QED BY <2>1 DEF ChargeBook
<1> QED BY <1>2, <1>5, <1>6 DEF KeyInv

(* The creation of the channel of a key leaves the ledger as it is. *)
LEMMA KeyCreate ==
    ASSUME TypeOK, KeyInv, TypeOK', NEW r \in Requests, CreateQueue(r)
    PROVE  KeyInv' /\ ChargeBook' = ChargeBook
<1> DEFINE c == Len(chans) + 1
           k == req[r].key
<1>1. /\ k \in Keys /\ queue[k] = NoChan
      /\ chans \in Seq(Seq(Requests)) /\ chans' = Append(chans, <<>>)
      /\ queue' = [queue EXCEPT ![k] = c]
      /\ UNCHANGED <<keyF, charges, keySent>>
      /\ req[r].pc = "create"
  BY DEF CreateQueue, flushers, db, history, TypeOK, RequestsType, QueuesType, HandlerPCs
<1>2. /\ Chan' = Chan \cup {c} /\ c \notin Chan
      /\ \A d \in Chan : chans'[d] = chans[d]
      /\ chans'[c] = <<>>
  <2>1. <<>> \in Seq(Requests)
    BY EmptySeq
  <2> QED BY <1>1, <2>1, ItemsAppend DEF Chan
<1>3. NoChan \notin Chan
  BY ChannelTypes DEF TypeOK
<1>4. ChannelsReached'
  <2>1. ASSUME NEW d \in Chan' PROVE \E l \in Keys : queue'[l] = d
    <3>1. CASE d = c
      BY <1>1, <3>1 DEF TypeOK, QueuesType
    <3>2. CASE d \in Chan
      <4>1. PICK l \in Keys : queue[l] = d
        BY <3>2 DEF KeyInv, ChannelsReached
      <4>2. l # k
        BY <1>1, <1>3, <3>2, <4>1
      <4> QED BY <1>1, <4>1, <4>2 DEF TypeOK, QueuesType
    <3> QED BY <1>2, <2>1, <3>1, <3>2
  <2> QED BY <2>1 DEF ChannelsReached
<1> HIDE DEF c, k
<1>5. \A d \in Chan : Items(chans[d])' = Items(chans[d])
  BY <1>2 DEF Items
<1>6. \A d : d \in Chan' => (d \in Chan \/ DOMAIN chans'[d] = {})
  BY <1>2
<1>7. \A d : d \in Chan' => (d \in Chan \/ Items(chans[d])' = {})
  BY <1>6 DEF Items
<1>8. KeyPending' = KeyPending
  <2>1. \A q : q \in KeyPending' <=> q \in KeyPending
    <3>1. KeyPlaces /\ KeyPlaces'
      BY <1>4, KeyPlacesOK, KeyPlacesNext DEF KeyInv
    <3>2. \A q : (\E d \in Chan' : q \in Items(chans[d])') <=> \E d \in Chan : q \in Items(chans[d])
      BY <1>2, <1>5, <1>7
    <3> QED BY <1>1, <3>1, <3>2 DEF KeyPlaces
  <2> QED BY <2>1
<1>9. KeyOnce'
  <2>1. \A d, e \in Chan' : \A i \in DOMAIN chans'[d], j \in DOMAIN chans'[e] :
            chans'[d][i] = chans'[e][j] => d = e /\ i = j
    BY <1>2, <1>6 DEF KeyInv, KeyOnce
  <2>2. \A f \in KeyFlushers, d \in Chan' : keyF'[f].taken \cap Items(chans[d])' = {}
    BY <1>1, <1>5, <1>7 DEF KeyInv, KeyOnce
  <2> QED BY <1>1, <2>1, <2>2 DEF KeyInv, KeyOnce
<1>10. \A q \in Requests : req'[q].amount = req[q].amount /\ (req[q].pc = "done" => req'[q].pc = "done")
  BY <1>1 DEF CreateQueue, Got, TypeOK, RequestsType
<1>11. \A q \in Requests : Costs(q)' <=> Costs(q)
  BY <1>10 DEF Costs
<1>12. KeyCounted'
  <2>1. KeyPending \subseteq Requests
    BY KeyPendingType DEF KeyInv
  <2> QED BY <1>1, <1>8, <1>10, <1>11, <2>1 DEF KeyInv, KeyCounted
<1>13. IdleTakesNothing'
  BY <1>1 DEF KeyInv, IdleTakesNothing
<1>14. ChargeBook' = ChargeBook
  <2>1. \A q \in Requests : ChargeBook'[q] = ChargeBook[q]
    BY <1>1, <1>8, <1>11 DEF ChargeBook, BookOf
  <2> QED BY <2>1 DEF ChargeBook
<1> QED BY <1>4, <1>9, <1>12, <1>13, <1>14 DEF KeyInv

(* A handler queues the amount of its request, for the first time. *)
LEMMA KeySend ==
    ASSUME TypeOK, KeyInv, TypeOK', NEW r \in Requests, SendAmount(r)
    PROVE  /\ KeyInv'
           /\ Costs(r) => ChargeLedger!Submit(r)
           /\ ~Costs(r) => ChargeBook' = ChargeBook
<1>0. PICK c : c = req[r].chan
  OBVIOUS
<1>1. /\ req[r].pc = "charge" /\ c \in Chan /\ req[r].amount \in Nat
      /\ chans' = [chans EXCEPT ![c] = Append(chans[c], r)]
      /\ UNCHANGED <<queue, keyF, charges>>
      /\ keySent' = IF req[r].amount > 0 THEN keySent \cup {r} ELSE keySent
      /\ req'[r].pc = "done" /\ req'[r].amount = req[r].amount
      /\ \A q \in Requests \ {r} : req'[q] = req[q]
  BY <1>0, AmountAssumption DEF TypeOK, RequestsType, SendAmount, Done, flushers, db
<1>2. chans \in [Chan -> Seq(Requests)]
  BY ChannelTypes DEF TypeOK, QueuesType, Chan
<1>3. /\ Chan' = Chan /\ chans'[c] = Append(chans[c], r)
      /\ \A d \in Chan \ {c} : chans'[d] = chans[d]
  BY <1>1, <1>2 DEF Chan
<1>4. /\ Items(Append(chans[c], r)) = Items(chans[c]) \cup {r}
      /\ DOMAIN Append(chans[c], r) = DOMAIN chans[c] \cup {Len(chans[c]) + 1}
      /\ Len(chans[c]) + 1 \notin DOMAIN chans[c]
      /\ \A i \in DOMAIN chans[c] : Append(chans[c], r)[i] = chans[c][i]
      /\ Append(chans[c], r)[Len(chans[c]) + 1] = r
  <2>1. chans[c] \in Seq(Requests)
    BY <1>1, <1>2
  <2> QED BY <2>1, ItemsAppend
<1> DEFINE n == Len(chans[c]) + 1
<1>5. /\ DOMAIN chans'[c] = DOMAIN chans[c] \cup {n} /\ n \notin DOMAIN chans[c]
      /\ \A i \in DOMAIN chans[c] : chans'[c][i] = chans[c][i]
      /\ chans'[c][n] = r
  BY <1>3, <1>4
<1>6. /\ Items(chans[c])' = Items(chans[c]) \cup {r}
      /\ \A d \in Chan \ {c} : Items(chans[d])' = Items(chans[d])
  <2>1. Items(chans[c])' = Items(Append(chans[c], r))
    BY <1>3 DEF Items
  <2> QED BY <1>3, <1>4, <2>1 DEF Items
<1> HIDE DEF n
<1>7. r \notin KeyPending /\ charges[r] = 0 /\ r \notin keySent
  BY <1>1 DEF KeyInv, KeyCounted
<1>8. ChannelsReached'
  BY <1>1, <1>3 DEF KeyInv, ChannelsReached
<1>9. KeyPlaces /\ KeyPlaces' /\ KeyPending \subseteq Requests
  BY <1>8, KeyPlacesOK, KeyPlacesNext, KeyPendingType DEF KeyInv
<1>10. \A q : q \in KeyPending' <=> q \in KeyPending \/ q = r
  BY <1>1, <1>3, <1>6, <1>9 DEF KeyPlaces
<1>11. KeyOnce'
  <2>1. \A d \in Chan : r \notin Items(chans[d])
    BY <1>7, <1>9 DEF KeyPlaces
  <2>2. \A d \in Chan : \A i \in DOMAIN chans[d] : chans[d][i] # r
    BY <2>1 DEF Items
  <2>3. ASSUME NEW d \in Chan, NEW e \in Chan, NEW i \in DOMAIN chans'[d],
               NEW j \in DOMAIN chans'[e], chans'[d][i] = chans'[e][j]
        PROVE  d = e /\ i = j
    <3>1. (d # c \/ i # n) => i \in DOMAIN chans[d] /\ chans'[d][i] = chans[d][i]
      BY <1>3, <1>5
    <3>2. (e # c \/ j # n) => j \in DOMAIN chans[e] /\ chans'[e][j] = chans[e][j]
      BY <1>3, <1>5
    <3> QED BY <1>5, <2>2, <2>3, <3>1, <3>2 DEF KeyInv, KeyOnce
  <2>4. \A f \in KeyFlushers : r \notin keyF[f].taken
    BY <1>7 DEF KeyPending
  <2>5. \A f \in KeyFlushers, d \in Chan : keyF[f].taken \cap Items(chans[d])' = {}
    BY <1>6, <2>4 DEF KeyInv, KeyOnce
  <2> QED BY <1>1, <1>3, <2>3, <2>5 DEF KeyInv, KeyOnce
<1>12. \A q \in Requests : Costs(q)' <=> Costs(q)
  BY <1>1 DEF Costs
<1>13. Costs(r) <=> req[r].amount > 0
  BY <1>1 DEF Costs
<1>14. KeyCounted'
  <2>1. ASSUME NEW q \in KeyPending'
        PROVE  /\ req'[q].pc = "done" /\ req'[q].amount \in Nat /\ charges'[q] = 0
               /\ Costs(q)' => q \in keySent'
    <3>1. CASE q = r
      BY <1>1, <1>7, <1>12, <1>13, <3>1
    <3>2. CASE q # r
      BY <1>1, <1>9, <1>10, <1>12, <2>1, <3>2 DEF KeyInv, KeyCounted
    <3> QED BY <3>1, <3>2
  <2>2. ASSUME NEW q \in Requests
        PROVE  /\ charges'[q] # 0 => charges'[q] = 1 /\ req'[q].pc = "done"
               /\ charges'[q] # 0 /\ Costs(q)' => q \in keySent'
               /\ q \in keySent' => req'[q].pc = "done"
    BY <1>1, <1>7, <1>12 DEF KeyInv, KeyCounted
  <2> QED BY <2>1, <2>2 DEF KeyCounted
<1>15. IdleTakesNothing'
  BY <1>1 DEF KeyInv, IdleTakesNothing
<1>16. \A q \in Requests \ {r} : ChargeBook'[q] = ChargeBook[q]
  BY <1>1, <1>10, <1>12 DEF ChargeBook, BookOf
<1>17. ASSUME Costs(r) PROVE ChargeLedger!Submit(r)
  <2>1. ChargeBook[r] = "none" /\ ChargeBook'[r] = "pending"
    BY <1>1, <1>7, <1>10, <1>12, <1>17 DEF ChargeBook, BookOf
  <2>2. ChargeBook' = [q \in Requests |-> IF q \in {r} THEN "pending" ELSE ChargeBook[q]]
    BY <1>16, <2>1 DEF ChargeBook
  <2> QED BY <2>1, <2>2 DEF ChargeLedger!Submit, ChargeLedger!Move
<1>18. ASSUME ~Costs(r) PROVE ChargeBook' = ChargeBook
  <2>1. ChargeBook'[r] = ChargeBook[r]
    BY <1>12, <1>18 DEF ChargeBook
  <2> QED BY <1>16, <2>1 DEF ChargeBook
<1> QED BY <1>8, <1>11, <1>14, <1>15, <1>17, <1>18 DEF KeyInv

(* A flusher receives an amount: it is pending still. *)
LEMMA KeyTake ==
    ASSUME TypeOK, KeyInv, TypeOK', NEW f \in KeyFlushers, TakeAmount(f)
    PROVE  KeyInv' /\ ChargeBook' = ChargeBook
<1>0. PICK c : c = keyF[f].snap[keyF[f].key]
  OBVIOUS
<1> DEFINE h == Head(chans[c])
<1>1. /\ c \in Chan /\ chans[c] # <<>>
      /\ chans' = [chans EXCEPT ![c] = Tail(chans[c])]
      /\ keyF' = [keyF EXCEPT ![f].taken = @ \cup {h}] /\ keyF[f].pc = "drain"
      /\ UNCHANGED <<req, queue, charges, keySent>>
  <2>1. c \in Chan
    <3>1. keyF[f].pc = "drain"
      BY DEF TakeAmount
    <3>2. keyF[f].key \in Keys /\ keyF[f].snap \in [Keys -> Chan \cup {NoChan}] /\ c # NoChan
      BY <1>0, <3>1 DEF TypeOK, KeyFlushersType
    <3> QED BY <1>0, <3>2
  <2>2. keyF[f].pc = "drain" /\ UNCHANGED <<req, queue, charges, keySent>>
    BY DEF TakeAmount, db, history
  <2>3. /\ chans[c] # <<>> /\ chans' = [chans EXCEPT ![c] = Tail(chans[c])]
        /\ keyF' = [keyF EXCEPT ![f].taken = @ \cup {h}]
    BY <1>0 DEF TakeAmount
  <2> QED BY <2>1, <2>2, <2>3
<1>2. chans \in [Chan -> Seq(Requests)]
  BY ChannelTypes DEF TypeOK, QueuesType, Chan
<1>3. /\ Chan' = Chan /\ chans'[c] = Tail(chans[c])
      /\ \A d \in Chan \ {c} : chans'[d] = chans[d]
  BY <1>1, <1>2 DEF Chan
<1>4. /\ 1 \in DOMAIN chans[c] /\ chans[c][1] = h
      /\ Items(chans[c]) = {h} \cup Items(chans'[c])
      /\ \A i \in DOMAIN chans'[c] : i + 1 \in DOMAIN chans[c] /\ i + 1 # 1
                                     /\ chans'[c][i] = chans[c][i + 1]
  <2>1. chans[c] \in Seq(Requests)
    BY <1>1, <1>2
  <2>2. /\ 1 \in DOMAIN chans[c] /\ chans[c][1] = h
        /\ Items(chans[c]) = {h} \cup Items(Tail(chans[c]))
        /\ \A i \in DOMAIN Tail(chans[c]) : i + 1 \in DOMAIN chans[c] /\ i + 1 # 1
                                           /\ Tail(chans[c])[i] = chans[c][i + 1]
    BY <1>1, <2>1, ItemsTail
  <2> QED BY <1>3, <2>2
<1>5. \A d \in Chan : DOMAIN chans'[d] \subseteq Int
  <2>1. ASSUME NEW d \in Chan PROVE chans'[d] \in Seq(Requests)
    BY <1>1, <1>2, <1>3, ItemsTail, <2>1
  <2> QED BY <2>1, LenProperties
<1> HIDE DEF h
<1>6. /\ keyF'[f].taken = keyF[f].taken \cup {h} /\ keyF'[f].pc = "drain"
      /\ \A g \in KeyFlushers \ {f} : keyF'[g] = keyF[g]
  BY <1>1 DEF TypeOK, KeyFlushersType
<1>7. /\ \A d \in Chan \ {c} : Items(chans'[d]) = Items(chans[d])
      /\ \A d \in Chan : Items(chans[d])' = Items(chans'[d])
  BY <1>3 DEF Items
<1>8. ChannelsReached'
  BY <1>1, <1>3 DEF KeyInv, ChannelsReached
<1>9. KeyPlaces /\ KeyPlaces'
  BY <1>8, KeyPlacesOK, KeyPlacesNext DEF KeyInv
<1>10. KeyPending' = KeyPending
  <2>1. ASSUME NEW q
        PROVE  (\/ \E d \in Chan : q \in Items(chans'[d])
                \/ \E g \in KeyFlushers : q \in keyF'[g].taken)
               <=> (\/ \E d \in Chan : q \in Items(chans[d])
                    \/ \E g \in KeyFlushers : q \in keyF[g].taken)
    <3>1. CASE q = h
      BY <1>1, <1>4, <1>6, <3>1
    <3>2. CASE q # h
      <4>1. \A d \in Chan : q \in Items(chans'[d]) <=> q \in Items(chans[d])
        BY <1>4, <1>7, <3>2
      <4>2. \A g \in KeyFlushers : q \in keyF'[g].taken <=> q \in keyF[g].taken
        BY <1>6, <3>2
      <4> QED BY <4>1, <4>2
    <3> QED BY <3>1, <3>2
  <2>2. \A q : q \in KeyPending' <=> q \in KeyPending
    BY <1>3, <1>7, <1>9, <2>1 DEF KeyPlaces
  <2> QED BY <2>2
<1>11. KeyOnce'
  <2>1. ASSUME NEW d \in Chan, NEW e \in Chan, NEW i \in DOMAIN chans'[d],
               NEW j \in DOMAIN chans'[e], chans'[d][i] = chans'[e][j]
        PROVE  d = e /\ i = j
    <3> DEFINE m == IF d = c THEN i + 1 ELSE i
               n == IF e = c THEN j + 1 ELSE j
    <3>1. m \in DOMAIN chans[d] /\ chans[d][m] = chans'[d][i]
      BY <1>3, <1>4
    <3>2. n \in DOMAIN chans[e] /\ chans[e][n] = chans'[e][j]
      BY <1>3, <1>4
    <3>3. d = e /\ m = n
      <4> HIDE DEF m, n
      <4> QED BY <2>1, <3>1, <3>2 DEF KeyInv, KeyOnce
    <3> QED BY <1>5, <3>3
  <2>2. \A d \in Chan : h \notin Items(chans'[d])
    <3>1. SUFFICES ASSUME NEW d \in Chan, NEW i \in DOMAIN chans'[d], chans'[d][i] = h
                   PROVE  FALSE
      BY DEF Items
    <3>2. CASE d = c
      BY <1>1, <1>4, <3>1, <3>2 DEF KeyInv, KeyOnce
    <3>3. CASE d # c
      BY <1>1, <1>3, <1>4, <3>1, <3>3 DEF KeyInv, KeyOnce
    <3> QED BY <3>2, <3>3
  <2>3. h \in Items(chans[c])
    BY <1>4
  <2>4. \A g \in KeyFlushers, d \in Chan : keyF'[g].taken \cap Items(chans'[d]) = {}
    <3>1. TAKE g \in KeyFlushers, d \in Chan
    <3>2. Items(chans'[d]) \subseteq Items(chans[d])
      BY <1>4, <1>7
    <3> QED BY <1>6, <2>2, <3>2 DEF KeyInv, KeyOnce
  <2>5. \A g \in KeyFlushers : h \notin keyF[g].taken
    BY <1>1, <2>3 DEF KeyInv, KeyOnce
  <2>6. \A g, k \in KeyFlushers : g # k => keyF'[g].taken \cap keyF'[k].taken = {}
    BY <1>6, <2>5 DEF KeyInv, KeyOnce
  <2> QED BY <1>3, <1>7, <2>1, <2>4, <2>6 DEF KeyOnce
<1>12. KeyCounted'
  BY <1>1, <1>10 DEF KeyInv, KeyCounted, Costs
<1>13. IdleTakesNothing'
  BY <1>6 DEF KeyInv, IdleTakesNothing
<1>14. ChargeBook' = ChargeBook
  BY <1>1, <1>10 DEF ChargeBook, BookOf, Costs
<1> QED BY <1>8, <1>11, <1>12, <1>13, <1>14 DEF KeyInv

(* A flusher is done with a key: what it received is not in memory any more. *)
LEMMA KeyGone ==
    ASSUME TypeOK, KeyInv, TypeOK', NEW f \in KeyFlushers, KeyFlushed(f),
           UNCHANGED <<chans, queue>>
    PROVE  /\ ChannelsReached' /\ KeyOnce' /\ IdleTakesNothing'
           /\ KeyPending \subseteq Requests /\ keyF[f].taken \subseteq KeyPending
           /\ \A r : r \in KeyPending' <=> r \in KeyPending /\ r \notin keyF[f].taken
<1>1. keyF'[f].taken = {} /\ \A g \in KeyFlushers \ {f} : keyF'[g] = keyF[g]
  BY DEF TypeOK, KeyFlushersType, KeyFlushed
<1>2. Chan' = Chan /\ \A d \in Chan : Items(chans[d])' = Items(chans[d])
  BY DEF Chan, Items
<1>3. ChannelsReached'
  BY <1>2 DEF KeyInv, ChannelsReached
<1>4. KeyOnce'
  BY <1>1, <1>2 DEF KeyInv, KeyOnce
<1>5. IdleTakesNothing'
  BY <1>1 DEF KeyInv, IdleTakesNothing
<1>6. KeyPlaces /\ KeyPlaces' /\ KeyPending \subseteq Requests
  BY <1>3, KeyPlacesOK, KeyPlacesNext, KeyPendingType DEF KeyInv
<1>7. keyF[f].taken \subseteq KeyPending
  BY <1>6 DEF KeyPlaces
<1>8. \A d \in Chan : keyF[f].taken \cap Items(chans[d]) = {}
  BY DEF KeyInv, KeyOnce
<1>9. \A g \in KeyFlushers \ {f} : keyF[f].taken \cap keyF[g].taken = {}
  BY DEF KeyInv, KeyOnce
<1>10. ASSUME NEW r
       PROVE  (\/ \E d \in Chan : r \in Items(chans[d])
               \/ \E g \in KeyFlushers : r \in keyF'[g].taken)
              <=> /\ \/ \E d \in Chan : r \in Items(chans[d])
                     \/ \E g \in KeyFlushers : r \in keyF[g].taken
                  /\ r \notin keyF[f].taken
  BY <1>1, <1>8, <1>9
<1>11. \A r : r \in KeyPending' <=> r \in KeyPending /\ r \notin keyF[f].taken
  BY <1>2, <1>6, <1>10 DEF KeyPlaces
<1> QED BY <1>3, <1>4, <1>5, <1>6, <1>7, <1>11

(* A sum that is not positive: none of its parts costs anything. *)
LEMMA KeyDrop ==
    ASSUME TypeOK, KeyInv, TypeOK', NEW f \in KeyFlushers, NoMoreAmounts(f),
           ~Positive(keyF[f].taken)
    PROVE  KeyInv' /\ ChargeBook' = ChargeBook
<1>1. KeyFlushed(f) /\ UNCHANGED <<req, chans, queue, charges, keySent>>
  BY DEF NoMoreAmounts, db, history
<1>2. /\ ChannelsReached' /\ KeyOnce' /\ IdleTakesNothing'
      /\ KeyPending \subseteq Requests /\ keyF[f].taken \subseteq KeyPending
      /\ \A r : r \in KeyPending' <=> r \in KeyPending /\ r \notin keyF[f].taken
  BY <1>1, KeyGone
<1>3. \A r \in keyF[f].taken : ~Costs(r)
  BY <1>2 DEF Positive, Costs, KeyInv, KeyCounted
<1>4. \A r : Costs(r)' <=> Costs(r)
  BY <1>1 DEF Costs
<1>5. KeyCounted'
  BY <1>1, <1>2, <1>4 DEF KeyInv, KeyCounted
<1>6. ChargeBook' = ChargeBook
  <2>1. \A r \in Requests : ChargeBook'[r] = ChargeBook[r]
    BY <1>1, <1>2, <1>3, <1>4 DEF ChargeBook, BookOf
  <2> QED BY <2>1 DEF ChargeBook
<1> QED BY <1>2, <1>5, <1>6 DEF KeyInv

(* The update of the row of a key books what it adds up. *)
LEMMA KeyUpdate ==
    ASSUME TypeOK, KeyInv, TypeOK', NEW f \in KeyFlushers, Update(f)
    PROVE  KeyInv' /\ ChargeLedger!Book
<1> DEFINE taken == keyF[f].taken
           booked == {r \in taken : Costs(r)}
<1>1. /\ KeyFlushed(f) /\ UNCHANGED <<req, chans, queue, keySent>>
      /\ charges' = [r \in Requests |-> IF r \in taken THEN charges[r] + 1 ELSE charges[r]]
  BY DEF Update, history
<1>2. /\ ChannelsReached' /\ KeyOnce' /\ IdleTakesNothing'
      /\ KeyPending \subseteq Requests /\ taken \subseteq KeyPending
      /\ \A r : r \in KeyPending' <=> r \in KeyPending /\ r \notin taken
  BY <1>1, KeyGone
<1>3. \A r : Costs(r)' <=> Costs(r)
  BY <1>1 DEF Costs
<1>4. /\ \A r \in taken : /\ r \in Requests /\ req[r].pc = "done" /\ charges[r] = 0
                          /\ Costs(r) => r \in keySent
      /\ \A r \in taken : charges'[r] = 1
      /\ \A r \in Requests \ taken : charges'[r] = charges[r]
  BY <1>1, <1>2 DEF KeyInv, KeyCounted
<1> HIDE DEF taken
<1>5. KeyCounted'
  <2>1. \A r \in KeyPending' : /\ req[r].pc = "done" /\ req[r].amount \in Nat /\ charges'[r] = 0
                               /\ Costs(r) => r \in keySent
    BY <1>2, <1>4 DEF KeyInv, KeyCounted
  <2>2. \A r \in Requests : /\ charges'[r] # 0 => charges'[r] = 1 /\ req[r].pc = "done"
                            /\ charges'[r] # 0 /\ Costs(r) => r \in keySent
                            /\ r \in keySent => req[r].pc = "done"
    BY <1>4 DEF KeyInv, KeyCounted
  <2> QED BY <1>1, <1>3, <2>1, <2>2 DEF KeyCounted
<1>6. ChargeLedger!Move(booked, "pending", "booked")
  <2>1. \A r \in booked : ChargeBook[r] = "pending" /\ ChargeBook'[r] = "booked"
    BY <1>2, <1>3, <1>4 DEF ChargeBook, BookOf
  <2>2. \A r \in Requests \ booked : ChargeBook'[r] = ChargeBook[r]
    BY <1>1, <1>2, <1>3, <1>4 DEF ChargeBook, BookOf
  <2>3. booked \subseteq Requests
    BY <1>2
  <2> HIDE DEF booked
  <2>4. ChargeBook' = [r \in Requests |-> IF r \in booked THEN "booked" ELSE ChargeBook[r]]
    BY <2>1, <2>2 DEF ChargeBook
  <2> QED BY <2>1, <2>4 DEF ChargeLedger!Move
<1>7. booked \in SUBSET Requests
  BY <1>2
<1> QED BY <1>2, <1>5, <1>6, <1>7 DEF KeyInv, ChargeLedger!Book

(* An update that fails loses what it adds up. *)
LEMMA KeyUpdateError ==
    ASSUME TypeOK, KeyInv, TypeOK', NEW f \in KeyFlushers, UpdateError(f)
    PROVE  KeyInv' /\ ChargeLedger!Lose
<1> DEFINE taken == keyF[f].taken
           lost == {r \in taken : Costs(r)}
<1>1. KeyFlushed(f) /\ UNCHANGED <<req, chans, queue, charges, keySent>>
  BY DEF UpdateError, db, history
<1>2. /\ ChannelsReached' /\ KeyOnce' /\ IdleTakesNothing'
      /\ KeyPending \subseteq Requests /\ taken \subseteq KeyPending
      /\ \A r : r \in KeyPending' <=> r \in KeyPending /\ r \notin taken
  BY <1>1, KeyGone
<1>3. \A r : Costs(r)' <=> Costs(r)
  BY <1>1 DEF Costs
<1>4. \A r \in taken : r \in Requests /\ charges[r] = 0 /\ (Costs(r) => r \in keySent)
  BY <1>2 DEF KeyInv, KeyCounted
<1> HIDE DEF taken
<1>5. KeyCounted'
  BY <1>1, <1>2, <1>3 DEF KeyInv, KeyCounted
<1>6. ChargeLedger!Move(lost, "pending", "lost")
  <2>1. \A r \in lost : ChargeBook[r] = "pending" /\ ChargeBook'[r] = "lost"
    BY <1>1, <1>2, <1>3, <1>4 DEF ChargeBook, BookOf
  <2>2. \A r \in Requests \ lost : ChargeBook'[r] = ChargeBook[r]
    BY <1>1, <1>2, <1>3 DEF ChargeBook, BookOf
  <2> HIDE DEF lost
  <2>3. ChargeBook' = [r \in Requests |-> IF r \in lost THEN "lost" ELSE ChargeBook[r]]
    BY <2>1, <2>2 DEF ChargeBook
  <2> QED BY <2>1, <2>3 DEF ChargeLedger!Move
<1>7. lost \in SUBSET Requests
  BY <1>2
<1> QED BY <1>2, <1>5, <1>6, <1>7 DEF KeyInv, ChargeLedger!Lose

(* A stop of the process loses what is pending. *)
LEMMA KeyCrash ==
    ASSUME TypeOK, KeyInv, TypeOK', Crash
    PROVE  KeyInv' /\ ChargeLedger!Lose
<1> DEFINE gone == {r \in KeyPending : Costs(r)}
<1>1. /\ chans' = <<>> /\ \A f \in KeyFlushers : keyF'[f].taken = {}
      /\ UNCHANGED <<charges, keySent>>
  BY DEF Crash, IdleKeyF, db, history
<1>2. \A r \in Requests : /\ req[r].pc = "done" => req'[r].pc = "done"
                          /\ req[r].pc # "new" => req'[r].amount = req[r].amount
                          /\ req[r].pc = "new" => ~Costs(r)' \/ req'[r].pc = "new"
  <2> SUFFICES ASSUME NEW r \in Requests
               PROVE  /\ req[r].pc = "done" => req'[r].pc = "done"
                      /\ req[r].pc # "new" => req'[r].amount = req[r].amount
                      /\ req[r].pc = "new" => ~Costs(r)' \/ req'[r].pc = "new"
    OBVIOUS
  <2>1. CASE req[r].pc = "new"
    BY <2>1 DEF Crash, NewReq
  <2>2. CASE req[r].pc # "new"
    <3>1. req'[r] = [req[r] EXCEPT !.pc = "done", !.chan = NoChan]
      BY <2>2 DEF Crash
    <3> QED BY <2>2, <3>1 DEF TypeOK, RequestsType
  <2> QED BY <2>1, <2>2
<1>3. Chan' = {}
  BY <1>1 DEF Chan
<1>4. ChannelsReached' /\ KeyOnce' /\ IdleTakesNothing'
  BY <1>1, <1>3 DEF ChannelsReached, KeyOnce, IdleTakesNothing
<1>5. \A r : r \notin KeyPending'
  <2>1. KeyPlaces'
    BY <1>4, KeyPlacesNext
  <2> QED BY <1>1, <1>3, <2>1 DEF KeyPlaces
<1>6. KeyPending \subseteq Requests
  BY KeyPendingType DEF KeyInv
<1>7. \A r \in Requests : r \in KeyPending \/ charges[r] # 0 \/ r \in keySent =>
           req[r].pc = "done" /\ req'[r].pc = "done" /\ (Costs(r)' <=> Costs(r))
  BY <1>2 DEF KeyInv, KeyCounted, Costs
<1>8. KeyCounted'
  BY <1>1, <1>5, <1>7 DEF KeyInv, KeyCounted
<1>9. ChargeLedger!Move(gone, "pending", "lost")
  <2>1. \A r \in gone : ChargeBook[r] = "pending" /\ ChargeBook'[r] = "lost"
    BY <1>1, <1>5, <1>6, <1>7 DEF KeyInv, KeyCounted, ChargeBook, BookOf
  <2>2. \A r \in Requests \ gone : ChargeBook'[r] = ChargeBook[r]
    BY <1>1, <1>5, <1>7 DEF ChargeBook, BookOf
  <2> HIDE DEF gone
  <2>3. ChargeBook' = [r \in Requests |-> IF r \in gone THEN "lost" ELSE ChargeBook[r]]
    BY <2>1, <2>2 DEF ChargeBook
  <2> QED BY <2>1, <2>3 DEF ChargeLedger!Move
<1>10. gone \in SUBSET Requests
  BY <1>6
<1> QED BY <1>4, <1>8, <1>9, <1>10 DEF KeyInv, ChargeLedger!Lose

(* Nothing is in the ledger at the start. *)
LEMMA KeyInit == Init => KeyInv /\ ChargeLedger!LedgerInit
<1> SUFFICES ASSUME Init PROVE KeyInv /\ ChargeLedger!LedgerInit
  OBVIOUS
<1>1. /\ chans = <<>> /\ \A f \in KeyFlushers : keyF[f].taken = {}
      /\ keySent = {} /\ \A r \in Requests : charges[r] = 0
      /\ \A k \in Keys : queue[k] = NoChan
  BY DEF Init, IdleKeyF
<1>2. Chan = {} /\ KeyPending = {}
  BY <1>1 DEF Chan, KeyPending
<1>3. ChannelsReached /\ KeyOnce /\ IdleTakesNothing
  BY <1>1, <1>2 DEF ChannelsReached, KeyOnce, IdleTakesNothing
<1>4. KeyCounted
  BY <1>1, <1>2 DEF KeyCounted
<1>5. ChargeLedger!LedgerInit
  BY <1>1, <1>2 DEF ChargeLedger!LedgerInit, ChargeBook, BookOf
<1> QED BY <1>3, <1>4, <1>5 DEF KeyInv

KeySteps ==
    \/ ChargeBook' = ChargeBook
    \/ ChargeLedger!Book
    \/ \E r \in Requests : ChargeLedger!Submit(r)
    \/ ChargeLedger!Lose /\ (Crash \/ \E f \in KeyFlushers : UpdateError(f))

(* Every step is one of those, or leaves the amounts alone. *)
LEMMA KeyNext ==
    ASSUME TypeOK, KeyInv, [Next]_vars
    PROVE  KeyInv' /\ KeySteps
<1> USE DEF KeySteps
<1>0. TypeOK'
  BY NextType
<1>1. ASSUME NEW r \in Requests, Answer(r) \/ HandlerStep(r)
      PROVE  KeyInv' /\ KeySteps
  <2>1. CASE SendAmount(r)
    BY <1>0, <2>1, KeySend
  <2>2. CASE CreateQueue(r)
    BY <1>0, <2>2, KeyCreate
  <2>3. CASE ~SendAmount(r) /\ ~CreateQueue(r)
    <3>1. UNCHANGED <<chans, queue, keyF, charges, keySent>>
      BY <1>1, <2>3 DEF Answer, HandlerStep, SendRecord, FindQueue, FindQueueAgain,
                        SendNothing, flushers, db, history
    <3>2. IdleTakesNothing'
      BY <3>1 DEF KeyInv, IdleTakesNothing
    <3>3. \A q \in Requests : /\ req[q].pc # "new" => req'[q].amount = req[q].amount
                              /\ req[q].pc = "done" => req'[q].pc = "done"
      <4>1. CASE Answer(r)
        BY <4>1 DEF Answer, TypeOK, RequestsType
      <4>2. CASE HandlerStep(r)
        BY <2>3, <4>2 DEF HandlerStep, SendRecord, FindQueue, FindQueueAgain, Got,
                          SendNothing, Done, TypeOK, RequestsType
      <4> QED BY <1>1, <4>1, <4>2
    <3> QED BY <1>0, <3>1, <3>2, <3>3, KeyStill
  <2> QED BY <2>1, <2>2, <2>3
<1>2. ASSUME NEW f \in LogFlushers, StartLogFlusher(f) \/ LogFlusherStep(f)
      PROVE  KeyInv' /\ KeySteps
  <2>1. UNCHANGED <<req, chans, queue, keyF, charges, keySent>>
    BY <1>2 DEF StartLogFlusher, LogFlusherStep, TakeRecord, NoMoreRecords, Insert,
                InsertError, db, history
  <2>2. IdleTakesNothing'
    BY <2>1 DEF KeyInv, IdleTakesNothing
  <2> QED BY <1>0, <2>1, <2>2, KeyStill
<1>3. ASSUME NEW f \in KeyFlushers, StartKeyFlusher(f) \/ KeyFlusherStep(f)
      PROVE  KeyInv' /\ KeySteps
  <2>1. CASE TakeAmount(f)
    BY <1>0, <2>1, KeyTake
  <2>2. CASE Update(f)
    BY <1>0, <2>2, KeyUpdate
  <2>3. CASE UpdateError(f)
    BY <1>0, <2>3, KeyUpdateError
  <2>4. CASE NoMoreAmounts(f) /\ ~Positive(keyF[f].taken)
    BY <1>0, <2>4, KeyDrop
  <2>5. CASE \/ StartKeyFlusher(f) \/ NoMoreKeys(f) \/ \E k \in Keys : NextKey(f, k)
             \/ NoMoreAmounts(f) /\ Positive(keyF[f].taken)
    <3>1. UNCHANGED <<req, chans, queue, charges, keySent>>
      BY <2>5 DEF StartKeyFlusher, NoMoreKeys, NextKey, NoMoreAmounts, db, history
    <3>2. /\ \A g \in KeyFlushers : keyF'[g].taken = keyF[g].taken
          /\ \A g \in KeyFlushers : keyF'[g].pc \in {"idle", "next"} => keyF'[g].taken = {}
      <4> USE DEF TypeOK, KeyFlushersType, KeyInv, IdleTakesNothing
      <4>1. CASE StartKeyFlusher(f)
        BY <4>1 DEF StartKeyFlusher
      <4>2. CASE NoMoreKeys(f)
        BY <4>2 DEF NoMoreKeys, IdleKeyF
      <4>3. CASE \E k \in Keys : NextKey(f, k)
        BY <4>3 DEF NextKey
      <4>4. CASE NoMoreAmounts(f) /\ Positive(keyF[f].taken)
        <5>1. keyF' = [keyF EXCEPT ![f].pc = "update"]
          BY <4>4 DEF NoMoreAmounts
        <5> QED BY <5>1
      <4> QED BY <2>5, <4>1, <4>2, <4>3, <4>4
    <3> QED BY <1>0, <3>1, <3>2, KeyStill DEF IdleTakesNothing
  <2> QED BY <1>3, <2>1, <2>2, <2>3, <2>4, <2>5 DEF KeyFlusherStep
<1>4. CASE UNCHANGED vars
  <2>1. IdleTakesNothing'
    BY <1>4 DEF vars, KeyInv, IdleTakesNothing
  <2> QED BY <1>0, <1>4, <2>1, KeyStill DEF vars
<1>5. CASE Crash
  BY <1>0, <1>5, KeyCrash
<1> QED
  BY <1>1, <1>2, <1>3, <1>4, <1>5 DEF Next

(* Those are the steps of the ledger. *)
LEMMA KeyStepsAreLedgers == KeySteps => [ChargeLedger!LedgerNext]_ChargeBook
BY DEF KeySteps, ChargeLedger!LedgerNext

(* An amount is taken off its key's balance once, by whichever flusher     *)
(* received it, or never.                                                  *)
THEOREM ChargeImplementsLedger == Spec => ChargeIsLedger
<1>1. Init => TypeOK /\ KeyInv /\ ChargeLedger!LedgerInit
  BY InitType, KeyInit
<1>2. TypeOK /\ KeyInv /\ [Next]_vars =>
         TypeOK' /\ KeyInv' /\ [ChargeLedger!LedgerNext]_ChargeBook
  BY NextType, KeyNext, KeyStepsAreLedgers
<1> QED BY <1>1, <1>2, PTL DEF Spec, ChargeIsLedger, ChargeLedger!LedgerSpec

-----------------------------------------------------------------------------
(* The keys: an amount never gets into the sum of another key.             *)

OwnInv == ChannelsOwned /\ ChargesOwnKey

(* Steps that move no amount and create no channel. *)
LEMMA OwnStill ==
    ASSUME OwnInv, UNCHANGED <<chans, queue>>,
           \A r \in Requests : req'[r].pc = "charge" => req'[r].chan = queue[req'[r].key],
           \A k \in Keys : queue[k] # NoChan =>
               \A r \in Items(chans[queue[k]]) : req'[r].key = req[r].key,
           \A f \in KeyFlushers, k \in Keys : keyF'[f].snap[k] \in {NoChan, queue[k]},
           \A f \in KeyFlushers : \A r \in keyF'[f].taken : req'[r].key = keyF'[f].key
    PROVE  OwnInv'
<1>1. ChannelsOwned'
  BY DEF OwnInv, ChannelsOwned, Items
<1> QED BY <1>1 DEF OwnInv, ChargesOwnKey

(* A handler that moves no amount: only a new one is told its key.         *)
LEMMA OwnHandler ==
    ASSUME TypeOK, KeyInv, OwnInv, NEW r \in Requests, Answer(r) \/ HandlerStep(r),
           ~CreateQueue(r), ~SendAmount(r)
    PROVE  OwnInv'
<1>1. UNCHANGED <<chans, queue, keyF>>
  BY DEF Answer, HandlerStep, SendRecord, FindQueue, FindQueueAgain, SendNothing, flushers,
         db, history
<1>2. \A q \in Requests : req[q].pc # "new" => req'[q].key = req[q].key
  <2>1. CASE Answer(r)
    BY <2>1 DEF Answer, TypeOK, RequestsType
  <2>2. CASE SendRecord(r) \/ SendNothing(r)
    BY <2>2 DEF SendRecord, SendNothing, Done, TypeOK, RequestsType
  <2>3. CASE FindQueue(r) \/ FindQueueAgain(r)
    BY <2>3 DEF FindQueue, FindQueueAgain, Got, TypeOK, RequestsType
  <2> QED BY <2>1, <2>2, <2>3 DEF HandlerStep
<1>3. \A q \in Requests : req'[q].pc = "charge" => req'[q].chan = queue[req'[q].key]
  <2> USE DEF OwnInv, ChannelsOwned, TypeOK, RequestsType
  <2>1. CASE Answer(r)
    <3>1. req'[r].pc # "charge" /\ \A q \in Requests \ {r} : req'[q] = req[q]
      <4>0. req[r] \in [pc : HandlerPCs, key : Keys \cup {NoKey},
                        amount : Amounts \cup {NoSpend}, chan : Chan \cup {NoChan}]
            /\ DOMAIN req = Requests
        OBVIOUS
      <4> HIDE DEF TypeOK, RequestsType, OwnInv, ChannelsOwned
      <4>1. CASE \E k \in Keys, a \in Amounts :
                     req' = [req EXCEPT ![r] = [@ EXCEPT !.pc = "log", !.key = k, !.amount = a]]
        BY <4>0, <4>1
      <4>2. CASE \E k \in Keys : req' = [req EXCEPT ![r] = [@ EXCEPT !.pc = "find", !.key = k]]
        BY <4>0, <4>2
      <4>3. CASE req' = [req EXCEPT ![r].pc = "done"]
        BY <4>0, <4>3
      <4> QED BY <2>1, <4>1, <4>2, <4>3 DEF Answer
    <3> QED BY <3>1
  <2>2. CASE SendRecord(r) \/ SendNothing(r)
    BY <2>2 DEF SendRecord, SendNothing, Done
  <2>3. CASE FindQueue(r) \/ FindQueueAgain(r)
    BY <2>3 DEF FindQueue, FindQueueAgain, Got
  <2> QED BY <2>1, <2>2, <2>3 DEF HandlerStep
<1>4. \A q \in KeyPending : q \in Requests /\ req'[q].key = req[q].key
  BY <1>2, KeyPendingType DEF KeyInv, KeyCounted
<1>5. \A k \in Keys : queue[k] # NoChan =>
          \A q \in Items(chans[queue[k]]) : req'[q].key = req[q].key
  BY <1>4 DEF KeyPending
<1>6. \A f \in KeyFlushers : \A q \in keyF[f].taken : req'[q].key = keyF[f].key
  <2>1. \A f \in KeyFlushers : keyF[f].taken \subseteq KeyPending
    BY DEF KeyPending
  <2> QED BY <1>4, <2>1 DEF OwnInv, ChargesOwnKey
<1>7. \A f \in KeyFlushers, k \in Keys : keyF[f].snap[k] \in {NoChan, queue[k]}
  BY DEF OwnInv, ChannelsOwned
<1> QED BY <1>1, <1>3, <1>5, <1>6, <1>7, OwnStill

(* A new channel is nobody else's. *)
LEMMA OwnCreate ==
    ASSUME TypeOK, OwnInv, NEW r \in Requests, CreateQueue(r)
    PROVE  OwnInv'
<1> DEFINE c == Len(chans) + 1
           k == req[r].key
<1>1. /\ k \in Keys /\ queue[k] = NoChan
      /\ chans \in Seq(Seq(Requests)) /\ chans' = Append(chans, <<>>)
      /\ queue' = [queue EXCEPT ![k] = c] /\ queue \in [Keys -> Chan \cup {NoChan}]
      /\ UNCHANGED keyF
  BY DEF CreateQueue, flushers, TypeOK, RequestsType, QueuesType, HandlerPCs
<1>2. /\ c \notin Chan /\ chans'[c] = <<>>
      /\ \A d \in Chan : chans'[d] = chans[d]
  <2>1. <<>> \in Seq(Requests)
    BY EmptySeq
  <2> QED BY <1>1, <2>1, ItemsAppend DEF Chan
<1>3. /\ \A q \in Requests : req'[q].key = req[q].key
      /\ \A q \in Requests : req'[q].pc = "charge" =>
            \/ q = r /\ req'[q].chan = c
            \/ q # r /\ req[q].pc = "charge" /\ req'[q].chan = req[q].chan
  BY DEF CreateQueue, Got, TypeOK, RequestsType
<1> HIDE DEF c, k
<1>4. queue'[k] = c /\ \A j \in Keys \ {k} : queue'[j] = queue[j]
  BY <1>1
<1>5. NoChan \notin Chan
  BY ChannelTypes DEF TypeOK
<1>6. \A i, j \in Keys : queue'[i] # NoChan /\ queue'[i] = queue'[j] => i = j
  <2>1. \A j \in Keys \ {k} : queue'[j] \in Chan \cup {NoChan}
    BY <1>1, <1>4
  <2>2. \A i, j \in Keys \ {k} : queue'[i] # NoChan /\ queue'[i] = queue'[j] => i = j
    BY <1>4 DEF OwnInv, ChannelsOwned
  <2>3. \A j \in Keys \ {k} : queue'[j] # NoChan => queue'[j] # c
    BY <1>2, <2>1
  <2> QED BY <1>4, <2>2, <2>3
<1>7. \A j \in Keys : queue'[j] # NoChan => \A q \in Items(chans[queue[j]])' : req'[q].key = j
  <2>1. ASSUME NEW j \in Keys, queue'[j] # NoChan, NEW q \in Items(chans[queue[j]])'
        PROVE  req'[q].key = j
    <3>1. CASE j = k
      <4>1. Items(chans[queue[j]])' = {}
        BY <1>2, <1>4, <3>1, ItemsEmpty DEF Items
      <4> QED BY <2>1, <4>1
    <3>2. CASE j # k
      <4>1. queue'[j] = queue[j] /\ queue[j] \in Chan
        BY <1>1, <1>4, <2>1, <3>2
      <4>2. Items(chans[queue[j]])' = Items(chans[queue[j]])
        BY <1>2, <4>1 DEF Items
      <4>3. q \in Requests
        BY <2>1, <4>1, <4>2, ChannelTypes, ItemsProperties DEF TypeOK
      <4> QED BY <1>3, <2>1, <4>1, <4>2, <4>3 DEF OwnInv, ChannelsOwned
    <3> QED BY <3>1, <3>2
  <2> QED BY <2>1
<1>8. \A q \in Requests : req'[q].pc = "charge" => req'[q].chan = queue'[req'[q].key]
  <2>1. ASSUME NEW q \in Requests, q # r, req[q].pc = "charge"
        PROVE  req[q].chan = queue'[req[q].key]
    <3>1. req[q].chan \in Chan /\ req[q].chan = queue[req[q].key] /\ req[q].key \in Keys
      BY <2>1 DEF TypeOK, RequestsType, OwnInv, ChannelsOwned, HandlerPCs
    <3>2. req[q].key # k
      BY <1>1, <1>5, <3>1
    <3> QED BY <1>4, <3>1, <3>2
  <2> QED BY <1>3, <1>4, <2>1 DEF k
<1>9. \A f \in KeyFlushers, j \in Keys : keyF'[f].snap[j] \in {NoChan, queue'[j]}
  <2>1. \A f \in KeyFlushers, j \in Keys : keyF[f].snap[j] \in {NoChan, queue[j]}
    BY DEF OwnInv, ChannelsOwned
  <2>2. \A j \in Keys : queue[j] \in {NoChan, queue'[j]}
    BY <1>1, <1>4
  <2> QED BY <1>1, <2>1, <2>2
<1>10. ChargesOwnKey'
  <2>1. \A f \in KeyFlushers : keyF[f].taken \subseteq Requests
    BY DEF TypeOK, KeyFlushersType
  <2> QED BY <1>1, <1>3, <2>1 DEF OwnInv, ChargesOwnKey
<1> QED BY <1>6, <1>7, <1>8, <1>9, <1>10 DEF OwnInv, ChannelsOwned

(* An amount goes to the channel of the key of its request. *)
LEMMA OwnSend ==
    ASSUME TypeOK, OwnInv, NEW r \in Requests, SendAmount(r)
    PROVE  OwnInv'
<1> DEFINE c == req[r].chan
<1>1. /\ c = queue[req[r].key] /\ req[r].key \in Keys /\ c \in Chan
      /\ chans' = [chans EXCEPT ![c] = Append(@, r)] /\ UNCHANGED <<queue, keyF>>
  BY DEF SendAmount, flushers, TypeOK, RequestsType, OwnInv, ChannelsOwned, HandlerPCs
<1>2. /\ \A q \in Requests : req'[q].key = req[q].key
      /\ \A q \in Requests : req'[q].pc = "charge" =>
            req[q].pc = "charge" /\ req'[q].chan = req[q].chan
  BY DEF SendAmount, Done, TypeOK, RequestsType
<1>3. /\ chans[c] \in Seq(Requests) /\ chans'[c] = Append(chans[c], r)
      /\ \A d \in Chan \ {c} : chans'[d] = chans[d]
  <2>1. chans \in [Chan -> Seq(Requests)]
    BY ChannelTypes DEF TypeOK, QueuesType, Chan
  <2> HIDE DEF c
  <2> QED BY <1>1, <2>1
<1> HIDE DEF c
<1>4. ASSUME NEW k \in Keys, queue[k] # NoChan, NEW q \in Items(chans'[queue[k]])
      PROVE  req'[q].key = k
  <2>1. queue[k] \in Chan /\ Items(chans[queue[k]]) \subseteq Requests
    BY <1>4, ChannelTypes, ItemsProperties DEF TypeOK, QueuesType
  <2>2. \A p \in Items(chans[queue[k]]) : req[p].key = k
    BY <1>4 DEF OwnInv, ChannelsOwned
  <2>3. CASE queue[k] = c
    <3>1. k = req[r].key
      BY <1>1, <1>4, <2>3 DEF OwnInv, ChannelsOwned
    <3>2. Items(chans'[c]) = Items(chans[c]) \cup {r}
      BY <1>3, ItemsAppend
    <3> QED BY <1>2, <1>4, <2>1, <2>2, <2>3, <3>1, <3>2
  <2>4. CASE queue[k] # c
    <3>1. chans'[queue[k]] = chans[queue[k]]
      BY <1>3, <2>1, <2>4
    <3> QED BY <1>2, <1>4, <2>1, <2>2, <3>1
  <2> QED BY <2>3, <2>4
<1>5. ChannelsOwned'
  <2>0. \A k : Items(chans[queue[k]])' = Items(chans'[queue'[k]])
    BY DEF Items
  <2>1. \A k \in Keys : queue'[k] # NoChan =>
            \A q \in Items(chans[queue[k]])' : req'[q].key = k
    BY <1>1, <1>4, <2>0
  <2> QED BY <1>1, <1>2, <2>1 DEF OwnInv, ChannelsOwned
<1>6. ChargesOwnKey'
  <2>1. \A f \in KeyFlushers : keyF[f].taken \subseteq Requests
    BY DEF TypeOK, KeyFlushersType
  <2> QED BY <1>1, <1>2, <2>1 DEF OwnInv, ChargesOwnKey
<1> QED BY <1>5, <1>6 DEF OwnInv

(* A flusher takes amounts from the channel of its key. *)
LEMMA OwnTake ==
    ASSUME TypeOK, OwnInv, NEW f \in KeyFlushers, TakeAmount(f)
    PROVE  OwnInv'
<1> DEFINE k == keyF[f].key
           c == keyF[f].snap[k]
<1>1. /\ k \in Keys /\ c # NoChan /\ c = queue[k] /\ c \in Chan
      /\ chans[c] # <<>> /\ chans' = [chans EXCEPT ![c] = Tail(@)]
      /\ keyF' = [keyF EXCEPT ![f].taken = @ \cup {Head(chans[c])}]
      /\ UNCHANGED <<req, queue>>
  BY DEF TakeAmount, TypeOK, KeyFlushersType, OwnInv, ChannelsOwned
<1> HIDE DEF c
<1>2. chans \in [Chan -> Seq(Requests)]
  BY ChannelTypes DEF TypeOK, QueuesType, Chan
<1>3. /\ chans'[c] = Tail(chans[c]) /\ \A d \in Chan \ {c} : chans'[d] = chans[d]
      /\ Items(Tail(chans[c])) \subseteq Items(chans[c]) /\ Head(chans[c]) \in Items(chans[c])
  <2>1. chans[c] \in Seq(Requests)
    BY <1>1, <1>2
  <2> QED BY <1>1, <1>2, <2>1, ItemsTail
<1>4. \A d \in Chan : Items(chans'[d]) \subseteq Items(chans[d])
  BY <1>3
<1>5. \A g \in KeyFlushers : /\ keyF'[g].snap = keyF[g].snap /\ keyF'[g].key = keyF[g].key
                             /\ g # f => keyF'[g].taken = keyF[g].taken
  BY <1>1 DEF TypeOK, KeyFlushersType
<1>6. keyF'[f].taken = keyF[f].taken \cup {Head(chans[c])}
  BY <1>1 DEF TypeOK, KeyFlushersType
<1>7. req[Head(chans[c])].key = k
  BY <1>1, <1>3 DEF OwnInv, ChannelsOwned
<1>8. ChargesOwnKey'
  <2>1. \A q \in keyF'[f].taken : req[q].key = k
    BY <1>6, <1>7 DEF OwnInv, ChargesOwnKey
  <2>2. keyF'[f].key = k
    BY <1>5
  <2> HIDE DEF k
  <2>3. \A g \in KeyFlushers \ {f} : \A q \in keyF'[g].taken : req[q].key = keyF'[g].key
    BY <1>5 DEF OwnInv, ChargesOwnKey
  <2> QED BY <1>1, <2>1, <2>2, <2>3 DEF ChargesOwnKey
<1>9. ChannelsOwned'
  <2>1. \A j \in Keys : queue[j] # NoChan => queue[j] \in Chan
    BY DEF TypeOK, QueuesType
  <2>2. \A j \in Keys : queue[j] # NoChan => \A q \in Items(chans'[queue[j]]) : req[q].key = j
    BY <1>4, <2>1 DEF OwnInv, ChannelsOwned
  <2>0. \A j : Items(chans[queue[j]])' = Items(chans'[queue'[j]])
    BY DEF Items
  <2>3. \A j \in Keys : queue'[j] # NoChan =>
            \A q \in Items(chans[queue[j]])' : req'[q].key = j
    BY <1>1, <2>0, <2>2
  <2> QED BY <1>1, <1>5, <2>3 DEF OwnInv, ChannelsOwned
<1> QED BY <1>8, <1>9 DEF OwnInv

(* The other steps of a flusher: a sum is begun when the one before it is  *)
(* settled.                                                                *)
LEMMA OwnFlusher ==
    ASSUME TypeOK, KeyInv, OwnInv, NEW f \in KeyFlushers, StartKeyFlusher(f) \/ KeyFlusherStep(f),
           ~TakeAmount(f)
    PROVE  OwnInv'
<1> DEFINE g == keyF[f]
           h == keyF'[f]
<1>1. UNCHANGED <<req, chans, queue>>
  BY DEF StartKeyFlusher, KeyFlusherStep, NextKey, NoMoreKeys, NoMoreAmounts, Update, UpdateError
<1>2. /\ \A o \in KeyFlushers \ {f} : keyF'[o] = keyF[o]
      /\ h.taken = {} \/ (h.taken = g.taken /\ h.key = g.key)
      /\ \A k \in Keys : h.snap[k] \in {NoChan, g.snap[k], queue[k]}
  <2> USE DEF TypeOK, KeyFlushersType
  <2>1. CASE StartKeyFlusher(f)
    BY <2>1 DEF StartKeyFlusher
  <2>2. CASE \E k \in Keys : NextKey(f, k)
    <3>1. g.taken = {}
      BY <2>2 DEF NextKey, KeyInv, IdleTakesNothing
    <3> QED BY <2>2, <3>1 DEF NextKey
  <2>3. CASE NoMoreKeys(f)
    BY <2>3 DEF NoMoreKeys, IdleKeyF
  <2>4. CASE KeyFlushed(f)
    <3>1. /\ keyF' = [keyF EXCEPT ![f] = h]
          /\ h = [pc |-> "next", snap |-> [g.snap EXCEPT ![g.key] = NoChan],
                  key |-> NoKey, taken |-> {}]
      BY <2>4 DEF KeyFlushed
    <3>2. g.snap \in [Keys -> Chan \cup {NoChan}]
      OBVIOUS
    <3> HIDE DEF g, h
    <3> QED BY <3>1, <3>2
  <2>5. CASE NoMoreAmounts(f) /\ ~KeyFlushed(f)
    <3>1. keyF' = [keyF EXCEPT ![f].pc = "update"]
      BY <2>5 DEF NoMoreAmounts
    <3> QED BY <3>1
  <2> QED BY <2>1, <2>2, <2>3, <2>4, <2>5 DEF KeyFlusherStep, Update, UpdateError
<1> HIDE DEF g, h
<1>3. \A o \in KeyFlushers, k \in Keys : keyF'[o].snap[k] \in {NoChan, queue[k]}
  <2>1. \A o \in KeyFlushers, k \in Keys : keyF[o].snap[k] \in {NoChan, queue[k]}
    BY DEF OwnInv, ChannelsOwned
  <2> QED BY <1>2, <2>1 DEF g, h
<1>4. \A o \in KeyFlushers : \A q \in keyF'[o].taken : req'[q].key = keyF'[o].key
  <2>1. \A o \in KeyFlushers : \A q \in keyF[o].taken : req[q].key = keyF[o].key
    BY DEF OwnInv, ChargesOwnKey
  <2> QED BY <1>1, <1>2, <2>1 DEF g, h
<1>5. \A q \in Requests : req'[q].pc = "charge" => req'[q].chan = queue[req'[q].key]
  BY <1>1 DEF OwnInv, ChannelsOwned
<1>6. \A k \in Keys : queue[k] # NoChan =>
          \A q \in Items(chans[queue[k]]) : req'[q].key = req[q].key
  BY <1>1
<1> QED BY <1>1, <1>3, <1>4, <1>5, <1>6, OwnStill

(* Every step. *)
LEMMA OwnNext ==
    ASSUME TypeOK, KeyInv, OwnInv, [Next]_vars
    PROVE  OwnInv'
<1>1. ASSUME NEW r \in Requests, Answer(r) \/ HandlerStep(r) PROVE OwnInv'
  BY <1>1, OwnHandler, OwnCreate, OwnSend
<1>2. ASSUME UNCHANGED <<req, chans, queue, keyF>> PROVE OwnInv'
  BY <1>2 DEF OwnInv, ChannelsOwned, ChargesOwnKey, Items
<1>3. ASSUME NEW f \in LogFlushers, StartLogFlusher(f) \/ LogFlusherStep(f) PROVE OwnInv'
  BY <1>2, <1>3 DEF StartLogFlusher, LogFlusherStep, TakeRecord, NoMoreRecords, Insert,
                    InsertError
<1>4. ASSUME NEW f \in KeyFlushers, StartKeyFlusher(f) \/ KeyFlusherStep(f) PROVE OwnInv'
  BY <1>4, OwnTake, OwnFlusher
<1>5. ASSUME Crash PROVE OwnInv'
  <2>1. /\ \A k \in Keys : queue'[k] = NoChan
        /\ \A f \in KeyFlushers : keyF'[f] = IdleKeyF
        /\ \A r \in Requests : req'[r].pc # "charge"
    BY <1>5 DEF Crash, NewReq, TypeOK, RequestsType
  <2> QED BY <2>1 DEF OwnInv, ChannelsOwned, ChargesOwnKey, IdleKeyF
<1> QED BY <1>1, <1>2, <1>3, <1>4, <1>5 DEF Next, vars

(* Nothing is held at the start. *)
LEMMA OwnInit == Init => OwnInv
BY DEF Init, NewReq, IdleKeyF, OwnInv, ChannelsOwned, ChargesOwnKey

(* A record or an amount is in one place at most, what waits was sent and  *)
(* not yet booked, keySpendQueue leads to every channel, and the amounts   *)
(* of a channel or of a sum are those of one key.                          *)
THEOREM Inductive == Spec => []IInv
<1>1. IInv <=> TypeOK /\ LogInv /\ KeyInv /\ OwnInv
  BY DEF IInv, LogInv, KeyInv, OwnInv
<1>2. Init => IInv
  BY <1>1, InitType, LogInit, KeyInit, OwnInit
<1>3. IInv /\ [Next]_vars => TypeOK' /\ LogInv' /\ KeyInv' /\ OwnInv'
  BY <1>1, NextType, LogNext, KeyNext, OwnNext
<1>4. IInv /\ [Next]_vars => IInv'
  BY <1>3 DEF IInv, LogInv, KeyInv, OwnInv
<1> QED BY <1>2, <1>4, PTL DEF Spec

(* A key is charged for what was spent with it, and with no other key.     *)
THEOREM ChargesAreOwn == Spec => []ChargesOwnKey
<1>1. IInv => ChargesOwnKey
  BY DEF IInv
<1> QED BY <1>1, Inductive, PTL

(* Only a step that loses something adds to the lost, and nothing that is  *)
(* lost comes back.                                                        *)
LEMMA LogLosses ==
    ASSUME LogSteps, ~Crash, \A f \in LogFlushers : ~InsertError(f), NEW r \in Requests
    PROVE  LogBook'[r] = "lost" <=> LogBook[r] = "lost"
BY DEF LogSteps, LogLedger!Book, LogLedger!Submit, LogLedger!Move

(* Only an update that fails and a stop of the process lose an amount. *)
LEMMA KeyLosses ==
    ASSUME KeySteps, ~Crash, \A f \in KeyFlushers : ~UpdateError(f), NEW r \in Requests
    PROVE  ChargeBook'[r] = "lost" <=> ChargeBook[r] = "lost"
BY DEF KeySteps, ChargeLedger!Book, ChargeLedger!Submit, ChargeLedger!Move

(* What was queued is lost only when the database fails or the process     *)
(* stops, never by the way the goroutines interleave.                      *)
THEOREM LossOnlyByFailure == Spec => LossNeedsFailure
<1> DEFINE Failure == \/ Crash
                      \/ \E f \in LogFlushers : InsertError(f)
                      \/ \E f \in KeyFlushers : UpdateError(f)
<1>1. TypeOK /\ LogInv /\ KeyInv /\ [Next]_vars => (Lost' # Lost => Failure)
  BY LogNext, KeyNext, LogLosses, KeyLosses DEF Lost
<1>2. IInv => TypeOK /\ LogInv /\ KeyInv
  BY DEF IInv, LogInv, KeyInv
<1>3. IInv /\ [Next]_vars => [Lost' # Lost => Failure]_vars
  BY <1>1, <1>2
<1> QED BY <1>3, Inductive, PTL DEF Spec, LossNeedsFailure

(* A request has one row in janus_spend_log at most, and its amount is in  *)
(* one charge of a key at most, also while it still waits somewhere.       *)
THEOREM AtMostOnce == Spec => [](\A r \in Requests : rows[r] <= 1 /\ charges[r] <= 1)
<1>1. IInv => \A r \in Requests : rows[r] <= 1 /\ charges[r] <= 1
  <2>1. ASSUME IInv, NEW r \in Requests PROVE rows[r] <= 1 /\ charges[r] <= 1
    <3>1. rows[r] = 0 \/ rows[r] = 1
      BY <2>1 DEF IInv, LogCounted
    <3>2. charges[r] = 0 \/ charges[r] = 1
      BY <2>1 DEF IInv, KeyCounted
    <3>3. rows[r] <= 1
      BY <3>1
    <3>4. charges[r] <= 1
      BY <3>2
    <3> QED BY <3>3, <3>4
  <2> QED BY <2>1
<1> QED BY <1>1, Inductive, PTL

(* A record that is booked or lost is not moved by any step of the log. *)
LEMMA LogSettled ==
    ASSUME LogSteps, NEW r \in Requests, LogBook[r] \in {"booked", "lost"}
    PROVE  LogBook'[r] = LogBook[r]
BY DEF LogSteps, LogLedger!Book, LogLedger!Submit, LogLedger!Lose, LogLedger!Move

(* Nor is an amount by any step of the charges. *)
LEMMA KeySettled ==
    ASSUME KeySteps, NEW r \in Requests, ChargeBook[r] \in {"booked", "lost"}
    PROVE  ChargeBook'[r] = ChargeBook[r]
BY DEF KeySteps, ChargeLedger!Book, ChargeLedger!Submit, ChargeLedger!Lose, ChargeLedger!Move

(* What billing has settled stays so: what is booked is not booked again   *)
(* nor lost, not even by a stop of the process, and no retry brings back   *)
(* what an error or a stop has lost.                                       *)
THEOREM SettledForGood ==
    Spec => [][\A r \in Requests :
                  /\ LogBook[r] \in {"booked", "lost"} => LogBook'[r] = LogBook[r]
                  /\ ChargeBook[r] \in {"booked", "lost"} => ChargeBook'[r] = ChargeBook[r]]_vars
<1> DEFINE Kept == \A r \in Requests :
                  /\ LogBook[r] \in {"booked", "lost"} => LogBook'[r] = LogBook[r]
                  /\ ChargeBook[r] \in {"booked", "lost"} => ChargeBook'[r] = ChargeBook[r]
<1>1. TypeOK /\ LogInv /\ KeyInv /\ [Next]_vars => Kept
  BY LogNext, KeyNext, LogSettled, KeySettled
<1>2. IInv => TypeOK /\ LogInv /\ KeyInv
  BY DEF IInv, LogInv, KeyInv
<1>3. IInv /\ [Next]_vars => [Kept]_vars
  BY <1>1, <1>2
<1> QED BY <1>3, Inductive, PTL DEF Spec
=============================================================================
