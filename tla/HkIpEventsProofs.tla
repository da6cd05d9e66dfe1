-------------------------- MODULE HkIpEventsProofs --------------------------
(***************************************************************************)
(* Proofs about HkIpEvents, for any number of characteristics, sockets and *)
(* blocks: the types, that the store owns its arrays, what a notification  *)
(* reads when nothing disturbs it, and that the arrays on the heap         *)
(* implement the lists of HkSubscriptions.                                 *)
(***************************************************************************)
EXTENDS HkIpEvents, FiniteSetTheorems, SequenceTheorems, TLAPS

BusyPcs == AddPcs \cup RemovePcs
GrowPcs == {"add_alloc", "add_last", "add_copy", "add_free"}
ShrinkPcs == {"rem_alloc", "rem_head", "rem_tail", "rem_free"}
CopyPcs == GrowPcs \cup ShrinkPcs

Busy(c) == put.pc \in BusyPcs /\ put.chr = c

(***************************************************************************)
(* Who owns the heap at any time: each array belongs to one element of the *)
(* list, or is the old one of the change in progress.  Only the element    *)
(* that is being changed may not fit its array.                            *)
(***************************************************************************)
OwnerInv ==
  /\ put.pc # "idle" => put.fd \in Fds
  /\ put.pc \in BusyPcs => put.chr \in items
  /\ put.pc \notin CopyPcs => put.old = Null
  /\ \A c \in items : Busy(c) \/ ArrayFits(c)
  /\ \A c, d \in items : ptr[c] = ptr[d] /\ ptr[c] \in Blocks => c = d
  /\ \A b \in Blocks : heap[b] # Null => b = put.old \/ \E c \in items : ptr[c] = b

Old == heap[put.old]
New == heap[Array]
Count == cnt[put.chr]

(***************************************************************************)
(* What is done of a change: a first subscription, a longer array, a       *)
(* shorter one, the last subscription removed.                             *)
(***************************************************************************)
FirstInv ==
  /\ put.pc = "add_clear" => Array = Wild
  /\ put.pc = "add_first" => Array = Null
  /\ put.pc \in {"add_one", "add_set"} => Array \in Blocks /\ New = <<Wild>>
  /\ put.pc = "add_set" => Count = 1

CopyInv ==
  /\ put.pc \in CopyPcs => put.old \in Blocks /\ Old \in Seq(Fds)
  /\ put.pc \in {"add_alloc", "rem_alloc"} => Array = put.old
  /\ put.pc \in CopyPcs \ {"add_alloc", "rem_alloc"} =>
       /\ Array \in Blocks /\ New \in Seq(Cell) /\ Len(New) = Count
       /\ \A c \in items : ptr[c] # put.old

GrowInv ==
  /\ put.pc \in GrowPcs => Count = Len(Old) + 1 /\ Len(Old) \in 1..(MaxSubs - 1)
  /\ put.pc = "add_copy" => New[Count] = put.fd
  /\ put.pc = "add_free" => New = Append(Old, put.fd)

Without(list, f) ==
  [i \in 1..(Len(list) - 1) |-> IF i < FirstIndex(list, f) THEN list[i] ELSE list[i + 1]]

ShrinkInv ==
  /\ put.pc \in ShrinkPcs =>
       /\ Count = Len(Old) - 1 /\ Len(Old) > 1
       /\ \E i \in DOMAIN Old : Old[i] = put.fd
  /\ put.pc = "rem_tail" => \A i \in 1..(FirstIndex(Old, put.fd) - 1) : New[i] = Old[i]
  /\ put.pc = "rem_free" => New = Without(Old, put.fd)

LastInv ==
  put.pc \in {"last_free", "last_clear"} =>
    /\ Array \in Blocks /\ Count = 0
    /\ put.pc = "last_free" => New \in Seq(Fds)
    /\ put.pc = "last_clear" => New = Null

StoreInv == OwnerInv /\ FirstInv /\ CopyInv /\ GrowInv /\ ShrinkInv /\ LastInv

(***************************************************************************)
(* A notification that nothing disturbed runs while no handler works on an *)
(* array; what it knows of the list is what the list is.                   *)
(***************************************************************************)
NotifyInv ==
  app.pc # "idle" =>
    /\ app.chr \in Chrs
    /\ app.pc \in {"number", "loop"} => app.chr \in items
    /\ app.alone =>
         /\ put.pc \in {"idle", "entry", "add_first"}
         /\ app.pc \in {"sockets", "number"} => app.sent = <<>> /\ app.i = 1
         /\ app.pc \in {"number", "loop"} => app.ptr = ptr[app.chr]
         /\ app.pc = "loop" =>
              /\ app.ptr \in Blocks /\ ~Busy(app.chr)
              /\ app.n = Len(Listed(app.chr)) /\ app.i <= app.n + 1
              /\ app.ok => /\ Len(app.sent) = app.i - 1
                           /\ \A k \in 1..(app.i - 1) : app.sent[k] = Listed(app.chr)[k]
         /\ app.pc = "done" => (app.ok => app.sent = Listed(app.chr))

Inv == TypeOK /\ StoreInv /\ NotifyInv

-----------------------------------------------------------------------------
(* Operators.                                                              *)

LEMMA NullIsNoArray == Null \notin Seq(Cell) /\ Null \notin Seq(Fds)
<1>1. Seq(Fds) \subseteq Seq(Cell)
  BY DEF Cell
<1> QED
  BY <1>1, ConstantsAssumption DEF Cell

\* Strict inclusion of the intervals 1..n is well-founded, so there is a smallest n.
LEMMA Smallest ==
  ASSUME NEW S \in SUBSET Nat, S # {}
  PROVE  \E m \in S : \A n \in S : m <= n
<1> DEFINE T == {1..n : n \in S}
<1>1. T # {} /\ T \subseteq FiniteSubsetsOf(Nat)
  <2>1. \A n \in S : 1..n \in SUBSET Nat /\ IsFiniteSet(1..n)
    BY FS_Interval
  <2> QED
    BY <2>1 DEF FiniteSubsetsOf
<1>2. PICK x \in T : \A y \in T : <<y, x>> \notin StrictSubsetOrdering(Nat)
  <2> HIDE DEF T
  <2> QED
    BY <1>1, FS_StrictSubsetOrderingWellFounded, WFMin
<1>3. PICK m \in S : x = 1..m
  BY <1>2
<1>4. ASSUME NEW n \in S, n < m
      PROVE  FALSE
  <2>1. 1..n \subseteq 1..m /\ 1..n # 1..m /\ 1..n \in T
    <3>1. n \in Nat /\ m \in Nat /\ m \in 1..m /\ m \notin 1..n
      BY <1>4
    <3> QED
      BY <3>1
  <2>2. <<1..n, 1..m>> \in StrictSubsetOrdering(Nat)
    BY <2>1, <1>1 DEF StrictSubsetOrdering, FiniteSubsetsOf
  <2> QED
    BY <1>2, <1>3, <2>1, <2>2
<1> QED
  BY <1>4

LEMMA FirstIndexType ==
  ASSUME NEW list \in Seq(Fds), NEW f, \E i \in DOMAIN list : list[i] = f
  PROVE  /\ FirstIndex(list, f) \in 1..Len(list)
         /\ list[FirstIndex(list, f)] = f
         /\ \A j \in 1..(FirstIndex(list, f) - 1) : list[j] # f
<1> DEFINE S == {i \in DOMAIN list : list[i] = f}
<1>1. PICK m \in S : \A n \in S : m <= n
  <2>1. S \in SUBSET Nat /\ S # {}
    OBVIOUS
  <2> QED
    BY <2>1, Smallest
<1>2. m \in DOMAIN list /\ list[m] = f /\ \A j \in 1..(m - 1) : list[j] # f
  BY <1>1
<1> QED
  BY <1>2 DEF FirstIndex

\* The two copies of hk_subscription_store_remove are the removal of one element.
LEMMA WithoutIsRemoveFirst ==
  ASSUME NEW list \in Seq(Fds), NEW f, \E i \in DOMAIN list : list[i] = f
  PROVE  /\ Without(list, f) \in Seq(Fds)
         /\ Len(Without(list, f)) = Len(list) - 1
         /\ Promise!RemoveFirst(list, f) = Without(list, f)
<1> DEFINE k == FirstIndex(list, f)
<1>1. /\ k \in 1..Len(list) /\ list[k] = f
      /\ \A j \in 1..(k - 1) : list[j] # f
  BY FirstIndexType
<1>2. Without(list, f) \in Seq(Fds) /\ Len(Without(list, f)) = Len(list) - 1
  BY <1>1 DEF Without
<1>3. Promise!SelectInSeq(list, LAMBDA v : v = f) = k
  <2> DEFINE I == {i \in 1..Len(list) : list[i] = f}
  <2>1. k \in I /\ \A y \in I : k <= y
    BY <1>1
  <2>2. \A x \in I : (\A y \in I : x <= y) => x = k
    BY <2>1
  <2>3. Promise!Min(I) = k
    BY <2>1, <2>2 DEF Promise!Min
  <2> QED
    BY <2>1, <2>3 DEF Promise!SelectInSeq
<1>4. Promise!RemoveAt(list, k) = Without(list, f)
  <2> DEFINE p == SubSeq(list, 1, k - 1)
             q == SubSeq(list, k + 1, Len(list))
  <2> HIDE DEF k
  <2>1. p \in Seq(Fds) /\ Len(p) = k - 1 /\ \A i \in 1..(k - 1) : p[i] = list[i]
    BY <1>1
  <2>2. q \in Seq(Fds) /\ Len(q) = Len(list) - k /\ \A i \in 1..(Len(list) - k) : q[i] = list[k + i]
    BY <1>1
  <2> HIDE DEF p, q
  <2>3. p \o q \in Seq(Fds) /\ Len(p \o q) = Len(list) - 1
    <3>1. p \o q \in Seq(Fds) /\ Len(p \o q) = Len(p) + Len(q)
      BY <2>1, <2>2, ConcatProperties
    <3> QED
      BY <1>1, <2>1, <2>2, <3>1
  <2>4. ASSUME NEW i \in 1..(Len(list) - 1)
        PROVE  (p \o q)[i] = IF i < k THEN list[i] ELSE list[i + 1]
    BY <1>1, <2>1, <2>2
  <2>5. \A i \in 1..(Len(list) - 1) : Without(list, f)[i] = (p \o q)[i]
    BY <2>4 DEF Without, k
  <2>6. Without(list, f) = p \o q
    BY <1>2, <2>3, <2>5, SeqEqual
  <2> QED
    BY <2>6 DEF Promise!RemoveAt, p, q
<1> QED
  BY <1>2, <1>3, <1>4 DEF Promise!RemoveFirst

-----------------------------------------------------------------------------
(* Steps of the application's task and of the work items: the store and    *)
(* its handler stay as they are.                                           *)

LEMMA NoneType == NoPut \in Handler /\ NoNotify \in Notification
BY DEF NoPut, Handler, NoNotify, Notification

LEMMA StoreStays == ASSUME StoreInv, UNCHANGED <<store, put>> PROVE StoreInv'
BY DEF StoreInv, OwnerInv, FirstInv, CopyInv, GrowInv, ShrinkInv, LastInv, Busy, ArrayFits,
       Old, New, Count, Array, store

\* What a notification may know of an array that fits its element.
LEMMA ListedFits ==
  ASSUME TypeOK, OwnerInv, NEW c \in items, ~Busy(c)
  PROVE  /\ Listed(c) \in Seq(Fds)
         /\ ptr[c] \in Blocks \cup {Null}
         /\ cnt[c] = Len(Listed(c))
         /\ ptr[c] = Null <=> Listed(c) = <<>>
         /\ ptr[c] # Null => Listed(c) = heap[ptr[c]]
<1>1. ArrayFits(c)
  BY DEF OwnerInv
<1>2. CASE ptr[c] = Null
  BY <1>1, <1>2 DEF ArrayFits, Listed
<1>3. CASE ptr[c] # Null
  BY <1>1, <1>3 DEF ArrayFits, Listed
<1> QED
  BY <1>2, <1>3

LEMMA NotifyStepKeeps ==
  ASSUME Inv, NotifyStep \/ \E c \in Chrs : Notify(c)
  PROVE  Inv'
<1> USE DEF Inv
<1>1. UNCHANGED <<store, put, open, wants>>
  BY DEF NotifyStep, NotifyGetSockets, NotifyGetNumber, NotifySend, NotifyLoopEnds,
         NotifyReturns, Notify
<1>2. StoreInv'
  BY <1>1, StoreStays
<1>3. app' \in Notification /\ queue' \in Seq(Fd) => TypeOK'
  BY <1>1 DEF TypeOK, store
<1>4. app \in Notification /\ queue \in Seq(Fd)
  BY DEF TypeOK
<1>5. ASSUME NEW c PROVE Listed(c)' = Listed(c) /\ Busy(c)' = Busy(c)
  BY <1>1 DEF Listed, Busy, store
<1>6. CASE \E c \in Chrs : Notify(c)
  <2>1. PICK c \in Chrs : Notify(c)
    BY <1>6
  <2>2. app' \in Notification /\ UNCHANGED queue
    <3>1. ASSUME NEW a \in BOOLEAN
          PROVE  [NoNotify EXCEPT !.pc = "sockets", !.chr = c, !.alone = a] \in Notification
      BY NoneType DEF Notification
    <3>2. (put.pc \in {"idle", "entry"}) \in BOOLEAN
      OBVIOUS
    <3> QED
      BY <2>1, <3>1, <3>2 DEF Notify
  <2>3. NotifyInv'
    BY <1>1, <2>1 DEF Notify, NotifyInv, NoNotify
  <2> QED
    BY <1>2, <1>3, <1>4, <2>2, <2>3
<1>7. CASE NotifyGetSockets
  <2>1. app.chr \in Chrs /\ app.pc = "sockets"
    BY <1>7 DEF NotifyInv, NotifyGetSockets
  <2>2. app' \in Notification /\ UNCHANGED queue
    BY <1>4, <1>7, <2>1 DEF NotifyGetSockets, Notification, TypeOK
  <2>3. ASSUME app.chr \in items PROVE NotifyInv'
    <3>1. app' = [app EXCEPT !.pc = "number", !.ptr = ptr[app.chr]]
      BY <1>7, <2>3 DEF NotifyGetSockets
    <3>2. /\ app'.pc = "number" /\ app'.ptr = ptr[app.chr] /\ app'.chr = app.chr
          /\ app'.alone = app.alone /\ app'.sent = app.sent /\ app'.i = app.i
      BY <1>4, <3>1 DEF Notification
    <3> QED
      BY <1>1, <2>1, <2>3, <3>2 DEF NotifyInv, store
  <2>4. ASSUME app.chr \notin items PROVE NotifyInv'
    <3>1. app' = [app EXCEPT !.pc = "done"]
      BY <1>7, <2>4 DEF NotifyGetSockets
    <3>2. /\ app'.pc = "done" /\ app'.chr = app.chr
          /\ app'.alone = app.alone /\ app'.sent = app.sent
      BY <1>4, <3>1 DEF Notification
    <3> QED
      BY <1>1, <2>1, <2>4, <3>2 DEF NotifyInv, Listed, store
  <2> QED
    BY <1>2, <1>3, <1>4, <2>2, <2>3, <2>4
<1>8. CASE NotifyGetNumber
  <2>1. app.chr \in Chrs /\ app.chr \in items /\ app.pc = "number"
    BY <1>8 DEF NotifyInv, NotifyGetNumber
  <2>2. PICK n \in IF cnt[app.chr] = Wild THEN 0..MaxSubs ELSE {cnt[app.chr]} :
          app' = [app EXCEPT !.pc = IF app.ptr = Null \/ n < 1 THEN "done" ELSE "loop",
                             !.n = n]
    BY <1>8 DEF NotifyGetNumber
  <2>3. n \in Nat
    BY <2>1, ConstantsAssumption DEF TypeOK
  <2>4. app' \in Notification /\ UNCHANGED queue
    BY <1>4, <1>8, <2>2, <2>3 DEF NotifyGetNumber, Notification
  <2>5. ASSUME app.alone
        PROVE  /\ app.ptr = ptr[app.chr] /\ app.sent = <<>> /\ app.i = 1
               /\ put.pc \in {"idle", "entry", "add_first"}
    BY <2>1, <2>5 DEF NotifyInv
  <2>6. CASE app.ptr = Null
    <3>1. /\ app'.pc = "done" /\ app'.chr = app.chr
          /\ app'.alone = app.alone /\ app'.sent = app.sent
      BY <1>4, <2>2, <2>6 DEF Notification
    <3>2. NotifyInv'
      BY <1>1, <2>1, <2>5, <2>6, <3>1 DEF NotifyInv, Listed, store
    <3> QED
      BY <1>2, <1>3, <1>4, <2>4, <3>2
  <2>7. CASE app.ptr # Null
    <3>1. ASSUME app.alone PROVE ~Busy(app.chr)
      BY <2>5, <2>7, <3>1 
      DEF StoreInv, FirstInv, Busy, Array, BusyPcs, AddPcs, RemovePcs
    <3>2. ASSUME app.alone
          PROVE  /\ app.ptr \in Blocks /\ n = Len(Listed(app.chr))
                 /\ n \in Nat /\ n >= 1
      BY <2>1, <2>2, <2>3, <2>5, <2>7, <3>1, <3>2, ListedFits, ConstantsAssumption
      DEF StoreInv, TypeOK
    <3>3. NotifyInv'
      BY <1>1, <1>4, <1>5, <2>1, <2>2, <2>3, <2>5, <2>7, <3>1, <3>2
      DEF NotifyInv, Notification, store
    <3> QED
      BY <1>2, <1>3, <2>4, <1>4, <3>3
  <2> QED
    BY <1>2, <1>3, <1>4, <2>4, <2>6, <2>7
<1>9. CASE NotifySend
  <2>1. app.chr \in Chrs /\ app.chr \in items /\ app.pc = "loop" /\ app.i <= app.n
    BY <1>9 DEF NotifyInv, NotifySend
  <2>2. PICK f \in ReadFrom(app.ptr, app.i) :
          \/ /\ app.ok
             /\ queue' = Append(queue, f)
             /\ app' = [app EXCEPT !.i = @ + 1, !.sent = Append(@, f)]
          \/ /\ app' = [app EXCEPT !.i = @ + 1, !.ok = FALSE]
             /\ queue' = queue
    BY <1>9 DEF NotifySend
  <2>3. f \in Fd
    BY <1>4, <2>2, ConstantsAssumption DEF ReadFrom, TypeOK, Fd, Cell
  <2>4. app' \in Notification /\ queue' \in Seq(Fd)
    <3>1. Append(queue, f) \in Seq(Fd) /\ queue \in Seq(Fd)
      BY <1>4, <2>3, AppendProperties
    <3>2. app.sent \in Seq(Fd) /\ app.i \in Nat \ {0}
      BY <1>4 DEF Notification
    <3>3. Append(app.sent, f) \in Seq(Fd) /\ app.i + 1 \in Nat \ {0}
      BY <2>3, <3>2, AppendProperties
    <3>4. /\ [app EXCEPT !.i = @ + 1, !.sent = Append(@, f)] \in Notification
          /\ [app EXCEPT !.i = @ + 1, !.ok = FALSE] \in Notification
      BY <1>4, <3>3 DEF Notification
    <3> QED
      BY <2>2, <3>1, <3>4
  <2>5. ASSUME app.alone
        PROVE  /\ Listed(app.chr) \in Seq(Fds) /\ Listed(app.chr) = heap[app.ptr]
               /\ app.ptr \in Blocks /\ app.n = Len(Listed(app.chr))
               /\ app.i <= app.n + 1 /\ ~Busy(app.chr) /\ app.ptr = ptr[app.chr]
               /\ put.pc \in {"idle", "entry", "add_first"}
               /\ app.ok => /\ Len(app.sent) = app.i - 1
                            /\ \A k \in 1..(app.i - 1) : app.sent[k] = Listed(app.chr)[k]
    BY <2>1, <2>5, ListedFits, ConstantsAssumption DEF NotifyInv, StoreInv
  <2>6. ASSUME app.alone PROVE f = Listed(app.chr)[app.i]
    BY <1>4, <2>1, <2>2, <2>5, <2>6, ConstantsAssumption, NullIsNoArray DEF ReadFrom, Notification
  <2>7. ASSUME app'.alone, app'.ok
        PROVE  /\ Len(app'.sent) = app'.i - 1
               /\ \A k \in 1..(app'.i - 1) : app'.sent[k] = Listed(app.chr)[k]
    <3>1. app.alone /\ app.ok /\ app' = [app EXCEPT !.i = @ + 1, !.sent = Append(@, f)]
      BY <1>4, <2>2, <2>7 DEF Notification
    <3> QED
      BY <1>4, <2>3, <2>5, <2>6, <3>1 DEF Notification
  <2>8. NotifyInv'
    <3>1. /\ app'.pc = "loop" /\ app'.chr = app.chr /\ app'.alone = app.alone
          /\ app'.ptr = app.ptr /\ app'.n = app.n /\ app'.i = app.i + 1
      BY <1>4, <2>1, <2>2 DEF Notification
    <3>2. app.i \in Nat /\ app.n \in Nat
      BY <1>4 DEF Notification
    <3> QED
      BY <1>1, <1>5, <2>1, <2>5, <2>7, <3>1, <3>2 DEF NotifyInv, store
  <2> QED
    BY <1>2, <1>3, <2>4, <2>8
<1>10. CASE NotifyLoopEnds
  <2>1. app.chr \in Chrs /\ app.chr \in items /\ app.pc = "loop" /\ app.i > app.n
    BY <1>10 DEF NotifyInv, NotifyLoopEnds
  <2>2. app' \in Notification /\ UNCHANGED queue /\ app' = [app EXCEPT !.pc = "done"]
    BY <1>4, <1>10 DEF NotifyLoopEnds, Notification
  <2>3. ASSUME app.alone, app.ok PROVE app.sent = Listed(app.chr)
    <3>1. /\ Listed(app.chr) \in Seq(Fds) /\ app.n = Len(Listed(app.chr))
          /\ app.i <= app.n + 1 /\ Len(app.sent) = app.i - 1
          /\ \A k \in 1..(app.i - 1) : app.sent[k] = Listed(app.chr)[k]
      BY <2>1, <2>3, ListedFits DEF NotifyInv, StoreInv
    <3>2. Listed(app.chr) \in Seq(Fd) /\ app.sent \in Seq(Fd) /\ app.i \in Nat /\ app.n \in Nat
      BY <1>4, <3>1 DEF Notification, Fd
    <3>3. app.i = app.n + 1
      BY <2>1, <3>1, <3>2
    <3> QED
      BY <3>1, <3>2, <3>3, SeqEqual
  <2>4. NotifyInv'
    <3>1. /\ app'.pc = "done" /\ app'.chr = app.chr /\ app'.ok = app.ok
          /\ app'.alone = app.alone /\ app'.sent = app.sent
      BY <1>4, <2>2 DEF Notification
    <3> QED
      BY <1>1, <1>5, <2>1, <2>3, <3>1 DEF NotifyInv
  <2> QED
    BY <1>2, <1>3, <1>4, <2>2, <2>4
<1>11. CASE NotifyReturns
  <2>1. app' \in Notification /\ UNCHANGED queue /\ app'.pc = "idle"
    BY <1>11, NoneType DEF NotifyReturns, NoNotify
  <2> QED
    BY <1>2, <1>3, <1>4, <2>1 DEF NotifyInv
<1> QED
  BY <1>6, <1>7, <1>8, <1>9, <1>10, <1>11 DEF NotifyStep

LEMMA EventKeeps ==
  ASSUME Inv, SendEvent
  PROVE  Inv'
<1>1. TypeOK'
  BY HeadTailProperties DEF SendEvent, Inv, TypeOK, store
<1>2. StoreInv'
  BY StoreStays DEF SendEvent, Inv
<1> QED
  BY <1>1, <1>2 DEF SendEvent, Inv, NotifyInv, Listed, Busy, store

-----------------------------------------------------------------------------
(* Connections and requests: the store stays as it is, and so does what a  *)
(* notification knows of it.                                               *)

\* Outside of a change the handler only needs its socket.
LEMMA RestingStays ==
  ASSUME StoreInv, UNCHANGED store, put.pc \in {"idle", "entry"}, put'.pc \in {"idle", "entry"},
         put'.pc # "idle" => put'.fd \in Fds, put'.old = Null
  PROVE  StoreInv'
BY DEF StoreInv, OwnerInv, FirstInv, CopyInv, GrowInv, ShrinkInv, LastInv, Busy, ArrayFits,
       store, BusyPcs, CopyPcs, GrowPcs, ShrinkPcs, AddPcs, RemovePcs

LEMMA NotifyStays ==
  ASSUME NotifyInv, UNCHANGED <<store, app>>, put'.pc \in {"idle", "entry", "add_first"},
         ~Busy(app.chr)'
  PROVE  NotifyInv'
BY DEF NotifyInv, Listed, store

LEMMA WantsType ==
  ASSUME TypeOK, NEW f
  PROVE  /\ WithoutPeer(f) \in [Chrs -> SUBSET Fds]
         /\ \A c : [wants EXCEPT ![c] = @ \ {f}] \in [Chrs -> SUBSET Fds]
         /\ \A c : f \in Fds => [wants EXCEPT ![c] = @ \cup {f}] \in [Chrs -> SUBSET Fds]
BY DEF TypeOK, WithoutPeer

LEMMA RequestKeeps ==
  ASSUME Inv,
         \/ PutDone \/ PutFails
         \/ \E f \in Fds : Open(f) \/ Close(f) \/ PutRequest(f)
         \/ \E c \in Chrs : UnsubscribeNone(c)
  PROVE  Inv'
<1> USE DEF Inv
<1>1. put.pc \in {"idle", "entry"} /\ UNCHANGED <<store, app, queue>>
  BY DEF PutDone, PutFails, Open, Close, PutRequest, UnsubscribeNone
<1>2. /\ put' \in Handler /\ put'.pc \in {"idle", "entry"} /\ put'.old = Null
      /\ put'.pc # "idle" => put'.fd \in Fds
  <2>1. put \in Handler /\ put.old = Null
    BY <1>1 DEF TypeOK, StoreInv, OwnerInv, CopyPcs, GrowPcs, ShrinkPcs
  <2>2. ASSUME NEW f \in Fds
        PROVE  /\ [NoPut EXCEPT !.pc = "entry", !.fd = f] \in Handler
               /\ [NoPut EXCEPT !.pc = "entry", !.fd = f].pc = "entry"
               /\ [NoPut EXCEPT !.pc = "entry", !.fd = f].fd = f
               /\ [NoPut EXCEPT !.pc = "entry", !.fd = f].old = Null
    BY DEF NoPut, Handler
  <2>3. \/ put' = put \/ put' = NoPut
        \/ \E f \in Fds : put' = [NoPut EXCEPT !.pc = "entry", !.fd = f]
    BY DEF PutDone, PutFails, Open, Close, PutRequest, UnsubscribeNone
  <2>4. NoPut.pc = "idle" /\ NoPut.old = Null
    BY DEF NoPut
  <2>5. put.pc # "idle" => put.fd \in Fds
    BY DEF StoreInv, OwnerInv
  <2>6. CASE put' = put
    BY <1>1, <2>1, <2>5, <2>6
  <2>7. CASE put' = NoPut
    BY <2>4, <2>7, NoneType
  <2>8. CASE \E f \in Fds : put' = [NoPut EXCEPT !.pc = "entry", !.fd = f]
    BY <2>2, <2>8
  <2> QED
    BY <2>3, <2>6, <2>7, <2>8
<1>3. open' \subseteq Fds
  BY DEF PutDone, PutFails, Open, Close, PutRequest, UnsubscribeNone, TypeOK
<1>4. wants' \in [Chrs -> SUBSET Fds]
  <2>1. \/ wants' = wants
        \/ \E f : wants' = WithoutPeer(f)
        \/ \E c, f : wants' = [wants EXCEPT ![c] = @ \ {f}]
    BY DEF PutDone, PutFails, Open, Close, PutRequest, UnsubscribeNone, Unsubscribed
  <2> QED
    BY <2>1, WantsType DEF TypeOK
<1>5. TypeOK'
  BY <1>1, <1>2, <1>3, <1>4 DEF TypeOK, store
<1>6. StoreInv'
  BY <1>1, <1>2, RestingStays
<1>7. ~Busy(app.chr)'
  BY <1>1, <1>2 DEF Busy, BusyPcs, AddPcs, RemovePcs
<1> QED
  BY <1>1, <1>2, <1>5, <1>6, <1>7, NotifyStays

LEMMA FirstKeeps ==
  ASSUME Inv, NEW c \in Chrs, SubscribeEmpty(c)
  PROVE  Inv'
<1> USE DEF Inv
<1>1. /\ put.pc = "entry" /\ c \in items /\ ptr[c] = Null
      /\ put' = [put EXCEPT !.pc = "add_first", !.chr = c]
      /\ UNCHANGED <<store, open, wants, app, queue>>
  BY DEF SubscribeEmpty
<1>2. put' \in Handler /\ put'.pc = "add_first" /\ put'.chr = c /\ put'.fd = put.fd /\ put'.old = put.old
  BY <1>1 DEF TypeOK, Handler, AddPcs
<1>3. TypeOK'
  BY <1>1, <1>2 DEF TypeOK, store
<1>4. StoreInv'
  BY <1>1, <1>2
  DEF StoreInv, OwnerInv, FirstInv, CopyInv, GrowInv, ShrinkInv, LastInv, Busy, ArrayFits,
      store, Array, BusyPcs, CopyPcs, GrowPcs, ShrinkPcs, AddPcs, RemovePcs
<1>5. NotifyInv'
  BY <1>1, <1>2, ConstantsAssumption
  DEF NotifyInv, Listed, store, Busy
<1> QED
  BY <1>3, <1>4, <1>5

LEMMA InitInv == Init => Inv
<1> SUFFICES ASSUME Init PROVE Inv
  OBVIOUS
<1>1. TypeOK
  BY NoneType DEF Init, TypeOK
<1>2. StoreInv
  BY DEF Init, StoreInv, OwnerInv, FirstInv, CopyInv, GrowInv, ShrinkInv, LastInv, NoPut,
         BusyPcs, CopyPcs, GrowPcs, ShrinkPcs, AddPcs, RemovePcs
<1> QED
  BY <1>1, <1>2 DEF Init, Inv, NotifyInv, NoNotify

LEMMA PanicKeeps ==
  ASSUME SendPanics \/ NotifyPanics
  PROVE  Inv'
<1> SUFFICES ASSUME Restart PROVE Inv'
  BY DEF SendPanics, NotifyPanics
<1>1. TypeOK'
  BY NoneType DEF Restart, TypeOK
<1>2. StoreInv'
  BY DEF Restart, StoreInv, OwnerInv, FirstInv, CopyInv, GrowInv, ShrinkInv, LastInv, NoPut,
         BusyPcs, CopyPcs, GrowPcs, ShrinkPcs, AddPcs, RemovePcs
<1> QED
  BY <1>1, <1>2 DEF Restart, Inv, NotifyInv, NoNotify

-----------------------------------------------------------------------------
(* Changes of the store.  Each step belongs to one characteristic and      *)
(* leaves the elements and arrays of all others as they are.               *)

LEMMA PutChanges ==
  ASSUME TypeOK, OwnerInv
  PROVE  /\ \A pc \in BusyPcs : Goto(pc) =>
              /\ put' \in Handler /\ put'.pc = pc /\ put'.fd = put.fd
              /\ put'.chr = put.chr /\ put'.old = put.old
         /\ NextEntry /\ put.pc # "idle" =>
              /\ put' \in Handler /\ put'.pc = "entry" /\ put'.fd = put.fd
              /\ put'.chr = Null /\ put'.old = Null
BY DEF TypeOK, OwnerInv, Handler, Goto, NextEntry, NoPut, BusyPcs

LEMMA FitsIsAllocated ==
  ASSUME OwnerInv, NEW d \in items, ~Busy(d), ptr[d] \in Blocks
  PROVE  heap[ptr[d]] # Null
BY NullIsNoArray, ConstantsAssumption DEF OwnerInv, ArrayFits

Rest(c) ==
  \A d \in items \ {c} :
    /\ ptr'[d] = ptr[d] /\ cnt'[d] = cnt[d]
    /\ ptr[d] \in Blocks => ptr[d] # ptr'[c] /\ heap'[ptr[d]] = heap[ptr[d]]

LEMMA OwnerKeeps ==
  ASSUME OwnerInv, NEW c \in Chrs, items' = items \cup {c}, Rest(c),
         \A d \in items \ {c} : ~Busy(d),
         put'.fd \in Fds,
         put'.pc \in BusyPcs => put'.chr = c,
         put'.pc \notin BusyPcs => ArrayFits(c)',
         put'.pc \notin CopyPcs => put'.old = Null,
         \A b \in Blocks : heap'[b] # Null =>
            \/ b = put'.old \/ b = ptr'[c]
            \/ heap[b] # Null /\ b # put.old /\ (c \in items => b # ptr[c])
  PROVE  OwnerInv'
<1>1. ASSUME NEW d \in items \ {c}
      PROVE  ArrayFits(d)'
  BY <1>1 DEF Rest, OwnerInv, ArrayFits
<1>2. \A d \in items' : Busy(d)' \/ ArrayFits(d)'
  BY <1>1 DEF Busy
<1>3. \A d, e \in items' : ptr'[d] = ptr'[e] /\ ptr'[d] \in Blocks => d = e
  BY DEF Rest, OwnerInv
<1>4. ASSUME NEW b \in Blocks, heap'[b] # Null
      PROVE  b = put'.old \/ \E d \in items' : ptr'[d] = b
  <2>1. CASE heap[b] # Null /\ b # put.old /\ (c \in items => b # ptr[c])
    <3>1. PICK d \in items : ptr[d] = b
      BY <1>4, <2>1 DEF OwnerInv
    <3> QED
      BY <2>1, <3>1 DEF Rest
  <2> QED
    BY <1>4, <2>1
<1> QED
  BY <1>2, <1>3, <1>4 DEF OwnerInv

LEMMA ChangeKeeps ==
  ASSUME Inv, Disturb, put' \in Handler, items \subseteq items', items' \subseteq Chrs,
         ptr' \in [Chrs -> Blocks \cup {Null, Wild}], cnt' \in [Chrs -> Nat \cup {Wild}],
         heap' \in [Blocks -> Seq(Cell) \cup {Null}], wants' \in [Chrs -> SUBSET Fds],
         UNCHANGED <<open, queue>>, StoreInv'
  PROVE  Inv'
<1>1. app' \in Notification /\ app'.pc = app.pc /\ app'.chr = app.chr
      /\ (app.pc # "idle" => ~app'.alone)
  <2>1. app \in Notification /\ (app.pc = "idle") \in BOOLEAN
    BY DEF Inv, TypeOK
  <2>2. \A a \in BOOLEAN : [app EXCEPT !.alone = a] \in Notification
    BY <2>1 DEF Notification
  <2>3. app'.alone = (app.pc = "idle") /\ app'.pc = app.pc /\ app'.chr = app.chr
    BY <2>1 DEF Disturb, Notification
  <2> QED
    BY <2>1, <2>2, <2>3 DEF Disturb
<1>2. TypeOK'
  BY <1>1 DEF Inv, TypeOK
<1>3. NotifyInv'
  BY <1>1 DEF Inv, NotifyInv
<1> QED
  BY <1>2, <1>3 DEF Inv

\* What a change knows of its own element and of the others.
LEMMA ChangeKnows ==
  ASSUME TypeOK, StoreInv, put.pc \in BusyPcs
  PROVE  /\ put.chr \in Chrs /\ put.chr \in items /\ put.fd \in Fds
         /\ \A d \in items \ {put.chr} :
              /\ ~Busy(d)
              /\ ptr[d] \in Blocks => heap[ptr[d]] # Null /\ ptr[d] # Array
         /\ items = items \cup {put.chr}
<1>1. put.chr \in items /\ put.fd \in Fds
  BY DEF StoreInv, OwnerInv, BusyPcs, AddPcs, RemovePcs
<1>2. \A d \in items \ {put.chr} : ~Busy(d)
  BY DEF Busy
<1> QED
  BY <1>1, <1>2, FitsIsAllocated DEF TypeOK, StoreInv, OwnerInv, Array

\* What is done of a change says nothing in its other phases.
LEMMA Phases ==
  ASSUME OwnerInv', put'.pc \in BusyPcs \cup {"entry"},
         put'.pc \in {"add_clear", "add_first", "add_one", "add_set"} => FirstInv',
         put'.pc \in CopyPcs => CopyInv',
         put'.pc \in GrowPcs => GrowInv',
         put'.pc \in ShrinkPcs => ShrinkInv',
         put'.pc \in {"last_free", "last_clear"} => LastInv'
  PROVE  StoreInv'
BY DEF StoreInv, FirstInv, CopyInv, GrowInv, ShrinkInv, LastInv, CopyPcs, GrowPcs, ShrinkPcs

\* malloc returns a block that belongs to no element; the element of the change gets it.
LEMMA MallocGives ==
  ASSUME TypeOK, StoreInv, put.pc \in BusyPcs,
         NEW b \in Blocks, NEW n \in Nat, Malloc(b, n), SetSockets(b),
         UNCHANGED <<items, cnt>>, put.old = Null => Array \notin Blocks,
         put.old # Null => Array = put.old, put'.old = put.old
  PROVE  /\ Rest(put.chr)
         /\ ptr' \in [Chrs -> Blocks \cup {Null, Wild}] /\ heap' \in [Blocks -> Seq(Cell) \cup {Null}]
         /\ ptr'[put.chr] = b /\ heap'[b] = [i \in 1..n |-> Wild]
         /\ \A a \in Blocks \ {b} : heap'[a] = heap[a]
         /\ heap[b] = Null
         /\ \A a \in Blocks : heap'[a] # Null =>
              \/ a = put'.old \/ a = ptr'[put.chr]
              \/ heap[a] # Null /\ a # put.old /\ a # ptr[put.chr]
<1>1. put.chr \in Chrs /\ put.chr \in items
  BY ChangeKnows
<1>2. [i \in 1..n |-> Wild] \in Seq(Cell)
  BY DEF Cell
<1>3. /\ ptr' \in [Chrs -> Blocks \cup {Null, Wild}] /\ heap' \in [Blocks -> Seq(Cell) \cup {Null}]
      /\ ptr'[put.chr] = b /\ heap'[b] = [i \in 1..n |-> Wild] /\ heap[b] = Null
      /\ \A a \in Blocks \ {b} : heap'[a] = heap[a]
      /\ \A d \in Chrs \ {put.chr} : ptr'[d] = ptr[d]
  BY <1>1, <1>2 DEF Malloc, SetSockets, TypeOK
<1>4. Rest(put.chr)
  BY <1>1, <1>3, ChangeKnows DEF Rest, TypeOK
<1> QED
  BY <1>1, <1>3, <1>4, ConstantsAssumption DEF Array

LEMMA FirstStepKeeps ==
  ASSUME Inv, AddClear \/ AddFirst \/ AddOne \/ AddSet
  PROVE  Inv'
<1> USE DEF Inv
<1>1. put.pc \in BusyPcs /\ put.pc \notin CopyPcs
  BY DEF AddClear, AddFirst, AddOne, AddSet, BusyPcs, AddPcs, CopyPcs, GrowPcs, ShrinkPcs
<1>2. /\ put.chr \in Chrs /\ put.chr \in items /\ put.fd \in Fds /\ put.old = Null
      /\ \A d \in items \ {put.chr} : ~Busy(d)
      /\ items = items \cup {put.chr}
  BY <1>1, ChangeKnows DEF StoreInv, OwnerInv
<1>3. CASE AddClear
  <2>1. /\ put' \in Handler /\ put'.pc = "add_first" /\ put'.fd = put.fd
        /\ put'.chr = put.chr /\ put'.old = Null
    BY <1>2, <1>3, PutChanges DEF AddClear, StoreInv, BusyPcs, AddPcs
  <2>2. /\ Array = Wild /\ ptr'[put.chr] = Null /\ UNCHANGED <<items, cnt, heap>>
        /\ \A d \in Chrs \ {put.chr} : ptr'[d] = ptr[d]
        /\ ptr' \in [Chrs -> Blocks \cup {Null, Wild}]
    BY <1>2, <1>3 DEF AddClear, SetSockets, StoreInv, FirstInv, TypeOK
  <2>3. Rest(put.chr)
    BY <1>2, <2>2, ConstantsAssumption DEF Rest, TypeOK
  <2>4. OwnerInv'
    BY <1>2, <2>1, <2>2, <2>3, OwnerKeeps, ConstantsAssumption
    DEF StoreInv, Array, BusyPcs, AddPcs, CopyPcs, GrowPcs, ShrinkPcs
  <2>5. FirstInv'
    BY <2>1, <2>2 DEF FirstInv, Array
  <2>6. StoreInv'
    BY <2>1, <2>4, <2>5, Phases DEF BusyPcs, AddPcs, CopyPcs, GrowPcs, ShrinkPcs
  <2> QED
    BY <1>3, <2>1, <2>2, <2>6, ChangeKeeps DEF AddClear, TypeOK
<1>4. CASE AddFirst
  <2>1. /\ put' \in Handler /\ put'.pc = "add_one" /\ put'.fd = put.fd
        /\ put'.chr = put.chr /\ put'.old = Null
    BY <1>2, <1>4, PutChanges DEF AddFirst, StoreInv, BusyPcs, AddPcs
  <2>2. PICK b \in Blocks : Malloc(b, 1) /\ SetSockets(b)
    BY <1>4 DEF AddFirst
  <2>3. Array = Null /\ UNCHANGED <<items, cnt>>
    BY <1>4 DEF AddFirst, StoreInv, FirstInv
  <2>4. /\ Rest(put.chr)
        /\ ptr' \in [Chrs -> Blocks \cup {Null, Wild}] /\ heap' \in [Blocks -> Seq(Cell) \cup {Null}]
        /\ ptr'[put.chr] = b /\ heap'[b] = [i \in 1..1 |-> Wild]
        /\ \A a \in Blocks : heap'[a] # Null =>
             \/ a = put'.old \/ a = ptr'[put.chr]
             \/ heap[a] # Null /\ a # put.old /\ a # ptr[put.chr]
    BY <1>1, <1>2, <2>1, <2>2, <2>3, MallocGives, ConstantsAssumption
  <2>5. OwnerInv'
    BY <1>2, <2>1, <2>3, <2>4, OwnerKeeps
    DEF StoreInv, BusyPcs, AddPcs, CopyPcs, GrowPcs, ShrinkPcs
  <2>6. [i \in 1..1 |-> Wild] = <<Wild>>
    OBVIOUS
  <2>7. FirstInv'
    BY <2>1, <2>4, <2>6 DEF FirstInv, Array, New
  <2>8. StoreInv'
    BY <2>1, <2>5, <2>7, Phases DEF BusyPcs, AddPcs, CopyPcs, GrowPcs, ShrinkPcs
  <2> QED
    BY <1>4, <2>1, <2>3, <2>4, <2>8, ChangeKeeps DEF AddFirst, TypeOK
<1>5. CASE AddOne
  <2>1. /\ put' \in Handler /\ put'.pc = "add_set" /\ put'.fd = put.fd
        /\ put'.chr = put.chr /\ put'.old = Null
    BY <1>2, <1>5, PutChanges DEF AddOne, StoreInv, BusyPcs, AddPcs
  <2>2. /\ cnt'[put.chr] = 1 /\ UNCHANGED <<items, ptr, heap>>
        /\ \A d \in Chrs \ {put.chr} : cnt'[d] = cnt[d]
        /\ cnt' \in [Chrs -> Nat \cup {Wild}]
    BY <1>2, <1>5 DEF AddOne, SetNumber, TypeOK
  <2>3. Rest(put.chr)
    BY <1>1, <1>2, <2>2, ChangeKnows DEF Rest, TypeOK, Array
  <2>4. OwnerInv'
    BY <1>2, <2>1, <2>2, <2>3, OwnerKeeps, ConstantsAssumption
    DEF StoreInv, Array, BusyPcs, AddPcs, CopyPcs, GrowPcs, ShrinkPcs
  <2>5. FirstInv'
    BY <1>5, <2>1, <2>2 DEF AddOne, StoreInv, FirstInv, Array, New, Count
  <2>6. StoreInv'
    BY <2>1, <2>4, <2>5, Phases DEF BusyPcs, AddPcs, CopyPcs, GrowPcs, ShrinkPcs
  <2> QED
    BY <1>5, <2>1, <2>2, <2>6, ChangeKeeps DEF AddOne, TypeOK
<1>6. CASE AddSet
  <2>1. /\ put' \in Handler /\ put'.pc = "entry" /\ put'.fd = put.fd
        /\ put'.chr = Null /\ put'.old = Null
    BY <1>2, <1>6, PutChanges DEF AddSet, StoreInv
  <2>2. Array \in Blocks /\ New = <<Wild>> /\ Count = 1
    BY <1>6 DEF AddSet, StoreInv, FirstInv
  <2>3. /\ heap'[Array] = <<put.fd>> /\ UNCHANGED <<items, ptr, cnt>>
        /\ \A a \in Blocks \ {Array} : heap'[a] = heap[a]
        /\ heap' \in [Blocks -> Seq(Cell) \cup {Null}]
    <3>1. [<<Wild>> EXCEPT ![1] = put.fd] = <<put.fd>> /\ <<put.fd>> \in Seq(Cell)
      BY <1>2 DEF Cell
    <3> QED
      BY <1>6, <2>2, <3>1 DEF AddSet, TypeOK, New
  <2>4. Rest(put.chr)
    BY <1>1, <1>2, <2>3, ChangeKnows DEF Rest, TypeOK, Array
  <2>5. ASSUME NEW c, c = put.chr
        PROVE  ArrayFits(c)'
    <3>1. <<put.fd>> \in Seq(Fds) /\ Len(<<put.fd>>) = 1
      BY <1>2
    <3>2. ptr'[c] = Array /\ cnt'[c] = 1
      BY <2>2, <2>3, <2>5 DEF Array, Count
    <3>3. ptr'[c] \in Blocks /\ ptr'[c] # Null /\ heap'[ptr'[c]] = <<put.fd>>
      BY <2>2, <2>3, <3>2, ConstantsAssumption
    <3> QED
      BY <3>1, <3>2, <3>3 DEF ArrayFits
  <2>6. OwnerInv'
    BY <1>2, <2>1, <2>2, <2>3, <2>4, <2>5, OwnerKeeps, ConstantsAssumption
    DEF StoreInv, Array, BusyPcs, AddPcs, RemovePcs, CopyPcs, GrowPcs, ShrinkPcs
  <2>7. StoreInv'
    BY <2>1, <2>6, Phases DEF BusyPcs, AddPcs, CopyPcs, GrowPcs, ShrinkPcs
  <2>8. wants' \in [Chrs -> SUBSET Fds]
    BY <1>2, <1>6, WantsType DEF AddSet, Subscribed
  <2> QED
    BY <1>6, <2>1, <2>3, <2>7, <2>8, ChangeKeeps DEF AddSet, TypeOK
<1> QED
  BY <1>3, <1>4, <1>5, <1>6

-----------------------------------------------------------------------------
(* Changes that copy the array: the new array is allocated, written and    *)
(* takes the place of the old one, which is freed.                         *)

\* The change goes on as pc: its locals stay.
Proceeds(pc) ==
  /\ put' \in Handler /\ put'.pc = pc /\ put'.fd = put.fd
  /\ put'.chr = put.chr /\ put'.old = put.old

LEMMA AllocKeeps ==
  ASSUME Inv, put.pc \in {"add_alloc", "rem_alloc"},
         NEW pc \in CopyPcs \ {"add_alloc", "rem_alloc"}, Goto(pc), Count \in Nat,
         NEW b \in Blocks, Malloc(b, Count), SetSockets(b), UNCHANGED <<items, cnt>>
  PROVE  /\ Proceeds(pc) /\ OwnerInv' /\ CopyInv' /\ Old' = Old /\ Count' = Count
         /\ ptr' \in [Chrs -> Blocks \cup {Null, Wild}] /\ heap' \in [Blocks -> Seq(Cell) \cup {Null}]
<1> USE DEF Inv
<1>1. /\ put.pc \in BusyPcs /\ put.pc \in CopyPcs /\ pc \in BusyPcs /\ pc \in CopyPcs
  BY DEF BusyPcs, AddPcs, RemovePcs, CopyPcs, GrowPcs, ShrinkPcs
<1>2. /\ put.chr \in Chrs /\ put.chr \in items /\ put.fd \in Fds
      /\ \A d \in items \ {put.chr} :
           ~Busy(d) /\ (ptr[d] \in Blocks => heap[ptr[d]] # Null /\ ptr[d] # Array)
      /\ items = items \cup {put.chr}
  BY <1>1, ChangeKnows
<1>3. put.old \in Blocks /\ Old \in Seq(Fds) /\ Array = put.old
  BY <1>1 DEF StoreInv, CopyInv
<1>4. Proceeds(pc)
  BY <1>1, PutChanges DEF StoreInv, Proceeds
<1>5. /\ Rest(put.chr)
      /\ ptr' \in [Chrs -> Blocks \cup {Null, Wild}] /\ heap' \in [Blocks -> Seq(Cell) \cup {Null}]
      /\ ptr'[put.chr] = b /\ heap'[b] = [i \in 1..Count |-> Wild] /\ heap[b] = Null
      /\ \A a \in Blocks \ {b} : heap'[a] = heap[a]
      /\ \A a \in Blocks : heap'[a] # Null =>
           \/ a = put'.old \/ a = ptr'[put.chr]
           \/ heap[a] # Null /\ a # put.old /\ a # ptr[put.chr]
  BY <1>1, <1>3, <1>4, MallocGives, ConstantsAssumption DEF Proceeds
<1>6. put.old # b
  BY <1>3, <1>5, NullIsNoArray DEF Old
<1>7. OwnerInv'
  BY <1>1, <1>2, <1>4, <1>5, OwnerKeeps DEF StoreInv, Proceeds
<1>8. Old' = Old /\ Count' = Count /\ Array' = b
  BY <1>3, <1>4, <1>5, <1>6 DEF Old, Count, Array, Proceeds
<1>9. New' \in Seq(Cell) /\ Len(New') = Count
  BY <1>5, <1>8 DEF New, Cell
<1>10. \A c \in items' : ptr'[c] # put'.old
  BY <1>2, <1>3, <1>4, <1>5, <1>6 DEF Rest, Proceeds
<1>11. CopyInv'
  BY <1>3, <1>4, <1>8, <1>9, <1>10 DEF CopyInv, Proceeds
<1> QED
  BY <1>4, <1>5, <1>7, <1>8, <1>11

LEMMA WriteKeeps ==
  ASSUME Inv, NEW pc \in CopyPcs \ {"add_alloc", "rem_alloc"}, Goto(pc),
         put.pc \in CopyPcs \ {"add_alloc", "rem_alloc"},
         NEW list \in Seq(Cell), Len(list) = Count, heap' = [heap EXCEPT ![Array] = list],
         UNCHANGED <<items, ptr, cnt>>
  PROVE  /\ Proceeds(pc) /\ OwnerInv' /\ CopyInv' /\ Old' = Old /\ Count' = Count /\ New' = list
         /\ heap' \in [Blocks -> Seq(Cell) \cup {Null}]
<1> USE DEF Inv
<1>1. /\ put.pc \in BusyPcs /\ pc \in BusyPcs /\ pc \in CopyPcs
  BY DEF BusyPcs, AddPcs, RemovePcs, CopyPcs, GrowPcs, ShrinkPcs
<1>2. /\ put.chr \in Chrs /\ put.chr \in items /\ put.fd \in Fds
      /\ \A d \in items \ {put.chr} :
           ~Busy(d) /\ (ptr[d] \in Blocks => heap[ptr[d]] # Null /\ ptr[d] # Array)
      /\ items = items \cup {put.chr}
  BY <1>1, ChangeKnows
<1>3. /\ put.old \in Blocks /\ Old \in Seq(Fds) /\ Array \in Blocks
      /\ New \in Seq(Cell) /\ \A c \in items : ptr[c] # put.old
  BY DEF StoreInv, CopyInv
<1>4. Proceeds(pc)
  BY <1>1, PutChanges DEF StoreInv, Proceeds
<1>5. /\ heap'[Array] = list /\ \A a \in Blocks \ {Array} : heap'[a] = heap[a]
      /\ heap' \in [Blocks -> Seq(Cell) \cup {Null}]
  BY <1>3 DEF TypeOK
<1>6. Rest(put.chr)
  BY <1>2, <1>5 DEF Rest, Array
<1>7. put.old # Array
  BY <1>2, <1>3 DEF Array
<1>8. New # Null
  BY <1>3, NullIsNoArray
<1>9. OwnerInv'
  <2>1. \A a \in Blocks : heap'[a] # Null =>
          \/ a = put'.old \/ a = ptr'[put.chr]
          \/ heap[a] # Null /\ a # put.old /\ a # ptr[put.chr]
    BY <1>4, <1>5 DEF Array, Proceeds
  <2> QED
    BY <1>1, <1>2, <1>4, <1>6, <2>1, OwnerKeeps DEF StoreInv, Proceeds
<1>10. Old' = Old /\ Count' = Count /\ Array' = Array /\ New' = list
  BY <1>3, <1>4, <1>5, <1>7 DEF Old, Count, Array, New, Proceeds
<1>11. CopyInv'
  BY <1>3, <1>4, <1>10 DEF CopyInv, Proceeds
<1> QED
  BY <1>4, <1>5, <1>9, <1>10, <1>11

LEMMA FreeKeeps ==
  ASSUME Inv, put.pc \in {"add_free", "rem_free"}, New \in Seq(Fds), Len(New) > 0,
         NextEntry, heap' = [heap EXCEPT ![put.old] = Null], UNCHANGED <<items, ptr, cnt>>
  PROVE  /\ StoreInv' /\ put' \in Handler /\ heap' \in [Blocks -> Seq(Cell) \cup {Null}]
<1> USE DEF Inv
<1>1. put.pc \in BusyPcs /\ put.pc \in CopyPcs
  BY DEF BusyPcs, AddPcs, RemovePcs, CopyPcs, GrowPcs, ShrinkPcs
<1>2. /\ put.chr \in Chrs /\ put.chr \in items /\ put.fd \in Fds
      /\ \A d \in items \ {put.chr} : ~Busy(d)
      /\ items = items \cup {put.chr}
  BY <1>1, ChangeKnows
<1>3. /\ put.old \in Blocks /\ Array \in Blocks /\ Len(New) = Count
      /\ \A c \in items : ptr[c] # put.old
  BY <1>1 DEF StoreInv, CopyInv
<1>4. /\ put' \in Handler /\ put'.pc = "entry" /\ put'.fd = put.fd
      /\ put'.chr = Null /\ put'.old = Null
  BY PutChanges DEF StoreInv
<1>5. /\ heap'[put.old] = Null /\ \A a \in Blocks \ {put.old} : heap'[a] = heap[a]
      /\ heap' \in [Blocks -> Seq(Cell) \cup {Null}]
  BY <1>3 DEF TypeOK
<1>6. Rest(put.chr)
  BY <1>1, <1>2, <1>3, <1>5, ChangeKnows DEF Rest, Array
<1>7. ASSUME NEW c, c = put.chr
      PROVE  ArrayFits(c)'
  <2>1. ptr'[c] = Array /\ cnt'[c] = Len(New) /\ heap'[ptr'[c]] = New
    BY <1>2, <1>3, <1>5, <1>7 DEF Array, Count, New
  <2>2. ptr'[c] \in Blocks /\ ptr'[c] # Null
    BY <1>3, <2>1, ConstantsAssumption
  <2> QED
    BY <2>1, <2>2 DEF ArrayFits
<1>8. OwnerInv'
  <2>1. put'.pc \notin BusyPcs /\ put'.pc \notin CopyPcs
    BY <1>4 DEF BusyPcs, AddPcs, RemovePcs, CopyPcs, GrowPcs, ShrinkPcs
  <2>2. \A a \in Blocks : heap'[a] # Null =>
          \/ a = put'.old \/ a = ptr'[put.chr]
          \/ heap[a] # Null /\ a # put.old /\ a # ptr[put.chr]
    BY <1>3, <1>5 DEF Array
  <2> QED
    BY <1>2, <1>4, <1>6, <1>7, <2>1, <2>2, OwnerKeeps DEF StoreInv
<1>9. StoreInv'
  BY <1>4, <1>8, Phases DEF BusyPcs, AddPcs, CopyPcs, GrowPcs, ShrinkPcs
<1> QED
  BY <1>4, <1>5, <1>9

LEMMA GrowStepKeeps ==
  ASSUME Inv, AddAlloc \/ AddLast \/ AddCopy \/ AddFree
  PROVE  Inv'
<1> USE DEF Inv
<1>1. /\ put.pc \in GrowPcs /\ put.pc \in CopyPcs /\ put.pc \in BusyPcs
      /\ UNCHANGED <<items, cnt>> /\ Disturb /\ UNCHANGED <<open, queue>>
  BY DEF AddAlloc, AddLast, AddCopy, AddFree, GrowPcs, CopyPcs, BusyPcs, AddPcs
<1>2. /\ put.chr \in Chrs /\ put.fd \in Fds /\ put.fd \in Cell
      /\ Old \in Seq(Fds) /\ Count = Len(Old) + 1 /\ Len(Old) \in 1..(MaxSubs - 1)
  BY <1>1, ChangeKnows DEF StoreInv, CopyInv, GrowInv, Cell
<1>3. Count \in Nat
  BY <1>2
<1>4. CASE AddAlloc
  <2>1. PICK b \in Blocks : Malloc(b, Count) /\ SetSockets(b)
    BY <1>4 DEF AddAlloc, Count
  <2>2. /\ Proceeds("add_last") /\ OwnerInv' /\ CopyInv' /\ Old' = Old /\ Count' = Count
        /\ ptr' \in [Chrs -> Blocks \cup {Null, Wild}] /\ heap' \in [Blocks -> Seq(Cell) \cup {Null}]
    BY <1>1, <1>3, <1>4, <2>1, AllocKeeps DEF AddAlloc, CopyPcs, GrowPcs, ShrinkPcs
  <2>3. GrowInv'
    BY <1>2, <2>2 DEF GrowInv, Proceeds
  <2>4. StoreInv'
    BY <2>2, <2>3, Phases DEF Proceeds, BusyPcs, AddPcs, CopyPcs, GrowPcs, ShrinkPcs
  <2> QED
    BY <1>1, <1>4, <2>2, <2>4, ChangeKeeps DEF AddAlloc, Proceeds, TypeOK
<1>5. CASE AddLast
  <2> DEFINE list == [New EXCEPT ![Count] = put.fd]
  <2>1. New \in Seq(Cell) /\ Len(New) = Count /\ Array \in Blocks
    BY <1>5 DEF AddLast, StoreInv, CopyInv, CopyPcs, GrowPcs
  <2>2. list \in Seq(Cell) /\ Len(list) = Count /\ list[Count] = put.fd
    BY <1>2, <1>3, <2>1
  <2>3. heap' = [heap EXCEPT ![Array] = list]
    BY <1>5, <2>1 DEF AddLast, New, Count, TypeOK
  <2>4. /\ Proceeds("add_copy") /\ OwnerInv' /\ CopyInv' /\ Old' = Old /\ Count' = Count
        /\ New' = list /\ heap' \in [Blocks -> Seq(Cell) \cup {Null}]
    <3> HIDE DEF list
    <3> QED
      BY <1>1, <1>5, <2>2, <2>3, WriteKeeps DEF AddLast, CopyPcs, GrowPcs, ShrinkPcs
  <2>5. GrowInv'
    BY <1>2, <2>2, <2>4 DEF GrowInv, Proceeds
  <2>6. StoreInv'
    BY <2>4, <2>5, Phases DEF Proceeds, BusyPcs, AddPcs, CopyPcs, GrowPcs, ShrinkPcs
  <2> QED
    BY <1>1, <1>5, <2>4, <2>6, ChangeKeeps DEF AddLast, Proceeds, TypeOK
<1>6. CASE AddCopy
  <2> DEFINE list == [i \in DOMAIN New |-> IF i < Count THEN Old[i] ELSE New[i]]
  <2>1. New \in Seq(Cell) /\ Len(New) = Count /\ Array \in Blocks /\ New[Count] = put.fd
    BY <1>6 DEF AddCopy, StoreInv, CopyInv, GrowInv, CopyPcs, GrowPcs
  <2>2. list \in Seq(Cell) /\ Len(list) = Count
    BY <1>2, <1>3, <2>1 DEF Cell
  <2>3. heap' = [heap EXCEPT ![Array] = list]
    BY <1>6, <2>1 DEF AddCopy, New, Old, Count, TypeOK
  <2>4. list = Append(Old, put.fd)
    <3>1. Append(Old, put.fd) \in Seq(Cell) /\ Len(Append(Old, put.fd)) = Count
      BY <1>2 DEF Cell
    <3>2. \A i \in 1..Count : list[i] = Append(Old, put.fd)[i]
      BY <1>2, <2>1
    <3> HIDE DEF list
    <3> QED
      BY <2>2, <3>1, <3>2, SeqEqual
  <2>5. /\ Proceeds("add_free") /\ OwnerInv' /\ CopyInv' /\ Old' = Old /\ Count' = Count
        /\ New' = list /\ heap' \in [Blocks -> Seq(Cell) \cup {Null}]
    <3> HIDE DEF list
    <3> QED
      BY <1>1, <1>6, <2>2, <2>3, WriteKeeps DEF AddCopy, CopyPcs, GrowPcs, ShrinkPcs
  <2> HIDE DEF list
  <2>6. GrowInv'
    BY <1>2, <2>4, <2>5 DEF GrowInv, Proceeds
  <2>7. StoreInv'
    BY <2>5, <2>6, Phases DEF Proceeds, BusyPcs, AddPcs, CopyPcs, GrowPcs, ShrinkPcs
  <2> QED
    BY <1>1, <1>6, <2>5, <2>7, ChangeKeeps DEF AddCopy, Proceeds, TypeOK
<1>7. CASE AddFree
  <2>1. New = Append(Old, put.fd)
    BY <1>7 DEF AddFree, StoreInv, GrowInv
  <2>2. New \in Seq(Fds) /\ Len(New) > 0
    BY <1>2, <2>1
  <2>3. StoreInv' /\ put' \in Handler /\ heap' \in [Blocks -> Seq(Cell) \cup {Null}]
    BY <1>1, <1>7, <2>2, FreeKeeps DEF AddFree
  <2>4. wants' \in [Chrs -> SUBSET Fds]
    BY <1>2, <1>7, WantsType DEF AddFree, Subscribed
  <2> QED
    BY <1>1, <1>7, <2>3, <2>4, ChangeKeeps DEF AddFree, TypeOK
<1> QED
  BY <1>4, <1>5, <1>6, <1>7

LEMMA ShrinkStepKeeps ==
  ASSUME Inv, RemAlloc \/ RemHead \/ RemTail \/ RemFree
  PROVE  Inv'
<1> USE DEF Inv
<1>1. /\ put.pc \in ShrinkPcs /\ put.pc \in CopyPcs /\ put.pc \in BusyPcs
      /\ UNCHANGED <<items, cnt>> /\ Disturb /\ UNCHANGED <<open, queue, wants>>
  BY DEF RemAlloc, RemHead, RemTail, RemFree, ShrinkPcs, CopyPcs, BusyPcs, RemovePcs
<1>2. /\ put.chr \in Chrs /\ put.fd \in Fds
      /\ Old \in Seq(Fds) /\ Count = Len(Old) - 1 /\ Len(Old) > 1
      /\ \E i \in DOMAIN Old : Old[i] = put.fd
  BY <1>1, ChangeKnows DEF StoreInv, CopyInv, ShrinkInv
<1>3. Count \in Nat /\ Count > 0
  BY <1>2
<1> DEFINE k == FirstIndex(Old, put.fd)
<1>4. k \in 1..Len(Old)
  BY <1>2, FirstIndexType
<1>5. Without(Old, put.fd) \in Seq(Fds) /\ Len(Without(Old, put.fd)) = Count
  BY <1>2, WithoutIsRemoveFirst
<1>6. CASE RemAlloc
  <2>1. PICK b \in Blocks : Malloc(b, Count) /\ SetSockets(b)
    BY <1>6 DEF RemAlloc, Count
  <2>2. /\ Proceeds("rem_head") /\ OwnerInv' /\ CopyInv' /\ Old' = Old /\ Count' = Count
        /\ ptr' \in [Chrs -> Blocks \cup {Null, Wild}] /\ heap' \in [Blocks -> Seq(Cell) \cup {Null}]
    BY <1>1, <1>3, <1>6, <2>1, AllocKeeps DEF RemAlloc, CopyPcs, GrowPcs, ShrinkPcs
  <2>3. ShrinkInv'
    BY <1>2, <2>2 DEF ShrinkInv, Proceeds
  <2>4. StoreInv'
    BY <2>2, <2>3, Phases DEF Proceeds, BusyPcs, RemovePcs, CopyPcs, GrowPcs, ShrinkPcs
  <2> QED
    BY <1>1, <1>6, <2>2, <2>4, ChangeKeeps DEF RemAlloc, Proceeds, TypeOK
<1>7. CASE RemHead
  <2> DEFINE list == [i \in DOMAIN New |-> IF i < k THEN Old[i] ELSE New[i]]
  <2>1. New \in Seq(Cell) /\ Len(New) = Count /\ Array \in Blocks
    BY <1>7 DEF RemHead, StoreInv, CopyInv, CopyPcs, ShrinkPcs
  <2>2. heap' = [heap EXCEPT ![Array] = list]
    BY <1>7, <2>1 DEF RemHead, New, Old, TypeOK
  <2>3. /\ list \in Seq(Cell) /\ Len(list) = Count
        /\ \A i \in 1..(k - 1) : list[i] = Old[i]
    <3> HIDE DEF k
    <3> QED
      BY SMTT(60), <1>2, <1>4, <2>1 DEF Cell
  <2>4. /\ Proceeds("rem_tail") /\ OwnerInv' /\ CopyInv' /\ Old' = Old /\ Count' = Count
        /\ New' = list /\ heap' \in [Blocks -> Seq(Cell) \cup {Null}]
    <3> HIDE DEF list
    <3> QED
      BY <1>1, <1>7, <2>2, <2>3, WriteKeeps DEF RemHead, CopyPcs, GrowPcs, ShrinkPcs
  <2> HIDE DEF list
  <2>5. ShrinkInv'
    BY <1>2, <2>3, <2>4 DEF ShrinkInv, Proceeds
  <2>6. StoreInv'
    BY <2>4, <2>5, Phases DEF Proceeds, BusyPcs, RemovePcs, CopyPcs, GrowPcs, ShrinkPcs
  <2> QED
    BY <1>1, <1>7, <2>4, <2>6, ChangeKeeps DEF RemHead, Proceeds, TypeOK
<1>8. CASE RemTail
  <2> DEFINE list == [i \in DOMAIN New |-> IF i < k THEN New[i] ELSE Old[i + 1]]
  <2>1. /\ New \in Seq(Cell) /\ Len(New) = Count /\ Array \in Blocks
        /\ \A i \in 1..(k - 1) : New[i] = Old[i]
    BY <1>8 DEF RemTail, StoreInv, CopyInv, ShrinkInv, CopyPcs, ShrinkPcs
  <2>2. heap' = [heap EXCEPT ![Array] = list]
    BY <1>8, <2>1 DEF RemTail, New, Old, TypeOK
  <2>3. list = Without(Old, put.fd)
    <3>1. DOMAIN New = 1..(Len(Old) - 1)
      BY <1>2, <2>1
    <3> HIDE DEF k
    <3>2. \A i \in 1..(Len(Old) - 1) : i < k => New[i] = Old[i]
      BY <1>4, <2>1
    <3> QED
      BY <3>1, <3>2 DEF Without, k
  <2>4. list \in Seq(Cell) /\ Len(list) = Count
    BY <1>5, <2>3 DEF Cell
  <2> HIDE DEF list
  <2>5. /\ Proceeds("rem_free") /\ OwnerInv' /\ CopyInv' /\ Old' = Old /\ Count' = Count
        /\ New' = list /\ heap' \in [Blocks -> Seq(Cell) \cup {Null}]
    BY <1>1, <1>8, <2>2, <2>4, WriteKeeps DEF RemTail, CopyPcs, GrowPcs, ShrinkPcs
  <2>6. ShrinkInv'
    BY <1>2, <2>3, <2>5 DEF ShrinkInv, Proceeds
  <2>7. StoreInv'
    BY <2>5, <2>6, Phases DEF Proceeds, BusyPcs, RemovePcs, CopyPcs, GrowPcs, ShrinkPcs
  <2> QED
    BY <1>1, <1>8, <2>5, <2>7, ChangeKeeps DEF RemTail, Proceeds, TypeOK
<1>9. CASE RemFree
  <2>1. New = Without(Old, put.fd)
    BY <1>9 DEF RemFree, StoreInv, ShrinkInv
  <2>2. New \in Seq(Fds) /\ Len(New) > 0
    BY <1>3, <1>5, <2>1
  <2>3. StoreInv' /\ put' \in Handler /\ heap' \in [Blocks -> Seq(Cell) \cup {Null}]
    BY <1>1, <1>9, <2>2, FreeKeeps DEF RemFree
  <2> QED
    BY <1>1, <1>9, <2>3, ChangeKeeps DEF RemFree, TypeOK
<1> QED
  BY <1>6, <1>7, <1>8, <1>9

-----------------------------------------------------------------------------
(* The last subscription, and how changes begin.                           *)

LEMMA LastStepKeeps ==
  ASSUME Inv, LastFree \/ LastClear
  PROVE  Inv'
<1> USE DEF Inv
<1>1. /\ put.pc \in BusyPcs /\ put.pc \notin CopyPcs
      /\ UNCHANGED <<items, cnt, open, wants, queue>> /\ Disturb
  BY DEF LastFree, LastClear, BusyPcs, RemovePcs, CopyPcs, GrowPcs, ShrinkPcs
<1>2. /\ put.chr \in Chrs /\ put.chr \in items /\ put.fd \in Fds /\ put.old = Null
      /\ \A d \in items \ {put.chr} :
           ~Busy(d) /\ (ptr[d] \in Blocks => heap[ptr[d]] # Null /\ ptr[d] # Array)
      /\ items = items \cup {put.chr}
  BY <1>1, ChangeKnows DEF StoreInv, OwnerInv
<1>3. Array \in Blocks /\ Count = 0
  BY DEF LastFree, LastClear, StoreInv, LastInv
<1>4. CASE LastFree
  <2>1. /\ put' \in Handler /\ put'.pc = "last_clear" /\ put'.fd = put.fd
        /\ put'.chr = put.chr /\ put'.old = Null
    BY <1>2, <1>4, PutChanges DEF LastFree, StoreInv, BusyPcs, RemovePcs
  <2>2. /\ heap'[Array] = Null /\ UNCHANGED ptr
        /\ \A a \in Blocks \ {Array} : heap'[a] = heap[a]
        /\ heap' \in [Blocks -> Seq(Cell) \cup {Null}]
    BY <1>3, <1>4 DEF LastFree, TypeOK
  <2>3. Rest(put.chr)
    BY <1>1, <1>2, <2>2 DEF Rest, Array
  <2>4. OwnerInv'
    BY <1>1, <1>2, <2>1, <2>2, <2>3, OwnerKeeps, ConstantsAssumption
    DEF StoreInv, Array, BusyPcs, RemovePcs, CopyPcs, GrowPcs, ShrinkPcs
  <2>5. LastInv'
    BY <1>1, <1>3, <2>1, <2>2 DEF LastInv, Array, New, Count
  <2>6. StoreInv'
    BY <2>1, <2>4, <2>5, Phases DEF BusyPcs, RemovePcs, CopyPcs, GrowPcs, ShrinkPcs
  <2> QED
    BY <1>1, <2>1, <2>2, <2>6, ChangeKeeps DEF TypeOK
<1>5. CASE LastClear
  <2>1. /\ put' \in Handler /\ put'.pc = "entry" /\ put'.fd = put.fd
        /\ put'.chr = Null /\ put'.old = Null
    BY <1>5, PutChanges DEF LastClear, StoreInv
  <2>2. /\ ptr'[put.chr] = Null /\ UNCHANGED heap /\ New = Null
        /\ \A d \in Chrs \ {put.chr} : ptr'[d] = ptr[d]
        /\ ptr' \in [Chrs -> Blocks \cup {Null, Wild}]
    BY <1>2, <1>5 DEF LastClear, SetSockets, StoreInv, LastInv, TypeOK
  <2>3. Rest(put.chr)
    BY <1>1, <1>2, <2>2, ConstantsAssumption DEF Rest, TypeOK
  <2>4. ASSUME NEW c, c = put.chr
        PROVE  ArrayFits(c)'
    BY <1>1, <1>3, <2>2, <2>4 DEF ArrayFits, Count
  <2>5. put'.pc \notin BusyPcs /\ put'.pc \notin CopyPcs
    BY <2>1 DEF BusyPcs, AddPcs, RemovePcs, CopyPcs, GrowPcs, ShrinkPcs
  <2>6. \A a \in Blocks : heap'[a] # Null =>
          heap[a] # Null /\ a # put.old /\ a # ptr[put.chr]
    BY <1>2, <2>2, ConstantsAssumption DEF New, Array
  <2>7. OwnerInv'
    BY <1>1, <1>2, <2>1, <2>3, <2>4, <2>5, <2>6, OwnerKeeps DEF StoreInv
  <2>8. StoreInv'
    BY <2>1, <2>7, Phases DEF BusyPcs, AddPcs, CopyPcs, GrowPcs, ShrinkPcs
  <2> QED
    BY <1>1, <2>1, <2>2, <2>8, ChangeKeeps DEF TypeOK
<1> QED
  BY <1>4, <1>5

\* Between two entries no element is being changed, and there is no old array.
LEMMA EntryKnows ==
  ASSUME TypeOK, StoreInv, put.pc = "entry"
  PROVE  /\ put.fd \in Fds /\ put.old = Null /\ put \in Handler
         /\ \A d \in items :
              /\ ~Busy(d) /\ ArrayFits(d)
              /\ ptr[d] \in Blocks => heap[ptr[d]] # Null
<1>1. \A d : ~Busy(d)
  BY DEF Busy, BusyPcs, AddPcs, RemovePcs
<1>2. put.fd \in Fds /\ put.old = Null /\ put \in Handler
  BY DEF TypeOK, StoreInv, OwnerInv, CopyPcs, GrowPcs, ShrinkPcs
<1> QED
  BY <1>1, <1>2, FitsIsAllocated DEF StoreInv, OwnerInv

LEMMA SubscribeNewKeeps ==
  ASSUME Inv, NEW c \in Chrs, SubscribeNew(c)
  PROVE  Inv'
<1> USE DEF Inv
<1>1. /\ put.fd \in Fds /\ put.old = Null /\ put \in Handler
      /\ \A d \in items : ~Busy(d)
  BY EntryKnows DEF SubscribeNew
<1>2. /\ put' \in Handler /\ put'.pc = "add_clear" /\ put'.fd = put.fd
      /\ put'.chr = c /\ put'.old = Null
  BY <1>1 DEF SubscribeNew, Handler, AddPcs
<1>3. /\ c \notin items /\ items' = items \cup {c} /\ ptr'[c] = Wild /\ UNCHANGED heap
      /\ \A d \in Chrs \ {c} : ptr'[d] = ptr[d] /\ cnt'[d] = cnt[d]
      /\ ptr' \in [Chrs -> Blocks \cup {Null, Wild}] /\ cnt' \in [Chrs -> Nat \cup {Wild}]
  BY DEF SubscribeNew, TypeOK
<1>4. Rest(c)
  BY <1>3, ConstantsAssumption DEF Rest, TypeOK
<1>5. \A a \in Blocks : heap'[a] # Null => heap[a] # Null /\ a # put.old
  BY <1>1, <1>3, ConstantsAssumption
<1>6. put'.pc \in BusyPcs /\ put'.pc \notin CopyPcs
  BY <1>2 DEF BusyPcs, AddPcs, CopyPcs, GrowPcs, ShrinkPcs
<1>7. OwnerInv'
  BY <1>1, <1>2, <1>3, <1>4, <1>5, <1>6, OwnerKeeps DEF StoreInv
<1>8. FirstInv'
  BY <1>2, <1>3 DEF FirstInv, Array
<1>9. StoreInv'
  BY <1>2, <1>6, <1>7, <1>8, Phases DEF CopyPcs, GrowPcs, ShrinkPcs
<1> QED
  BY <1>2, <1>3, <1>9, ChangeKeeps DEF SubscribeNew, TypeOK

\* A change of a list that has an array begins with its new length.
LEMMA LengthKeeps ==
  ASSUME Inv, NEW c \in items, put.pc = "entry", ptr[c] # Null,
         NEW n \in Nat, cnt' = [cnt EXCEPT ![c] = n], UNCHANGED <<items, ptr, heap>>,
         put' \in Handler, put'.pc \in BusyPcs, put'.fd = put.fd, put'.chr = c,
         put'.pc \notin CopyPcs => put'.old = Null
  PROVE  /\ OwnerInv' /\ Array' = ptr[c] /\ New' = heap[ptr[c]] /\ Count' = n
         /\ ptr[c] \in Blocks /\ heap[ptr[c]] \in Seq(Fds) /\ cnt[c] = Len(heap[ptr[c]])
         /\ cnt' \in [Chrs -> Nat \cup {Wild}]
<1> USE DEF Inv
<1>1. /\ put.fd \in Fds /\ put.old = Null /\ ArrayFits(c)
      /\ \A d \in items : ~Busy(d) /\ (ptr[d] \in Blocks => heap[ptr[d]] # Null)
  BY EntryKnows
<1>2. /\ c \in Chrs /\ cnt'[c] = n /\ \A d \in Chrs \ {c} : cnt'[d] = cnt[d]
      /\ cnt' \in [Chrs -> Nat \cup {Wild}] /\ items \subseteq Chrs
  BY DEF TypeOK
<1>3. ptr[c] \in Blocks /\ heap[ptr[c]] \in Seq(Fds) /\ cnt[c] = Len(heap[ptr[c]])
  BY <1>1 DEF ArrayFits
<1>4. Rest(c)
  BY <1>2 DEF Rest, StoreInv, OwnerInv
<1>5. \A a \in Blocks : heap'[a] # Null =>
        a = ptr'[c] \/ (heap[a] # Null /\ a # put.old /\ a # ptr[c])
  BY <1>1, ConstantsAssumption
<1>6. OwnerInv'
  BY <1>1, <1>2, <1>4, <1>5, OwnerKeeps DEF StoreInv
<1> QED
  BY <1>2, <1>3, <1>6 DEF Array, New, Count

LEMMA BeginKeeps ==
  ASSUME Inv, NEW c \in Chrs, SubscribeMore(c) \/ UnsubscribeOne(c) \/ UnsubscribeLast(c)
  PROVE  Inv'
<1> USE DEF Inv
<1>1. /\ c \in items /\ put.pc = "entry" /\ UNCHANGED <<items, ptr, heap, open, queue>> /\ Disturb
  BY DEF SubscribeMore, UnsubscribeOne, UnsubscribeLast
<1>2. put \in Handler /\ put.fd \in Fds /\ put.old = Null /\ ArrayFits(c)
  BY <1>1, EntryKnows
<1>3. ptr[c] # Null
  BY <1>2, ConstantsAssumption DEF SubscribeMore, UnsubscribeOne, UnsubscribeLast, ArrayFits, Subscribers
<1>4. /\ ptr[c] \in Blocks /\ heap[ptr[c]] \in Seq(Fds)
      /\ cnt[c] = Len(heap[ptr[c]]) /\ cnt[c] > 0 /\ cnt[c] \in Nat
  BY <1>2, <1>3 DEF ArrayFits
<1>5. CASE SubscribeMore(c)
  <2>1. /\ put' \in Handler /\ put'.pc = "add_alloc" /\ put'.fd = put.fd
        /\ put'.chr = c /\ put'.old = ptr[c]
    BY <1>2, <1>4, <1>5 DEF SubscribeMore, Handler, AddPcs
  <2>2. put'.pc \in BusyPcs /\ put'.pc \in CopyPcs
    BY <2>1 DEF BusyPcs, AddPcs, CopyPcs, GrowPcs
  <2>3. cnt[c] < MaxSubs /\ cnt' = [cnt EXCEPT ![c] = cnt[c] + 1] /\ cnt[c] + 1 \in Nat
    BY <1>4, <1>5 DEF SubscribeMore
  <2>4. /\ OwnerInv' /\ Array' = ptr[c] /\ New' = heap[ptr[c]] /\ Count' = cnt[c] + 1
        /\ cnt' \in [Chrs -> Nat \cup {Wild}]
    BY <1>1, <1>3, <2>1, <2>2, <2>3, LengthKeeps
  <2>5. Old' = heap[ptr[c]]
    BY <1>1, <2>1 DEF Old
  <2>6. CopyInv'
    BY <1>4, <2>1, <2>4, <2>5 DEF CopyInv
  <2>7. GrowInv'
    BY <1>4, <2>1, <2>3, <2>4, <2>5, ConstantsAssumption DEF GrowInv
  <2>8. StoreInv'
    BY <2>1, <2>2, <2>4, <2>6, <2>7, Phases DEF GrowPcs, ShrinkPcs
  <2> QED
    BY <1>1, <1>5, <2>1, <2>4, <2>8, ChangeKeeps DEF SubscribeMore, TypeOK
<1>6. wants' = [wants EXCEPT ![c] = @ \ {put.fd}] => wants' \in [Chrs -> SUBSET Fds]
  BY WantsType
<1>7. CASE UnsubscribeOne(c)
  <2>1. /\ put' \in Handler /\ put'.pc = "rem_alloc" /\ put'.fd = put.fd
        /\ put'.chr = c /\ put'.old = ptr[c]
    BY <1>2, <1>4, <1>7 DEF UnsubscribeOne, Handler, RemovePcs
  <2>2. put'.pc \in BusyPcs /\ put'.pc \in CopyPcs
    BY <2>1 DEF BusyPcs, RemovePcs, CopyPcs, ShrinkPcs
  <2>3. /\ cnt[c] > 1 /\ cnt' = [cnt EXCEPT ![c] = cnt[c] - 1] /\ cnt[c] - 1 \in Nat
        /\ \E i \in DOMAIN heap[ptr[c]] : heap[ptr[c]][i] = put.fd
    <3>1. cnt[c] # 1 /\ put.fd \in Subscribers(c) /\ cnt' = [cnt EXCEPT ![c] = cnt[c] - 1]
      BY <1>7 DEF UnsubscribeOne
    <3>2. \E i \in DOMAIN heap[ptr[c]] : heap[ptr[c]][i] = put.fd
      BY <1>3, <3>1 DEF Subscribers
    <3>3. \A n \in Nat : n > 0 /\ n # 1 => n > 1 /\ n - 1 \in Nat
      OBVIOUS
    <3> QED
      BY <1>4, <3>1, <3>2, <3>3, Zenon
  <2>4. /\ OwnerInv' /\ Array' = ptr[c] /\ New' = heap[ptr[c]] /\ Count' = cnt[c] - 1
        /\ cnt' \in [Chrs -> Nat \cup {Wild}]
    BY <1>1, <1>3, <2>1, <2>2, <2>3, LengthKeeps
  <2>5. Old' = heap[ptr[c]]
    BY <1>1, <2>1 DEF Old
  <2>6. CopyInv'
    BY <1>4, <2>1, <2>4, <2>5 DEF CopyInv
  <2>7. ShrinkInv'
    BY <1>4, <2>1, <2>3, <2>4, <2>5 DEF ShrinkInv
  <2>8. StoreInv'
    BY <2>1, <2>2, <2>4, <2>6, <2>7, Phases DEF GrowPcs, ShrinkPcs
  <2> QED
    BY <1>1, <1>6, <1>7, <2>1, <2>4, <2>8, ChangeKeeps DEF UnsubscribeOne, Unsubscribed, TypeOK
<1>8. CASE UnsubscribeLast(c)
  <2>1. /\ put' \in Handler /\ put'.pc = "last_free" /\ put'.fd = put.fd
        /\ put'.chr = c /\ put'.old = Null
    BY <1>2, <1>8 DEF UnsubscribeLast, Handler, RemovePcs
  <2>2. put'.pc \in BusyPcs /\ put'.pc \notin CopyPcs
    BY <2>1 DEF BusyPcs, RemovePcs, CopyPcs, GrowPcs, ShrinkPcs
  <2>3. cnt' = [cnt EXCEPT ![c] = 0]
    BY <1>8 DEF UnsubscribeLast
  <2>4. /\ OwnerInv' /\ Array' = ptr[c] /\ New' = heap[ptr[c]] /\ Count' = 0
        /\ cnt' \in [Chrs -> Nat \cup {Wild}]
    BY <1>1, <1>3, <2>1, <2>2, <2>3, LengthKeeps
  <2>5. LastInv'
    BY <1>4, <2>1, <2>4 DEF LastInv
  <2>6. StoreInv'
    BY <2>1, <2>2, <2>4, <2>5, Phases DEF CopyPcs, GrowPcs, ShrinkPcs
  <2> QED
    BY <1>1, <1>6, <1>8, <2>1, <2>4, <2>6, ChangeKeeps DEF UnsubscribeLast, Unsubscribed, TypeOK
<1> QED
  BY <1>5, <1>7, <1>8

-----------------------------------------------------------------------------

LEMMA NextInv == Inv /\ [Next]_vars => Inv'
<1> SUFFICES ASSUME Inv, [Next]_vars PROVE Inv'
  OBVIOUS
<1>1. CASE UNCHANGED vars
  <2>1. TypeOK'
    BY <1>1 DEF vars, store, Inv, TypeOK
  <2>2. StoreInv'
    BY <1>1, StoreStays DEF vars, Inv
  <2> QED
    BY <1>1, <2>1, <2>2 DEF vars, store, Inv, NotifyInv, Listed, Busy
<1>2. CASE Next
  BY <1>2, RequestKeeps, FirstKeeps, SubscribeNewKeeps, BeginKeeps, FirstStepKeeps,
     GrowStepKeeps, ShrinkStepKeeps, LastStepKeeps, NotifyStepKeeps, EventKeeps, PanicKeeps
  DEF Next, PutStep, PutEntry, AddStep, RemoveStep
<1> QED
  BY <1>1, <1>2

LEMMA InvHolds == Spec => []Inv
<1>1. Inv /\ [Next]_vars => Inv'
  BY NextInv
<1> QED
  BY <1>1, InitInv, PTL DEF Spec

(***************************************************************************)
(* Every variable keeps its type, whatever a notification reads from freed *)
(* or unwritten memory.                                                    *)
(***************************************************************************)
THEOREM TypeCorrect == Spec => []TypeOK
<1>1. Inv => TypeOK
  BY DEF Inv
<1> QED
  BY <1>1, InvHolds, PTL

(***************************************************************************)
(* The reallocation of hk_subscription_store_add and _remove gets every    *)
(* index and every free right, for arrays of any length, any number of     *)
(* characteristics and any reuse of addresses.                             *)
(***************************************************************************)
THEOREM StoreCorrect == Spec => []StoreOwnsHeap
<1>1. ASSUME Inv PROVE StoreOwnsHeap
  <2>1. SUFFICES ASSUME put.pc \in {"idle", "entry"}
                 PROVE  /\ \A c \in items : ArrayFits(c)
                        /\ \A c, d \in items : ptr[c] = ptr[d] /\ ptr[c] # Null => c = d
                        /\ \A b \in Blocks : heap[b] # Null => \E c \in items : ptr[c] = b
    BY DEF StoreOwnsHeap
  <2>2. OwnerInv /\ put.old = Null
    BY <1>1, <2>1 DEF Inv, StoreInv, OwnerInv, CopyPcs, GrowPcs, ShrinkPcs
  <2>3. \A c \in items : ArrayFits(c)
    BY <2>1, <2>2 DEF OwnerInv, Busy, BusyPcs, AddPcs, RemovePcs
  <2>4. \A c \in items : ptr[c] # Null => ptr[c] \in Blocks
    BY <2>3 DEF ArrayFits
  <2> QED
    BY <2>2, <2>3, <2>4, ConstantsAssumption DEF OwnerInv
<1> QED
  BY <1>1, InvHolds, PTL

(***************************************************************************)
(* A notification that no handler disturbed serves exactly the sockets in  *)
(* the list, in order, for lists of any length.                            *)
(***************************************************************************)
THEOREM NotifyCorrect == Spec => []UndisturbedNotifyServesStore
<1>1. Inv => UndisturbedNotifyServesStore
  BY DEF Inv, NotifyInv, UndisturbedNotifyServesStore
<1> QED
  BY <1>1, InvHolds, PTL

-----------------------------------------------------------------------------
(* Refinement: each step changes one list as HkSubscriptions says, or none.*)

Lists == [c \in Chrs |-> Stored(c)]

LEMMA AsStutter ==
  ASSUME \A c \in Chrs : Stored(c)' = Stored(c)
  PROVE  Lists' = Lists
BY DEF Lists

LEMMA AsSubscribe ==
  ASSUME NEW c \in Chrs, NEW f \in Fds, \A d \in Chrs \ {c} : Stored(d)' = Stored(d),
         Len(Stored(c)) < MaxSubs, Stored(c)' = Append(Stored(c), f)
  PROVE  Promise!Next
<1>1. Lists' = [Lists EXCEPT ![c] = Append(Lists[c], f)]
  BY DEF Lists
<1>2. Promise!Subscribe(c, f)
  BY <1>1 DEF Promise!Subscribe, Lists
<1> QED
  BY <1>2 DEF Promise!Next

LEMMA AsUnsubscribe ==
  ASSUME NEW c \in Chrs, NEW f \in Fds, \A d \in Chrs \ {c} : Stored(d)' = Stored(d),
         Stored(c)' = IF Len(Stored(c)) = 1 THEN <<>> ELSE Promise!RemoveFirst(Stored(c), f)
  PROVE  Promise!Next
<1>1. Lists' = [Lists EXCEPT ![c] = IF Len(Lists[c]) = 1 THEN <<>>
                                     ELSE Promise!RemoveFirst(Lists[c], f)]
  BY DEF Lists
<1>2. Promise!Unsubscribe(c, f)
  BY <1>1 DEF Promise!Unsubscribe, Lists
<1> QED
  BY <1>2 DEF Promise!Next

LEMMA AsRestart ==
  ASSUME Restart
  PROVE  Promise!Next
<1>1. \A c \in Chrs : Stored(c)' = <<>>
  BY DEF Restart, Stored, Listed, NoPut, EmptyPcs, BeforeCopyPcs
<1>2. Lists' = [c \in Chrs |-> <<>>]
  BY <1>1 DEF Lists
<1>3. Promise!Restart
  BY <1>2 DEF Promise!Restart, Lists
<1> QED
  BY <1>3 DEF Promise!Next

\* A step of a change leaves the lists of other characteristics as they are.
LEMMA OthersStay ==
  ASSUME Inv, NEW c \in Chrs, put.pc \in BusyPcs => put.chr = c, put'.pc \in BusyPcs => put'.chr = c,
         items' \cup {c} = items \cup {c}, \A d \in Chrs \ {c} : ptr'[d] = ptr[d],
         \A b \in Blocks : \/ heap'[b] = heap[b] \/ heap[b] = Null
                           \/ put.pc \in BusyPcs /\ b \in {Array, put.old}
  PROVE  \A d \in Chrs \ {c} : Stored(d)' = Stored(d)
<1> USE DEF Inv
<1>1. ASSUME NEW d \in Chrs \ {c}
      PROVE  Stored(d) = Listed(d) /\ Stored(d)' = Listed(d)'
  BY DEF Stored, EmptyPcs, BeforeCopyPcs, BusyPcs, AddPcs, RemovePcs
<1>2. ASSUME NEW d \in Chrs \ {c}, d \in items, ptr[d] # Null
      PROVE  heap'[ptr[d]] = heap[ptr[d]]
  <2>1. ~Busy(d) /\ ptr[d] \in Blocks
    BY <1>2 DEF Busy, StoreInv, OwnerInv, ArrayFits
  <2>2. heap[ptr[d]] # Null
    BY <1>2, <2>1, FitsIsAllocated DEF StoreInv
  <2>3. put.pc \in BusyPcs => ptr[d] # Array
    BY <1>2, <2>1, ChangeKnows
  <2>4. put.pc \in BusyPcs => ptr[d] # put.old
    <3>1. CASE put.pc \in {"add_alloc", "rem_alloc"}
      BY <2>3, <3>1 DEF StoreInv, CopyInv, BusyPcs, AddPcs, RemovePcs
    <3>2. CASE put.pc \in CopyPcs \ {"add_alloc", "rem_alloc"}
      BY <1>2, <3>2 DEF StoreInv, CopyInv
    <3>3. CASE put.pc \notin CopyPcs
      BY <2>1, <3>3, ConstantsAssumption DEF StoreInv, OwnerInv
    <3> QED
      BY <3>1, <3>2, <3>3 DEF CopyPcs, GrowPcs, ShrinkPcs
  <2> QED
    BY <2>1, <2>2, <2>3, <2>4
<1> QED
  BY <1>1, <1>2 DEF Listed

LEMMA ChangeStays ==
  ASSUME Inv, AddStep \/ RemoveStep, NEW c, c = put.chr
  PROVE  /\ c \in Chrs /\ c \in items /\ put.fd \in Fds
         /\ \A d \in Chrs \ {c} : Stored(d)' = Stored(d)
<1>1. put.pc \in BusyPcs /\ UNCHANGED items
  BY DEF AddStep, AddClear, AddFirst, AddOne, AddSet, AddAlloc, AddLast, AddCopy, AddFree,
         RemoveStep, RemAlloc, RemHead, RemTail, RemFree, LastFree, LastClear,
         BusyPcs, AddPcs, RemovePcs
<1>2. c \in Chrs /\ c \in items /\ put.fd \in Fds
  BY <1>1, ChangeKnows DEF Inv
<1>3. put'.pc \in BusyPcs => put'.chr = c
  <2>1. (\E pc : Goto(pc)) \/ NextEntry
    BY DEF AddStep, AddClear, AddFirst, AddOne, AddSet, AddAlloc, AddLast, AddCopy, AddFree,
           RemoveStep, RemAlloc, RemHead, RemTail, RemFree, LastFree, LastClear
  <2> QED
    BY <2>1 DEF Goto, NextEntry, NoPut, BusyPcs, AddPcs, RemovePcs, Inv, TypeOK, Handler
<1>4. \A d \in Chrs \ {c} : ptr'[d] = ptr[d]
  <2>1. UNCHANGED ptr \/ \E p : SetSockets(p)
    BY DEF AddStep, AddClear, AddFirst, AddOne, AddSet, AddAlloc, AddLast, AddCopy, AddFree,
           RemoveStep, RemAlloc, RemHead, RemTail, RemFree, LastFree, LastClear
  <2> QED
    BY <2>1 DEF SetSockets, Inv, TypeOK
<1>5. \A b \in Blocks : heap'[b] = heap[b] \/ heap[b] = Null \/ b \in {Array, put.old}
  <2>1. \/ UNCHANGED heap
        \/ \E n : \E b \in Blocks : Malloc(b, n)
        \/ \E list : \E a \in {Array, put.old} : heap' = [heap EXCEPT ![a] = list]
    BY DEF AddStep, AddClear, AddFirst, AddOne, AddSet, AddAlloc, AddLast, AddCopy, AddFree,
           RemoveStep, RemAlloc, RemHead, RemTail, RemFree, LastFree, LastClear
  <2> QED
    BY <2>1 DEF Malloc, Inv, TypeOK
<1>6. \A d \in Chrs \ {c} : Stored(d)' = Stored(d)
  BY <1>1, <1>2, <1>3, <1>4, <1>5, OthersStay
<1> QED
  BY <1>2, <1>6

LEMMA FirstRefines ==
  ASSUME Inv, Inv', AddClear \/ AddFirst \/ AddOne \/ AddSet \/ LastFree \/ LastClear
  PROVE  Lists' = Lists \/ Promise!Next
<1>1. PICK c : c = put.chr
  OBVIOUS
<1>2. /\ c \in Chrs /\ c \in items /\ put.fd \in Fds
      /\ \A d \in Chrs \ {c} : Stored(d)' = Stored(d)
  BY <1>1, ChangeStays DEF AddStep, RemoveStep
<1>3. put \in Handler /\ UNCHANGED items
  BY DEF Inv, TypeOK, AddClear, AddFirst, AddOne, AddSet, LastFree, LastClear
<1>4. Stored(c) = <<>>
  BY <1>1 DEF Stored, EmptyPcs, AddClear, AddFirst, AddOne, AddSet, LastFree, LastClear
<1>5. CASE AddClear \/ AddFirst \/ AddOne \/ LastFree
  <2>1. put'.pc \in EmptyPcs /\ put'.chr = c
    BY <1>1, <1>3, <1>5 DEF AddClear, AddFirst, AddOne, LastFree, Goto, EmptyPcs, Handler
  <2>2. Stored(c)' = <<>>
    BY <2>1 DEF Stored
  <2> QED
    BY <1>2, <1>4, <2>2, AsStutter
<1>6. CASE LastClear
  <2>1. ptr'[c] = Null /\ put'.pc = "entry"
    BY <1>1, <1>2, <1>6 DEF LastClear, SetSockets, NextEntry, NoPut, Inv, TypeOK
  <2>2. Stored(c)' = <<>>
    BY <2>1 DEF Stored, Listed, EmptyPcs, BeforeCopyPcs
  <2> QED
    BY <1>2, <1>4, <2>2, AsStutter
<1>7. CASE AddSet
  <2>1. Array \in Blocks /\ New = <<Wild>>
    BY <1>7 DEF AddSet, Inv, StoreInv, FirstInv
  <2>2. [<<Wild>> EXCEPT ![1] = put.fd] = <<put.fd>>
    OBVIOUS
  <2>3. ptr'[c] = Array /\ heap'[Array] = <<put.fd>> /\ put'.pc = "entry"
    BY <1>1, <1>7, <2>1, <2>2 DEF AddSet, Array, New, NextEntry, NoPut, Inv, TypeOK
  <2>4. Stored(c)' = <<put.fd>>
    BY <1>2, <1>3, <2>1, <2>3, ConstantsAssumption DEF Stored, Listed, EmptyPcs, BeforeCopyPcs
  <2>5. Len(Stored(c)) < MaxSubs /\ Stored(c)' = Append(Stored(c), put.fd)
    BY <1>4, <2>4, ConstantsAssumption
  <2> QED
    BY <1>2, <2>5, AsSubscribe
<1> QED
  BY <1>5, <1>6, <1>7

\* Until the copy is complete the old array counts, then the new one.
LEMMA CopyStored ==
  ASSUME Inv, NEW c \in Chrs, c = put.chr, put.pc \in CopyPcs
  PROVE  Stored(c) = IF put.pc \in {"add_free", "rem_free"} THEN New ELSE Old
<1>1. CASE put.pc \in {"add_free", "rem_free"}
  <2>1. Array \in Blocks /\ c \in items
    BY <1>1, ChangeKnows DEF Inv, StoreInv, CopyInv, CopyPcs, GrowPcs, ShrinkPcs,
                             BusyPcs, AddPcs, RemovePcs
  <2> QED
    BY <1>1, <2>1, ConstantsAssumption DEF Stored, Listed, New, Array, EmptyPcs, BeforeCopyPcs
<1>2. CASE put.pc \notin {"add_free", "rem_free"}
  BY <1>2 DEF Stored, Old, EmptyPcs, BeforeCopyPcs, CopyPcs, GrowPcs, ShrinkPcs
<1> QED
  BY <1>1, <1>2

LEMMA CopyRefines ==
  ASSUME Inv, Inv',
         \/ AddAlloc \/ AddLast \/ AddCopy \/ AddFree
         \/ RemAlloc \/ RemHead \/ RemTail \/ RemFree
  PROVE  Lists' = Lists \/ Promise!Next
<1>1. PICK c : c = put.chr
  OBVIOUS
<1>2. /\ c \in Chrs /\ c \in items /\ put.fd \in Fds
      /\ \A d \in Chrs \ {c} : Stored(d)' = Stored(d)
  BY <1>1, ChangeStays DEF AddStep, RemoveStep
<1>3. put.pc \in CopyPcs /\ put \in Handler /\ UNCHANGED items
  BY DEF AddAlloc, AddLast, AddCopy, AddFree, RemAlloc, RemHead, RemTail, RemFree,
         CopyPcs, GrowPcs, ShrinkPcs, Inv, TypeOK
<1>4. Stored(c) = IF put.pc \in {"add_free", "rem_free"} THEN New ELSE Old
  BY <1>1, <1>2, <1>3, CopyStored
<1>5. put.old \in Blocks /\ Old \in Seq(Fds) /\ Old # Null
  BY <1>3, NullIsNoArray DEF Inv, StoreInv, CopyInv
<1>6. CASE AddAlloc \/ AddLast \/ RemAlloc \/ RemHead
  <2>1. /\ put'.pc \in BeforeCopyPcs /\ put'.chr = c /\ put'.old = put.old
        /\ put'.pc \notin EmptyPcs /\ put.pc \notin {"add_free", "rem_free"}
    BY <1>1, <1>3, <1>6
    DEF AddAlloc, AddLast, RemAlloc, RemHead, Goto, Handler, BeforeCopyPcs, EmptyPcs
  <2>2. heap'[put.old] = heap[put.old]
    <3>1. CASE AddAlloc \/ RemAlloc
      BY <1>5, <3>1 DEF AddAlloc, RemAlloc, Malloc, Old, Inv, TypeOK
    <3>2. CASE AddLast \/ RemHead
      <4>1. Array # put.old
        BY <1>1, <1>2, <3>2
        DEF AddLast, RemHead, Inv, StoreInv, CopyInv, CopyPcs, GrowPcs, ShrinkPcs, Array
      <4> QED
        BY <1>5, <3>2, <4>1 DEF AddLast, RemHead, Inv, TypeOK
    <3> QED
      BY <1>6, <3>1, <3>2
  <2>3. Stored(c)' = Stored(c)
    BY <1>4, <2>1, <2>2 DEF Stored, Old
  <2> QED
    BY <1>2, <2>3, AsStutter
<1>7. CASE AddCopy \/ RemTail
  <2>1. /\ put'.pc = IF put.pc = "add_copy" THEN "add_free" ELSE "rem_free"
        /\ put'.chr = c /\ put'.old = put.old /\ put'.fd = put.fd
        /\ put.pc \in {"add_copy", "rem_tail"}
    BY <1>1, <1>3, <1>7 DEF AddCopy, RemTail, Goto, Handler
  <2>2. put'.pc \in CopyPcs /\ Stored(c)' = New'
    <3>1. put'.pc \in CopyPcs
      BY <2>1 DEF CopyPcs, GrowPcs, ShrinkPcs
    <3>2. (c \in Chrs /\ c = put.chr /\ put.pc \in CopyPcs =>
             Stored(c) = IF put.pc \in {"add_free", "rem_free"} THEN New ELSE Old)'
      <4>1. ptr'[c] \in Blocks /\ c \in items'
        BY <1>2, <1>3, <2>1, <3>1 DEF Inv, StoreInv, CopyInv, Array
      <4> QED
        BY <2>1, <4>1, ConstantsAssumption DEF Stored, Listed, New, Array, EmptyPcs, BeforeCopyPcs
    <3> QED
      BY <1>2, <2>1, <3>1, <3>2
  <2>3. Old' = Old
    <3>1. Array # put.old
      BY <1>1, <1>2, <2>1 DEF Inv, StoreInv, CopyInv, CopyPcs, GrowPcs, ShrinkPcs, Array
    <3> QED
      BY <1>5, <1>7, <2>1, <3>1 DEF AddCopy, RemTail, Old, Inv, TypeOK
  <2>4. CASE AddCopy
    <3>1. put.pc = "add_copy"
      BY <2>4 DEF AddCopy
    <3>2. New' = Append(Old, put.fd)
      BY <2>1, <2>3, <3>1 DEF Inv, StoreInv, GrowInv
    <3>3. Len(Old) < MaxSubs
      BY <3>1, ConstantsAssumption DEF Inv, StoreInv, GrowInv, GrowPcs
    <3>4. Stored(c) = Old
      BY <1>4, <3>1
    <3> QED
      BY <1>2, <2>2, <3>2, <3>3, <3>4, AsSubscribe
  <2>5. CASE RemTail
    <3>1. put.pc = "rem_tail"
      BY <2>5 DEF RemTail
    <3>2. New' = Without(Old, put.fd)
      BY <2>1, <2>3, <3>1 DEF Inv, StoreInv, ShrinkInv
    <3>3. Len(Old) > 1 /\ \E i \in DOMAIN Old : Old[i] = put.fd
      BY <3>1 DEF Inv, StoreInv, ShrinkInv, ShrinkPcs
    <3>4. Len(Old) # 1
      <4>1. \A n \in Nat : n > 1 => n # 1
        OBVIOUS
      <4>2. Len(Old) \in Nat
        BY <1>5, LenProperties
      <4> QED
        BY <3>3, <4>1, <4>2
    <3>5. Promise!RemoveFirst(Old, put.fd) = Without(Old, put.fd)
      BY <1>5, <3>3, WithoutIsRemoveFirst
    <3>6. Stored(c) = Old
      BY <1>4, <3>1
    <3> QED
      BY <1>2, <2>2, <3>2, <3>4, <3>5, <3>6, AsUnsubscribe
  <2> QED
    BY <1>7, <2>4, <2>5
<1>8. CASE AddFree \/ RemFree
  <2>1. put.pc \in {"add_free", "rem_free"} /\ put'.pc = "entry" /\ UNCHANGED ptr
    BY <1>8 DEF AddFree, RemFree, NextEntry, NoPut
  <2>2. Array \in Blocks /\ Array # put.old
    BY <1>1, <1>2, <2>1 DEF Inv, StoreInv, CopyInv, CopyPcs, GrowPcs, ShrinkPcs, Array
  <2>3. heap'[Array] = New
    BY <1>8, <2>2 DEF AddFree, RemFree, New, Inv, TypeOK
  <2>4. Stored(c)' = New
    BY <1>1, <1>2, <1>3, <2>1, <2>2, <2>3, ConstantsAssumption
    DEF Stored, Listed, Array, EmptyPcs, BeforeCopyPcs
  <2> QED
    BY <1>2, <1>4, <2>1, <2>4, AsStutter
<1> QED
  BY <1>6, <1>7, <1>8

LEMMA EntryRefines ==
  ASSUME Inv, NEW c \in Chrs, PutEntry(c)
  PROVE  Lists' = Lists \/ Promise!Next
<1> USE DEF Inv
<1>1. put.pc = "entry" /\ put \in Handler /\ put.fd \in Fds
  BY EntryKnows DEF PutEntry, SubscribeNew, SubscribeEmpty, SubscribeMore, UnsubscribeNone,
                    UnsubscribeOne, UnsubscribeLast, TypeOK
<1>2. \A d \in Chrs : Stored(d) = Listed(d)
  BY <1>1 DEF Stored, EmptyPcs, BeforeCopyPcs
<1>3. CASE UnsubscribeNone(c)
  <2>1. \A d \in Chrs : Stored(d)' = Stored(d)
    BY <1>3 DEF UnsubscribeNone, store, Stored, Listed
  <2> QED
    BY <2>1, AsStutter
<1>4. CASE ~UnsubscribeNone(c)
  <2>1. /\ UNCHANGED heap /\ items' \cup {c} = items \cup {c} /\ put'.chr = c
        /\ \A d \in Chrs \ {c} : ptr'[d] = ptr[d]
    BY <1>1, <1>4 DEF PutEntry, SubscribeNew, SubscribeEmpty, SubscribeMore, UnsubscribeOne,
                      UnsubscribeLast, store, TypeOK, Handler
  <2>2. \A d \in Chrs \ {c} : Stored(d)' = Stored(d)
    BY <1>1, <2>1, OthersStay DEF BusyPcs, AddPcs, RemovePcs
  <2>3. CASE SubscribeNew(c) \/ SubscribeEmpty(c)
    <3>1. put'.pc \in EmptyPcs /\ Stored(c) = <<>>
      BY <1>1, <1>2, <2>3 DEF SubscribeNew, SubscribeEmpty, Listed, EmptyPcs, Handler
    <3>2. Stored(c)' = <<>>
      BY <2>1, <3>1 DEF Stored
    <3> QED
      BY <2>2, <3>1, <3>2, AsStutter
  <2>4. c \in items => ArrayFits(c)
    BY <1>1, EntryKnows
  <2>5. CASE SubscribeMore(c) \/ UnsubscribeOne(c)
    <3>1. c \in items /\ ptr[c] # Null
      BY <2>5 DEF SubscribeMore, UnsubscribeOne, Subscribers
    <3>2. ptr[c] \in Blocks
      BY <2>4, <3>1 DEF ArrayFits
    <3>3. /\ put'.pc \in BeforeCopyPcs /\ put'.pc \notin EmptyPcs /\ put'.old = ptr[c]
      BY <1>1, <2>5, <3>2
      DEF SubscribeMore, UnsubscribeOne, Handler, BeforeCopyPcs, EmptyPcs
    <3>4. Stored(c)' = heap[ptr[c]]
      BY <2>1, <3>3 DEF Stored
    <3> QED
      BY <1>2, <2>2, <3>1, <3>4, AsStutter DEF Listed
  <2>6. CASE UnsubscribeLast(c)
    <3>1. c \in items /\ cnt[c] = 1 /\ put'.pc \in EmptyPcs
      BY <1>1, <2>6 DEF UnsubscribeLast, EmptyPcs, Handler
    <3>2. ptr[c] # Null /\ Len(heap[ptr[c]]) = 1
      BY <2>4, <3>1 DEF ArrayFits
    <3>3. Len(Stored(c)) = 1
      BY <1>2, <3>1, <3>2 DEF Listed
    <3>4. Stored(c)' = <<>>
      BY <2>1, <3>1 DEF Stored
    <3> QED
      BY <1>1, <2>2, <3>3, <3>4, AsUnsubscribe
  <2> QED
    BY <1>4, <2>3, <2>5, <2>6 DEF PutEntry
<1> QED
  BY <1>3, <1>4

LEMMA OtherRefines ==
  ASSUME \/ PutDone \/ PutFails \/ SendEvent \/ NotifyStep
         \/ \E f \in Fds : Open(f) \/ Close(f) \/ PutRequest(f)
         \/ \E c \in Chrs : Notify(c)
  PROVE  Lists' = Lists
<1>1. /\ UNCHANGED store
      /\ \/ UNCHANGED put
         \/ put.pc \in {"idle", "entry"} /\ put'.pc \in {"idle", "entry"}
  <2>1. CASE SendEvent \/ NotifyStep \/ \E c \in Chrs : Notify(c)
    BY <2>1 DEF SendEvent, NotifyStep, Notify, NotifyGetSockets, NotifyGetNumber,
                NotifySend, NotifyLoopEnds, NotifyReturns
  <2>2. CASE PutDone \/ PutFails
    BY <2>2 DEF PutDone, PutFails, NoPut
  <2>3. CASE \E f \in Fds : Open(f) \/ Close(f) \/ PutRequest(f)
    BY <2>3 DEF Open, Close, PutRequest, NoPut
  <2> QED
    BY <2>1, <2>2, <2>3
<1>2. \A d \in Chrs : Stored(d)' = Stored(d)
  BY <1>1 DEF store, Stored, Listed, EmptyPcs, BeforeCopyPcs
<1> QED
  BY <1>2, AsStutter

LEMMA StepRefines == Inv /\ Inv' /\ [Next]_vars => [Promise!Next]_Lists
<1> SUFFICES ASSUME Inv, Inv', [Next]_vars PROVE Lists' = Lists \/ Promise!Next
  OBVIOUS
<1>1. CASE UNCHANGED vars
  BY <1>1 DEF vars, store, Lists, Stored, Listed
<1>2. CASE Next
  BY <1>2, OtherRefines, EntryRefines, FirstRefines, CopyRefines, AsRestart
  DEF Next, PutStep, AddStep, RemoveStep, SendPanics, NotifyPanics
<1> QED
  BY <1>1, <1>2

LEMMA InitRefines == Init => Promise!Init
<1> SUFFICES ASSUME Init PROVE \A c \in Chrs : Stored(c) = <<>>
  BY DEF Promise!Init
<1> QED
  BY DEF Init, Stored, Listed, NoPut, EmptyPcs, BeforeCopyPcs

(***************************************************************************)
(* The arrays on the heap implement the lists of HkSubscriptions: in every *)
(* behaviour, each step of the store is one subscription or unsubscription *)
(* there, a restart, or no change.                                         *)
(***************************************************************************)
THEOREM Refinement == Spec => ImplementsSubscriptions
<1>1. Inv /\ Inv' /\ [Next]_vars => [Promise!Next]_[c \in Chrs |-> Stored(c)]
  BY StepRefines DEF Lists
<1> QED
  BY <1>1, InvHolds, InitRefines, PTL DEF Spec, ImplementsSubscriptions, Promise!Spec

=============================================================================
