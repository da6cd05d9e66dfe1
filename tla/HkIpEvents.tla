----------------------------- MODULE HkIpEvents -----------------------------
(***************************************************************************)
(* Events of the IP stack: the subscription store (a list of arrays on the *)
(* heap, hk_subscription_store.c), the handler of PUT /characteristics     *)
(* that changes it in the httpd task (hk_chrs.c), hk_notify that reads it  *)
(* in the application's task without a lock, and the work items by which   *)
(* events reach the sockets (hk_server.c).                                 *)
(*                                                                         *)
(* Each access to a field of the store or to an array is a step, so the    *)
(* tasks interleave as on two cores.  A read of freed or not yet written   *)
(* memory returns any socket number, open or not.                          *)
(***************************************************************************)
EXTENDS Naturals, Sequences

CONSTANTS
  Chrs,      \* characteristics that can notify
  Fds,       \* socket numbers that httpd uses
  BadFd,     \* any number that is no socket of httpd
  Blocks,    \* addresses malloc can return for an array
  Null,      \* the NULL pointer, or no value
  Wild,      \* what a field holds before it is written
  MaxSubs,   \* bound on the subscriptions of one characteristic
  MaxQueue   \* bound on the queued work items, above it queueing fails

ASSUME ConstantsAssumption ==
  /\ BadFd \notin Fds /\ Null \notin Fds /\ Wild \notin Fds \cup {BadFd}
  /\ Null \notin Blocks /\ Wild \notin Blocks \cup {Null}
  /\ MaxSubs \in Nat \ {0} /\ MaxQueue \in Nat
  /\ Wild \notin Nat /\ Null \notin Seq(Fds \cup {Wild})

VARIABLES
  items,   \* characteristics with an element in the list of subscriptions
  ptr,     \* the field sockets of that element
  cnt,     \* the field number_of_sockets of that element
  heap,    \* contents of the allocated arrays, Null for a free block
  open,    \* sockets with a session
  wants,   \* history: sockets whose peer was told it is subscribed
  put,     \* httpd task: program counter and locals of the PUT handler
  app,     \* application task: program counter and locals of hk_notify
  queue    \* sockets of the queued work items, oldest first

store == <<items, ptr, cnt, heap>>
vars == <<store, open, wants, put, app, queue>>

Cell == Fds \cup {Wild}
Fd == Fds \cup {BadFd}

NoPut == [pc |-> "idle", fd |-> Null, chr |-> Null, old |-> Null]

AddPcs == {"add_clear", "add_first", "add_one", "add_set",
           "add_alloc", "add_last", "add_copy", "add_free"}
RemovePcs == {"rem_alloc", "rem_head", "rem_tail", "rem_free",
              "last_free", "last_clear"}

\* Mutant of NoNotify: the loop starts before the first element.
NoNotifyFromZero ==
  [pc |-> "idle", chr |-> Null, ptr |-> Null, n |-> 0, i |-> 0,
   ok |-> TRUE, sent |-> <<>>, alone |-> TRUE]

(***************************************************************************)
(* Locals of hk_chrs_notify: ptr and n are the array and length it got, i  *)
(* the next index, ok is ret = ESP_OK, sent the sockets it queued.  alone  *)
(* is a history variable: no step of a handler changed the store since     *)
(* hk_notify was called.                                                   *)
(***************************************************************************)
NoNotify ==
  [pc |-> "idle", chr |-> Null, ptr |-> Null, n |-> 0, i |-> 1,
   ok |-> TRUE, sent |-> <<>>, alone |-> TRUE]

Handler ==
  [pc : {"idle", "entry"} \cup AddPcs \cup RemovePcs,
   fd : Fds \cup {Null}, chr : Chrs \cup {Null}, old : Blocks \cup {Null}]

Notification ==
  [pc : {"idle", "sockets", "number", "loop", "done"}, chr : Chrs \cup {Null},
   ptr : Blocks \cup {Null, Wild}, n : Nat, i : Nat \ {0}, ok : BOOLEAN,
   sent : Seq(Fd), alone : BOOLEAN]

TypeOK ==
  /\ items \subseteq Chrs
  /\ ptr \in [Chrs -> Blocks \cup {Null, Wild}]
  /\ cnt \in [Chrs -> Nat \cup {Wild}]
  /\ heap \in [Blocks -> Seq(Cell) \cup {Null}]
  /\ open \subseteq Fds
  /\ wants \in [Chrs -> SUBSET Fds]
  /\ put \in Handler
  /\ app \in Notification
  /\ queue \in Seq(Fd)

Init ==
  /\ items = {}
  /\ ptr = [c \in Chrs |-> Wild]
  /\ cnt = [c \in Chrs |-> Wild]
  /\ heap = [b \in Blocks |-> Null]
  /\ open = {}
  /\ wants = [c \in Chrs |-> {}]
  /\ put = NoPut
  /\ app = NoNotify
  /\ queue = <<>>

-----------------------------------------------------------------------------
(* Connections.  lwip reuses the number of a closed socket.  The store is  *)
(* not told of a close: nothing calls hk_subscription_store_remove_all.    *)

WithoutPeer(f) == [c \in Chrs |-> wants[c] \ {f}]

Open(f) ==
  /\ put.pc = "idle"
  /\ f \notin open
  /\ open' = open \cup {f}
  /\ UNCHANGED <<store, wants, put, app, queue>>

Close(f) ==
  /\ put.pc = "idle"
  /\ f \in open
  /\ open' = open \ {f}
  /\ wants' = WithoutPeer(f)
  /\ UNCHANGED <<store, put, app, queue>>

-----------------------------------------------------------------------------
(* PUT /characteristics, in the httpd task.  Its entries are handled one   *)
(* by one; one that writes a value calls the application and touches       *)
(* nothing here.  An unknown characteristic or a failed write ends the     *)
(* handler with an error, what earlier entries did stays done.             *)

PutRequest(f) ==
  /\ put.pc = "idle"
  /\ f \in open
  /\ put' = [NoPut EXCEPT !.pc = "entry", !.fd = f]
  /\ UNCHANGED <<store, open, wants, app, queue>>

PutDone ==
  /\ put.pc = "entry"
  /\ put' = NoPut
  /\ UNCHANGED <<store, open, wants, app, queue>>

\* httpd closes the session whose handler failed.
PutFails ==
  /\ put.pc = "entry"
  /\ put' = NoPut
  /\ open' = open \ {put.fd}
  /\ wants' = WithoutPeer(put.fd)
  /\ UNCHANGED <<store, app, queue>>

\* The history variable of a notification that overlaps a change.
Disturb == app' = [app EXCEPT !.alone = (app.pc = "idle")]

Goto(pc) == put' = [put EXCEPT !.pc = pc]
NextEntry == put' = [NoPut EXCEPT !.pc = "entry", !.fd = put.fd]

Malloc(b, n) ==
  /\ heap[b] = Null
  /\ heap' = [heap EXCEPT ![b] = [i \in 1..n |-> Wild]]

Subscribed == wants' = [wants EXCEPT ![put.chr] = @ \cup {put.fd}]
Array == ptr[put.chr]
SetSockets(p) == ptr' = [ptr EXCEPT ![put.chr] = p]
SetNumber(n) == cnt' = [cnt EXCEPT ![put.chr] = n]

\* hk_ll_init puts an element with unwritten fields in front of the list.
SubscribeNew(c) ==
  /\ put.pc = "entry"
  /\ c \notin items
  /\ items' = items \cup {c}
  /\ ptr' = [ptr EXCEPT ![c] = Wild]
  /\ cnt' = [cnt EXCEPT ![c] = Wild]
  /\ put' = [put EXCEPT !.pc = "add_clear", !.chr = c]
  /\ Disturb
  /\ UNCHANGED <<heap, open, wants, queue>>

SubscribeEmpty(c) ==
  /\ put.pc = "entry"
  /\ c \in items
  /\ ptr[c] = Null
  /\ put' = [put EXCEPT !.pc = "add_first", !.chr = c]
  /\ UNCHANGED <<store, open, wants, app, queue>>

\* The length grows before the array does.
SubscribeMore(c) ==
  /\ put.pc = "entry"
  /\ c \in items
  /\ ptr[c] # Null
  /\ cnt[c] < MaxSubs
  /\ cnt' = [cnt EXCEPT ![c] = @ + 1]
  /\ put' = [put EXCEPT !.pc = "add_alloc", !.chr = c, !.old = ptr[c]]
  /\ Disturb
  /\ UNCHANGED <<items, ptr, heap, open, wants, queue>>

AddClear ==
  /\ put.pc = "add_clear"
  /\ SetSockets(Null)
  /\ Goto("add_first")
  /\ Disturb
  /\ UNCHANGED <<items, cnt, heap, open, wants, queue>>

AddFirst ==
  /\ put.pc = "add_first"
  /\ \E b \in Blocks : Malloc(b, 1) /\ SetSockets(b)
  /\ Goto("add_one")
  /\ Disturb
  /\ UNCHANGED <<items, cnt, open, wants, queue>>

AddOne ==
  /\ put.pc = "add_one"
  /\ SetNumber(1)
  /\ Goto("add_set")
  /\ Disturb
  /\ UNCHANGED <<items, ptr, heap, open, wants, queue>>

AddSet ==
  /\ put.pc = "add_set"
  /\ heap' = [heap EXCEPT ![Array][1] = put.fd]
  /\ Subscribed
  /\ NextEntry
  /\ Disturb
  /\ UNCHANGED <<items, ptr, cnt, open, queue>>

AddAlloc ==
  /\ put.pc = "add_alloc"
  /\ \E b \in Blocks : Malloc(b, cnt[put.chr]) /\ SetSockets(b)
  /\ Goto("add_last")
  /\ Disturb
  /\ UNCHANGED <<items, cnt, open, wants, queue>>

AddLast ==
  /\ put.pc = "add_last"
  /\ heap' = [heap EXCEPT ![Array][cnt[put.chr]] = put.fd]
  /\ Goto("add_copy")
  /\ Disturb
  /\ UNCHANGED <<items, ptr, cnt, open, wants, queue>>

AddCopy ==
  /\ put.pc = "add_copy"
  /\ heap' = [heap EXCEPT ![Array] =
                [i \in DOMAIN @ |-> IF i < cnt[put.chr] THEN heap[put.old][i] ELSE @[i]]]
  /\ Goto("add_free")
  /\ Disturb
  /\ UNCHANGED <<items, ptr, cnt, open, wants, queue>>

\* Mutant of AddFree: the old array is not freed.
AddFreeLeaks ==
  /\ put.pc = "add_free"
  /\ Subscribed
  /\ NextEntry
  /\ Disturb
  /\ UNCHANGED <<store, open, queue>>

AddFree ==
  /\ put.pc = "add_free"
  /\ heap' = [heap EXCEPT ![put.old] = Null]
  /\ Subscribed
  /\ NextEntry
  /\ Disturb
  /\ UNCHANGED <<items, ptr, cnt, open, queue>>

FirstIndex(list, f) ==
  CHOOSE i \in DOMAIN list : list[i] = f /\ \A j \in 1..(i - 1) : list[j] # f

Unsubscribed(c) == wants' = [wants EXCEPT ![c] = @ \ {put.fd}]

Subscribers(c) ==
  IF ptr[c] = Null THEN {} ELSE {heap[ptr[c]][i] : i \in DOMAIN heap[ptr[c]]}

(***************************************************************************)
(* No list, or a list without the socket: the test number_of_sockets - 1   *)
(* > 0 is unsigned, so an emptied list searches in vain as well.           *)
(***************************************************************************)
UnsubscribeNone(c) ==
  /\ put.pc = "entry"
  /\ c \in items => cnt[c] # 1 /\ put.fd \notin Subscribers(c)
  /\ Unsubscribed(c)
  /\ UNCHANGED <<store, open, put, app, queue>>

UnsubscribeOne(c) ==
  /\ put.pc = "entry"
  /\ c \in items
  /\ cnt[c] # 1
  /\ put.fd \in Subscribers(c)
  /\ cnt' = [cnt EXCEPT ![c] = @ - 1]
  /\ put' = [put EXCEPT !.pc = "rem_alloc", !.chr = c, !.old = ptr[c]]
  /\ Unsubscribed(c)
  /\ Disturb
  /\ UNCHANGED <<items, ptr, heap, open, queue>>

\* One subscription is left: it goes, whichever socket it belongs to.
UnsubscribeLast(c) ==
  /\ put.pc = "entry"
  /\ c \in items
  /\ cnt[c] = 1
  /\ cnt' = [cnt EXCEPT ![c] = 0]
  /\ put' = [put EXCEPT !.pc = "last_free", !.chr = c]
  /\ Unsubscribed(c)
  /\ Disturb
  /\ UNCHANGED <<items, ptr, heap, open, queue>>

RemAlloc ==
  /\ put.pc = "rem_alloc"
  /\ \E b \in Blocks : Malloc(b, cnt[put.chr]) /\ SetSockets(b)
  /\ Goto("rem_head")
  /\ Disturb
  /\ UNCHANGED <<items, cnt, open, wants, queue>>

RemHead ==
  /\ put.pc = "rem_head"
  /\ heap' = [heap EXCEPT ![Array] =
                [i \in DOMAIN @ |-> IF i < FirstIndex(heap[put.old], put.fd)
                                    THEN heap[put.old][i] ELSE @[i]]]
  /\ Goto("rem_tail")
  /\ Disturb
  /\ UNCHANGED <<items, ptr, cnt, open, wants, queue>>

\* Mutant of RemTail: the source of the second memcpy is off by one.
RemTailOffByOne ==
  /\ put.pc = "rem_tail"
  /\ heap' = [heap EXCEPT ![Array] =
                [i \in DOMAIN @ |-> IF i < FirstIndex(heap[put.old], put.fd)
                                    THEN @[i] ELSE heap[put.old][i]]]
  /\ Goto("rem_free")
  /\ Disturb
  /\ UNCHANGED <<items, ptr, cnt, open, wants, queue>>

RemTail ==
  /\ put.pc = "rem_tail"
  /\ heap' = [heap EXCEPT ![Array] =
                [i \in DOMAIN @ |-> IF i < FirstIndex(heap[put.old], put.fd)
                                    THEN @[i] ELSE heap[put.old][i + 1]]]
  /\ Goto("rem_free")
  /\ Disturb
  /\ UNCHANGED <<items, ptr, cnt, open, wants, queue>>

RemFree ==
  /\ put.pc = "rem_free"
  /\ heap' = [heap EXCEPT ![put.old] = Null]
  /\ NextEntry
  /\ Disturb
  /\ UNCHANGED <<items, ptr, cnt, open, wants, queue>>

LastFree ==
  /\ put.pc = "last_free"
  /\ heap' = [heap EXCEPT ![Array] = Null]
  /\ Goto("last_clear")
  /\ Disturb
  /\ UNCHANGED <<items, ptr, cnt, open, wants, queue>>

LastClear ==
  /\ put.pc = "last_clear"
  /\ SetSockets(Null)
  /\ NextEntry
  /\ Disturb
  /\ UNCHANGED <<items, cnt, heap, open, wants, queue>>

-----------------------------------------------------------------------------
(* hk_notify, in the application's task.  The global state number that it  *)
(* increments first is in flash and mDNS, not in this module.              *)

Notify(c) ==
  /\ app.pc = "idle"
  /\ app' = [NoNotify EXCEPT !.pc = "sockets", !.chr = c,
                             !.alone = (put.pc \in {"idle", "entry"})]
  /\ UNCHANGED <<store, open, wants, put, queue>>

NotifyGetSockets ==
  /\ app.pc = "sockets"
  /\ app' = IF app.chr \in items
            THEN [app EXCEPT !.pc = "number", !.ptr = ptr[app.chr]]
            ELSE [app EXCEPT !.pc = "done"]
  /\ UNCHANGED <<store, open, wants, put, queue>>

NotifyGetNumber ==
  /\ app.pc = "number"
  /\ \E n \in IF cnt[app.chr] = Wild THEN 0..MaxSubs ELSE {cnt[app.chr]} :
       app' = [app EXCEPT !.pc = IF app.ptr = Null \/ n < 1 THEN "done" ELSE "loop",
                          !.n = n]
  /\ UNCHANGED <<store, open, wants, put, queue>>

\* What a read of element i of the array at p can return.
ReadFrom(p, i) ==
  IF p \in Blocks /\ heap[p] # Null /\ i \in DOMAIN heap[p] /\ heap[p][i] # Wild
  THEN {heap[p][i]}
  ELSE Fd

\* httpd_queue_work fails once: the rest of the loop queues nothing.
NotifySend ==
  /\ app.pc = "loop"
  /\ app.i <= app.n
  /\ \E f \in ReadFrom(app.ptr, app.i) :
       \/ /\ app.ok
          /\ Len(queue) < MaxQueue
          /\ queue' = Append(queue, f)
          /\ app' = [app EXCEPT !.i = @ + 1, !.sent = Append(@, f)]
       \/ /\ app' = [app EXCEPT !.i = @ + 1, !.ok = FALSE]
          /\ queue' = queue
  /\ UNCHANGED <<store, open, wants, put>>

\* Mutant of NotifyLoopEnds: the loop may stop one element early.
NotifyLoopEndsEarly ==
  /\ app.pc = "loop"
  /\ app.i >= app.n
  /\ app' = [app EXCEPT !.pc = "done"]
  /\ UNCHANGED <<store, open, wants, put, queue>>

NotifyLoopEnds ==
  /\ app.pc = "loop"
  /\ app.i > app.n
  /\ app' = [app EXCEPT !.pc = "done"]
  /\ UNCHANGED <<store, open, wants, put, queue>>

NotifyReturns ==
  /\ app.pc = "done"
  /\ app' = NoNotify
  /\ UNCHANGED <<store, open, wants, put, queue>>

-----------------------------------------------------------------------------
(* Work items, in the httpd task: hk_server_send.                          *)

\* The message is sent, or an error is logged; it is freed either way.
SendEvent ==
  /\ put.pc = "idle"
  /\ queue # <<>>
  /\ Head(queue) \in open
  /\ queue' = Tail(queue)
  /\ UNCHANGED <<store, open, wants, put, app>>

Restart ==
  /\ items' = {}
  /\ ptr' = [c \in Chrs |-> Wild]
  /\ cnt' = [c \in Chrs |-> Wild]
  /\ heap' = [b \in Blocks |-> Null]
  /\ open' = {}
  /\ wants' = [c \in Chrs |-> {}]
  /\ put' = NoPut
  /\ app' = NoNotify
  /\ queue' = <<>>

\* A socket without a session has no transport context: NULL is accessed.
SendPanics ==
  /\ put.pc = "idle"
  /\ queue # <<>>
  /\ Head(queue) \notin open
  /\ Restart

\* The array is read through a pointer nobody has written yet.
NotifyPanics ==
  /\ app.pc = "loop"
  /\ app.ptr = Wild
  /\ Restart

-----------------------------------------------------------------------------

AddStep ==
  \/ AddClear
  \/ AddFirst
  \/ AddOne
  \/ AddSet
  \/ AddAlloc
  \/ AddLast
  \/ AddCopy
  \/ AddFree

RemoveStep ==
  \/ RemAlloc
  \/ RemHead
  \/ RemTail
  \/ RemFree
  \/ LastFree
  \/ LastClear

PutEntry(c) ==
  \/ SubscribeNew(c)
  \/ SubscribeEmpty(c)
  \/ SubscribeMore(c)
  \/ UnsubscribeNone(c)
  \/ UnsubscribeOne(c)
  \/ UnsubscribeLast(c)

PutStep ==
  \/ \E c \in Chrs : PutEntry(c)
  \/ AddStep
  \/ RemoveStep
  \/ PutDone
  \/ PutFails

NotifyStep ==
  \/ NotifyGetSockets
  \/ NotifyGetNumber
  \/ NotifySend
  \/ NotifyLoopEnds
  \/ NotifyReturns

Next ==
  \/ PutStep
  \/ \E f \in Fds : Open(f) \/ Close(f) \/ PutRequest(f)
  \/ NotifyStep
  \/ \E c \in Chrs : Notify(c)
  \/ SendEvent
  \/ SendPanics
  \/ NotifyPanics

Spec == Init /\ [][Next]_vars

-----------------------------------------------------------------------------
(* Properties.                                                             *)

(***************************************************************************)
(* Between two entries the store owns the heap it uses: the array of a     *)
(* characteristic has the length its element says, no cell is unwritten,   *)
(* no two characteristics share an array, and no array is left without an  *)
(* owner.  The reallocation of hk_subscription_store_add and _remove must  *)
(* get every index and every free right for that.                          *)
(***************************************************************************)
ArrayFits(c) ==
  IF ptr[c] = Null
  THEN cnt[c] = 0
  ELSE /\ ptr[c] \in Blocks
       /\ heap[ptr[c]] \in Seq(Fds)
       /\ cnt[c] = Len(heap[ptr[c]])
       /\ cnt[c] > 0

StoreOwnsHeap ==
  put.pc \in {"idle", "entry"} =>
    /\ \A c \in items : ArrayFits(c)
    /\ \A c, d \in items : ptr[c] = ptr[d] /\ ptr[c] # Null => c = d
    /\ \A b \in Blocks : heap[b] # Null => \E c \in items : ptr[c] = b

Listed(c) ==
  IF c \in items /\ ptr[c] # Null THEN heap[ptr[c]] ELSE <<>>

(***************************************************************************)
(* A notification that no handler disturbed and whose work items were all  *)
(* accepted queued one event for every socket in the list, in its order,   *)
(* and for no other: without overlap, the unlocked reads are harmless.     *)
(***************************************************************************)
UndisturbedNotifyServesStore ==
  app.pc = "done" /\ app.alone /\ app.ok => app.sent = Listed(app.chr)

(***************************************************************************)
(* What hk.h:91 promises of hk_notify: all listening devices are notified. *)
(* Asked only of a notification that nothing disturbed and of peers that   *)
(* are connected and whose own last request for the characteristic was to  *)
(* subscribe.                                                              *)
(***************************************************************************)
NotifyReachesListeners ==
  app.pc = "done" /\ app.alone /\ app.ok =>
    \A f \in wants[app.chr] : \E n \in DOMAIN app.sent : app.sent[n] = f

-----------------------------------------------------------------------------
(* Refinement of HkSubscriptions.                                          *)

BeforeCopyPcs == {"add_alloc", "add_last", "add_copy", "rem_alloc", "rem_head", "rem_tail"}
EmptyPcs == {"add_clear", "add_first", "add_one", "add_set", "last_free", "last_clear"}

\* A change takes effect when the new array is complete, the old one is kept till then.
Stored(c) ==
  IF put.chr = c /\ put.pc \in EmptyPcs THEN <<>>
  ELSE IF put.chr = c /\ put.pc \in BeforeCopyPcs THEN heap[put.old]
  ELSE Listed(c)

Promise == INSTANCE HkSubscriptions WITH subs <- [c \in Chrs |-> Stored(c)]

(***************************************************************************)
(* The store implements a list per characteristic that subscribe and       *)
(* unsubscribe change in one step, whatever the other task does meanwhile. *)
(***************************************************************************)
ImplementsSubscriptions == Promise!Spec

=============================================================================
