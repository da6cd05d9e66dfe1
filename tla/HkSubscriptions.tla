-------------------------- MODULE HkSubscriptions --------------------------
(***************************************************************************)
(* What the subscription store of the IP stack keeps, seen by the httpd    *)
(* task that changes it: for each characteristic a list of sockets, oldest *)
(* subscription first, changed by one call at a time.  HkIpEvents is the   *)
(* store as it is implemented, in arrays on the heap.                      *)
(***************************************************************************)
EXTENDS Naturals, SequencesExt

CONSTANTS
  Chrs,    \* characteristics that can notify
  Fds,     \* socket numbers
  MaxSubs  \* bound on the subscriptions of one characteristic

VARIABLE subs  \* the sockets subscribed to each characteristic

Init == subs = [c \in Chrs |-> <<>>]

\* hk_subscription_store_add: a socket may subscribe more than once.
Subscribe(c, f) ==
  /\ Len(subs[c]) < MaxSubs
  /\ subs' = [subs EXCEPT ![c] = Append(@, f)]

(***************************************************************************)
(* hk_subscription_store_remove: the last subscription of a characteristic *)
(* goes whichever socket asks, so a socket without one takes away another  *)
(* socket's.                                                               *)
(***************************************************************************)
Unsubscribe(c, f) ==
  subs' = [subs EXCEPT ![c] = IF Len(@) = 1 THEN <<>> ELSE RemoveFirst(@, f)]

\* A panic or a power failure: the store is not persistent.
Restart == subs' = [c \in Chrs |-> <<>>]

Next ==
  \/ \E c \in Chrs, f \in Fds : Subscribe(c, f) \/ Unsubscribe(c, f)
  \/ Restart

Spec == Init /\ [][Next]_subs

=============================================================================
