---------------------------- MODULE HkPairVerify ----------------------------
(***************************************************************************)
(* Pair verify of the IP stack: hk_pair_verify.c, called by the handler    *)
(* hk_server_handlers_pair_verify_post, and the linked list of sessions    *)
(* (hk_ll.c) from which a controller resumes instead of verifying again.   *)
(*                                                                         *)
(* A secret stands for a shared secret together with the session id that   *)
(* is derived from it, or drawn with it on a resume.  A controller has at  *)
(* most one connection and verifies once on it.  The httpd task runs a     *)
(* handler to its end before it looks at another socket, so a handler is   *)
(* one step, with the response it sends; if sending fails httpd closes the *)
(* connection, as it does when the response is lost.                       *)
(***************************************************************************)
EXTENDS Naturals, FiniteSets

CONSTANTS
  Devices,    \* controllers, by identifier
  Secrets,    \* shared secrets, with their session ids
  ZeroIds,    \* secrets whose session id begins with a zero byte
  Nodes,      \* addresses malloc can return for a list element
  Null,       \* the NULL pointer, or no value
  MaxFaults   \* bound on lost connections, restarts, forgotten sessions, tag collisions

ASSUME ConstantsAssumption ==
  /\ ZeroIds \subseteq Secrets
  /\ Null \notin Secrets /\ Null \notin Nodes
  /\ IsFiniteSet(Nodes)
  /\ MaxFaults \in Nat

VARIABLES
  paired,   \* devices with an entry in the pairing store
  head,     \* hk_pair_verify_sessions
  node,     \* memory of the list elements; a freed one keeps its link
  conn,     \* per controller: its connection
  cache,    \* per controller: the secret of the session it would resume
  hung,     \* the httpd task walks the list without end
  faults    \* number of faults so far

list == <<head, node>>
vars == <<paired, list, conn, cache, hung, faults>>

Requests == {"m1", "resume", "m3"}
Responses == {"m2", "m4", "resumed"}

\* The message on the wire; old is the secret a resume response is computed from.
Message(kind, secret, old) == [kind |-> kind, secret |-> secret, old |-> old]
NoMessage == Message("none", Null, Null)

(***************************************************************************)
(* key is keys->accessory_shared_secret, from which the frame keys of this *)
(* end are derived, and secure is is_secure, both of the transport context *)
(* of the connection.  mine is the controller's secret, and up says that   *)
(* it has finished verifying and encrypts.                                 *)
(***************************************************************************)
NoConn == [open |-> FALSE, key |-> Null, secure |-> FALSE,
           mine |-> Null, up |-> FALSE, wire |-> NoMessage]
NewConn == [NoConn EXCEPT !.open = TRUE]

Connection ==
  [open : BOOLEAN, key : Secrets \cup {Null}, secure : BOOLEAN,
   mine : Secrets \cup {Null}, up : BOOLEAN,
   wire : [kind : Requests \cup Responses \cup {"none"},
           secret : Secrets \cup {Null}, old : Secrets \cup {Null}]]

\* An address that is neither allocated nor linked.
NoNode == [live |-> FALSE, secret |-> Null, next |-> Null]

Element == [live : BOOLEAN, secret : Secrets \cup {Null}, next : Nodes \cup {Null}]

TypeOK ==
  /\ paired \subseteq Devices
  /\ head \in Nodes \cup {Null}
  /\ node \in [Nodes -> Element]
  /\ \A n \in Nodes : node[n].live <=> node[n].secret # Null
  /\ conn \in [Devices -> Connection]
  /\ cache \in [Devices -> Secrets \cup {Null}]
  /\ hung \in BOOLEAN
  /\ faults \in 0..MaxFaults

Init ==
  /\ paired = Devices
  /\ head = Null
  /\ node = [n \in Nodes |-> NoNode]
  /\ conn = [d \in Devices |-> NoConn]
  /\ cache = [d \in Devices |-> Null]
  /\ hung = FALSE
  /\ faults = 0

-----------------------------------------------------------------------------
(* The list, as hk_ll_foreach walks it.                                    *)

Length == Cardinality(Nodes)

\* The element after i steps, Null behind the end.  A longer walk is a cycle.
Walk[i \in 0..Length] ==
  IF i = 0 THEN head
  ELSE LET n == Walk[i - 1] IN IF n = Null THEN Null ELSE node[n].next

Cyclic == Walk[Length] # Null

\* hk_mem_equal is strncmp: it does not look behind a zero byte.
SameId(s, t) == s = t \/ {s, t} \subseteq ZeroIds

Matches(i, secret) ==
  Walk[i] \in Nodes /\ node[Walk[i]].live /\ SameId(node[Walk[i]].secret, secret)

IsFirst(i, secret) == Matches(i, secret) /\ \A j \in 0..(i - 1) : ~Matches(j, secret)

Found(secret) == \E i \in 0..Length : IsFirst(i, secret)
FirstMatch(secret) == CHOOSE i \in 0..Length : IsFirst(i, secret)
Session(secret) == Walk[FirstMatch(secret)]

\* The walk ends at the match, or behind the last element.
Touched(secret) ==
  {Walk[i] : i \in 0..(IF Found(secret) THEN FirstMatch(secret) ELSE Length)} \ {Null}

\* Elements that are in the list though their memory was freed.
Dangling == {n \in {Walk[i] : i \in 0..Length} \ {Null} : ~node[n].live}

InUse ==
  {node[n].secret : n \in {n \in Nodes : node[n].live}}
    \cup UNION {{cache[d], conn[d].key, conn[d].mine} : d \in Devices}

OneOf(S) == IF S = {} THEN {} ELSE {CHOOSE s \in S : TRUE}

(***************************************************************************)
(* A new secret, with an id of either kind.  Only equality and ZeroIds     *)
(* tell secrets apart, so it does not matter which unused one is drawn.    *)
(***************************************************************************)
NewSecret == LET unused == Secrets \ InUse
             IN OneOf(unused \ ZeroIds) \cup OneOf(unused \cap ZeroIds)

-----------------------------------------------------------------------------
(* Controllers.  One that remembers a session resumes it, as long as the   *)
(* accessory does not answer with a full pair verify.                      *)

SetConn(d, c) == conn' = [conn EXCEPT ![d] = c]
Send(d, m) == SetConn(d, [conn[d] EXCEPT !.wire = m])

Connect(d) ==
  /\ ~conn[d].open
  /\ SetConn(d, [NewConn EXCEPT !.wire =
       IF cache[d] = Null THEN Message("m1", Null, Null) ELSE Message("resume", cache[d], Null)])
  /\ UNCHANGED <<paired, list, cache, hung, faults>>

ReceiveM2(d) ==
  /\ conn[d].wire.kind = "m2"
  /\ SetConn(d, [conn[d] EXCEPT !.mine = conn[d].wire.secret,
                                !.wire = Message("m3", conn[d].wire.secret, Null)])
  /\ UNCHANGED <<paired, list, cache, hung, faults>>

ReceiveM4(d) ==
  /\ conn[d].wire.kind = "m4"
  /\ SetConn(d, [conn[d] EXCEPT !.up = TRUE, !.wire = NoMessage])
  /\ cache' = [cache EXCEPT ![d] = conn[d].mine]
  /\ UNCHANGED <<paired, list, hung, faults>>

\* The controller checks the tag of the response with the secret it holds.
ReceiveResumed(d) ==
  /\ conn[d].wire.kind = "resumed"
  /\ conn[d].wire.old = cache[d]
  /\ SetConn(d, [conn[d] EXCEPT !.up = TRUE, !.wire = NoMessage,
                                !.mine = conn[d].wire.secret])
  /\ cache' = [cache EXCEPT ![d] = conn[d].wire.secret]
  /\ UNCHANGED <<paired, list, hung, faults>>

RefuseResumed(d) ==
  /\ conn[d].wire.kind = "resumed"
  /\ conn[d].wire.old # cache[d]
  /\ SetConn(d, NoConn)
  /\ UNCHANGED <<paired, list, cache, hung, faults>>

Disconnect(d) ==
  /\ conn[d].up
  /\ SetConn(d, NoConn)
  /\ UNCHANGED <<paired, list, cache, hung, faults>>

Fault == faults < MaxFaults /\ faults' = faults + 1

\* A message is lost, sending fails, a key cannot be read: httpd closes.
Lose(d) ==
  /\ conn[d].open
  /\ Fault
  /\ SetConn(d, NoConn)
  /\ UNCHANGED <<paired, list, cache, hung>>

\* A request that is never answered.
GiveUp(d) ==
  /\ hung
  /\ conn[d].open
  /\ SetConn(d, NoConn)
  /\ UNCHANGED <<paired, list, cache, hung, faults>>

Forget(d) ==
  /\ ~conn[d].open
  /\ cache[d] # Null
  /\ Fault
  /\ cache' = [cache EXCEPT ![d] = Null]
  /\ UNCHANGED <<paired, list, conn, hung>>

\* Pair setup; and removals, which leave the sessions of the devices alone.
PairSetup(d) ==
  /\ d \notin paired
  /\ paired' = paired \cup {d}
  /\ UNCHANGED <<list, conn, cache, hung, faults>>

RemovePairing(d) ==
  /\ d \in paired
  /\ Fault
  /\ paired' = paired \ {d}
  /\ UNCHANGED <<list, conn, cache, hung>>

-----------------------------------------------------------------------------
(* The accessory.                                                          *)

Reboot ==
  /\ head' = Null
  /\ node' = [n \in Nodes |-> NoNode]
  /\ conn' = [d \in Devices |-> NoConn]
  /\ hung' = FALSE
  /\ UNCHANGED <<paired, cache>>

Restart == Fault /\ Reboot

Panic == Reboot /\ UNCHANGED faults

Request(d, kind) == ~hung /\ conn[d].wire.kind = kind

\* New secret, keys from it, response M2; is_secure stays as it is.
StartAndSend(d) ==
  \E s \in NewSecret :
    SetConn(d, [conn[d] EXCEPT !.key = s, !.wire = Message("m2", s, Null)])

VerifyStart(d) ==
  /\ Request(d, "m1")
  /\ StartAndSend(d)
  /\ UNCHANGED <<paired, list, cache, hung, faults>>

\* Free addresses differ only in being still linked in the list or not.
Malloc == LET free == {n \in Nodes : ~node[n].live}
          IN OneOf(free \ Dangling) \cup OneOf(free \cap Dangling)

\* Mutant of Push: the new element has no secret.
PushWithoutSecret(n, secret) ==
  /\ head' = n
  /\ node' = [node EXCEPT ![n] = [live |-> TRUE, secret |-> Null, next |-> head]]

\* Mutant of Push: the new element is not linked to the list.
PushUnlinked(n, secret) ==
  /\ head' = n
  /\ node' = [node EXCEPT ![n] = [live |-> TRUE, secret |-> secret, next |-> Null]]

\* hk_ll_init after hk_ll_count: a new element in front of the list.
Push(n, secret) ==
  /\ head' = n
  /\ node' = [node EXCEPT ![n] = [live |-> TRUE, secret |-> secret, next |-> head]]

Verified(d) == d \in paired /\ conn[d].wire.secret = conn[d].key

VerifyFinish(d) ==
  /\ Request(d, "m3")
  /\ Verified(d)
  /\ ~Cyclic
  /\ \E n \in Malloc : Push(n, conn[d].key)
  /\ SetConn(d, [conn[d] EXCEPT !.secure = TRUE, !.wire = Message("m4", Null, Null)])
  /\ UNCHANGED <<paired, cache, hung, faults>>

\* The handler fails, so its response is not sent and httpd closes.
VerifyRefused(d) ==
  /\ Request(d, "m3")
  /\ ~Verified(d)
  /\ SetConn(d, NoConn)
  /\ UNCHANGED <<paired, list, cache, hung, faults>>

\* hk_ll_count does not end.
FinishHangs(d) ==
  /\ Request(d, "m3")
  /\ Verified(d)
  /\ Cyclic
  /\ hung' = TRUE
  /\ UNCHANGED <<paired, list, conn, cache, faults>>

\* A freed element is counted, or malloc returns NULL.
FinishPanics(d) ==
  /\ Request(d, "m3")
  /\ Verified(d)
  /\ Dangling # {} \/ Malloc = {}
  /\ Panic

\* Mutant of ResumeNotFound: no full pair verify when the session is unknown.
ResumeNotFoundCloses(d) ==
  /\ Request(d, "resume")
  /\ ~Found(conn[d].wire.secret)
  /\ ~Cyclic
  /\ SetConn(d, NoConn)
  /\ UNCHANGED <<paired, list, cache, hung, faults>>

ResumeNotFound(d) ==
  /\ Request(d, "resume")
  /\ ~Found(conn[d].wire.secret)
  /\ ~Cyclic
  /\ StartAndSend(d)
  /\ UNCHANGED <<paired, list, cache, hung, faults>>

\* Mutant of Rotate: the frame keys are not derived anew.
RotateKeepsKeys(d, n) ==
  \E s \in NewSecret :
    /\ node' = [node EXCEPT ![n].secret = s]
    /\ SetConn(d, [conn[d] EXCEPT !.secure = TRUE,
                                  !.wire = Message("resumed", s, node[n].secret)])

(***************************************************************************)
(* The session gets a new id and a new secret before the response is sent, *)
(* so a lost response leaves the controller with an id that is gone.       *)
(***************************************************************************)
Rotate(d, n) ==
  \E s \in NewSecret :
    /\ node' = [node EXCEPT ![n].secret = s]
    /\ SetConn(d, [conn[d] EXCEPT !.key = s, !.secure = TRUE,
                                  !.wire = Message("resumed", s, node[n].secret)])

\* The tag of the request is right if both ends hold the same secret.
TagFits(d) == node[Session(conn[d].wire.secret)].secret = conn[d].wire.secret

ResumeAccepted(d) ==
  /\ Request(d, "resume")
  /\ Found(conn[d].wire.secret)
  /\ TagFits(d)
  /\ Rotate(d, Session(conn[d].wire.secret))
  /\ UNCHANGED <<paired, head, cache, hung, faults>>

\* Tags are compared with strncmp, too, so a wrong one may pass.
ResumeMistaken(d) ==
  /\ Request(d, "resume")
  /\ Found(conn[d].wire.secret)
  /\ ~TagFits(d)
  /\ Fault
  /\ Rotate(d, Session(conn[d].wire.secret))
  /\ UNCHANGED <<paired, head, cache, hung>>

\* The result of hk_ll_remove is dropped: a head that is freed stays the head.
Unlink(n) ==
  IF n = head
  THEN node' = [node EXCEPT ![n] = [NoNode EXCEPT !.next = node[n].next]]
  ELSE \E i \in 1..Length :
         /\ Walk[i] = n
         /\ \A j \in 1..(i - 1) : Walk[j] # n
         /\ node' = [node EXCEPT ![n] = NoNode, ![Walk[i - 1]].next = node[n].next]

\* Wrong tag: the session found is dropped and pair verify starts anew.
ResumeRejected(d) ==
  /\ Request(d, "resume")
  /\ Found(conn[d].wire.secret)
  /\ ~TagFits(d)
  /\ Unlink(Session(conn[d].wire.secret))
  /\ StartAndSend(d)
  /\ UNCHANGED <<paired, head, cache, hung, faults>>

ResumeHangs(d) ==
  /\ Request(d, "resume")
  /\ ~Found(conn[d].wire.secret)
  /\ Cyclic
  /\ hung' = TRUE
  /\ UNCHANGED <<paired, list, conn, cache, faults>>

\* The id of a freed element is read: NULL, or whatever is there by now.
ResumePanics(d) ==
  /\ Request(d, "resume")
  /\ Touched(conn[d].wire.secret) \cap Dangling # {}
  /\ Panic

-----------------------------------------------------------------------------

Serve(d) ==
  \/ VerifyStart(d)
  \/ VerifyFinish(d)
  \/ VerifyRefused(d)
  \/ FinishHangs(d)
  \/ FinishPanics(d)
  \/ ResumeNotFound(d)
  \/ ResumeAccepted(d)
  \/ ResumeMistaken(d)
  \/ ResumeRejected(d)
  \/ ResumeHangs(d)
  \/ ResumePanics(d)

Controller(d) ==
  \/ Connect(d)
  \/ ReceiveM2(d)
  \/ ReceiveM4(d)
  \/ ReceiveResumed(d)
  \/ RefuseResumed(d)

Next ==
  \/ \E d \in Devices : Serve(d) \/ Controller(d) \/ Disconnect(d) \/ Lose(d)
                       \/ GiveUp(d) \/ Forget(d)
  \/ \E d \in Devices : PairSetup(d) \/ RemovePairing(d)
  \/ Restart

Spec == Init /\ [][Next]_vars

(***************************************************************************)
(* httpd serves every socket that is ready in each turn of its loop.  That *)
(* a controller connects again and answers is an assumption about it.      *)
(***************************************************************************)
FairSpec ==
  Spec /\ \A d \in Devices : WF_vars(Serve(d)) /\ WF_vars(Controller(d))

-----------------------------------------------------------------------------
(* Properties.                                                             *)

(***************************************************************************)
(* Whenever a controller encrypts, the accessory encrypts on that          *)
(* connection, with the same secret: neither a lost response nor a session *)
(* that another controller's resume destroyed or rotated can make the two  *)
(* ends of a connection disagree.                                          *)
(***************************************************************************)
SecureKeysAgree ==
  \A d \in Devices : conn[d].up => conn[d].secure /\ conn[d].key = conn[d].mine

ListIsSound == ~Cyclic /\ Dangling = {}

(***************************************************************************)
(* A controller that finished verifying has one session in the list, with  *)
(* the secret it will resume with, whatever other controllers did to the   *)
(* list since.  Excepted are an id that begins with a zero byte, which a   *)
(* resume of another controller can hit, and a list that is broken.        *)
(***************************************************************************)
SessionIsKept ==
  ListIsSound =>
    \A d \in Devices :
      conn[d].up /\ cache[d] \notin ZeroIds =>
        Cardinality({i \in 0..Length : Walk[i] # Null /\ node[Walk[i]].secret = cache[d]}) = 1

(***************************************************************************)
(* hk_ll.h:40: who deletes in the list has to restore the pointers, so no  *)
(* element is linked whose memory was freed.                               *)
(***************************************************************************)
ListIsLinked == Dangling = {}

(***************************************************************************)
(* A controller that stays paired gets a secure connection again and again *)
(* (the fallback to a full pair verify works after a lost response, a      *)
(* restart or a session that is gone), unless the list was broken.         *)
(***************************************************************************)
PairedGetsThrough ==
  \A d \in Devices :
    []ListIsSound /\ <>[](d \in paired) => []<>(conn[d].up)

=============================================================================
