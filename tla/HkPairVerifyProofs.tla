------------------------- MODULE HkPairVerifyProofs -------------------------
(***************************************************************************)
(* Proofs about HkPairVerify, for any number of controllers, secrets, list *)
(* elements and faults.  First the types, and that both ends of a          *)
(* connection on which a controller encrypts hold the same secret: nothing *)
(* there depends on the shape of the list, which a removal can break.      *)
(* Then the list: how the walk through it changes when an element is       *)
(* pushed or unlinked, and from that that sessions in use stay in it.      *)
(***************************************************************************)
EXTENDS HkPairVerify, HkNumbers

(***************************************************************************)
(* Every message on the wire announces what its receiver may conclude: M2  *)
(* the key of the accessory, M3 the key of the controller, and both M4 and *)
(* a resume response that the accessory encrypts from here on.             *)
(***************************************************************************)
Agrees(c) ==
  /\ c.up => c.secure /\ c.key = c.mine /\ c.wire.kind = "none"
  /\ c.wire.kind = "m2" => c.key = c.wire.secret /\ c.key # Null
  /\ c.wire.kind = "m3" => c.mine = c.wire.secret /\ c.mine # Null
  /\ c.wire.kind = "m4" => c.secure /\ c.key = c.mine
  /\ c.wire.kind = "resumed" => c.secure /\ c.key = c.wire.secret

ConnectionsAgree == \A d \in Devices : Agrees(conn[d])

Inv == TypeOK /\ ConnectionsAgree

-----------------------------------------------------------------------------

LEMMA NewSecretType == NewSecret \subseteq Secrets
BY DEF NewSecret, OneOf

LEMMA MallocReturnsFree == \A n \in Malloc : n \in Nodes /\ ~node[n].live
BY DEF Malloc, OneOf

LEMMA SessionIsLive ==
  ASSUME NEW secret, Found(secret)
  PROVE  Session(secret) \in Nodes /\ node[Session(secret)].live
BY DEF Found, FirstMatch, Session, IsFirst, Matches

LEMMA NoConnIsGood == NoConn \in Connection /\ Agrees(NoConn)
BY DEF NoConn, NoMessage, Message, Connection, Agrees

LEMMA NoNodeType == NoNode \in Element
BY DEF NoNode, Element

\* A step that sets one connection to a good one keeps all of them good.
LEMMA SetConnKeeps ==
  ASSUME Inv, NEW d \in Devices, NEW c \in Connection, Agrees(c), SetConn(d, c)
  PROVE  conn' \in [Devices -> Connection] /\ ConnectionsAgree'
<1>1. /\ conn' = [conn EXCEPT ![d] = c]
      /\ conn \in [Devices -> Connection]
  BY DEF SetConn, Inv, TypeOK
<1>2. conn' \in [Devices -> Connection]
  BY <1>1
<1>3. ASSUME NEW e \in Devices PROVE Agrees(conn'[e])
  <2>1. CASE e = d
    BY <1>1, <2>1
  <2>2. CASE e # d
    BY <1>1, <2>2 DEF Inv, ConnectionsAgree
  <2> QED
    BY <2>1, <2>2
<1> QED
  BY <1>2, <1>3 DEF ConnectionsAgree, Agrees

LEMMA StartKeeps ==
  ASSUME Inv, NEW d \in Devices, ~conn[d].up, StartAndSend(d)
  PROVE  conn' \in [Devices -> Connection] /\ ConnectionsAgree'
<1>1. PICK s \in NewSecret :
        SetConn(d, [conn[d] EXCEPT !.key = s, !.wire = Message("m2", s, Null)])
  BY DEF StartAndSend
<1> DEFINE c == [conn[d] EXCEPT !.key = s, !.wire = Message("m2", s, Null)]
<1>2. s \in Secrets /\ s # Null /\ conn[d] \in Connection
  BY NewSecretType, ConstantsAssumption DEF Inv, TypeOK
<1>3. c \in Connection
  BY <1>2 DEF Connection, Message, Responses
<1>4. Agrees(c)
  BY <1>2 DEF Connection, Message, Agrees
<1> QED
  BY <1>1, <1>3, <1>4, SetConnKeeps

LEMMA RotateKeeps ==
  ASSUME Inv, NEW d \in Devices, ~conn[d].up,
         NEW n \in Nodes, node[n].live, Rotate(d, n)
  PROVE  /\ node' \in [Nodes -> Element]
         /\ \A m \in Nodes : node'[m].live <=> node'[m].secret # Null
         /\ conn' \in [Devices -> Connection]
         /\ ConnectionsAgree'
<1>1. PICK s \in NewSecret :
        /\ node' = [node EXCEPT ![n].secret = s]
        /\ SetConn(d, [conn[d] EXCEPT !.key = s, !.secure = TRUE,
                                      !.wire = Message("resumed", s, node[n].secret)])
  BY DEF Rotate
<1> DEFINE c == [conn[d] EXCEPT !.key = s, !.secure = TRUE,
                                !.wire = Message("resumed", s, node[n].secret)]
<1>2. /\ s \in Secrets /\ s # Null
      /\ conn[d] \in Connection /\ node \in [Nodes -> Element]
      /\ \A m \in Nodes : node[m].live <=> node[m].secret # Null
  BY NewSecretType, ConstantsAssumption DEF Inv, TypeOK
<1>3. node' \in [Nodes -> Element] /\ \A m \in Nodes : node'[m].live <=> node'[m].secret # Null
  BY <1>1, <1>2 DEF Element
<1>4. c \in Connection
  BY <1>2 DEF Connection, Element, Message, Responses
<1>5. Agrees(c)
  BY <1>2 DEF Connection, Message, Agrees
<1>6. conn' \in [Devices -> Connection] /\ ConnectionsAgree'
  BY <1>1, <1>4, <1>5, SetConnKeeps
<1> QED
  BY <1>3, <1>6

LEMMA UnlinkKeeps ==
  ASSUME Inv, NEW n \in Nodes, Unlink(n)
  PROVE  /\ node' \in [Nodes -> Element]
         /\ \A m \in Nodes : node'[m].live <=> node'[m].secret # Null
<1>1. /\ node \in [Nodes -> Element]
      /\ \A m \in Nodes : node[m].live <=> node[m].secret # Null
  BY DEF Inv, TypeOK
<1>2. node[n].next \in Nodes \cup {Null}
  BY <1>1 DEF Element
<1>3. CASE n = head
  <2> DEFINE e == [NoNode EXCEPT !.next = node[n].next]
  <2>1. e \in Element /\ e.live = FALSE /\ e.secret = Null
    BY <1>2 DEF NoNode, Element
  <2>2. node' = [node EXCEPT ![n] = e]
    BY <1>3 DEF Unlink
  <2> HIDE DEF e
  <2> QED
    BY <1>1, <2>1, <2>2
<1>4. CASE n # head
  <2>1. PICK i \in 1..Length :
          node' = [node EXCEPT ![n] = NoNode, ![Walk[i - 1]].next = node[n].next]
    BY <1>4 DEF Unlink
  <2> DEFINE freed == [node EXCEPT ![n] = NoNode]
             prev == Walk[i - 1]
  <2>2. /\ freed \in [Nodes -> Element]
        /\ \A m \in Nodes : freed[m].live <=> freed[m].secret # Null
    BY <1>1 DEF NoNode, Element
  <2>3. node' = [freed EXCEPT ![prev].next = node[n].next]
    BY <2>1
  <2> HIDE DEF freed, prev
  <2> QED
    BY ZenonT(60), <1>2, <2>2, <2>3 DEF Element
<1> QED
  BY <1>3, <1>4

-----------------------------------------------------------------------------

\* Without connections, all of them agree.
THEOREM InvInit == Init => Inv
<1> SUFFICES ASSUME Init PROVE Inv
  OBVIOUS
<1>1. /\ conn \in [Devices -> Connection]
      /\ ConnectionsAgree
  BY NoConnIsGood DEF Init, ConnectionsAgree
<1>2. /\ node \in [Nodes -> Element]
      /\ \A n \in Nodes : node[n].live <=> node[n].secret # Null
  BY NoNodeType DEF Init, NoNode
<1>3. /\ paired \subseteq Devices
      /\ head \in Nodes \cup {Null}
      /\ hung \in BOOLEAN
  BY DEF Init
<1>4. cache \in [Devices -> Secrets \cup {Null}]
  BY DEF Init
<1>5. faults \in 0..MaxFaults
  BY ConstantsAssumption DEF Init
<1> QED
  BY <1>1, <1>2, <1>3, <1>4, <1>5 DEF Inv, TypeOK

\* What a reboot leaves.
LEMMA RebootKeeps ==
  ASSUME Inv, Reboot, faults' \in 0..MaxFaults
  PROVE  Inv'
<1>1. /\ conn' \in [Devices -> Connection]
      /\ ConnectionsAgree'
  BY NoConnIsGood DEF Reboot, ConnectionsAgree, Agrees
<1>2. /\ node' \in [Nodes -> Element]
      /\ \A n \in Nodes : node'[n].live <=> node'[n].secret # Null
  BY NoNodeType DEF Reboot, NoNode
<1> QED
  BY <1>1, <1>2 DEF Reboot, Inv, TypeOK

LEMMA FaultType == Inv /\ Fault => faults' \in 0..MaxFaults
BY ConstantsAssumption DEF Inv, TypeOK, Fault

\* The accessory's steps.
LEMMA ServeKeeps ==
  ASSUME Inv, NEW d \in Devices, Serve(d)
  PROVE  Inv'
<1>1. ASSUME NEW kind \in Requests, Request(d, kind)
      PROVE  ~conn[d].up /\ conn[d] \in Connection
  BY <1>1 DEF Request, Requests, Inv, TypeOK, ConnectionsAgree, Agrees
<1>2. CASE VerifyStart(d)
  <2>1. conn' \in [Devices -> Connection] /\ ConnectionsAgree'
    BY <1>1, <1>2, StartKeeps DEF VerifyStart, Requests
  <2> QED
    BY <1>2, <2>1 DEF VerifyStart, Inv, TypeOK, list
<1>3. CASE VerifyFinish(d)
  <2> DEFINE c == [conn[d] EXCEPT !.secure = TRUE, !.wire = Message("m4", Null, Null)]
  <2>1. /\ conn[d] \in Connection
        /\ Agrees(conn[d]) /\ conn[d].wire.kind = "m3" /\ conn[d].key = conn[d].wire.secret
    BY <1>1, <1>3 DEF VerifyFinish, Request, Requests, Verified, Inv, ConnectionsAgree
  <2>2. c \in Connection
    BY <2>1 DEF Connection, Message, Responses
  <2>3. Agrees(c)
    BY <2>1 DEF Connection, Message, Agrees
  <2>4. conn' \in [Devices -> Connection] /\ ConnectionsAgree'
    BY <1>3, <2>2, <2>3, SetConnKeeps DEF VerifyFinish
  <2>5. PICK n \in Malloc : Push(n, conn[d].key)
    BY <1>3 DEF VerifyFinish
  <2>6. n \in Nodes
    BY MallocReturnsFree
  <2>7. conn[d].key \in Secrets
    BY <2>1 DEF Agrees, Connection
  <2>8. head \in Nodes \cup {Null} /\ node \in [Nodes -> Element]
    BY DEF Inv, TypeOK
  <2> DEFINE e == [live |-> TRUE, secret |-> conn[d].key, next |-> head]
  <2>9. e \in Element /\ e.live /\ e.secret # Null
    BY <2>7, <2>8, ConstantsAssumption DEF Element
  <2>10. head' = n /\ node' = [node EXCEPT ![n] = e]
    BY <2>5 DEF Push
  <2> HIDE DEF e
  <2>11. /\ node' \in [Nodes -> Element]
         /\ \A m \in Nodes : node'[m].live <=> node'[m].secret # Null
    BY <2>6, <2>8, <2>9, <2>10 DEF Inv, TypeOK
  <2> QED
    BY <1>3, <2>4, <2>6, <2>10, <2>11 DEF VerifyFinish, Inv, TypeOK
<1>4. CASE VerifyRefused(d)
  <2>1. conn' \in [Devices -> Connection] /\ ConnectionsAgree'
    BY <1>4, NoConnIsGood, SetConnKeeps DEF VerifyRefused
  <2> QED
    BY <1>4, <2>1 DEF VerifyRefused, Inv, TypeOK, list
<1>5. CASE FinishHangs(d) \/ ResumeHangs(d)
  BY ZenonT(60), <1>5 DEF FinishHangs, ResumeHangs, Inv, TypeOK, list, ConnectionsAgree, Agrees
<1>6. CASE FinishPanics(d) \/ ResumePanics(d)
  BY <1>6, RebootKeeps DEF FinishPanics, ResumePanics, Panic, Inv, TypeOK
<1>7. CASE ResumeNotFound(d)
  <2>1. conn' \in [Devices -> Connection] /\ ConnectionsAgree'
    BY <1>1, <1>7, StartKeeps DEF ResumeNotFound, Requests
  <2> QED
    BY <1>7, <2>1 DEF ResumeNotFound, Inv, TypeOK, list
<1>8. CASE ResumeAccepted(d) \/ ResumeMistaken(d)
  <2> DEFINE n == Session(conn[d].wire.secret)
  <2>1. n \in Nodes /\ node[n].live /\ ~conn[d].up /\ Rotate(d, n)
    BY <1>1, <1>8, SessionIsLive DEF ResumeAccepted, ResumeMistaken, Requests
  <2> HIDE DEF n
  <2>2. /\ node' \in [Nodes -> Element]
        /\ \A m \in Nodes : node'[m].live <=> node'[m].secret # Null
        /\ conn' \in [Devices -> Connection]
        /\ ConnectionsAgree'
    BY <2>1, RotateKeeps
  <2>3. faults' \in 0..MaxFaults
    BY <1>8, FaultType DEF ResumeAccepted, ResumeMistaken, Inv, TypeOK
  <2> QED
    BY <1>8, <2>2, <2>3 DEF ResumeAccepted, ResumeMistaken, Inv, TypeOK
<1>9. CASE ResumeRejected(d)
  <2>1. conn' \in [Devices -> Connection] /\ ConnectionsAgree'
    BY <1>1, <1>9, StartKeeps DEF ResumeRejected, Requests
  <2> DEFINE n == Session(conn[d].wire.secret)
  <2>2. n \in Nodes /\ Unlink(n)
    BY <1>9, SessionIsLive DEF ResumeRejected
  <2> HIDE DEF n
  <2>3. /\ node' \in [Nodes -> Element]
        /\ \A m \in Nodes : node'[m].live <=> node'[m].secret # Null
    BY <2>2, UnlinkKeeps
  <2> QED
    BY <1>9, <2>1, <2>3 DEF ResumeRejected, Inv, TypeOK
<1> QED
  BY <1>2, <1>3, <1>4, <1>5, <1>6, <1>7, <1>8, <1>9 DEF Serve

\* The controllers' steps.
LEMMA ControllerKeeps ==
  ASSUME Inv, NEW d \in Devices,
         Controller(d) \/ Disconnect(d) \/ Lose(d) \/ GiveUp(d) \/ Forget(d)
  PROVE  Inv'
<1>1. conn[d] \in Connection /\ Agrees(conn[d]) /\ cache \in [Devices -> Secrets \cup {Null}]
  BY DEF Inv, TypeOK, ConnectionsAgree
<1>2. CASE Connect(d)
  <2> DEFINE m == IF cache[d] = Null THEN Message("m1", Null, Null)
                  ELSE Message("resume", cache[d], Null)
             c == [NewConn EXCEPT !.wire = m]
  <2>1. m \in [kind : {"m1", "resume"}, secret : Secrets \cup {Null}, old : {Null}]
    BY <1>1 DEF Message
  <2>2. SetConn(d, c)
    BY <1>2 DEF Connect
  <2> HIDE DEF m
  <2>3. c \in Connection /\ Agrees(c)
    BY <2>1 DEF NewConn, NoConn, Connection, Requests, Agrees
  <2>4. conn' \in [Devices -> Connection] /\ ConnectionsAgree'
    BY <2>2, <2>3, SetConnKeeps
  <2> QED
    BY <1>2, <2>4 DEF Connect, Inv, TypeOK, list
<1>3. CASE ReceiveM2(d)
  <2> DEFINE c == [conn[d] EXCEPT !.mine = conn[d].wire.secret,
                                  !.wire = Message("m3", conn[d].wire.secret, Null)]
  <2>1. c \in Connection
    BY <1>1 DEF Connection, Message, Requests
  <2>2. Agrees(c)
    BY <1>1, <1>3 DEF ReceiveM2, Connection, Message, Agrees
  <2>3. conn' \in [Devices -> Connection] /\ ConnectionsAgree'
    BY <1>3, <2>1, <2>2, SetConnKeeps DEF ReceiveM2
  <2> QED
    BY <1>3, <2>3 DEF ReceiveM2, Inv, TypeOK, list
<1>4. CASE ReceiveM4(d)
  <2> DEFINE c == [conn[d] EXCEPT !.up = TRUE, !.wire = NoMessage]
  <2>1. c \in Connection
    BY <1>1 DEF Connection, NoMessage, Message
  <2>2. Agrees(c)
    BY <1>1, <1>4 DEF ReceiveM4, Connection, NoMessage, Message, Agrees
  <2>3. conn' \in [Devices -> Connection] /\ ConnectionsAgree'
    BY <1>4, <2>1, <2>2, SetConnKeeps DEF ReceiveM4
  <2>4. cache' \in [Devices -> Secrets \cup {Null}]
    BY <1>1, <1>4 DEF ReceiveM4, Connection
  <2> QED
    BY <1>4, <2>3, <2>4 DEF ReceiveM4, Inv, TypeOK, list
<1>5. CASE ReceiveResumed(d)
  <2> DEFINE c == [conn[d] EXCEPT !.up = TRUE, !.wire = NoMessage,
                                  !.mine = conn[d].wire.secret]
  <2>1. c \in Connection
    BY <1>1 DEF Connection, NoMessage, Message
  <2>2. Agrees(c)
    BY <1>1, <1>5 DEF ReceiveResumed, Connection, NoMessage, Message, Agrees
  <2>3. conn' \in [Devices -> Connection] /\ ConnectionsAgree'
    BY <1>5, <2>1, <2>2, SetConnKeeps DEF ReceiveResumed
  <2>4. cache' \in [Devices -> Secrets \cup {Null}]
    BY <1>1, <1>5 DEF ReceiveResumed, Connection
  <2> QED
    BY <1>5, <2>3, <2>4 DEF ReceiveResumed, Inv, TypeOK, list
<1>6. CASE RefuseResumed(d) \/ Disconnect(d) \/ Lose(d) \/ GiveUp(d)
  <2>1. conn' \in [Devices -> Connection] /\ ConnectionsAgree'
    BY <1>6, NoConnIsGood, SetConnKeeps DEF RefuseResumed, Disconnect, Lose, GiveUp
  <2>2. faults' \in 0..MaxFaults
    BY <1>6, FaultType DEF RefuseResumed, Disconnect, Lose, GiveUp, Inv, TypeOK
  <2> QED
    BY <1>6, <2>1, <2>2 DEF RefuseResumed, Disconnect, Lose, GiveUp, Inv, TypeOK, list
<1>7. CASE Forget(d)
  <2>1. cache' \in [Devices -> Secrets \cup {Null}]
    BY <1>1, <1>7 DEF Forget
  <2> QED
    BY <1>7, <2>1, FaultType DEF Forget, Inv, TypeOK, list, ConnectionsAgree, Agrees
<1> QED
  BY <1>2, <1>3, <1>4, <1>5, <1>6, <1>7 DEF Controller

\* The type invariant and the agreement of all connections are inductive.
THEOREM InvNext == Inv /\ [Next]_vars => Inv'
<1> SUFFICES ASSUME Inv, [Next]_vars PROVE Inv'
  OBVIOUS
<1>1. ASSUME NEW d \in Devices, Serve(d) PROVE Inv'
  BY <1>1, ServeKeeps
<1>2. ASSUME NEW d \in Devices,
             Controller(d) \/ Disconnect(d) \/ Lose(d) \/ GiveUp(d) \/ Forget(d)
      PROVE  Inv'
  BY <1>2, ControllerKeeps
<1>3. ASSUME NEW d \in Devices, PairSetup(d) \/ RemovePairing(d) PROVE Inv'
  BY <1>3, FaultType
  DEF PairSetup, RemovePairing, Inv, TypeOK, list, ConnectionsAgree, Agrees
<1>4. CASE Restart
  BY <1>4, FaultType, RebootKeeps DEF Restart
<1>5. CASE UNCHANGED vars
  BY <1>5 DEF vars, list, Inv, TypeOK, ConnectionsAgree, Agrees
<1> QED
  BY <1>1, <1>2, <1>3, <1>4, <1>5 DEF Next

\* So the two ends of every connection agree at any time.
THEOREM Invariance == Spec => []Inv
BY InvInit, InvNext, PTL DEF Spec

(***************************************************************************)
(* The variables of pair verify keep their types; an element of the list   *)
(* is allocated exactly as long as it has a secret.                        *)
(***************************************************************************)
THEOREM TypeCorrect == Spec => []TypeOK
<1>1. Inv => TypeOK
  BY DEF Inv
<1> QED
  BY <1>1, Invariance, PTL

(***************************************************************************)
(* A controller that encrypts and the accessory use the same secret on the *)
(* connection, for any number of controllers, faults and id collisions.    *)
(***************************************************************************)
THEOREM KeysAgree == Spec => []SecureKeysAgree
<1>1. Inv => SecureKeysAgree
  BY DEF Inv, ConnectionsAgree, Agrees, SecureKeysAgree
<1> QED
  BY <1>1, Invariance, PTL

-----------------------------------------------------------------------------
(***************************************************************************)
(* w is the walk through the list that begins at h and whose elements have *)
(* the contents f.  The lemmas on walks are stated for any of them, so     *)
(* they hold for the list before a step as for the list after it.          *)
(***************************************************************************)
Path(w, h, f) ==
  /\ w[0] = h
  /\ \A i \in 0..Length :
       i < Length => w[i + 1] = IF w[i] = Null THEN Null ELSE f[w[i]].next

Sound(w, f) == w[Length] = Null /\ \A i \in 0..Length : w[i] # Null => f[w[i]].live

Lists(w, f, s) == \E i \in 0..Length : w[i] # Null /\ f[w[i]].secret = s

LEMMA LengthType == Length \in Nat
BY ConstantsAssumption, FS_CardinalityType DEF Length

\* Walk satisfies the equation it is defined by.
LEMMA WalkIsPath == Path(Walk, head, node)
<1> DEFINE Step(f, i) ==
             IF i = 0 THEN head
             ELSE IF f[i - 1] = Null THEN Null ELSE node[f[i - 1]].next
           Exists(n) == \E f : f = [i \in 0..n |-> Step(f, i)]
           walk == CHOOSE f : f = [i \in 0..Length |-> Step(f, i)]
<1>1. Walk = walk
  BY DEF Walk
<1>2. \A n \in Nat : Exists(n)
  <2> DEFINE S == {n \in Nat : Exists(n)}
  <2>1. Exists(0)
    <3> DEFINE f == [i \in 0..0 |-> head]
    <3>1. f = [i \in 0..0 |-> Step(f, i)]
      OBVIOUS
    <3> QED
      BY <3>1
  <2>2. ASSUME NEW n \in Nat, Exists(n) PROVE Exists(n + 1)
    <3>1. PICK f : f = [i \in 0..n |-> Step(f, i)]
      BY <2>2
    <3> DEFINE g == [i \in 0..(n + 1) |-> Step(f, i)]
    <3>2. ASSUME NEW i \in 0..(n + 1) PROVE Step(g, i) = Step(f, i)
      <4>1. CASE i = 0
        BY <4>1
      <4>2. CASE i # 0
        <5>1. i - 1 \in 0..n /\ i - 1 \in 0..(n + 1)
          BY <4>2
        <5>2. g[i - 1] = f[i - 1]
          <6> HIDE DEF Step
          <6> QED
            BY <3>1, <5>1
        <5> HIDE DEF g
        <5> QED
          BY <4>2, <5>2
      <4> QED
        BY <4>1, <4>2
    <3>3. g = [i \in 0..(n + 1) |-> Step(g, i)]
      <4> HIDE DEF Step
      <4> QED
        BY <3>2
    <3> QED
      BY <3>3
  <2> HIDE DEF Exists
  <2>3. S \in SUBSET Nat /\ 0 \in S /\ \A n \in S : n + 1 \in S
    BY <2>1, <2>2
  <2>4. S = Nat
    <3> HIDE DEF S
    <3> QED
      BY <2>3, Induction
  <2> QED
    BY <2>4
<1>3. walk = [i \in 0..Length |-> Step(walk, i)]
  <2>1. \E f : f = [i \in 0..Length |-> Step(f, i)]
    BY <1>2, LengthType
  <2> HIDE DEF Step
  <2> QED
    BY <2>1
<1> HIDE DEF walk
<1>4. walk[0] = head
  BY <1>3, LengthType
<1>5. ASSUME NEW i \in 0..Length, i < Length
      PROVE  walk[i + 1] = IF walk[i] = Null THEN Null ELSE node[walk[i]].next
  <2>1. i + 1 \in 0..Length /\ i + 1 # 0 /\ (i + 1) - 1 = i
    BY <1>5, LengthType
  <2>2. walk[i + 1] = Step(walk, i + 1)
    <3> HIDE DEF Step
    <3> QED
      BY <1>3, <2>1
  <2> QED
    BY <2>1, <2>2
<1> QED
  BY <1>1, <1>4, <1>5 DEF Path

LEMMA PathIsTyped ==
  ASSUME NEW h \in Nodes \cup {Null}, NEW f \in [Nodes -> Element], NEW w, Path(w, h, f)
  PROVE  \A i \in 0..Length : w[i] \in Nodes \cup {Null}
<1> DEFINE S == {i \in 0..Length : w[i] \in Nodes \cup {Null}}
<1>1. S \in SUBSET (0..Length) /\ 0 \in S
  BY LengthType DEF Path
<1>2. \A i \in S : i < Length => i + 1 \in S
  BY LengthType DEF Path, Element
<1>3. S = 0..Length
  <2> HIDE DEF S
  <2> QED
    BY <1>1, <1>2, LengthType, InductionUpTo
<1> QED
  BY <1>3

\* Behind the end of the list is nothing.
LEMMA PathEnds ==
  ASSUME NEW h, NEW f, NEW w, Path(w, h, f),
         NEW i \in 0..Length, NEW j \in 0..Length, i <= j, w[i] = Null
  PROVE  w[j] = Null
<1> DEFINE S == {k \in 0..Length : k >= i => w[k] = Null}
<1>1. S \in SUBSET (0..Length) /\ 0 \in S
  BY LengthType
<1>2. ASSUME NEW k \in S, k < Length PROVE k + 1 \in S
  <2>1. w[k + 1] = IF w[k] = Null THEN Null ELSE f[w[k]].next
    BY <1>2 DEF Path
  <2> QED
    BY <1>2, <2>1, LengthType
<1>3. S = 0..Length
  <2> HIDE DEF S
  <2> QED
    BY <1>1, <1>2, LengthType, InductionUpTo
<1> QED
  BY <1>3

\* A set of elements that no link leaves is never left.
LEMMA PathStaysIn ==
  ASSUME NEW h, NEW f, NEW w, Path(w, h, f),
         NEW T, Null \notin T, h \in T, \A n \in T : f[n].next \in T
  PROVE  \A i \in 0..Length : w[i] \in T
<1> DEFINE S == {i \in 0..Length : w[i] \in T}
<1>1. S \in SUBSET (0..Length) /\ 0 \in S
  BY LengthType DEF Path
<1>2. \A i \in S : i < Length => i + 1 \in S
  BY LengthType DEF Path
<1>3. S = 0..Length
  <2> HIDE DEF S
  <2> QED
    BY <1>1, <1>2, LengthType, InductionUpTo
<1> QED
  BY <1>3

\* A walk that ends has no element twice.
LEMMA PathRepeatsNothing ==
  ASSUME NEW h, NEW f, NEW w, Path(w, h, f), w[Length] = Null,
         NEW i \in 0..Length, NEW j \in 0..Length, i < j, w[i] = w[j]
  PROVE  w[i] = Null
<1> SUFFICES ASSUME w[i] # Null PROVE FALSE
  OBVIOUS
<1> DEFINE T == {w[k] : k \in 0..(j - 1)}
<1>1. \A k \in 0..j : k \in 0..Length /\ w[k] # Null
  BY PathEnds, LengthType
<1>2. Null \notin T /\ h \in T
  BY <1>1, LengthType DEF Path
<1>3. ASSUME NEW n \in T PROVE f[n].next \in T
  <2>1. PICK k \in 0..(j - 1) : n = w[k]
    BY <1>3
  <2>2. k \in 0..Length /\ k < Length /\ w[k] # Null
    BY <1>1, LengthType
  <2>3. w[k + 1] = f[n].next
    BY <2>1, <2>2 DEF Path
  <2>4. CASE k + 1 = j
    BY <2>3, <2>4
  <2>5. CASE k + 1 # j
    <3>1. k + 1 \in 0..(j - 1)
      BY <2>5
    <3> QED
      BY <2>3, <3>1
  <2> QED
    BY <2>4, <2>5
<1>4. w[Length] \in T
  <2> HIDE DEF T
  <2> QED
    BY <1>2, <1>3, LengthType, PathStaysIn
<1> QED
  BY <1>2, <1>4

\* One walk from each head.
LEMMA PathIsUnique ==
  ASSUME NEW h, NEW f, NEW g, NEW v, NEW w, Path(v, h, f), Path(w, h, g),
         \A i \in 0..Length : v[i] # Null => g[v[i]].next = f[v[i]].next
  PROVE  \A i \in 0..Length : w[i] = v[i]
<1> DEFINE S == {i \in 0..Length : w[i] = v[i]}
<1>1. S \in SUBSET (0..Length) /\ 0 \in S
  BY LengthType DEF Path
<1>2. ASSUME NEW i \in S, i < Length PROVE i + 1 \in S
  <2>1. /\ v[i + 1] = IF v[i] = Null THEN Null ELSE f[v[i]].next
        /\ w[i + 1] = IF w[i] = Null THEN Null ELSE g[w[i]].next
    BY <1>2 DEF Path
  <2> QED
    BY <1>2, <2>1, LengthType
<1>3. S = 0..Length
  <2> HIDE DEF S
  <2> QED
    BY <1>1, <1>2, LengthType, InductionUpTo
<1> QED
  BY <1>3

\* The walk is shorter if there is an element that it does not visit.
LEMMA PathMissesOne ==
  ASSUME NEW h \in Nodes \cup {Null}, NEW f \in [Nodes -> Element], NEW w, Path(w, h, f),
         w[Length] = Null, NEW n \in Nodes, \A i \in 0..Length : w[i] # n
  PROVE  Length > 0 /\ w[Length - 1] = Null
<1>1. IsFiniteSet(Nodes) /\ Length \in Nat
  BY ConstantsAssumption, LengthType
<1>2. IsFiniteSet(Nodes \ {n}) /\ Cardinality(Nodes \ {n}) = Length - 1 /\ Length > 0
  <2>1. IsFiniteSet(Nodes \ {n}) /\ Cardinality(Nodes \ {n}) = Length - 1
    BY <1>1, FS_RemoveElement DEF Length
  <2> QED
    BY <1>1, <2>1, FS_CardinalityType
<1> SUFFICES ASSUME w[Length - 1] # Null PROVE FALSE
  BY <1>2
<1> DEFINE I == 0..(Length - 1)
           v == [i \in I |-> w[i]]
<1>3. IsFiniteSet(I) /\ Cardinality(I) = Length
  BY <1>1, <1>2, FS_Interval
<1>4. \A i \in I : i \in 0..Length /\ w[i] \in Nodes /\ w[i] # Null
  <2>1. ASSUME NEW i \in I PROVE i \in 0..Length /\ i <= Length - 1 /\ Length - 1 \in 0..Length
    BY <1>1, <1>2
  <2> HIDE DEF I
  <2> QED
    BY <2>1, PathEnds, PathIsTyped
<1>5. v \in [I -> Nodes \ {n}]
  BY <1>4
<1>6. PICK i \in I, j \in I : i # j /\ v[i] = v[j]
  <2>1. Cardinality(Nodes \ {n}) < Cardinality(I)
    BY <1>1, <1>2, <1>3
  <2> HIDE DEF I, v
  <2> QED
    BY <1>2, <1>3, <1>5, <2>1, FS_PigeonHole
<1>7. w[i] = w[j] /\ i \in 0..Length /\ j \in 0..Length /\ w[i] # Null /\ w[j] # Null
  BY <1>4, <1>6
<1>8. CASE i < j
  BY <1>7, <1>8, PathRepeatsNothing
<1>9. CASE j < i
  BY <1>7, <1>9, PathRepeatsNothing
<1> QED
  BY <1>6, <1>7, <1>8, <1>9

(***************************************************************************)
(* An element that is pushed to the list: if the list is sound afterwards, *)
(* it was before, and the element was not in it.                           *)
(***************************************************************************)
LEMMA PushedPath ==
  ASSUME NEW h \in Nodes \cup {Null}, NEW f \in [Nodes -> Element], NEW n \in Nodes,
         NEW e \in Element, e.next = h,
         NEW v, Path(v, h, f), v[Length] = Null,
         NEW w, Path(w, n, [f EXCEPT ![n] = e]), Sound(w, [f EXCEPT ![n] = e])
  PROVE  /\ Sound(v, f)
         /\ Lists(w, [f EXCEPT ![n] = e], e.secret)
         /\ \A s : Lists(v, f, s) => Lists(w, [f EXCEPT ![n] = e], s)
<1> DEFINE g == [f EXCEPT ![n] = e]
<1>1. g[n] = e /\ \A m \in Nodes : m # n => g[m] = f[m]
  OBVIOUS
<1>2. Path(w, n, g) /\ Sound(w, g) /\ n # Null
  BY ConstantsAssumption
<1> HIDE DEF g
<1>3. \A i \in 0..Length : v[i] \in Nodes \cup {Null}
  BY PathIsTyped
<1>4. ASSUME NEW i \in 0..Length PROVE v[i] # n
  <2> SUFFICES ASSUME v[i] = n PROVE FALSE
    OBVIOUS
  <2> DEFINE T == {v[j] : j \in 0..i}
  <2>1. \A j \in 0..i : j \in 0..Length /\ v[j] # Null /\ v[j] \in Nodes
    BY <1>2, <1>3, LengthType, PathEnds
  <2>2. Null \notin T /\ n \in T /\ h \in T
    BY <2>1, LengthType DEF Path
  <2>3. ASSUME NEW m \in T PROVE g[m].next \in T
    <3>1. CASE m = n
      BY <1>1, <2>2, <3>1
    <3>2. CASE m # n
      <4>1. PICK j \in 0..i : m = v[j]
        BY <2>3
      <4>2. j < i /\ j < Length /\ j + 1 \in 0..i
        BY <3>2, <4>1, LengthType
      <4>3. v[j + 1] = f[m].next /\ g[m] = f[m]
        BY <1>1, <2>1, <3>2, <4>1, <4>2 DEF Path
      <4> QED
        BY <4>2, <4>3
    <3> QED
      BY <3>1, <3>2
  <2>4. w[Length] \in T
    <3> HIDE DEF T
    <3> QED
      BY <1>2, <2>2, <2>3, LengthType, PathStaysIn
  <2> QED
    BY <1>2, <2>2, <2>4 DEF Sound
<1>5. \A i \in 0..Length : i < Length => w[i + 1] = v[i]
  <2> DEFINE S == {i \in 0..Length : i < Length => w[i + 1] = v[i]}
  <2>1. 0 \in S /\ S \in SUBSET (0..Length)
    <3>1. 0 < Length => w[0 + 1] = h
      BY <1>1, <1>2, LengthType DEF Path
    <3> QED
      BY <3>1, LengthType DEF Path
  <2>2. ASSUME NEW i \in S, i < Length PROVE i + 1 \in S
    <3> SUFFICES ASSUME i + 1 < Length PROVE w[(i + 1) + 1] = v[i + 1]
      BY <2>2, LengthType
    <3>1. i + 1 \in 0..Length /\ w[i + 1] = v[i] /\ v[i] # n /\ v[i] \in Nodes \cup {Null}
      BY <1>3, <1>4, <2>2, LengthType
    <3>2. w[(i + 1) + 1] = IF w[i + 1] = Null THEN Null ELSE g[w[i + 1]].next
      BY <1>2, <3>1 DEF Path
    <3>3. v[i + 1] = IF v[i] = Null THEN Null ELSE f[v[i]].next
      BY <2>2 DEF Path
    <3> QED
      BY <1>1, <3>1, <3>2, <3>3
  <2>3. S = 0..Length
    <3> HIDE DEF S
    <3> QED
      BY <2>1, <2>2, LengthType, InductionUpTo
  <2> QED
    BY <2>3
<1>6. \A i \in 0..Length : v[i] # Null =>
        i + 1 \in 0..Length /\ w[i + 1] = v[i] /\ g[v[i]] = f[v[i]]
  BY <1>1, <1>3, <1>4, <1>5, LengthType
<1>7. Sound(v, f)
  BY <1>2, <1>6 DEF Sound
<1>8. Lists(w, g, e.secret)
  BY <1>1, <1>2, LengthType DEF Lists, Path
<1>9. ASSUME NEW s, Lists(v, f, s) PROVE Lists(w, g, s)
  BY <1>6, <1>9 DEF Lists
<1> QED
  BY <1>7, <1>8, <1>9 DEF g

IsFirstAt(v, i, n) == v[i] = n /\ \A j \in 1..(i - 1) : v[j] # n

\* Element n is freed, and p is linked to the one behind it.
Bypassed(f, g, n, p) == g = [f EXCEPT ![n] = NoNode, ![p].next = f[n].next]

(***************************************************************************)
(* An element behind the head that is unlinked and freed: if the list is   *)
(* sound afterwards, it was before, and it still has all other elements.   *)
(***************************************************************************)
LEMMA UnlinkedPath ==
  ASSUME NEW h \in Nodes \cup {Null}, NEW f \in [Nodes -> Element], NEW n \in Nodes,
         f[n].live, h # n,
         NEW v, Path(v, h, f), NEW i \in 1..Length, IsFirstAt(v, i, n),
         NEW p, p = v[i - 1], NEW g \in [Nodes -> Element], Bypassed(f, g, n, p),
         NEW w, Path(w, h, g), Sound(w, g)
  PROVE  /\ Sound(v, f)
         /\ \A s : s # f[n].secret /\ Lists(v, f, s) => Lists(w, g, s)
<1> USE DEF IsFirstAt
<1>1. \A j \in 0..Length : v[j] \in Nodes \cup {Null} /\ w[j] \in Nodes \cup {Null}
  BY PathIsTyped
<1>2. i - 1 \in 0..Length /\ (i - 1) + 1 = i /\ i \in 0..Length /\ i - 1 < Length
  BY LengthType
<1>3. p \in Nodes /\ p # n
  <2>1. p # Null
    BY <1>2, ConstantsAssumption, PathEnds
  <2>2. i - 1 = 0 \/ i - 1 \in 1..(i - 1)
    OBVIOUS
  <2> QED
    BY <1>1, <1>2, <2>1, <2>2 DEF Path
<1>4. /\ ~g[n].live
      /\ g[p].next = f[n].next
      /\ \A m \in Nodes : m # n /\ m # p => g[m].next = f[m].next
      /\ \A m \in Nodes : m # n => g[m].live = f[m].live /\ g[m].secret = f[m].secret
  BY <1>3 DEF Bypassed, NoNode, Element
<1>5. \A j \in 0..Length : w[j] # n
  BY <1>4, ConstantsAssumption DEF Sound
<1>6. n # Null /\ v[i - 1] = p /\ f[p].next = n
  <2>1. v[(i - 1) + 1] = f[p].next
    BY <1>2, <1>3, ConstantsAssumption DEF Path
  <2> QED
    BY <1>2, <2>1, ConstantsAssumption
<1>7. \A j \in 0..(i - 1) : w[j] = v[j]
  <2> DEFINE S == {j \in 0..(i - 1) : w[j] = v[j]}
  <2>1. 0 \in S /\ S \in SUBSET (0..(i - 1)) /\ i - 1 \in Nat
    BY <1>2 DEF Path
  <2>2. ASSUME NEW j \in S, j < i - 1 PROVE j + 1 \in S
    <3>1. j \in 0..Length /\ j < Length /\ j + 1 \in 1..(i - 1) /\ w[j] = v[j]
      BY <1>2, <2>2, LengthType
    <3>2. /\ v[j + 1] = IF v[j] = Null THEN Null ELSE f[v[j]].next
          /\ w[j + 1] = IF w[j] = Null THEN Null ELSE g[w[j]].next
      BY <3>1 DEF Path
    <3>3. v[j + 1] # n
      BY <3>1
    <3>4. v[j] # p
      BY <1>3, <1>6, <3>2, <3>3, ConstantsAssumption
    <3> QED
      BY <1>1, <1>4, <1>5, <3>1, <3>2, <3>4
  <2>3. S = 0..(i - 1)
    <3> HIDE DEF S
    <3> QED
      BY <2>1, <2>2, InductionUpTo
  <2> QED
    BY <2>3
<1>8. w[i - 1] = p
  BY <1>2, <1>6, <1>7
<1>9. ASSUME NEW j \in i..Length PROVE w[j] # p
  <2> SUFFICES ASSUME w[j] = p PROVE FALSE
    OBVIOUS
  <2>1. j \in 0..Length /\ i - 1 < j /\ w[i - 1] = w[j] /\ w[Length] = Null
    BY <1>2, <1>8 DEF Sound
  <2>2. w[i - 1] = Null
    BY <1>2, <2>1, PathRepeatsNothing
  <2> QED
    BY <1>3, <1>8, <2>2, ConstantsAssumption
<1>10. \A j \in i..Length : j < Length => v[j + 1] = w[j]
  <2> DEFINE S == {j \in 0..Length : i <= j /\ j < Length => v[j + 1] = w[j]}
  <2>1. w[i] = f[n].next /\ (i < Length => v[i + 1] = f[n].next)
    <3>1. w[(i - 1) + 1] = g[p].next
      BY <1>2, <1>3, <1>8, ConstantsAssumption DEF Path
    <3>2. i < Length => v[i + 1] = f[n].next
      BY <1>2, <1>6 DEF Path
    <3> QED
      BY <1>2, <1>4, <3>1, <3>2
  <2>2. S \in SUBSET (0..Length) /\ 0 \in S
    BY LengthType
  <2>3. ASSUME NEW j \in S, j < Length PROVE j + 1 \in S
    <3> SUFFICES ASSUME i <= j + 1, j + 1 < Length PROVE v[(j + 1) + 1] = w[j + 1]
      BY <2>3, LengthType
    <3>1. CASE i = j + 1
      BY <2>1, <3>1
    <3>2. CASE i # j + 1
      <4>1. j \in 0..Length /\ j + 1 \in 0..Length /\ j \in i..Length /\ v[j + 1] = w[j]
        BY <2>3, <3>2, LengthType
      <4>2. /\ v[(j + 1) + 1] = IF v[j + 1] = Null THEN Null ELSE f[v[j + 1]].next
            /\ w[j + 1] = IF w[j] = Null THEN Null ELSE g[w[j]].next
        BY <2>3, <4>1 DEF Path
      <4>3. w[j] # Null => w[j] \in Nodes /\ w[j] # n /\ w[j] # p
        BY <1>1, <1>5, <1>9, <4>1
      <4> QED
        BY <1>4, <4>1, <4>2, <4>3
    <3> QED
      BY <3>1, <3>2
  <2>4. S = 0..Length
    <3> HIDE DEF S
    <3> QED
      BY <2>2, <2>3, LengthType, InductionUpTo
  <2> QED
    BY <2>4
<1>11. v[Length] = Null
  <2>1. w[Length] = Null /\ Length - 1 \in 0..Length
    BY <1>2, LengthType DEF Sound
  <2>2. w[Length - 1] = Null
    BY <1>5, <2>1, PathMissesOne
  <2>3. i # Length
    BY <1>3, <1>8, <2>2, ConstantsAssumption
  <2>4. Length - 1 \in i..Length /\ Length - 1 < Length /\ (Length - 1) + 1 = Length
    BY <2>3, LengthType
  <2> QED
    BY <1>10, <2>2, <2>4
<1>12. ASSUME NEW j \in 0..Length, v[j] # Null, v[j] # n
       PROVE  \E k \in 0..Length : w[k] = v[j]
  <2>1. CASE j <= i - 1
    <3>1. j \in 0..(i - 1)
      BY <2>1, <1>2
    <3> QED
      BY <1>7, <1>12, <3>1
  <2>2. CASE j > i
    <3>1. j - 1 \in i..Length /\ j - 1 < Length /\ (j - 1) + 1 = j /\ j - 1 \in 0..Length
      BY <2>2, LengthType
    <3> QED
      BY <1>10, <3>1
  <2>3. CASE j = i
    BY <1>12, <2>3
  <2> QED
    BY <2>1, <2>2, <2>3, <1>2
<1>13. Sound(v, f)
  <2>1. ASSUME NEW j \in 0..Length, v[j] # Null PROVE f[v[j]].live
    <3>1. CASE v[j] = n
      BY <3>1
    <3>2. CASE v[j] # n
      BY <1>1, <1>4, <1>12, <2>1, <3>2 DEF Sound
    <3> QED
      BY <3>1, <3>2
  <2> QED
    BY <1>11, <2>1 DEF Sound
<1>14. ASSUME NEW s, s # f[n].secret, Lists(v, f, s) PROVE Lists(w, g, s)
  <2>1. PICK j \in 0..Length : v[j] # Null /\ f[v[j]].secret = s
    BY <1>14 DEF Lists
  <2>2. v[j] # n /\ v[j] \in Nodes
    BY <1>1, <1>14, <2>1
  <2>3. PICK k \in 0..Length : w[k] = v[j]
    BY <1>12, <2>1, <2>2
  <2> QED
    BY <1>4, <2>1, <2>2, <2>3 DEF Lists
<1> QED
  BY <1>13, <1>14

-----------------------------------------------------------------------------

Owned(d) == {cache[d], conn[d].key, conn[d].mine} \ {Null}

\* Controllers share no secret, neither the current ones nor remembered ones.
OwnedApart == \A d, e \in Devices : d # e => Owned(d) \cap Owned(e) = {}

\* A connection and the secret that its controller remembers.
Phase(c, s) ==
  /\ c.wire.kind # "none" \/ c.up => c.open
  /\ c.wire.kind \in {"m1", "resume", "m2", "m3"} => ~c.secure
  /\ c.wire.kind = "resume" => c.wire.secret = s /\ s # Null
  /\ c.up => c.key = s

InPhase == \A d \in Devices : Phase(conn[d], cache[d])

SecretsApart ==
  \A m, n \in Nodes : m # n /\ node[m].live /\ node[n].live => node[m].secret # node[n].secret

Unlisted(c) ==
  c.wire.kind \in {"m2", "m3"} => \A n \in Nodes : node[n].live => node[n].secret # c.key

\* Until M3 is served no element has the secret of the connection.
NotYetListed == \A d \in Devices : Unlisted(conn[d])

ListKeeps ==
  ListIsSound =>
    \A d \in Devices :
      conn[d].secure /\ conn[d].key \notin ZeroIds => Lists(Walk, node, conn[d].key)

(***************************************************************************)
(* Why no controller can take the session of another one away: what a      *)
(* resume may change is the element with the id that the controller        *)
(* remembers, no two controllers remember or use the same secret, and no   *)
(* two elements have the same one.                                         *)
(***************************************************************************)
SessionInv ==
  Inv /\ OwnedApart /\ InPhase /\ SecretsApart /\ NotYetListed /\ ListKeeps

LEMMA SoundList == ListIsSound <=> Sound(Walk, node)
BY DEF ListIsSound, Cyclic, Dangling, Sound

LEMMA SoundListNext == ListIsSound' <=> Sound(Walk', node')
<1>1. (ListIsSound <=> Sound(Walk, node))'
  BY SoundList, PTL
<1> QED
  BY <1>1

LEMMA WalkIsPathNext == Path(Walk', head', node')
<1>1. Path(Walk, head, node)'
  BY WalkIsPath, PTL
<1> QED
  BY <1>1

LEMMA NewSecretIsUnused == \A s \in NewSecret : s \in Secrets /\ s # Null /\ s \notin InUse
BY ConstantsAssumption DEF NewSecret, OneOf

LEMMA UsedByController == \A d \in Devices : Owned(d) \subseteq InUse
BY DEF Owned, InUse

LEMMA UsedByElement == \A n \in Nodes : node[n].live => node[n].secret \in InUse
BY DEF InUse

\* One connection changes, and takes only a secret that is unused or its own.
LEMMA OneConnection ==
  ASSUME Inv, OwnedApart, InPhase, NEW d \in Devices, NEW c, SetConn(d, c),
         \A e \in Devices : e # d => cache'[e] = cache[e],
         Phase(c, cache'[d]),
         \A s \in {cache'[d], c.key, c.mine} : s = Null \/ s \in Owned(d) \/ s \notin InUse
  PROVE  OwnedApart' /\ InPhase'
<1>1. conn'[d] = c /\ \A e \in Devices : e # d => conn'[e] = conn[e]
  BY DEF SetConn, Inv, TypeOK
<1>2. InPhase'
  <2>1. ASSUME NEW e \in Devices PROVE Phase(conn'[e], cache'[e])
    <3>1. CASE e = d
      BY <1>1, <3>1
    <3>2. CASE e # d
      BY <1>1, <3>2 DEF InPhase
    <3> QED
      BY <3>1, <3>2
  <2> QED
    BY <2>1 DEF InPhase, Phase
<1>3. \A e \in Devices : e # d => Owned(e)' = Owned(e) /\ Owned(e) \cap Owned(d) = {}
  BY <1>1 DEF Owned, OwnedApart
<1>4. \A s \in Owned(d)' : s \in Owned(d) \/ s \notin InUse
  BY <1>1 DEF Owned
<1>5. \A e \in Devices : e # d => Owned(e)' \cap Owned(d)' = {}
  BY <1>3, <1>4, UsedByController
<1>6. ASSUME NEW e \in Devices, NEW g \in Devices, e # g
      PROVE  Owned(e)' \cap Owned(g)' = {}
  <2>1. CASE e = d \/ g = d
    BY <1>5, <1>6, <2>1
  <2>2. CASE e # d /\ g # d
    BY <1>3, <1>6, <2>2 DEF OwnedApart
  <2> QED
    BY <2>1, <2>2
<1> QED
  BY <1>2, <1>6 DEF OwnedApart, Owned

LEMMA SameList ==
  ASSUME UNCHANGED list
  PROVE  /\ ListIsSound' <=> ListIsSound
         /\ \A s : Lists(Walk, node, s) <=> Lists(Walk', node', s)
<1>1. head' = head /\ node' = node
  BY DEF list
<1>2. \A i \in 0..Length : Walk'[i] = Walk[i]
  BY <1>1, WalkIsPath, WalkIsPathNext, PathIsUnique
<1>3. Sound(Walk', node') <=> Sound(Walk, node)
  BY <1>1, <1>2, LengthType DEF Sound
<1> QED
  BY <1>1, <1>2, <1>3, SoundList, SoundListNext DEF Lists

\* The list stays as it is, and at most one connection changes.
LEMMA ListUntouched ==
  ASSUME SessionInv, UNCHANGED list, NEW d \in Devices, NEW c, SetConn(d, c),
         c.wire.kind \in {"m2", "m3"} =>
           \/ conn[d].wire.kind \in {"m2", "m3"} /\ c.key = conn[d].key
           \/ c.key \notin InUse,
         c.secure => conn[d].secure /\ c.key = conn[d].key
  PROVE  SecretsApart' /\ NotYetListed' /\ ListKeeps'
<1>1. conn'[d] = c /\ \A e \in Devices : e # d => conn'[e] = conn[e]
  BY DEF SetConn, SessionInv, Inv, TypeOK
<1>2. node' = node
  BY DEF list
<1>3. SecretsApart'
  BY <1>2 DEF SecretsApart, SessionInv
<1>4. ASSUME NEW e \in Devices PROVE Unlisted(conn[e])'
  <2>1. CASE e = d
    BY <1>1, <1>2, <2>1, UsedByElement DEF Unlisted, NotYetListed, SessionInv
  <2>2. CASE e # d
    BY <1>1, <1>2, <2>2 DEF Unlisted, NotYetListed, SessionInv
  <2> QED
    BY <2>1, <2>2
<1>5. ASSUME ListIsSound', NEW e \in Devices, conn'[e].secure, conn'[e].key \notin ZeroIds
      PROVE  Lists(Walk', node', conn'[e].key)
  <2>1. conn[e].secure /\ conn[e].key = conn'[e].key
    BY <1>1, <1>5
  <2>2. Lists(Walk, node, conn[e].key)
    BY <1>5, <2>1, SameList DEF ListKeeps, SessionInv
  <2> QED
    BY <2>1, <2>2, SameList
<1> QED
  BY <1>3, <1>4, <1>5 DEF NotYetListed, ListKeeps

\* A closed connection owns only what the controller remembers.
LEMMA Closed ==
  ASSUME SessionInv, UNCHANGED <<list, cache>>, NEW d \in Devices, SetConn(d, NoConn)
  PROVE  OwnedApart' /\ InPhase' /\ SecretsApart' /\ NotYetListed' /\ ListKeeps'
<1>1. /\ NoConn.wire.kind = "none" /\ ~NoConn.up /\ ~NoConn.secure
      /\ NoConn.key = Null /\ NoConn.mine = Null
  BY DEF NoConn, NoMessage, Message
<1>2. cache'[d] = Null \/ cache'[d] \in Owned(d)
  BY DEF Owned
<1>3. Phase(NoConn, cache'[d])
  BY <1>1 DEF Phase
<1>4. OwnedApart' /\ InPhase'
  BY <1>1, <1>2, <1>3, OneConnection DEF SessionInv
<1>5. SecretsApart' /\ NotYetListed' /\ ListKeeps'
  BY <1>1, ListUntouched
<1> QED
  BY <1>4, <1>5

\* Connections, remembered secrets and list stay as they are.
LEMMA Untouched ==
  ASSUME SessionInv, UNCHANGED <<list, conn, cache>>
  PROVE  OwnedApart' /\ InPhase' /\ SecretsApart' /\ NotYetListed' /\ ListKeeps'
<1>1. OwnedApart' /\ InPhase' /\ SecretsApart' /\ NotYetListed'
  BY DEF list, SessionInv, OwnedApart, Owned, InPhase, Phase, SecretsApart, NotYetListed, Unlisted
<1>2. ListKeeps'
  BY SameList DEF SessionInv, ListKeeps
<1> QED
  BY <1>1, <1>2

\* The controllers' steps.
LEMMA ControllerKeepsSessions ==
  ASSUME SessionInv, NEW d \in Devices,
         Controller(d) \/ Disconnect(d) \/ Lose(d) \/ GiveUp(d) \/ Forget(d)
  PROVE  OwnedApart' /\ InPhase' /\ SecretsApart' /\ NotYetListed' /\ ListKeeps'
<1>1. /\ Inv /\ OwnedApart /\ InPhase /\ cache \in [Devices -> Secrets \cup {Null}]
      /\ conn \in [Devices -> Connection]
      /\ conn[d] \in Connection /\ Agrees(conn[d]) /\ Phase(conn[d], cache[d])
  BY DEF SessionInv, Inv, TypeOK, ConnectionsAgree, InPhase
<1>2. CASE Connect(d)
  <2> DEFINE m == IF cache[d] = Null THEN Message("m1", Null, Null)
                  ELSE Message("resume", cache[d], Null)
             c == [NewConn EXCEPT !.wire = m]
  <2>1. SetConn(d, c) /\ UNCHANGED <<list, cache>>
    BY <1>2 DEF Connect
  <2>2. /\ m.kind = "m1" \/ (m.kind = "resume" /\ m.secret = cache[d] /\ cache[d] # Null)
        /\ c.wire = m /\ c.open /\ ~c.secure /\ ~c.up /\ c.key = Null /\ c.mine = Null
    BY DEF NewConn, NoConn, Message
  <2> HIDE DEF m, c
  <2>3. Phase(c, cache'[d])
    BY <2>1, <2>2 DEF Phase
  <2>4. cache'[d] = Null \/ cache'[d] \in Owned(d)
    BY <2>1 DEF Owned
  <2>5. OwnedApart' /\ InPhase'
    BY <1>1, <2>1, <2>2, <2>3, <2>4, OneConnection
  <2>6. SecretsApart' /\ NotYetListed' /\ ListKeeps'
    BY <2>1, <2>2, ListUntouched
  <2> QED
    BY <2>5, <2>6
<1>3. CASE ReceiveM2(d)
  <2> DEFINE c == [conn[d] EXCEPT !.mine = conn[d].wire.secret,
                                  !.wire = Message("m3", conn[d].wire.secret, Null)]
  <2>1. SetConn(d, c) /\ UNCHANGED <<list, cache>> /\ conn[d].wire.kind = "m2"
    BY <1>3 DEF ReceiveM2
  <2>2. /\ c.wire.kind = "m3" /\ c.open = conn[d].open /\ c.secure = conn[d].secure
        /\ c.up = conn[d].up /\ c.key = conn[d].key /\ c.mine = conn[d].key
    BY <1>1, <2>1 DEF Connection, Message, Agrees
  <2> HIDE DEF c
  <2>3. Phase(c, cache'[d])
    BY <1>1, <2>1, <2>2 DEF Phase
  <2>4. \A s \in {cache'[d], c.key, c.mine} : s = Null \/ s \in Owned(d)
    BY <2>1, <2>2 DEF Owned
  <2>5. OwnedApart' /\ InPhase'
    BY <1>1, <2>1, <2>3, <2>4, OneConnection
  <2>6. SecretsApart' /\ NotYetListed' /\ ListKeeps'
    BY <2>1, <2>2, ListUntouched
  <2> QED
    BY <2>5, <2>6
<1>4. CASE ReceiveM4(d) \/ ReceiveResumed(d)
  <2> DEFINE c == [conn[d] EXCEPT !.up = TRUE, !.wire = NoMessage]
             r == [conn[d] EXCEPT !.up = TRUE, !.wire = NoMessage,
                                  !.mine = conn[d].wire.secret]
  <2>1. PICK b \in {c, r} :
          /\ SetConn(d, b) /\ UNCHANGED list
          /\ b.key = conn[d].key /\ b.mine = conn[d].key
          /\ b.secure = conn[d].secure /\ b.open = conn[d].open
          /\ b.up /\ b.wire.kind = "none"
          /\ cache' = [cache EXCEPT ![d] = conn[d].key]
    <3>1. CASE ReceiveM4(d)
      <4>1. SetConn(d, c) /\ UNCHANGED list /\ cache' = [cache EXCEPT ![d] = conn[d].mine]
        BY <3>1 DEF ReceiveM4
      <4>2. conn[d].mine = conn[d].key
        BY <1>1, <3>1 DEF ReceiveM4, Agrees
      <4>3. /\ c.key = conn[d].key /\ c.mine = conn[d].mine
            /\ c.secure = conn[d].secure /\ c.open = conn[d].open
            /\ c.up /\ c.wire.kind = "none"
        BY <1>1 DEF Connection, NoMessage, Message
      <4> QED
        BY <4>1, <4>2, <4>3
    <3>2. CASE ReceiveResumed(d)
      <4>1. SetConn(d, r) /\ UNCHANGED list /\ cache' = [cache EXCEPT ![d] = conn[d].wire.secret]
        BY <3>2 DEF ReceiveResumed
      <4>2. conn[d].wire.secret = conn[d].key
        BY <1>1, <3>2 DEF ReceiveResumed, Agrees
      <4>3. /\ r.key = conn[d].key /\ r.mine = conn[d].wire.secret
            /\ r.secure = conn[d].secure /\ r.open = conn[d].open
            /\ r.up /\ r.wire.kind = "none"
        BY <1>1 DEF Connection, NoMessage, Message
      <4> QED
        BY <4>1, <4>2, <4>3
    <3> QED
      BY <1>4, <3>1, <3>2
  <2>2. conn[d].open
    BY <1>1, <1>4 DEF ReceiveM4, ReceiveResumed, Phase
  <2> HIDE DEF c, r
  <2>3. cache'[d] = conn[d].key /\ \A e \in Devices : e # d => cache'[e] = cache[e]
    BY <1>1, <2>1
  <2>4. Phase(b, cache'[d])
    BY <2>1, <2>2, <2>3 DEF Phase
  <2>5. \A s \in {cache'[d], b.key, b.mine} : s = Null \/ s \in Owned(d)
    BY <2>1, <2>3 DEF Owned
  <2>6. OwnedApart' /\ InPhase'
    BY <1>1, <2>1, <2>3, <2>4, <2>5, OneConnection
  <2>7. SecretsApart' /\ NotYetListed' /\ ListKeeps'
    BY <2>1, ListUntouched
  <2> QED
    BY <2>6, <2>7
<1>5. CASE RefuseResumed(d) \/ Disconnect(d) \/ Lose(d) \/ GiveUp(d)
  BY <1>5, Closed DEF RefuseResumed, Disconnect, Lose, GiveUp
<1>6. CASE Forget(d)
  <2>1. UNCHANGED list /\ conn' = conn /\ cache' = [cache EXCEPT ![d] = Null] /\ ~conn[d].open
    BY <1>6 DEF Forget
  <2>2. SetConn(d, conn[d])
    BY <1>1, <2>1 DEF SetConn
  <2>3. cache'[d] = Null /\ \A e \in Devices : e # d => cache'[e] = cache[e]
    BY <1>1, <2>1
  <2>4. Phase(conn[d], cache'[d])
    BY <1>1, <2>1 DEF Phase
  <2>5. \A s \in {cache'[d], conn[d].key, conn[d].mine} : s = Null \/ s \in Owned(d)
    BY <2>3 DEF Owned
  <2>6. OwnedApart' /\ InPhase'
    BY <1>1, <2>2, <2>3, <2>4, <2>5, OneConnection
  <2>7. SecretsApart' /\ NotYetListed' /\ ListKeeps'
    BY <2>1, <2>2, ListUntouched
  <2> QED
    BY <2>6, <2>7
<1> QED
  BY <1>2, <1>3, <1>4, <1>5, <1>6 DEF Controller

\* A new verification: the secret is unused, and no element has it.
LEMMA StartKeepsSessions ==
  ASSUME SessionInv, NEW d \in Devices, conn[d].wire.kind \in {"m1", "resume"},
         StartAndSend(d), UNCHANGED cache
  PROVE  \E s \in NewSecret, c \in Connection :
           /\ SetConn(d, c) /\ c.wire.kind = "m2" /\ c.key = s /\ ~c.secure
           /\ OwnedApart' /\ InPhase'
<1>1. PICK s \in NewSecret :
        SetConn(d, [conn[d] EXCEPT !.key = s, !.wire = Message("m2", s, Null)])
  BY DEF StartAndSend
<1> DEFINE c == [conn[d] EXCEPT !.key = s, !.wire = Message("m2", s, Null)]
<1>2. /\ Inv /\ OwnedApart /\ InPhase /\ conn[d] \in Connection
      /\ Agrees(conn[d]) /\ Phase(conn[d], cache[d])
  BY DEF SessionInv, Inv, TypeOK, ConnectionsAgree, InPhase
<1>3. s \in Secrets /\ s # Null /\ s \notin InUse
  BY NewSecretIsUnused
<1>4. /\ c \in Connection /\ c.wire.kind = "m2" /\ c.key = s /\ c.mine = conn[d].mine
      /\ c.open = conn[d].open /\ c.secure = conn[d].secure /\ c.up = conn[d].up
  BY <1>2, <1>3 DEF Connection, Message, Responses
<1>5. ~c.secure /\ ~c.up /\ c.open
  BY <1>2, <1>4 DEF Phase, Agrees
<1>6. SetConn(d, c)
  BY <1>1
<1> HIDE DEF c
<1>7. Phase(c, cache'[d])
  BY <1>4, <1>5 DEF Phase
<1>8. \A u \in {cache'[d], c.key, c.mine} : u = Null \/ u \in Owned(d) \/ u \notin InUse
  BY <1>3, <1>4 DEF Owned
<1>9. OwnedApart' /\ InPhase'
  BY <1>2, <1>6, <1>7, <1>8, OneConnection
<1> QED
  BY <1>4, <1>5, <1>6, <1>9

(***************************************************************************)
(* M3 is answered: the new element takes the secret of the connection, and *)
(* the other sessions stay, one element further from the head.             *)
(***************************************************************************)
LEMMA FinishKeepsSessions ==
  ASSUME SessionInv, NEW d \in Devices, VerifyFinish(d)
  PROVE  OwnedApart' /\ InPhase' /\ SecretsApart' /\ NotYetListed' /\ ListKeeps'
<1> DEFINE c == [conn[d] EXCEPT !.secure = TRUE, !.wire = Message("m4", Null, Null)]
<1>1. /\ Inv /\ OwnedApart /\ InPhase /\ conn[d] \in Connection
      /\ conn \in [Devices -> Connection] /\ node \in [Nodes -> Element]
      /\ head \in Nodes \cup {Null}
      /\ Agrees(conn[d]) /\ Phase(conn[d], cache[d])
  BY DEF SessionInv, Inv, TypeOK, ConnectionsAgree, InPhase
<1>2. /\ conn[d].wire.kind = "m3" /\ conn[d].wire.secret = conn[d].key
      /\ ~Cyclic /\ SetConn(d, c) /\ cache' = cache
  BY DEF VerifyFinish, Request, Verified
<1>3. conn[d].key = conn[d].mine /\ conn[d].key \in Secrets /\ conn[d].key # Null /\ ~conn[d].up
  BY <1>1, <1>2 DEF Agrees, Connection
<1>4. /\ c.key = conn[d].key /\ c.mine = conn[d].mine /\ c.open = conn[d].open
      /\ c.secure /\ ~c.up /\ c.wire.kind = "m4"
  BY <1>1, <1>3 DEF Connection, Message
<1> HIDE DEF c
<1>5. OwnedApart' /\ InPhase'
  <2>1. Phase(c, cache'[d])
    BY <1>1, <1>2, <1>4 DEF Phase
  <2>2. \A s \in {cache'[d], c.key, c.mine} : s = Null \/ s \in Owned(d)
    BY <1>2, <1>4 DEF Owned
  <2> QED
    BY <1>1, <1>2, <2>1, <2>2, OneConnection
<1>6. conn'[d] = c /\ \A e \in Devices : e # d => conn'[e] = conn[e]
  BY <1>1, <1>2 DEF SetConn
<1>7. PICK n \in Malloc : Push(n, conn[d].key)
  BY DEF VerifyFinish
<1> DEFINE x == [live |-> TRUE, secret |-> conn[d].key, next |-> head]
<1>8. /\ n \in Nodes /\ ~node[n].live /\ head' = n /\ node' = [node EXCEPT ![n] = x]
      /\ x \in Element /\ x.live /\ x.secret = conn[d].key /\ x.next = head
  BY <1>1, <1>3, <1>7, MallocReturnsFree DEF Push, Element
<1> HIDE DEF x
<1>9. node'[n] = x /\ \A m \in Nodes : m # n => node'[m] = node[m]
  BY <1>1, <1>8
<1>10. \A m \in Nodes : node[m].live => node[m].secret # conn[d].key
  BY <1>2 DEF SessionInv, NotYetListed, Unlisted
<1>11. SecretsApart'
  BY <1>8, <1>9, <1>10 DEF SecretsApart, SessionInv
<1>12. NotYetListed'
  <2>1. ASSUME NEW e \in Devices, conn'[e].wire.kind \in {"m2", "m3"},
               NEW m \in Nodes, node'[m].live, node'[m].secret = conn'[e].key
        PROVE  FALSE
    <3>1. e # d /\ conn'[e] = conn[e]
      BY <1>4, <1>6, <2>1
    <3>2. CASE m = n
      <4>1. conn[d].key \in Owned(d) /\ conn[d].key \in Owned(e)
        BY <1>3, <1>8, <1>9, <2>1, <3>1, <3>2 DEF Owned
      <4> QED
        BY <1>1, <3>1, <4>1 DEF OwnedApart
    <3>3. CASE m # n
      BY <1>9, <2>1, <3>1, <3>3 DEF SessionInv, NotYetListed, Unlisted
    <3> QED
      BY <3>2, <3>3
  <2> QED
    BY <2>1 DEF NotYetListed, Unlisted
<1>13. ASSUME ListIsSound', NEW e \in Devices, conn'[e].secure, conn'[e].key \notin ZeroIds
       PROVE  Lists(Walk', node', conn'[e].key)
  <2>1. /\ Path(Walk, head, node) /\ Walk[Length] = Null
        /\ Path(Walk', n, [node EXCEPT ![n] = x]) /\ Sound(Walk', [node EXCEPT ![n] = x])
    BY <1>2, <1>8, <1>13, WalkIsPath, WalkIsPathNext, SoundListNext DEF Cyclic
  <2>2. /\ Sound(Walk, node)
        /\ Lists(Walk', node', x.secret)
        /\ \A s : Lists(Walk, node, s) => Lists(Walk', node', s)
    BY <1>1, <1>8, <2>1, PushedPath
  <2>3. CASE e = d
    BY <1>4, <1>6, <1>8, <2>2, <2>3
  <2>4. CASE e # d
    <3>1. Lists(Walk, node, conn[e].key)
      BY <1>6, <1>13, <2>2, <2>4, SoundList DEF SessionInv, ListKeeps
    <3> QED
      BY <1>6, <2>2, <2>4, <3>1
  <2> QED
    BY <2>3, <2>4
<1> QED
  BY <1>5, <1>11, <1>12, <1>13 DEF ListKeeps

LEMMA FoundSession ==
  ASSUME NEW secret, Found(secret)
  PROVE  /\ Session(secret) \in Nodes /\ node[Session(secret)].live
         /\ SameId(node[Session(secret)].secret, secret)
         /\ \E i \in 0..Length : Walk[i] = Session(secret)
BY DEF Found, FirstMatch, Session, IsFirst, Matches

(***************************************************************************)
(* A session is resumed: its element gets a new secret.  It was the        *)
(* session of this controller, or one whose id begins with a zero byte.    *)
(***************************************************************************)
LEMMA RotateKeepsSessions ==
  ASSUME SessionInv, NEW d \in Devices, conn[d].wire.kind = "resume",
         Found(conn[d].wire.secret), Rotate(d, Session(conn[d].wire.secret)),
         head' = head, cache' = cache
  PROVE  OwnedApart' /\ InPhase' /\ SecretsApart' /\ NotYetListed' /\ ListKeeps'
<1> DEFINE n == Session(conn[d].wire.secret)
<1>1. /\ Inv /\ OwnedApart /\ InPhase /\ conn[d] \in Connection
      /\ conn \in [Devices -> Connection] /\ node \in [Nodes -> Element]
      /\ head \in Nodes \cup {Null}
      /\ Agrees(conn[d]) /\ Phase(conn[d], cache[d])
  BY DEF SessionInv, Inv, TypeOK, ConnectionsAgree, InPhase
<1>2. n \in Nodes /\ node[n].live /\ SameId(node[n].secret, conn[d].wire.secret)
  BY FoundSession
<1>3. PICK i \in 0..Length : Walk[i] = n
  BY FoundSession
<1>4. PICK s \in NewSecret :
        /\ node' = [node EXCEPT ![n].secret = s]
        /\ SetConn(d, [conn[d] EXCEPT !.key = s, !.secure = TRUE,
                                      !.wire = Message("resumed", s, node[n].secret)])
  BY DEF Rotate
<1> HIDE DEF n
<1>5. s \in Secrets /\ s # Null /\ s \notin InUse
  BY NewSecretIsUnused
<1> DEFINE c == [conn[d] EXCEPT !.key = s, !.secure = TRUE,
                                !.wire = Message("resumed", s, node[n].secret)]
<1>6. /\ c.key = s /\ c.mine = conn[d].mine /\ c.open = conn[d].open /\ c.up = conn[d].up
      /\ c.secure /\ c.wire.kind = "resumed"
  BY <1>1 DEF Connection, Message
<1>7. SetConn(d, c)
  BY <1>4
<1> HIDE DEF c
<1>8. ~c.up /\ c.open /\ conn[d].wire.secret = cache[d] /\ cache[d] # Null
  BY <1>1, <1>6 DEF Agrees, Phase
<1>9. OwnedApart' /\ InPhase'
  <2>1. Phase(c, cache'[d])
    BY <1>6, <1>8 DEF Phase
  <2>2. \A u \in {cache'[d], c.key, c.mine} : u = Null \/ u \in Owned(d) \/ u \notin InUse
    BY <1>5, <1>6 DEF Owned
  <2> QED
    BY <1>1, <1>7, <2>1, <2>2, OneConnection
<1>10. conn'[d] = c /\ \A e \in Devices : e # d => conn'[e] = conn[e]
  BY <1>1, <1>7 DEF SetConn
<1>11. /\ \A m \in Nodes : node'[m].next = node[m].next /\ node'[m].live = node[m].live
       /\ node'[n].secret = s /\ \A m \in Nodes : m # n => node'[m].secret = node[m].secret
  BY <1>1, <1>2, <1>4 DEF Element
<1>12. \A m \in Nodes : node[m].live => node[m].secret # s
  BY <1>5, UsedByElement
<1>13. SecretsApart'
  BY <1>11, <1>12 DEF SecretsApart, SessionInv
<1>14. NotYetListed'
  <2>1. ASSUME NEW e \in Devices, conn'[e].wire.kind \in {"m2", "m3"},
               NEW m \in Nodes, node'[m].live, node'[m].secret = conn'[e].key
        PROVE  FALSE
    <3>1. e # d /\ conn'[e] = conn[e] /\ conn[e].key # s
      BY <1>5, <1>6, <1>10, <2>1 DEF InUse
    <3> QED
      BY <1>11, <2>1, <3>1 DEF SessionInv, NotYetListed, Unlisted
  <2> QED
    BY <2>1 DEF NotYetListed, Unlisted
<1>15. \A j \in 0..Length : Walk[j] \in Nodes \cup {Null}
  BY <1>1, WalkIsPath, PathIsTyped
<1>16. \A j \in 0..Length : Walk'[j] = Walk[j]
  <2>1. \A j \in 0..Length : Walk[j] # Null => node'[Walk[j]].next = node[Walk[j]].next
    BY <1>11, <1>15
  <2>2. Path(Walk', head, node')
    BY WalkIsPathNext
  <2> QED
    BY <2>1, <2>2, WalkIsPath, PathIsUnique
<1>17. ASSUME ListIsSound', NEW e \in Devices, conn'[e].secure, conn'[e].key \notin ZeroIds
       PROVE  Lists(Walk', node', conn'[e].key)
  <2>1. ListIsSound
    <3>1. Sound(Walk', node')
      BY <1>17, SoundListNext
    <3>2. Sound(Walk, node)
      BY <1>11, <1>15, <1>16, <3>1, LengthType DEF Sound
    <3> QED
      BY <3>2, SoundList
  <2>2. CASE e = d
    <3>1. Walk'[i] # Null /\ node'[Walk'[i]].secret = conn'[e].key
      BY <1>2, <1>3, <1>6, <1>10, <1>11, <1>16, <2>2, ConstantsAssumption
    <3> QED
      BY <3>1 DEF Lists
  <2>3. CASE e # d
    <3>1. conn'[e] = conn[e]
      BY <1>10, <2>3
    <3>2. Lists(Walk, node, conn[e].key)
      BY <1>17, <2>1, <3>1 DEF SessionInv, ListKeeps
    <3>3. PICK j \in 0..Length : Walk[j] # Null /\ node[Walk[j]].secret = conn[e].key
      BY <3>2 DEF Lists
    <3>4. Walk[j] # n
      <4> SUFFICES ASSUME Walk[j] = n PROVE FALSE
        OBVIOUS
      <4>1. conn[e].key = cache[d]
        BY <1>2, <1>8, <1>17, <3>1, <3>3 DEF SameId
      <4>2. cache[d] \in Owned(d) /\ cache[d] \in Owned(e)
        BY <1>8, <4>1 DEF Owned
      <4> QED
        BY <1>1, <2>3, <4>2 DEF OwnedApart
    <3>5. Walk'[j] # Null /\ node'[Walk'[j]].secret = conn'[e].key
      BY <1>11, <1>15, <1>16, <3>1, <3>3, <3>4
    <3> QED
      BY <3>5 DEF Lists
  <2> QED
    BY <2>2, <2>3
<1> QED
  BY <1>9, <1>13, <1>14, <1>17 DEF ListKeeps

(***************************************************************************)
(* A resume with the wrong tag: the element that goes has an id with a     *)
(* zero byte.  If it was the head, the list is broken from now on; if not, *)
(* the others are still in it.                                             *)
(***************************************************************************)
LEMMA RejectKeepsSessions ==
  ASSUME SessionInv, Inv', NEW d \in Devices, ResumeRejected(d)
  PROVE  OwnedApart' /\ InPhase' /\ SecretsApart' /\ NotYetListed' /\ ListKeeps'
<1> DEFINE n == Session(conn[d].wire.secret)
<1>1. /\ conn \in [Devices -> Connection] /\ node \in [Nodes -> Element]
      /\ node' \in [Nodes -> Element] /\ head \in Nodes \cup {Null}
  BY DEF SessionInv, Inv, TypeOK
<1>2. /\ n \in Nodes /\ node[n].live /\ SameId(node[n].secret, conn[d].wire.secret)
      /\ Unlink(n) /\ head' = head
      /\ node[n].secret # conn[d].wire.secret
  BY FoundSession DEF ResumeRejected, TagFits
<1>3. PICK i \in 0..Length : Walk[i] = n
  BY FoundSession DEF ResumeRejected
<1>4. PICK s \in NewSecret, c \in Connection :
        /\ SetConn(d, c) /\ c.wire.kind = "m2" /\ c.key = s /\ ~c.secure
        /\ OwnedApart' /\ InPhase'
  BY StartKeepsSessions DEF ResumeRejected, Request
<1> HIDE DEF n
<1>5. s \in Secrets /\ s # Null /\ s \notin InUse
  BY NewSecretIsUnused
<1>6. conn'[d] = c /\ \A e \in Devices : e # d => conn'[e] = conn[e]
  BY <1>1, <1>4 DEF SetConn
<1>7. /\ ~node'[n].live
      /\ \A m \in Nodes : node'[m].live => node[m].live /\ node'[m].secret = node[m].secret
  <2>1. CASE n = head
    BY <1>1, <1>2, <2>1 DEF Unlink, NoNode
  <2>2. CASE n # head
    <3>1. PICK j \in 1..Length :
            /\ Walk[j] = n /\ \A k \in 1..(j - 1) : Walk[k] # n
            /\ node' = [node EXCEPT ![n] = NoNode, ![Walk[j - 1]].next = node[n].next]
      BY <1>2, <2>2 DEF Unlink
    <3> QED
      BY <1>1, <1>2, <3>1 DEF NoNode, Element
  <2> QED
    BY <2>1, <2>2
<1>8. SecretsApart'
  BY <1>7 DEF SecretsApart, SessionInv
<1>9. NotYetListed'
  <2>1. ASSUME NEW e \in Devices PROVE Unlisted(conn[e])'
    <3>1. CASE e = d
      BY <1>4, <1>5, <1>6, <1>7, <3>1, UsedByElement DEF Unlisted
    <3>2. CASE e # d
      BY <1>6, <1>7, <3>2 DEF Unlisted, NotYetListed, SessionInv
    <3> QED
      BY <3>1, <3>2
  <2> QED
    BY <2>1 DEF NotYetListed
<1>10. ASSUME ListIsSound', NEW e \in Devices, conn'[e].secure, conn'[e].key \notin ZeroIds
       PROVE  Lists(Walk', node', conn'[e].key)
  <2>1. Sound(Walk', node') /\ Path(Walk', head, node') /\ Path(Walk, head, node)
    BY <1>2, <1>10, SoundListNext, WalkIsPath, WalkIsPathNext
  <2>2. head # n
    BY <1>2, <1>7, <2>1, LengthType, ConstantsAssumption DEF Sound, Path
  <2>3. PICK j \in 1..Length :
          /\ Walk[j] = n /\ \A k \in 1..(j - 1) : Walk[k] # n
          /\ node' = [node EXCEPT ![n] = NoNode, ![Walk[j - 1]].next = node[n].next]
    BY <1>2, <2>2 DEF Unlink
  <2>4. /\ Sound(Walk, node)
        /\ \A u : u # node[n].secret /\ Lists(Walk, node, u) => Lists(Walk', node', u)
    <3>1. PICK p : p = Walk[j - 1]
      OBVIOUS
    <3>2. Bypassed(node, node', n, p) /\ IsFirstAt(Walk, j, n)
      BY <2>3, <3>1 DEF Bypassed, IsFirstAt
    <3> QED
      BY <1>1, <1>2, <2>1, <2>2, <3>1, <3>2, UnlinkedPath
  <2>5. conn'[e] = conn[e]
    BY <1>4, <1>6, <1>10
  <2>6. Lists(Walk, node, conn[e].key)
    BY <1>10, <2>4, <2>5, SoundList DEF SessionInv, ListKeeps
  <2>7. conn[e].key # node[n].secret
    BY <1>2, <1>10, <2>5 DEF SameId
  <2> QED
    BY <2>4, <2>5, <2>6, <2>7
<1> QED
  BY <1>4, <1>8, <1>9, <1>10 DEF ListKeeps

\* What a reboot leaves: no connection, and no element.
LEMMA RebootKeepsSessions ==
  ASSUME SessionInv, Reboot
  PROVE  OwnedApart' /\ InPhase' /\ SecretsApart' /\ NotYetListed' /\ ListKeeps'
<1>1. /\ \A d \in Devices : conn'[d] = NoConn
      /\ \A n \in Nodes : ~node'[n].live
      /\ cache' = cache
  BY DEF Reboot, NoNode
<1>2. /\ NoConn.wire.kind = "none" /\ ~NoConn.up /\ ~NoConn.secure
      /\ NoConn.key = Null /\ NoConn.mine = Null
  BY DEF NoConn, NoMessage, Message
<1>3. \A d \in Devices : Owned(d)' \subseteq Owned(d)
  BY <1>1, <1>2 DEF Owned
<1>4. OwnedApart'
  BY <1>3 DEF OwnedApart, SessionInv
<1>5. InPhase' /\ NotYetListed'
  BY <1>1, <1>2 DEF InPhase, Phase, NotYetListed, Unlisted
<1>6. SecretsApart' /\ ListKeeps'
  BY <1>1, <1>2 DEF SecretsApart, ListKeeps
<1> QED
  BY <1>4, <1>5, <1>6

\* The accessory's steps.
LEMMA ServeKeepsSessions ==
  ASSUME SessionInv, Inv', NEW d \in Devices, Serve(d)
  PROVE  OwnedApart' /\ InPhase' /\ SecretsApart' /\ NotYetListed' /\ ListKeeps'
<1>1. CASE VerifyStart(d) \/ ResumeNotFound(d)
  <2>1. /\ conn[d].wire.kind \in {"m1", "resume"}
        /\ StartAndSend(d) /\ UNCHANGED list /\ UNCHANGED cache
    BY <1>1 DEF VerifyStart, ResumeNotFound, Request
  <2>2. PICK s \in NewSecret, c \in Connection :
          /\ SetConn(d, c) /\ c.wire.kind = "m2" /\ c.key = s /\ ~c.secure
          /\ OwnedApart' /\ InPhase'
    BY <2>1, StartKeepsSessions
  <2>3. SecretsApart' /\ NotYetListed' /\ ListKeeps'
    BY <2>1, <2>2, NewSecretIsUnused, ListUntouched
  <2> QED
    BY <2>2, <2>3
<1>2. CASE VerifyFinish(d)
  BY <1>2, FinishKeepsSessions
<1>3. CASE VerifyRefused(d)
  BY <1>3, Closed DEF VerifyRefused
<1>4. CASE FinishHangs(d) \/ ResumeHangs(d)
  BY <1>4, Untouched DEF FinishHangs, ResumeHangs
<1>5. CASE FinishPanics(d) \/ ResumePanics(d)
  BY <1>5, RebootKeepsSessions DEF FinishPanics, ResumePanics, Panic
<1>6. CASE ResumeAccepted(d) \/ ResumeMistaken(d)
  BY <1>6, RotateKeepsSessions DEF ResumeAccepted, ResumeMistaken, Request
<1>7. CASE ResumeRejected(d)
  BY <1>7, RejectKeepsSessions
<1> QED
  BY <1>1, <1>2, <1>3, <1>4, <1>5, <1>6, <1>7 DEF Serve

\* At first nobody has a session.
THEOREM SessionInvInit == Init => SessionInv
<1> SUFFICES ASSUME Init PROVE SessionInv
  OBVIOUS
<1>1. /\ \A d \in Devices : conn[d] = NoConn /\ cache[d] = Null
      /\ \A n \in Nodes : ~node[n].live
  BY DEF Init, NoNode
<1>2. /\ NoConn.wire.kind = "none" /\ ~NoConn.up /\ ~NoConn.secure
      /\ NoConn.key = Null /\ NoConn.mine = Null
  BY DEF NoConn, NoMessage, Message
<1>3. OwnedApart
  BY <1>1, <1>2 DEF OwnedApart, Owned
<1>4. InPhase /\ SecretsApart /\ NotYetListed /\ ListKeeps
  BY <1>1, <1>2 DEF InPhase, Phase, SecretsApart, NotYetListed, Unlisted, ListKeeps
<1> QED
  BY <1>3, <1>4, InvInit DEF SessionInv

\* Who owns which secret, and that the list has the sessions in use, is inductive.
THEOREM SessionInvNext == SessionInv /\ [Next]_vars => SessionInv'
<1> SUFFICES ASSUME SessionInv, [Next]_vars PROVE SessionInv'
  OBVIOUS
<1> DEFINE Kept == OwnedApart' /\ InPhase' /\ SecretsApart' /\ NotYetListed' /\ ListKeeps'
<1>1. Inv'
  BY InvNext DEF SessionInv
<1>2. ASSUME NEW d \in Devices, Serve(d) PROVE Kept
  BY <1>1, <1>2, ServeKeepsSessions
<1>3. ASSUME NEW d \in Devices,
             Controller(d) \/ Disconnect(d) \/ Lose(d) \/ GiveUp(d) \/ Forget(d)
      PROVE  Kept
  BY <1>3, ControllerKeepsSessions
<1>4. ASSUME NEW d \in Devices, PairSetup(d) \/ RemovePairing(d) PROVE Kept
  BY <1>4, Untouched DEF PairSetup, RemovePairing
<1>5. ASSUME Restart PROVE Kept
  BY <1>5, RebootKeepsSessions DEF Restart
<1>6. ASSUME UNCHANGED vars PROVE Kept
  BY <1>6, Untouched DEF vars
<1> HIDE DEF Kept
<1>7. Kept
  BY <1>2, <1>3, <1>4, <1>5, <1>6 DEF Next
<1> QED
  BY <1>1, <1>7 DEF SessionInv, Kept

\* So the list has the sessions in use at any time.
THEOREM SessionInvariance == Spec => []SessionInv
BY SessionInvInit, SessionInvNext, PTL DEF Spec

\* A secret that the sound list has is there once.
LEMMA ListedOnce ==
  ASSUME SessionInv, ListIsSound, NEW s, Lists(Walk, node, s)
  PROVE  Cardinality({i \in 0..Length : Walk[i] # Null /\ node[Walk[i]].secret = s}) = 1
<1> DEFINE I == {i \in 0..Length : Walk[i] # Null /\ node[Walk[i]].secret = s}
<1>1. PICK i \in 0..Length : Walk[i] # Null /\ node[Walk[i]].secret = s
  BY DEF Lists
<1>2. /\ Path(Walk, head, node) /\ Sound(Walk, node)
      /\ \A j \in 0..Length : Walk[j] # Null => Walk[j] \in Nodes
  BY WalkIsPath, SoundList, PathIsTyped DEF SessionInv, Inv, TypeOK
<1>3. ASSUME NEW j \in I, i # j PROVE FALSE
  <2>1. j \in 0..Length /\ Walk[j] # Null /\ node[Walk[j]].secret = s
    OBVIOUS
  <2>2. Walk[j] = Walk[i]
    BY <1>1, <1>2, <2>1 DEF Sound, SessionInv, SecretsApart
  <2>3. CASE i < j
    BY <1>1, <1>2, <2>2, <2>3, PathRepeatsNothing DEF Sound
  <2>4. CASE j < i
    BY <1>1, <1>2, <2>1, <2>2, <2>4, PathRepeatsNothing DEF Sound
  <2> QED
    BY <1>3, <2>1, <2>3, <2>4, LengthType
<1>4. I = {i}
  BY <1>1, <1>3
<1> QED
  BY <1>4, FS_Singleton

(***************************************************************************)
(* As long as the list is sound, a controller that finished verifying has  *)
(* its session in the list, once, for any number of controllers, elements, *)
(* secrets and faults: nothing that another controller does, no lost       *)
(* message and no restart takes the session away, except by an id that     *)
(* begins with a zero byte.                                                *)
(***************************************************************************)
THEOREM SessionStays == Spec => []SessionIsKept
<1>1. SessionInv => SessionIsKept
  <2> SUFFICES ASSUME SessionInv, ListIsSound,
                      NEW d \in Devices, conn[d].up, cache[d] \notin ZeroIds
               PROVE  Cardinality({i \in 0..Length :
                                    Walk[i] # Null /\ node[Walk[i]].secret = cache[d]}) = 1
    BY DEF SessionIsKept
  <2>1. conn[d].secure /\ conn[d].key = cache[d]
    BY DEF SessionInv, Inv, ConnectionsAgree, Agrees, InPhase, Phase
  <2>2. Lists(Walk, node, cache[d])
    BY <2>1 DEF SessionInv, ListKeeps
  <2> QED
    BY <2>2, ListedOnce
<1> QED
  BY <1>1, SessionInvariance, PTL

=============================================================================
