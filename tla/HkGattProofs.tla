---------------------------- MODULE HkGattProofs ----------------------------
(***************************************************************************)
(* Proofs about HkGatt, for any number of characteristics and transactions *)
(* and any sizes: the types, that both ends agree on procedure, frames and *)
(* MTU, and that a timed write belongs to its owner.                       *)
(***************************************************************************)
EXTENDS HkGatt, FiniteSetTheorems, TLAPS

InProcedure == ctl.pc \in {"writing", "reading"}

First == conn.transactions[1]

(***************************************************************************)
(* The transaction of the procedure is the first one, as no other is made  *)
(* before it ends.  It counts what the controller counts; pair verify is   *)
(* done in the clear.                                                      *)
(***************************************************************************)
ProcedureInv ==
  IF InProcedure
  THEN /\ proc.chr \in Chrs
       /\ conn.transactions # <<>>
       /\ First.chr = proc.chr /\ First.id = proc.id /\ First.op = proc.op
       /\ First.expected = proc.body /\ First.got = proc.put /\ First.sent = proc.got
       /\ proc.put <= proc.body
       /\ ctl.pc = "reading" <=> proc.put = proc.body
       /\ ctl.pc = "writing" => proc.got = 0
       /\ First.sent <= First.response
       /\ proc.op \in {"start", "finish"} <=> proc.chr = PairVerify
       /\ proc.op \in {"start", "finish"} => ~ctl.up
  ELSE proc = NoProcedure

(***************************************************************************)
(* The ends encrypt alike, but while the response that ends pair verify is *)
(* read, which says so to the controller.                                  *)
(***************************************************************************)
FramesInv ==
  ctl.pc \in {"idle", "writing", "reading"} =>
    /\ conn.received = ctl.sent
    /\ conn.sent = ctl.received
    /\ ctl.up => conn.secure
    /\ conn.secure /\ ~ctl.up => proc.op = "finish" /\ ctl.pc = "reading" /\ First.verified
    /\ InProcedure => (First.verified => conn.secure)

MtuInv ==
  \/ conn.mtu = 0 /\ ctl.att = DefaultMtu
  \/ conn.mtu = ctl.att /\ ctl.att \in Mtus

(***************************************************************************)
(* A timed write that was written is stored from then on, though it may be *)
(* executed only when its response was read.                               *)
(***************************************************************************)
OwnTimed(c) == timed.alone => timed.request = "own" /\ timed.chr = c

TimedInv ==
  /\ ctl.armed # Null => OwnTimed(ctl.armed)
  /\ InProcedure /\ proc.op \in {"timed", "execute"} => ctl.armed = Null
  /\ ctl.pc = "reading" /\ proc.op = "timed" => OwnTimed(proc.chr)

Inv == TypeOK /\ ProcedureInv /\ FramesInv /\ MtuInv /\ TimedInv

-----------------------------------------------------------------------------
(* Operators.                                                              *)

LEMMA CountedType ==
  \A n \in 0..(Frames - 1), encrypted \in BOOLEAN : Counted(n, encrypted) \in 0..(Frames - 1)
<1> SUFFICES ASSUME NEW n \in 0..(Frames - 1) PROVE (n + 1) % Frames \in 0..(Frames - 1)
  BY DEF Counted
<1>1. CASE n + 1 < Frames
  <2>1. (n + 1) % Frames = n + 1
    BY <1>1, ConstantsAssumption
  <2> QED
    BY <1>1, <2>1, ConstantsAssumption
<1>2. CASE n + 1 = Frames
  <2>1. (n + 1) % Frames = 0
    BY <1>2, ConstantsAssumption
  <2> QED
    BY <2>1, ConstantsAssumption
<1> QED
  BY <1>1, <1>2, ConstantsAssumption

LEMMA NewType ==
  /\ NewConnection \in Connection /\ NewConnection.mtu = 0
  /\ NewConnection.received = 0 /\ NewConnection.sent = 0 /\ ~NewConnection.secure
  /\ Away \in Controller
  /\ NoProcedure \in Procedure
  /\ NoTimed \in Timed /\ ~NoTimed.alone
<1>1. 256 % 256 = 0 /\ 0 \in 0..(Frames - 1)
  BY ConstantsAssumption
<1>2. NewConnection \in Connection /\ NewConnection.mtu = 0
  BY <1>1 DEF NewConnection, Connection
<1>3. NewConnection.received = 0 /\ NewConnection.sent = 0 /\ ~NewConnection.secure
  BY DEF NewConnection
<1>4. Away \in Controller
  BY <1>1 DEF Away, Controller, DefaultMtu
<1>5. NoProcedure \in Procedure
  BY DEF NoProcedure, Procedure, Ops
<1>6. NoTimed \in Timed /\ ~NoTimed.alone
  BY DEF NoTimed, Timed
<1> QED
  BY <1>2, <1>3, <1>4, <1>5, <1>6

\* hk_connection_transaction_get_by_uuid finds the first one if it is of c.
LEMMA NewestIsFirst ==
  ASSUME conn.transactions \in Seq(Transaction), conn.transactions # <<>>,
         NEW c, First.chr = c
  PROVE  Newest(c) = 1
<1>1. 1 \in DOMAIN conn.transactions /\ DOMAIN conn.transactions \subseteq Nat \ {0}
  OBVIOUS
<1>2. ASSUME NEW i \in DOMAIN conn.transactions,
             \A j \in 1..(i - 1) : conn.transactions[j].chr # c
      PROVE  i = 1
  BY <1>1, <1>2 DEF First
<1> QED
  BY <1>1, <1>2 DEF First, Newest

\* A controller that has fewer transactions than ids finds one.
LEMMA FreshIdType ==
  ASSUME conn.transactions \in Seq(Transaction), Len(conn.transactions) < MaxTransactions
  PROVE  FreshId \in Ids
<1> DEFINE n == Len(conn.transactions)
           f == [i \in 1..n |-> conn.transactions[i].id]
           T == {conn.transactions[i].id : i \in 1..n}
<1>1. n \in Nat /\ DOMAIN conn.transactions = 1..n
  OBVIOUS
<1>2. IsFiniteSet(1..n) /\ Cardinality(1..n) = n
  BY <1>1, FS_Interval
<1>3. f \in Surjection(1..n, T)
  BY DEF Surjection
<1>4. IsFiniteSet(T) /\ Cardinality(T) <= n
  BY <1>2, <1>3, FS_Surjection
<1>5. Cardinality(Ids) = MaxTransactions
  BY ConstantsAssumption, FS_Interval
<1>6. ~(Ids \subseteq T)
  <2>1. ASSUME Ids \subseteq T PROVE FALSE
    <3>1. Cardinality(Ids) <= Cardinality(T)
      BY <1>4, <2>1, FS_Subset
    <3>2. Cardinality(T) \in Nat
      BY <1>4, FS_CardinalityType
    <3> QED
      BY <1>1, <1>4, <1>5, <3>1, <3>2, ConstantsAssumption
  <2> QED
    BY <2>1
<1>7. \E id \in Ids : \A i \in DOMAIN conn.transactions : conn.transactions[i].id # id
  BY <1>1, <1>6
<1> QED
  BY <1>7 DEF FreshId

LEMMA AttType == TypeOK => ctl.att \in Nat /\ ctl.att >= 23
<1> SUFFICES ASSUME TypeOK PROVE ctl.att \in Nat /\ ctl.att >= 23
  OBVIOUS
<1>1. ctl.att \in {23} \cup Mtus
  BY DEF TypeOK, Controller, DefaultMtu
<1>2. \A m \in Mtus : m \in Nat /\ m >= 23
  BY ConstantsAssumption
<1> QED
  BY <1>1, <1>2

LEMMA FragmentType ==
  ASSUME TypeOK, NEW c, NEW rest \in Nat
  PROVE  Fragment(2, c, rest) \in 0..rest
<1>1. ctl.att \in Nat /\ ctl.att >= 23
  BY AttType
<1>2. Tag(Encrypts(c)) \in {0, 16}
  BY DEF Tag, AuthTag
<1> QED
  BY <1>1, <1>2 DEF Fragment, Smaller, WriteHeader

LEMMA PartType ==
  ASSUME TypeOK, NEW t \in Transaction, t.sent <= t.response
  PROVE  Part(t) \in 0..(t.response - t.sent)
<1>1. conn.mtu \in Nat /\ t.sent \in Nat /\ t.response \in Nat
  BY DEF TypeOK, Connection, Transaction
<1>2. Room \in Nat
  BY <1>1 DEF Room
<1> QED
  BY <1>1, <1>2 DEF Part, Smaller

-----------------------------------------------------------------------------
(* Writes.                                                                 *)

(***************************************************************************)
(* The response of a write, and what it makes of is_secure: pair verify    *)
(* clears it, or sets it as its response tells the controller.             *)
(***************************************************************************)
LEMMA HandleWriteReturns ==
  ASSUME NEW ts \in Seq(Transaction), ts # <<>>, HandleWrite(ts, 1), conn.secure \in BOOLEAN
  PROVE  \E size \in Nat, secure \in BOOLEAN, verified \in BOOLEAN :
           /\ WriteReturns(ts, 1, size, secure, verified)
           /\ \/ secure = conn.secure /\ ~verified
              \/ /\ ts[1].op \in {"start", "finish"} /\ ts[1].got = ts[1].expected
                 /\ secure = verified
                 /\ verified => ts[1].op = "finish"
<1>1. ASSUME NEW n \in Nat, Respond(ts, 1, n)
      PROVE  WriteReturns(ts, 1, n, conn.secure, FALSE)
  BY <1>1 DEF Respond
<1>2. ResponseSizes \subseteq Nat /\ 0 \in Nat
  BY ConstantsAssumption
<1>3. CASE WaitForFragment(ts, 1)
  BY <1>1, <1>2, <1>3 DEF WaitForFragment
<1>4. CASE HandlePlain(ts, 1)
  BY <1>1, <1>2, <1>4 DEF HandlePlain
<1>5. CASE HandleTimedWrite(ts, 1)
  BY <1>1, <1>2, <1>5 DEF HandleTimedWrite
<1>6. CASE HandleExecuteWrite(ts, 1)
  BY <1>1, <1>2, <1>6 DEF HandleExecuteWrite
<1>7. CASE HandleVerify(ts, 1)
  BY <1>2, <1>7 DEF HandleVerify, Complete
<1> QED
  BY <1>3, <1>4, <1>5, <1>6, <1>7 DEF HandleWrite

\* Only timed and execute writes use the globals.
LEMMA HandleWriteTimed ==
  ASSUME NEW ts \in Seq(Transaction), ts # <<>>, HandleWrite(ts, 1), timed \in Timed
  PROVE  /\ timed' \in Timed
         /\ ts[1].op \notin {"timed", "execute"} => timed' = timed
         /\ ts[1].op = "timed" /\ ts[1].got = ts[1].expected =>
              timed'.request = "own" /\ timed'.chr = ts[1].chr
<1>1. ts[1] \in Transaction
  OBVIOUS
<1>2. CASE WaitForFragment(ts, 1)
  BY <1>2 DEF WaitForFragment
<1>3. CASE HandlePlain(ts, 1)
  BY <1>3 DEF HandlePlain, Complete
<1>4. CASE HandleTimedWrite(ts, 1)
  BY <1>1, <1>4 DEF HandleTimedWrite, Complete, Timed, Transaction
<1>5. CASE HandleExecuteWrite(ts, 1)
  BY <1>5 DEF HandleExecuteWrite, Complete, Release, Timed
<1>6. CASE HandleVerify(ts, 1)
  BY <1>6 DEF HandleVerify, Complete
<1> QED
  BY <1>2, <1>3, <1>4, <1>5, <1>6 DEF HandleWrite

(***************************************************************************)
(* A write of procedure p, when ts are the transactions with the one of p  *)
(* in front: a first fragment or a further one.                            *)
(***************************************************************************)
LEMMA WriteKeeps ==
  ASSUME Inv, ctl.pc \in {"idle", "writing"},
         NEW ts \in Seq(Transaction), ts # <<>>, HandleWrite(ts, 1),
         NEW p \in Procedure, Wrote(p),
         p.chr \in Chrs,
         ts[1].chr = p.chr, ts[1].id = p.id, ts[1].op = p.op,
         ts[1].expected = p.body, ts[1].got = p.put, ts[1].sent = 0, p.got = 0,
         p.put <= p.body,
         p.op \in {"start", "finish"} <=> p.chr = PairVerify,
         p.op \in {"start", "finish"} => ~ctl.up
  PROVE  Inv'
<1>1. /\ conn \in Connection /\ ctl \in Controller /\ timed \in Timed
      /\ ts[1] \in Transaction
      /\ conn.secure \in BOOLEAN /\ conn.received \in 0..(Frames - 1)
      /\ ctl.sent \in 0..(Frames - 1) /\ ctl.up \in BOOLEAN
      /\ p.body \in Nat /\ p.put \in Nat
  BY DEF Inv, TypeOK, Connection, Controller, Procedure
<1>2. PICK size \in Nat, secure \in BOOLEAN, verified \in BOOLEAN :
        /\ WriteReturns(ts, 1, size, secure, verified)
        /\ \/ secure = conn.secure /\ ~verified
           \/ /\ ts[1].op \in {"start", "finish"} /\ ts[1].got = ts[1].expected
              /\ secure = verified
              /\ verified => ts[1].op = "finish"
  BY <1>1, HandleWriteReturns
<1> DEFINE us == [ts EXCEPT ![1].response = size, ![1].verified = verified]
<1>3. /\ us \in Seq(Transaction) /\ us # <<>>
      /\ us[1] = [ts[1] EXCEPT !.response = size, !.verified = verified]
  <2>1. [ts[1] EXCEPT !.response = size, !.verified = verified] \in Transaction
    BY <1>1 DEF Transaction
  <2>2. 1 \in DOMAIN ts
    OBVIOUS
  <2>3. us = [ts EXCEPT ![1] = [ts[1] EXCEPT !.response = size, !.verified = verified]]
    BY <2>2
  <2> QED
    BY <2>1, <2>2, <2>3
<1>4. /\ us[1].chr = p.chr /\ us[1].id = p.id /\ us[1].op = p.op
      /\ us[1].expected = p.body /\ us[1].got = p.put /\ us[1].sent = 0
      /\ us[1].response = size /\ us[1].verified = verified
  BY SMTT(60), <1>1, <1>3 DEF Transaction
<1> HIDE DEF us
<1>5. conn' = [conn EXCEPT !.received = Counted(@, Protects(ts[1].chr)),
                           !.secure = secure, !.transactions = us]
  BY <1>2 DEF WriteReturns, us
<1>6. /\ conn' \in Connection /\ conn'.transactions = us /\ conn'.secure = secure
      /\ conn'.received = Counted(conn.received, Protects(p.chr))
      /\ conn'.sent = conn.sent /\ conn'.mtu = conn.mtu
  <2>1. Counted(conn.received, Protects(ts[1].chr)) \in 0..(Frames - 1)
    BY <1>1, CountedType DEF Protects
  <2> QED
    BY <1>1, <1>3, <1>5, <2>1 DEF Connection
<1>7. /\ ctl' \in Controller
      /\ ctl'.pc = (IF p.put = p.body THEN "reading" ELSE "writing")
      /\ ctl'.sent = Counted(ctl.sent, Encrypts(p.chr))
      /\ ctl'.armed = (IF p.op \in {"timed", "execute"} THEN Null ELSE ctl.armed)
      /\ ctl'.att = ctl.att /\ ctl'.up = ctl.up /\ ctl'.received = ctl.received
  <2>1. Counted(ctl.sent, Encrypts(p.chr)) \in 0..(Frames - 1)
    BY <1>1, CountedType DEF Encrypts
  <2> QED
    BY ZenonT(60), <1>1, <2>1 DEF Wrote, Controller
<1>8. proc' = p
  BY DEF Wrote
<1>9. /\ timed' \in Timed
      /\ p.op \notin {"timed", "execute"} => timed' = timed
      /\ p.op = "timed" /\ p.put = p.body => timed'.request = "own" /\ timed'.chr = p.chr
  BY <1>1, HandleWriteTimed
<1>10. TypeOK'
  BY <1>6, <1>7, <1>8, <1>9 DEF TypeOK
<1>11. ProcedureInv'
  <2>1. InProcedure' /\ First' = us[1] /\ conn'.transactions # <<>>
    BY <1>3, <1>6, <1>7 DEF InProcedure, First
  <2>2. ctl'.pc = "reading" <=> p.put = p.body
    BY <1>7
  <2>3. 0 <= size
    OBVIOUS
  <2> QED
    BY <1>4, <1>7, <1>8, <2>1, <2>2, <2>3 DEF ProcedureInv
<1>12. FramesInv'
  <2>1. conn.secure = ctl.up /\ conn.received = ctl.sent /\ conn.sent = ctl.received
    BY <1>1 DEF Inv, FramesInv
  <2>2. Protects(p.chr) = Encrypts(p.chr)
    BY <2>1 DEF Protects, Encrypts
  <2>3. conn'.received = ctl'.sent /\ conn'.sent = ctl'.received
    BY <1>6, <1>7, <2>1, <2>2
  <2>4. \/ secure = ctl.up /\ ~verified
        \/ /\ p.op \in {"start", "finish"} /\ p.put = p.body
           /\ secure = verified /\ (verified => p.op = "finish") /\ ~ctl.up
    BY <1>2, <2>1
  <2> QED
    BY <1>4, <1>6, <1>7, <1>8, <2>3, <2>4 DEF FramesInv, InProcedure, First
<1>13. MtuInv'
  BY <1>6, <1>7 DEF Inv, MtuInv
<1>14. TimedInv'
  BY <1>7, <1>8, <1>9, ConstantsAssumption DEF Inv, TimedInv, OwnTimed, InProcedure
<1> QED
  BY <1>10, <1>11, <1>12, <1>13, <1>14 DEF Inv

LEMMA WriteFirstKeeps ==
  ASSUME Inv, NEW c \in Chrs, NEW op \in Ops, NEW n \in RequestSizes, WriteFirst(c, op, n)
  PROVE  Inv'
<1> DEFINE k == Fragment(7, c, n)
           ts == <<NewTransaction(FreshId, op, c, k, n)>> \o conn.transactions
           p == [chr |-> c, op |-> op, id |-> FreshId, body |-> n, put |-> k, got |-> 0]
<1>1. /\ ctl.pc = "idle" /\ MayStart(c, op, n) /\ k >= 0
      /\ HandleWrite(ts, 1) /\ Wrote(p)
  BY DEF WriteFirst
<1>2. conn.transactions \in Seq(Transaction) /\ FreshId \in Ids
  BY FreshIdType DEF Inv, TypeOK, Connection, WriteFirst
<1>3. n \in Nat /\ k \in Nat /\ k <= n
  <2>1. n \in Nat
    BY ConstantsAssumption
  <2>2. ctl.att \in Nat
    BY AttType DEF Inv
  <2>3. Tag(Encrypts(c)) \in Int
    BY DEF Tag, AuthTag
  <2> QED
    BY <1>1, <2>1, <2>2, <2>3 DEF Fragment, Smaller, WriteHeader
<1> HIDE DEF k
<1>4. NewTransaction(FreshId, op, c, k, n) \in Transaction
  BY <1>2, <1>3 DEF NewTransaction, Transaction
<1>5. ts \in Seq(Transaction) /\ ts # <<>> /\ ts[1] = NewTransaction(FreshId, op, c, k, n)
  BY <1>2, <1>4
<1>6. p \in Procedure
  BY <1>2, <1>3 DEF Procedure
<1>7. /\ ts[1].chr = p.chr /\ ts[1].id = p.id /\ ts[1].op = p.op
      /\ ts[1].expected = p.body /\ ts[1].got = p.put /\ ts[1].sent = 0 /\ p.got = 0
      /\ p.put <= p.body
  BY <1>3, <1>5 DEF NewTransaction
<1>8. /\ p.chr \in Chrs
      /\ p.op \in {"start", "finish"} <=> p.chr = PairVerify
      /\ p.op \in {"start", "finish"} => ~ctl.up
  BY <1>1 DEF MayStart
<1> HIDE DEF ts, p
<1> QED
  BY <1>1, <1>5, <1>6, <1>7, <1>8, WriteKeeps

LEMMA WriteNextKeeps ==
  ASSUME Inv, WriteNext
  PROVE  Inv'
<1> DEFINE k == Fragment(2, proc.chr, proc.body - proc.put)
           ts == [conn.transactions EXCEPT ![1].got = @ + k]
           p == [proc EXCEPT !.put = @ + k]
<1>1. ctl.pc = "writing" /\ TypeOK
  BY DEF WriteNext, Inv
<1>2. /\ conn.transactions \in Seq(Transaction) /\ proc \in Procedure
      /\ proc.body \in Nat /\ proc.put \in Nat
  BY <1>1 DEF TypeOK, Connection, Procedure
<1>3. /\ proc.chr \in Chrs /\ conn.transactions # <<>>
      /\ First.chr = proc.chr /\ First.id = proc.id /\ First.op = proc.op
      /\ First.expected = proc.body /\ First.got = proc.put /\ First.sent = 0
      /\ proc.put <= proc.body /\ proc.got = 0
      /\ proc.op \in {"start", "finish"} <=> proc.chr = PairVerify
      /\ proc.op \in {"start", "finish"} => ~ctl.up
  BY <1>1 DEF Inv, ProcedureInv, InProcedure
<1>4. Newest(proc.chr) = 1
  BY <1>2, <1>3, NewestIsFirst
<1>5. HandleWrite(ts, 1) /\ Wrote(p)
  BY <1>4 DEF WriteNext
<1>6. k \in 0..(proc.body - proc.put)
  BY <1>1, <1>2, <1>3, FragmentType
<1> HIDE DEF k
<1>7. First \in Transaction /\ [First EXCEPT !.got = @ + k] \in Transaction
  <2>1. First \in Transaction
    BY <1>2, <1>3 DEF First
  <2> QED
    BY <1>6, <2>1 DEF Transaction
<1>8. ts \in Seq(Transaction) /\ ts # <<>> /\ ts[1] = [First EXCEPT !.got = @ + k]
  <2>1. 1 \in DOMAIN conn.transactions
    BY <1>2, <1>3
  <2>2. ts = [conn.transactions EXCEPT ![1] = [First EXCEPT !.got = @ + k]]
    BY <2>1 DEF First
  <2> QED
    BY <1>2, <1>7, <2>1, <2>2
<1>9. p \in Procedure /\ p.put = proc.put + k /\ p.put <= p.body
  BY <1>2, <1>6 DEF Procedure
<1>10. /\ p.chr = proc.chr /\ p.id = proc.id /\ p.op = proc.op /\ p.body = proc.body
       /\ p.got = proc.got
  BY <1>2 DEF Procedure
<1>11. /\ ts[1].chr = p.chr /\ ts[1].id = p.id /\ ts[1].op = p.op
       /\ ts[1].expected = p.body /\ ts[1].got = p.put /\ ts[1].sent = 0
  BY ZenonT(60), <1>3, <1>7, <1>8, <1>9, <1>10 DEF Transaction
<1> HIDE DEF ts, p
<1> QED
  BY <1>1, <1>3, <1>5, <1>8, <1>9, <1>10, <1>11, WriteKeeps

-----------------------------------------------------------------------------
(* Reads.                                                                  *)

LEMMA AdvanceType ==
  ASSUME TypeOK, conn.transactions # <<>>, First.sent <= First.response
  PROVE  /\ Advance(1) \in Seq(Transaction)
         /\ First.sent + Part(First) # First.response =>
              /\ Advance(1) # <<>>
              /\ Advance(1)[1] = [First EXCEPT !.sent = @ + Part(First)]
         /\ First \in Transaction
         /\ First.sent + Part(First) \in 0..First.response
<1> DEFINE ts == conn.transactions
           part == Part(First)
<1>1. ts \in Seq(Transaction) /\ 1 \in DOMAIN ts /\ Len(ts) \in Nat \ {0}
  BY DEF TypeOK, Connection
<1>2. First \in Transaction /\ First.sent \in Nat /\ First.response \in Nat
  <2>1. First \in Transaction
    BY <1>1 DEF First
  <2> QED
    BY <2>1 DEF Transaction
<1>3. part \in Nat /\ First.sent + part \in 0..First.response
  BY <1>2, PartType
<1>4. SubSeq(ts, 1, 1 - 1) \o SubSeq(ts, 1 + 1, Len(ts)) \in Seq(Transaction)
  <2>1. SubSeq(ts, 1, 0) \in Seq(Transaction)
    BY <1>1
  <2>2. SubSeq(ts, 2, Len(ts)) \in Seq(Transaction)
    BY <1>1
  <2> QED
    BY <2>1, <2>2
<1> HIDE DEF part
<1> DEFINE us == [ts EXCEPT ![1].sent = @ + part]
<1>5. us \in Seq(Transaction) /\ us # <<>> /\ us[1] = [First EXCEPT !.sent = @ + part]
  <2>1. [First EXCEPT !.sent = @ + part] \in Transaction
    BY <1>2, <1>3 DEF Transaction
  <2>2. us = [ts EXCEPT ![1] = [First EXCEPT !.sent = @ + part]]
    BY <1>1 DEF First
  <2> QED
    BY <1>1, <2>1, <2>2
<1>6. Advance(1) = IF First.sent + part = First.response
                   THEN SubSeq(ts, 1, 1 - 1) \o SubSeq(ts, 1 + 1, Len(ts))
                   ELSE us
  BY DEF Advance, First, part
<1> QED
  BY <1>2, <1>3, <1>4, <1>5, <1>6 DEF part

LEMMA SendType ==
  ASSUME TypeOK, Advance(1) \in Seq(Transaction), Send(1)
  PROVE  /\ conn' \in Connection
         /\ conn'.transactions = Advance(1)
         /\ conn'.sent = Counted(conn.sent, Protects(proc.chr))
         /\ conn'.received = conn.received /\ conn'.secure = conn.secure /\ conn'.mtu = conn.mtu
<1>1. conn \in Connection /\ conn.sent \in 0..(Frames - 1) /\ conn.secure \in BOOLEAN
  BY DEF TypeOK, Connection
<1>2. Counted(conn.sent, Protects(proc.chr)) \in 0..(Frames - 1)
  BY <1>1, CountedType DEF Protects
<1> QED
  BY <1>1, <1>2 DEF Send, Connection

LEMMA ReadKeeps ==
  ASSUME Inv, Read
  PROVE  Inv'
<1> DEFINE done == proc.got + Part(First) = First.response
           p == [proc EXCEPT !.got = @ + Part(First)]
<1>1. ctl.pc = "reading" /\ TypeOK /\ timed' = timed
  BY DEF Read, Inv
<1>2. /\ ctl \in Controller /\ proc \in Procedure /\ timed \in Timed
      /\ conn.transactions \in Seq(Transaction)
      /\ ctl.up \in BOOLEAN /\ conn.secure \in BOOLEAN /\ ctl.received \in 0..(Frames - 1)
  BY <1>1 DEF TypeOK, Connection, Controller
<1>3. /\ proc.chr \in Chrs /\ conn.transactions # <<>>
      /\ First.chr = proc.chr /\ First.id = proc.id /\ First.op = proc.op
      /\ First.expected = proc.body /\ First.got = proc.put /\ First.sent = proc.got
      /\ proc.put <= proc.body
      /\ proc.put = proc.body
      /\ First.sent <= First.response
      /\ proc.op \in {"start", "finish"} <=> proc.chr = PairVerify
      /\ proc.op \in {"start", "finish"} => ~ctl.up
  BY <1>1 DEF Inv, ProcedureInv, InProcedure
<1>4. Newest(proc.chr) = 1
  BY <1>2, <1>3, NewestIsFirst
<1>5. /\ Send(1)
      /\ proc' = IF done THEN NoProcedure ELSE p
      /\ ctl' = [ctl EXCEPT
           !.pc = IF done THEN "idle" ELSE "reading",
           !.received = Counted(@, Encrypts(proc.chr)),
           !.up = @ \/ (done /\ First.verified),
           !.armed = IF done /\ First.op = "timed" THEN proc.chr ELSE @]
  BY <1>4 DEF Read, First
<1>6. /\ Advance(1) \in Seq(Transaction)
      /\ ~done => Advance(1) # <<>> /\ Advance(1)[1] = [First EXCEPT !.sent = @ + Part(First)]
      /\ First \in Transaction
      /\ proc.got + Part(First) \in 0..First.response
  BY <1>1, <1>3, AdvanceType
<1>7. /\ conn' \in Connection /\ conn'.transactions = Advance(1)
      /\ conn'.sent = Counted(conn.sent, Protects(proc.chr))
      /\ conn'.received = conn.received /\ conn'.secure = conn.secure /\ conn'.mtu = conn.mtu
  BY <1>1, <1>5, <1>6, SendType
<1>8. p \in Procedure /\ p.got = proc.got + Part(First)
      /\ p.chr = proc.chr /\ p.op = proc.op /\ p.id = proc.id /\ p.body = proc.body /\ p.put = proc.put
  BY SMTT(60), <1>2, <1>6 DEF Procedure
<1>9. First.verified \in BOOLEAN /\ First.response \in Nat
  BY <1>6 DEF Transaction
<1>10. ~done => /\ First' \in Transaction /\ First'.sent = proc.got + Part(First)
                /\ First'.chr = First.chr /\ First'.id = First.id /\ First'.op = First.op
                /\ First'.expected = First.expected /\ First'.got = First.got
                /\ First'.response = First.response /\ First'.verified = First.verified
  <2>1. ASSUME ~done PROVE First' = [First EXCEPT !.sent = @ + Part(First)]
    BY <1>6, <1>7, <2>1 DEF First
  <2> QED
    BY SMTT(60), <1>3, <1>6, <2>1 DEF Transaction
<1> HIDE DEF done, p
<1>11. /\ ctl' \in Controller
       /\ ctl'.pc = (IF done THEN "idle" ELSE "reading")
       /\ ctl'.received = Counted(ctl.received, Encrypts(proc.chr))
       /\ ctl'.up = (ctl.up \/ (done /\ First.verified))
       /\ ctl'.armed = (IF done /\ First.op = "timed" THEN proc.chr ELSE ctl.armed)
       /\ ctl'.att = ctl.att /\ ctl'.sent = ctl.sent
  <2>1. Counted(ctl.received, Encrypts(proc.chr)) \in 0..(Frames - 1)
    BY <1>2, CountedType DEF Encrypts
  <2> QED
    BY ZenonT(60), <1>2, <1>3, <1>5, <1>9, <2>1 DEF Controller
<1>12. TypeOK'
  BY <1>1, <1>2, <1>5, <1>7, <1>8, <1>11, NewType DEF TypeOK
<1>13. ProcedureInv'
  <2>1. CASE done
    BY <1>5, <1>11, <2>1 DEF ProcedureInv, InProcedure
  <2>2. CASE ~done
    <3>1. InProcedure' /\ ctl'.pc = "reading" /\ proc' = p /\ ctl'.up = ctl.up
      BY <1>2, <1>5, <1>11, <2>2 DEF InProcedure
    <3>2. conn'.transactions # <<>> /\ First'.sent <= First'.response
      BY <1>6, <1>7, <1>9, <1>10, <2>2
    <3> QED
      BY <1>3, <1>8, <1>10, <2>2, <3>1, <3>2 DEF ProcedureInv
  <2> QED
    BY <2>1, <2>2
<1>14. FramesInv'
  <2>1. /\ conn.received = ctl.sent /\ conn.sent = ctl.received
        /\ ctl.up => conn.secure
        /\ conn.secure /\ ~ctl.up => proc.op = "finish" /\ First.verified
        /\ First.verified => conn.secure
    BY <1>1 DEF Inv, FramesInv, InProcedure
  <2>2. Protects(proc.chr) = Encrypts(proc.chr)
    BY <1>2, <1>3, <2>1 DEF Protects, Encrypts
  <2>3. conn'.received = ctl'.sent /\ conn'.sent = ctl'.received
    BY <1>7, <1>11, <2>1, <2>2
  <2>4. CASE done
    BY <1>2, <1>7, <1>11, <2>1, <2>3, <2>4 DEF FramesInv, InProcedure
  <2>5. CASE ~done
    BY <1>2, <1>5, <1>7, <1>8, <1>10, <1>11, <2>1, <2>3, <2>5 DEF FramesInv, InProcedure
  <2> QED
    BY <2>4, <2>5
<1>15. MtuInv'
  BY <1>7, <1>11 DEF Inv, MtuInv
<1>16. TimedInv'
  <2>1. /\ ctl.armed # Null => OwnTimed(ctl.armed)
        /\ proc.op \in {"timed", "execute"} => ctl.armed = Null
        /\ proc.op = "timed" => OwnTimed(proc.chr)
    BY <1>1 DEF Inv, TimedInv, InProcedure
  <2>2. \A c : OwnTimed(c) => OwnTimed(c)'
    BY <1>1 DEF OwnTimed
  <2>3. CASE done
    BY <1>1, <1>3, <1>11, <2>1, <2>3 DEF TimedInv, InProcedure, OwnTimed
  <2>4. CASE ~done
    BY <1>1, <1>5, <1>8, <1>11, <2>1, <2>4 DEF TimedInv, InProcedure, OwnTimed
  <2> QED
    BY <2>3, <2>4
<1> QED
  BY <1>12, <1>13, <1>14, <1>15, <1>16 DEF Inv

LEMMA ReadBreaksKeeps ==
  ASSUME Inv, ReadIsCut \/ ReadFails
  PROVE  Inv'
<1>1. /\ ctl.pc = "reading" /\ TypeOK /\ ReadBreaks
      /\ conn.transactions \in Seq(Transaction) /\ conn.transactions # <<>>
      /\ First.chr = proc.chr /\ First.sent <= First.response
  BY DEF ReadIsCut, ReadFails, Inv, TypeOK, Connection, ProcedureInv, InProcedure
<1>2. Newest(proc.chr) = 1
  BY <1>1, NewestIsFirst
<1>3. Send(1) /\ ctl' = [ctl EXCEPT !.pc = "broken"] /\ proc' = NoProcedure /\ timed' = timed
  BY <1>1, <1>2 DEF ReadBreaks
<1>4. conn' \in Connection /\ conn'.mtu = conn.mtu
  BY <1>1, <1>3, AdvanceType, SendType
<1>5. /\ ctl' \in Controller /\ ctl'.pc = "broken"
      /\ ctl'.att = ctl.att /\ ctl'.armed = ctl.armed
  BY <1>1, <1>3 DEF TypeOK, Controller
<1>6. TypeOK'
  BY <1>1, <1>3, <1>4, <1>5, NewType DEF TypeOK
<1> QED
  BY <1>3, <1>4, <1>5, <1>6
  DEF Inv, ProcedureInv, FramesInv, MtuInv, TimedInv, OwnTimed, InProcedure

-----------------------------------------------------------------------------
(* Connections, time, and the other connections.                           *)

LEMMA ConnectionKeeps ==
  ASSUME Inv, Connect \/ ExchangeMtu \/ Disconnect \/ ExecutePanics \/ Abandon
  PROVE  Inv'
<1>1. TypeOK /\ ctl \in Controller /\ conn \in Connection /\ ctl.up \in BOOLEAN
  BY DEF Inv, TypeOK, Controller
<1>2. Null \notin Chrs /\ NoProcedure.op = "plain"
  BY ConstantsAssumption DEF NoProcedure
<1>3. /\ Away.pc = "away" /\ Away.att = DefaultMtu /\ Away.armed = Null
      /\ Away.sent = 0 /\ Away.received = 0 /\ ~Away.up
  BY DEF Away
<1>4. CASE Connect
  <2> DEFINE c == [Away EXCEPT !.pc = "idle"]
  <2>1. /\ c \in Controller /\ c.pc = "idle" /\ c.att = DefaultMtu /\ c.armed = Null
        /\ c.sent = 0 /\ c.received = 0 /\ ~c.up
    BY NewType DEF Controller, Away
  <2>2. conn' = NewConnection /\ ctl' = c /\ UNCHANGED <<proc, timed>>
    BY <1>4 DEF Connect
  <2>3. proc = NoProcedure
    BY <1>4 DEF Connect, Inv, ProcedureInv, InProcedure
  <2> HIDE DEF c
  <2>4. TypeOK'
    BY <1>1, <2>1, <2>2, NewType DEF TypeOK
  <2> QED
    BY <2>1, <2>2, <2>3, <2>4, NewType
    DEF Inv, ProcedureInv, FramesInv, MtuInv, TimedInv, OwnTimed, InProcedure
<1>5. CASE ExchangeMtu
  <2>1. PICK m \in Mtus : conn' = [conn EXCEPT !.mtu = m] /\ ctl' = [ctl EXCEPT !.att = m]
    BY <1>5 DEF ExchangeMtu
  <2>2. m \in Nat
    BY ConstantsAssumption
  <2>3. /\ conn' \in Connection /\ conn'.mtu = m /\ conn'.secure = conn.secure
        /\ conn'.received = conn.received /\ conn'.sent = conn.sent
    BY <1>1, <2>1, <2>2 DEF Connection
  <2>4. /\ ctl' \in Controller /\ ctl'.att = m /\ ctl'.pc = ctl.pc /\ ctl'.up = ctl.up
        /\ ctl'.sent = ctl.sent /\ ctl'.received = ctl.received /\ ctl'.armed = ctl.armed
    BY <1>1, <2>1 DEF Controller
  <2>5. ctl.pc = "idle" /\ UNCHANGED <<proc, timed>>
    BY <1>5 DEF ExchangeMtu
  <2>6. TypeOK'
    BY <1>1, <2>3, <2>4, <2>5 DEF TypeOK
  <2> QED
    BY <2>3, <2>4, <2>5, <2>6
    DEF Inv, ProcedureInv, FramesInv, MtuInv, TimedInv, OwnTimed, InProcedure
<1>6. CASE Disconnect
  <2>1. TypeOK'
    BY <1>1, <1>6, NewType DEF Disconnect, TypeOK
  <2> QED
    BY <1>3, <1>6, <2>1, NewType
    DEF Disconnect, Inv, ProcedureInv, FramesInv, MtuInv, TimedInv, InProcedure
<1>7. CASE ExecutePanics
  <2>1. TypeOK'
    BY <1>7, NewType DEF ExecutePanics, Restart, TypeOK
  <2> QED
    BY <1>3, <1>7, <2>1, NewType
    DEF ExecutePanics, Restart, Inv, ProcedureInv, FramesInv, MtuInv, TimedInv, InProcedure
<1>8. CASE Abandon
  <2>1. /\ ctl' \in Controller /\ ctl'.pc = "idle" /\ ctl'.att = ctl.att /\ ctl'.up = ctl.up
        /\ ctl'.sent = ctl.sent /\ ctl'.received = ctl.received /\ ctl'.armed = ctl.armed
    BY <1>1, <1>8 DEF Abandon, Controller
  <2>2. TypeOK'
    BY <1>1, <1>8, <2>1, NewType DEF Abandon, TypeOK
  <2>3. proc.op # "finish" /\ InProcedure
    BY <1>8 DEF Abandon, Inv, ProcedureInv, InProcedure
  <2>4. proc' = NoProcedure /\ UNCHANGED <<conn, timed>>
    BY <1>8 DEF Abandon
  <2> QED
    BY <2>1, <2>2, <2>3, <2>4
    DEF Inv, ProcedureInv, FramesInv, MtuInv, TimedInv, OwnTimed, InProcedure
<1> QED
  BY <1>4, <1>5, <1>6, <1>7, <1>8

LEMMA TimedKeeps ==
  ASSUME Inv, TimeOfDeath \/ OtherTimedWrite \/ OtherExecuteWrite
  PROVE  Inv'
<1>1. UNCHANGED <<conn, ctl, proc>> /\ timed \in Timed
  BY DEF TimeOfDeath, OtherTimedWrite, OtherExecuteWrite, Inv, TypeOK
<1>2. /\ timed' \in Timed
      /\ \/ ~timed'.alone
         \/ /\ timed'.alone = timed.alone
            /\ timed'.request = timed.request /\ timed'.chr = timed.chr
  <2>1. CASE TimeOfDeath
    BY <1>1, <2>1 DEF TimeOfDeath, Timed
  <2>2. CASE OtherTimedWrite
    BY <2>2 DEF OtherTimedWrite, Timed
  <2>3. CASE OtherExecuteWrite
    BY <1>1, <2>3 DEF OtherExecuteWrite, Timed
  <2> QED
    BY <2>1, <2>2, <2>3
<1>3. \A c : OwnTimed(c) => OwnTimed(c)'
  BY <1>2 DEF OwnTimed
<1>4. TypeOK' /\ ProcedureInv' /\ FramesInv' /\ MtuInv'
  BY <1>1, <1>2 DEF Inv, TypeOK, ProcedureInv, FramesInv, MtuInv, InProcedure, First
<1>5. TimedInv'
  BY <1>1, <1>3 DEF Inv, TimedInv, InProcedure, OwnTimed
<1> QED
  BY <1>4, <1>5 DEF Inv

-----------------------------------------------------------------------------

LEMMA InitInv == Init => Inv
<1> SUFFICES ASSUME Init PROVE Inv
  OBVIOUS
<1>1. TypeOK
  BY NewType DEF Init, TypeOK
<1> QED
  BY <1>1, NewType
  DEF Init, Away, Inv, ProcedureInv, FramesInv, MtuInv, TimedInv, InProcedure

LEMMA NextInv == Inv /\ [Next]_vars => Inv'
<1> SUFFICES ASSUME Inv, [Next]_vars PROVE Inv'
  OBVIOUS
<1>1. CASE UNCHANGED vars
  BY <1>1 DEF vars, Inv, TypeOK, ProcedureInv, FramesInv, MtuInv, TimedInv, OwnTimed,
              InProcedure, First
<1>2. CASE Next
  BY <1>2, WriteFirstKeeps, WriteNextKeeps, ReadKeeps, ReadBreaksKeeps, ConnectionKeeps, TimedKeeps
  DEF Next
<1> QED
  BY <1>1, <1>2

LEMMA InvHolds == Spec => []Inv
<1>1. Init => Inv
  BY InitInv
<1>2. Inv /\ [Next]_vars => Inv'
  BY NextInv
<1> QED
  BY <1>1, <1>2, PTL DEF Spec

(***************************************************************************)
(* Connection, transactions and procedure keep their types; in particular  *)
(* no count of bytes becomes negative, with any MTU.                       *)
(***************************************************************************)
THEOREM TypeCorrect == Spec => []TypeOK
<1>1. Inv => TypeOK
  BY DEF Inv
<1> QED
  BY <1>1, InvHolds, PTL

(***************************************************************************)
(* Whatever was abandoned before, the accessory works on the transaction   *)
(* the controller means, and both are at the same byte of it.              *)
(***************************************************************************)
THEOREM ProcedureCorrect == Spec => []ProcedureAgrees
<1>1. ASSUME Inv PROVE ProcedureAgrees
  <2>1. SUFFICES ASSUME InProcedure PROVE ProcedureAgrees
    BY DEF ProcedureAgrees, InProcedure
  <2>2. /\ conn.transactions \in Seq(Transaction) /\ conn.transactions # <<>>
        /\ First.chr = proc.chr
    BY <1>1, <2>1 DEF Inv, TypeOK, Connection, ProcedureInv
  <2>3. Newest(proc.chr) = 1 /\ 1 \in DOMAIN conn.transactions
    BY <2>2, NewestIsFirst
  <2> QED
    BY <1>1, <2>1, <2>2, <2>3 DEF Inv, ProcedureInv, ProcedureAgrees, First
<1> QED
  BY <1>1, InvHolds, PTL

(***************************************************************************)
(* The frame counters of both ends and the state of encryption fit, for    *)
(* procedures of any length and any modulus of the counters but one.       *)
(***************************************************************************)
THEOREM FramesCorrect == Spec => []FramesInStep
<1>1. Inv => FramesInStep
  BY DEF Inv, FramesInv, FramesInStep
<1> QED
  BY <1>1, InvHolds, PTL

(***************************************************************************)
(* Responses in the clear fit into the ATT packet for every MTU of 23 to   *)
(* 256: the remainder of 8 bits is then the room itself.                   *)
(***************************************************************************)
THEOREM ResponseCorrect == Spec => []PlainResponseFits
<1>1. ASSUME Inv PROVE PlainResponseFits
  <2>1. SUFFICES ASSUME ctl.pc = "reading", conn.mtu # NewConnection.mtu, ~Protects(proc.chr)
                 PROVE  Length(conn.transactions[Newest(proc.chr)]) <= ctl.att - ReadHeader
    BY DEF PlainResponseFits
  <2>2. /\ conn.transactions \in Seq(Transaction) /\ conn.transactions # <<>>
        /\ First.chr = proc.chr /\ First.sent <= First.response
    BY <1>1, <2>1 DEF Inv, TypeOK, Connection, ProcedureInv, InProcedure
  <2>3. Newest(proc.chr) = 1 /\ First \in Transaction
    BY <2>2, NewestIsFirst DEF First
  <2>4. conn.mtu = ctl.att /\ conn.mtu \in 23..256
    BY <1>1, <2>1, NewType, ConstantsAssumption DEF Inv, MtuInv
  <2>5. Room = conn.mtu - 7
    BY <2>4 DEF Room
  <2>6. First.sent \in Nat /\ First.response \in Nat
    BY <2>3 DEF Transaction
  <2>7. Part(First) \in Int /\ Part(First) <= conn.mtu - 7
    BY <2>4, <2>5, <2>6 DEF Part, Smaller
  <2>8. Tag(Protects(First.chr)) = 0
    BY <2>1, <2>2 DEF Tag
  <2>9. Length(First) <= conn.mtu - 2
    <3> DEFINE header == IF First.sent > 0 THEN 2 ELSE IF First.response > 0 THEN 5 ELSE 3
    <3>1. Length(First) = Part(First) + 0 + header
      BY <2>8 DEF Length
    <3>2. header \in Int /\ header <= 5
      BY <2>6
    <3> HIDE DEF header
    <3> QED
      BY <2>4, <2>7, <3>1, <3>2
  <2>10. Length(conn.transactions[Newest(proc.chr)]) = Length(First)
    BY <2>3 DEF First
  <2>11. Length(First) \in Int
    BY <2>6, <2>7, <2>8 DEF Length
  <2> QED
    BY <2>4, <2>9, <2>10, <2>11 DEF ReadHeader
<1> QED
  BY <1>1, InvHolds, PTL

(***************************************************************************)
(* A controller executes its own timed write, or none, as long as no other *)
(* connection used the globals since.                                      *)
(***************************************************************************)
THEOREM TimedWriteCorrect == Spec => []TimedWriteIsOwn
<1>1. Inv => TimedWriteIsOwn
  BY DEF Inv, TimedInv, OwnTimed, TimedWriteIsOwn
<1> QED
  BY <1>1, InvHolds, PTL

=============================================================================
