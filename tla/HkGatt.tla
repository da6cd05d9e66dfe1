------------------------------- MODULE HkGatt -------------------------------
(***************************************************************************)
(* HAP procedures over BLE: a controller writes a request to a             *)
(* characteristic in fragments, then reads the response in fragments       *)
(* (hk_gatt.c, hk_connection.c, hk_connection_security.c and operations/). *)
(* The NimBLE task runs one access callback or GAP event at a time, so a   *)
(* callback is one step, together with the ATT exchange it serves.         *)
(*                                                                         *)
(* One connection and its controller are modelled in full.  The accessory  *)
(* does not advertise while it has a connection, so there is seldom        *)
(* another; all that connections share is the request of a timed write,    *)
(* and what another one does to it is a step of its own (OtherTimedWrite,  *)
(* OtherExecuteWrite).                                                     *)
(*                                                                         *)
(* The controller follows the protocol: one procedure at a time, which it  *)
(* may abandon, well-formed requests, one execute write per timed write,   *)
(* one successful pair verify per connection.  Bytes are counted, their    *)
(* contents are left out; so are frames beyond the 65536th.                *)
(***************************************************************************)
EXTENDS Integers, Sequences

CONSTANTS
  Chrs,             \* characteristics
  PairVerify,       \* the one of pair verify
  Ids,              \* transaction ids that a controller uses
  Mtus,             \* ATT MTUs that an exchange can result in
  RequestSizes,     \* lengths of the body of a request
  ResponseSizes,    \* lengths of the body of a response
  MaxTransactions,  \* bound on the transactions of a connection
  Frames,           \* frame counters are kept modulo this number
  Null              \* no characteristic

ASSUME ConstantsAssumption ==
  /\ PairVerify \in Chrs
  /\ Null \notin Chrs
  /\ Mtus \subseteq 23..256
  /\ Ids = 1..MaxTransactions
  /\ RequestSizes \subseteq Nat
  /\ ResponseSizes \subseteq Nat \ {0}
  /\ MaxTransactions \in Nat
  /\ Frames \in Nat \ {0, 1}

VARIABLES
  conn,   \* hk_connection_t of the connection
  ctl,    \* the controller's end of it
  proc,   \* the procedure the controller is in
  timed   \* the globals of hk_chr_timed_write.c

vars == <<conn, ctl, proc, timed>>

-----------------------------------------------------------------------------
(* Data.                                                                   *)

DefaultMtu == 23     \* of ATT, before an exchange
WriteHeader == 3     \* ATT header of a write
ReadHeader == 1      \* ATT header of a read response
AuthTag == 16

Smaller(m, n) == IF m < n THEN m ELSE n

(***************************************************************************)
(* plain: an opcode whose handler only makes a response (1, 2, 3, 6 to 8); *)
(* start and finish: writes of a pair verify message that leaves the       *)
(* session open, or ends it (M3, or a resume).                             *)
(***************************************************************************)
Ops == {"plain", "timed", "execute", "start", "finish"}

\* got and expected count the request, sent is response_sent; verified: it says so.
Transaction ==
  [id : Ids, op : Ops, chr : Chrs, got : Nat, expected : Nat,
   response : Nat, sent : Nat, verified : BOOLEAN]

NewTransaction(id, op, chr, got, expected) ==
  [id |-> id, op |-> op, chr |-> chr, got |-> got, expected |-> expected,
   response |-> 0, sent |-> 0, verified |-> FALSE]

\* hk_connection_init; mtu_size is (uint8_t)256.
NewConnection ==
  [mtu |-> 256 % 256, secure |-> FALSE, received |-> 0, sent |-> 0, transactions |-> <<>>]

Connection ==
  [mtu : Nat, secure : BOOLEAN, received : 0..(Frames - 1), sent : 0..(Frames - 1),
   transactions : Seq(Transaction)]

(***************************************************************************)
(* att is the MTU, up says that the controller encrypts, armed is the      *)
(* characteristic of a timed write that waits for its execution.           *)
(***************************************************************************)
Away ==
  [pc |-> "away", att |-> DefaultMtu, up |-> FALSE, sent |-> 0, received |-> 0, armed |-> Null]

Controller ==
  [pc : {"away", "idle", "writing", "reading", "broken"}, att : {DefaultMtu} \cup Mtus,
   up : BOOLEAN, sent : 0..(Frames - 1), received : 0..(Frames - 1), armed : Chrs \cup {Null}]

\* put and got count what was written of the request, body bytes, and read.
NoProcedure == [chr |-> Null, op |-> "plain", id |-> 0, body |-> 0, put |-> 0, got |-> 0]

Procedure ==
  [chr : Chrs \cup {Null}, op : Ops, id : Ids \cup {0}, body : Nat, put : Nat, got : Nat]

(***************************************************************************)
(* request says whose timed write is stored, or that its memory was freed, *)
(* chr is its characteristic, dead says that time_of_death has passed.     *)
(* alone is a history variable: no other connection used the globals since *)
(* the controller's last timed write.                                      *)
(***************************************************************************)
NoTimed == [request |-> "none", chr |-> Null, dead |-> TRUE, alone |-> FALSE]

Timed == [request : {"none", "own", "other", "freed"}, chr : Chrs \cup {Null},
          dead : BOOLEAN, alone : BOOLEAN]

TypeOK ==
  /\ conn \in Connection
  /\ ctl \in Controller
  /\ proc \in Procedure
  /\ timed \in Timed

Init ==
  /\ conn = NewConnection
  /\ ctl = Away
  /\ proc = NoProcedure
  /\ timed = NoTimed

-----------------------------------------------------------------------------
(* Connections.                                                            *)

Connect ==
  /\ ctl.pc = "away"
  /\ conn' = NewConnection
  /\ ctl' = [Away EXCEPT !.pc = "idle"]
  /\ UNCHANGED <<proc, timed>>

ExchangeMtu ==
  /\ ctl.pc = "idle"
  /\ ctl.att = DefaultMtu
  /\ \E m \in Mtus :
       /\ conn' = [conn EXCEPT !.mtu = m]
       /\ ctl' = [ctl EXCEPT !.att = m]
  /\ UNCHANGED <<proc, timed>>

\* hk_connection_free; of either side, or asked for by hk_gap_terminate_connection.
Disconnect ==
  /\ ctl.pc # "away"
  /\ conn' = NewConnection
  /\ ctl' = Away
  /\ proc' = NoProcedure
  /\ UNCHANGED timed

-----------------------------------------------------------------------------
(* Frames.                                                                 *)

\* Mutant of Protects: pair verify is no exception.
ProtectsAll(c) == conn.secure

\* The accessory decrypts and encrypts what concerns characteristic c.
Protects(c) == conn.secure /\ c # PairVerify

\* So does the controller.
Encrypts(c) == ctl.up /\ c # PairVerify

Tag(encrypted) == IF encrypted THEN AuthTag ELSE 0

Counted(n, encrypted) == IF encrypted THEN (n + 1) % Frames ELSE n

-----------------------------------------------------------------------------
(* Writes: hk_gatt_write_ble_chr.                                          *)

\* Mutant of Newest: the oldest transaction of the characteristic.
Oldest(c) ==
  CHOOSE i \in DOMAIN conn.transactions :
    /\ conn.transactions[i].chr = c
    /\ \A j \in DOMAIN conn.transactions : conn.transactions[j].chr = c => j <= i

\* hk_connection_transaction_get_by_uuid; new ones are put in front.
Newest(c) ==
  CHOOSE i \in DOMAIN conn.transactions :
    /\ conn.transactions[i].chr = c
    /\ \A j \in 1..(i - 1) : conn.transactions[j].chr # c

\* The callback returns; ts[i] is the transaction it worked on.
WriteReturns(ts, i, size, secure, verified) ==
  conn' = [conn EXCEPT
    !.received = Counted(@, Protects(ts[i].chr)),
    !.secure = secure,
    !.transactions = [ts EXCEPT ![i].response = size, ![i].verified = verified]]

\* The handler made n bytes of response, none if it failed.
Respond(ts, i, n) == WriteReturns(ts, i, n, conn.secure, FALSE)

WaitForFragment(ts, i) ==
  /\ ts[i].got # ts[i].expected
  /\ Respond(ts, i, 0)
  /\ UNCHANGED timed

Complete(ts, i, op) == ts[i].got = ts[i].expected /\ ts[i].op = op

\* Without a response: an error, a removal of a pairing, most writes.
HandlePlain(ts, i) ==
  /\ Complete(ts, i, "plain")
  /\ \E n \in ResponseSizes \cup {0} : Respond(ts, i, n)
  /\ UNCHANGED timed

\* hk_pairing_ble_write_pair_verify: an error is a response like any other.
HandleVerify(ts, i) ==
  /\ \E n \in ResponseSizes :
       \/ Complete(ts, i, "start") /\ WriteReturns(ts, i, n, FALSE, FALSE)
       \/ /\ Complete(ts, i, "finish")
          /\ \E ok \in BOOLEAN : WriteReturns(ts, i, n, ok, ok)
  /\ UNCHANGED timed

\* Mutant of HandleTimedWrite: a request that waits for its execution is kept.
HandleTimedWriteKeepsFirst(ts, i) ==
  /\ Complete(ts, i, "timed")
  /\ timed' = [request |-> "own", dead |-> FALSE, alone |-> TRUE,
               chr |-> IF timed.dead THEN ts[i].chr ELSE timed.chr]
  /\ Respond(ts, i, 0)

\* A request that was stored before is not freed.
HandleTimedWrite(ts, i) ==
  /\ Complete(ts, i, "timed")
  /\ timed' = [request |-> "own", chr |-> ts[i].chr, dead |-> FALSE, alone |-> TRUE]
  /\ Respond(ts, i, 0)

\* The memory is freed in any case; the pointer and the time of death stay.
Release ==
  timed' = [timed EXCEPT !.request = IF @ = "none" THEN @ ELSE "freed", !.chr = Null]

\* Too late, or the callback got the stored request and succeeds or fails.
HandleExecuteWrite(ts, i) ==
  /\ Complete(ts, i, "execute")
  /\ \E n \in ResponseSizes \cup {0} :
       /\ timed.dead => n = 0
       /\ Respond(ts, i, n)
  /\ Release

Restart ==
  conn' = NewConnection /\ ctl' = Away /\ proc' = NoProcedure /\ timed' = NoTimed

HandleWrite(ts, i) ==
  \/ WaitForFragment(ts, i)
  \/ HandlePlain(ts, i)
  \/ HandleVerify(ts, i)
  \/ HandleTimedWrite(ts, i)
  \/ HandleExecuteWrite(ts, i)

\* The bytes of a request body that the next fragment has room for.
Fragment(header, c, rest) ==
  Smaller(rest, ctl.att - WriteHeader - header - Tag(Encrypts(c)))

\* Only an execute write and some of the plain requests have no body.
MayStart(c, op, n) ==
  /\ op \in {"start", "finish"} <=> c = PairVerify
  /\ op \in {"start", "finish"} => ~ctl.up
  /\ op = "execute" => ctl.armed = c /\ n = 0
  /\ op \in {"timed", "start", "finish"} => n > 0

\* The controller has written all of procedure p, or goes on.
Wrote(p) ==
  /\ proc' = p
  /\ ctl' = [ctl EXCEPT
       !.pc = IF p.put = p.body THEN "reading" ELSE "writing",
       !.sent = Counted(@, Encrypts(p.chr)),
       !.armed = IF p.op \in {"timed", "execute"} THEN Null ELSE @]

\* The controller takes an id that no transaction it abandoned has.
FreshId == CHOOSE id \in Ids : \A i \in DOMAIN conn.transactions : conn.transactions[i].id # id

\* The control field of a first fragment is zero.
WriteFirst(c, op, n) ==
  /\ ctl.pc = "idle"
  /\ MayStart(c, op, n)
  /\ Len(conn.transactions) < MaxTransactions
  /\ LET k == Fragment(7, c, n)
     IN  /\ k >= 0 /\ (n > 0 => k > 0)
         /\ HandleWrite(<<NewTransaction(FreshId, op, c, k, n)>> \o conn.transactions, 1)
         /\ Wrote([chr |-> c, op |-> op, id |-> FreshId, body |-> n, put |-> k, got |-> 0])

WriteNext ==
  /\ ctl.pc = "writing"
  /\ LET k == Fragment(2, proc.chr, proc.body - proc.put)
         i == Newest(proc.chr)
     IN  /\ HandleWrite([conn.transactions EXCEPT ![i].got = @ + k], i)
         /\ Wrote([proc EXCEPT !.put = @ + k])

\* An execute write of freed memory corrupts the heap, and may end in a panic.
ExecutePanics ==
  /\ ctl.pc = "idle"
  /\ ctl.armed # Null
  /\ timed.request = "freed"
  /\ Restart

-----------------------------------------------------------------------------
(* Reads: hk_gatt_read_ble_chr.                                            *)

\* Mutant of Room: the header of the response is forgotten.
RoomWithoutHeader == (conn.mtu - 1) % 256

\* Mutant of Room: it is signed.
RoomSigned == conn.mtu - 7

\* max_response_size has 8 bits; before an MTU exchange it is 249.
Room == (conn.mtu - 7) % 256

\* Mutant of Part: the limit is taken for that of the whole response.
PartOfWhole(t) == Smaller(t.response, Room) - t.sent

\* Bytes of the body in the next fragment, and with header and tag.
Part(t) == Smaller(t.response - t.sent, Room)

Length(t) ==
  Part(t) + Tag(Protects(t.chr))
    + (IF t.sent > 0 THEN 2 ELSE IF t.response > 0 THEN 5 ELSE 3)

\* A transaction whose response was sent to its end is freed.
Advance(i) ==
  LET t == conn.transactions[i]
  IN  IF t.sent + Part(t) = t.response
      THEN SubSeq(conn.transactions, 1, i - 1)
             \o SubSeq(conn.transactions, i + 1, Len(conn.transactions))
      ELSE [conn.transactions EXCEPT ![i].sent = @ + Part(t)]

Send(i) ==
  conn' = [conn EXCEPT !.sent = Counted(@, Protects(proc.chr)), !.transactions = Advance(i)]

\* The first fragment tells the controller the length of the response.
Read ==
  /\ ctl.pc = "reading"
  /\ LET i == Newest(proc.chr)
         t == conn.transactions[i]
         done == proc.got + Part(t) = t.response
     IN  /\ Length(t) <= ctl.att - ReadHeader
         /\ Send(i)
         /\ proc' = IF done THEN NoProcedure ELSE [proc EXCEPT !.got = @ + Part(t)]
         /\ ctl' = [ctl EXCEPT
              !.pc = IF done THEN "idle" ELSE "reading",
              !.received = Counted(@, Encrypts(proc.chr)),
              !.up = @ \/ (done /\ t.verified),
              !.armed = IF done /\ t.op = "timed" THEN proc.chr ELSE @]
  /\ UNCHANGED timed

ReadBreaks ==
  /\ Send(Newest(proc.chr))
  /\ ctl' = [ctl EXCEPT !.pc = "broken"]
  /\ proc' = NoProcedure
  /\ UNCHANGED timed

\* ATT cuts off what does not fit.
ReadIsCut ==
  /\ ctl.pc = "reading"
  /\ Length(conn.transactions[Newest(proc.chr)]) > ctl.att - ReadHeader
  /\ ReadBreaks

\* os_mbuf_append fails.
ReadFails ==
  /\ ctl.pc = "reading"
  /\ Length(conn.transactions[Newest(proc.chr)]) <= ctl.att - ReadHeader
  /\ ReadBreaks

\* The controller gives a procedure up; after pair verify it disconnects.
Abandon ==
  /\ ctl.pc \in {"writing", "reading"}
  /\ proc.chr # PairVerify
  /\ ctl' = [ctl EXCEPT !.pc = "idle"]
  /\ proc' = NoProcedure
  /\ UNCHANGED <<conn, timed>>

-----------------------------------------------------------------------------
(* Time, and the other connections.                                        *)

TimeOfDeath ==
  /\ ~timed.dead
  /\ timed' = [timed EXCEPT !.dead = TRUE]
  /\ UNCHANGED <<conn, ctl, proc>>

OtherTimedWrite ==
  /\ timed' = [request |-> "other", chr |-> Null, dead |-> FALSE, alone |-> FALSE]
  /\ UNCHANGED <<conn, ctl, proc>>

OtherExecuteWrite ==
  /\ timed.request # "none"
  /\ timed' = [timed EXCEPT !.request = "freed", !.chr = Null, !.alone = FALSE]
  /\ UNCHANGED <<conn, ctl, proc>>

-----------------------------------------------------------------------------

Continue == WriteNext \/ Read \/ ReadIsCut \/ (ctl.pc = "broken" /\ Disconnect)

Next ==
  \/ Connect
  \/ ExchangeMtu
  \/ Disconnect
  \/ \E c \in Chrs, op \in Ops, n \in RequestSizes : WriteFirst(c, op, n)
  \/ WriteNext
  \/ ExecutePanics
  \/ Read
  \/ ReadIsCut
  \/ ReadFails
  \/ Abandon
  \/ TimeOfDeath
  \/ OtherTimedWrite
  \/ OtherExecuteWrite

Spec == Init /\ [][Next]_vars

(***************************************************************************)
(* The NimBLE task answers every ATT request; that the controller goes on  *)
(* with a procedure, or ends the connection, is an assumption about it.    *)
(***************************************************************************)
FairSpec == Spec /\ WF_vars(Continue)

-----------------------------------------------------------------------------
(* Properties.                                                             *)

(***************************************************************************)
(* Both ends agree on the procedure: what the controller writes or reads   *)
(* next concerns the newest transaction of the characteristic, that one is *)
(* its own, has all it wrote and nothing else, and was sent up to where it *)
(* read.  So no response is lost, repeated or exchanged, whatever          *)
(* transactions were abandoned before.                                     *)
(***************************************************************************)
ProcedureAgrees ==
  ctl.pc \in {"writing", "reading"} =>
    /\ \E i \in DOMAIN conn.transactions : conn.transactions[i].chr = proc.chr
    /\ LET t == conn.transactions[Newest(proc.chr)]
       IN  /\ t.id = proc.id /\ t.op = proc.op
           /\ t.expected = proc.body /\ t.got = proc.put
           /\ t.sent = proc.got
           /\ ctl.pc = "reading" => t.got = t.expected

(***************************************************************************)
(* Frame counters and is_secure of both ends fit each other whenever the   *)
(* controller is about to send or to receive: the switch to encryption in  *)
(* the middle of pair verify, whose response goes out in the clear, is the *)
(* same at both ends.                                                      *)
(***************************************************************************)
FramesInStep ==
  ctl.pc \in {"idle", "writing", "reading"} =>
    /\ conn.received = ctl.sent
    /\ conn.sent = ctl.received
    /\ ctl.up => conn.secure
    /\ conn.secure /\ ~ctl.up => proc.op = "finish" /\ ctl.pc = "reading"

(***************************************************************************)
(* After an MTU exchange a response that is not encrypted fits into the    *)
(* ATT packet, whatever the MTU: the 8 bits of max_response_size suffice,  *)
(* and 7 bytes are enough for the headers.                                 *)
(***************************************************************************)
PlainResponseFits ==
  ctl.pc = "reading" /\ conn.mtu # NewConnection.mtu /\ ~Protects(proc.chr) =>
    Length(conn.transactions[Newest(proc.chr)]) <= ctl.att - ReadHeader

(***************************************************************************)
(* A timed write that the controller may execute is the one it made: the   *)
(* request is stored, for its characteristic, unless another connection    *)
(* used the globals since, however many procedures were abandoned.         *)
(***************************************************************************)
TimedWriteIsOwn ==
  ctl.armed # Null /\ timed.alone => timed.request = "own" /\ timed.chr = ctl.armed

(***************************************************************************)
(* Every procedure comes to its end: the response is read to its last      *)
(* byte, it is abandoned, or the connection ends.  A fragment without a    *)
(* byte of the body would be read forever.                                 *)
(***************************************************************************)
ProcedureEnds ==
  ctl.pc \in {"writing", "reading", "broken"} ~> ctl.pc \in {"idle", "away"}

=============================================================================
