----------------------------- MODULE HkIpSession -----------------------------
(***************************************************************************)
(* One connection of the IP stack, from the bytes of a request to those of *)
(* its response: how httpd reads through hk_server_transport_recv, plain   *)
(* or decrypted frame by frame, how a handler gets its content, pair setup *)
(* with its SRP key, the frames of responses and of events in between      *)
(* (hk_server_transport.c, hk_server_handlers.c, hk_server.c,              *)
(* hk_pair_setup.c, hk_srp.c).                                             *)
(*                                                                         *)
(* Everything here runs in the httpd task, except that the application     *)
(* queues events.  Between two calls of recv, more may have arrived, or    *)
(* not yet: what is late costs a fault.  The controller is correct: one    *)
(* request at a time, setup messages in their order, frames in order.      *)
(* A failing handler sends nothing and its connection is closed.           *)
(***************************************************************************)
EXTENDS HkTlv

CONSTANTS
  RecvSize,    \* HK_MAX_RECV_SIZE, and the largest frame of a controller
  Overhead,    \* HK_AAD_SIZE + HK_AUTHTAG_SIZE
  HeaderSize,  \* bytes of an HTTP header
  Block,       \* bytes that httpd's parser reads at a time
  Contents,    \* sizes of the content of requests and responses
  KeySizes,    \* sizes of public keys
  SrpIds,      \* SRP keys
  Frames,      \* 65536: a nonce has 16 bits of the frame counter
  MaxEvents,   \* bound: events that are queued or not yet received
  MaxFaults    \* bound: late bytes and failed sends

ASSUME SessionAssumption ==
  /\ {RecvSize, Overhead, HeaderSize, Block, Frames} \subseteq Nat \ {0}
  /\ RecvSize > Overhead
  /\ Contents \subseteq Nat /\ KeySizes \subseteq Nat \ {0}
  /\ SrpIds \subseteq Nat \ {0}
  /\ MaxEvents \in Nat /\ MaxFaults \in Nat

VARIABLES
  acc,         \* the transport context of the connection
  keys,        \* the pair setup fields of hk_conn_key_store_t
  req,         \* the request that httpd works on
  up,          \* frames to the accessory; a plain request is one
  down,        \* frames and plain responses to the controller
  ctl,         \* the controller
  work,        \* queued events
  subscribed,  \* a subscription for the socket's number
  paired,      \* the controller and the accessory are paired
  skipped,     \* history: a frame number was used for an event not sent
  faults

vars == <<acc, keys, req, up, down, ctl, work, subscribed, paired, skipped, faults>>

-----------------------------------------------------------------------------
(* Data.                                                                   *)

\* hk_server_transport_context_t; buffer: bytes received and not submitted.
Context ==
  [open : BOOLEAN, secure : BOOLEAN, sent : 0..(Frames - 1), received : 0..(Frames - 1),
   buffer : 0..RecvSize]

NewContext(open) == [open |-> open, secure |-> FALSE, sent |-> 0, received |-> 0, buffer |-> 0]

\* 0: not set, or freed; computed: hk_srp_compute_key has made the secret.
NewKeys == [pub |-> 0, srp |-> 0, computed |-> FALSE]

Kinds == {"M1", "M3", "M5", "verify", "put", "get"}

\* n: bytes of a value; srp: the SRP key a proof was made with.
NoRequest == [kind |-> "none", n |-> 0, srp |-> 0, content |-> <<>>]

\* got: bytes that httpd took.  late: it got less than there was.
Idle == [pc |-> "idle", got |-> 0, late |-> FALSE]

\* sent and received are the true numbers of frames, as far as below Frames.
NewController ==
  [request |-> NoRequest, step |-> 0, srp |-> 0, secure |-> FALSE, sent |-> 0, received |-> 0]

State == 6
PublicKey == 3
Proof == 4
Salt == 2
EncryptedData == 5

\* A public key of an SRP key; one of the controller has id 0.
Public(id, n) == [i \in 1..n |-> 10 * id + i]

Request(kind, n, srp) ==
  [kind |-> kind, n |-> n, srp |-> srp,
   content |->
     CASE kind = "M1" -> Serialize(Add(<<>>, State, <<1>>))
       [] kind = "M3" -> Serialize(Add(Add(Add(<<>>, State, <<3>>),
                           PublicKey, Public(0, n)), Proof, <<srp>>))
       [] kind = "M5" -> Serialize(Add(Add(<<>>, State, <<5>>), EncryptedData, Public(srp, n)))
       [] OTHER -> [i \in 1..n |-> i]]

Size(r) == HeaderSize + Len(r.content)

Least(a, b) == IF a < b THEN a ELSE b

TypeOK ==
  /\ acc \in Context
  /\ keys \in [pub : SrpIds \cup {0}, srp : SrpIds \cup {0}, computed : BOOLEAN]
  /\ req \in [pc : {"idle", "header", "body", "handle"}, got : Nat, late : BOOLEAN]
  /\ up \in Seq([number : 0..Frames, size : Nat])
  /\ \A i \in DOMAIN down :
       /\ DOMAIN down[i] = {"secure", "number", "what", "content"}
       /\ down[i].number \in 0..(Frames - 1)
       /\ down[i].what \in {"part", "end", "event"}
  /\ ctl.request.kind \in Kinds \cup {"none"}
  /\ [ctl EXCEPT !.request = NoRequest] \in [request : {NoRequest}, step : {0, 2, 4}, srp : SrpIds \cup {0},
              secure : BOOLEAN, sent : 0..Frames, received : 0..Frames]
  /\ work \in 0..MaxEvents
  /\ {subscribed, paired, skipped} \subseteq BOOLEAN
  /\ faults \in 0..MaxFaults

Init ==
  /\ acc = NewContext(FALSE)
  /\ keys = NewKeys
  /\ req = Idle
  /\ up = <<>>
  /\ down = <<>>
  /\ ctl = NewController
  /\ work = 0
  /\ subscribed = FALSE
  /\ paired = FALSE
  /\ skipped = FALSE
  /\ faults = 0

-----------------------------------------------------------------------------
(* Connections.                                                            *)

Fault == faults < MaxFaults /\ faults' = faults + 1

\* The context of the connection is freed, its number may be used again.
Ends ==
  /\ acc' = NewContext(FALSE)
  /\ keys' = NewKeys
  /\ req' = Idle
  /\ up' = <<>>
  /\ down' = <<>>
  /\ ctl' = NewController
  /\ skipped' = FALSE

Open ==
  /\ ~acc.open
  /\ acc' = NewContext(TRUE)
  /\ UNCHANGED <<keys, req, up, down, ctl, work, subscribed, paired, skipped, faults>>

\* The controller leaves, or the connection is lost.
Leave ==
  /\ acc.open
  /\ Ends
  /\ UNCHANGED <<work, subscribed, paired, faults>>

-----------------------------------------------------------------------------
(* The controller's requests.                                              *)

\* A request in one frame or two; a frame has at most RecvSize bytes.
Cut(size) ==
  {s \in {<<size>>} \cup {<<k, size - k>> : k \in 1..(size - 1)} :
     \A i \in DOMAIN s : s[i] <= RecvSize}

Ask(r) ==
  /\ acc.open
  /\ ctl.request = NoRequest
  /\ \E s \in IF ctl.secure THEN Cut(Size(r)) ELSE {<<Size(r)>>} :
       /\ up' = [i \in DOMAIN s |-> [number |-> Least(ctl.sent + i - 1, Frames), size |-> s[i]]]
       /\ ctl' = [ctl EXCEPT
            !.request = r, !.sent = IF ctl.secure THEN Least(@ + Len(s), Frames) ELSE @]
  /\ UNCHANGED <<acc, keys, req, down, work, subscribed, paired, skipped, faults>>

\* A user may start pair setup again, and may mistype the code (proof 0).
AskSetup ==
  /\ ~ctl.secure
  /\ ~paired
  /\ \E n \in KeySizes :
       \/ Ask(Request("M1", 0, 0))
       \/ ctl.step = 2 /\ \E srp \in {0, ctl.srp} : Ask(Request("M3", n, srp))
       \/ ctl.step = 4 /\ Ask(Request("M5", n, ctl.srp))

AskVerify == ~ctl.secure /\ paired /\ Ask(Request("verify", 1, 0))

AskSecure ==
  /\ ctl.secure
  /\ \/ \E n \in Contents \ {0} : Ask(Request("put", n, 0))
     \/ Ask(Request("get", 0, 0))

-----------------------------------------------------------------------------
(* Reading: hk_server_transport_recv and hk_server_transport_decrypt.      *)

Data(frames) ==
  LET first[i \in 0..Len(frames)] == IF i = 0 THEN 0 ELSE first[i - 1] + frames[i].size
  IN  first[Len(frames)]

Wire(frames) == Data(frames) + Len(frames) * Overhead

\* What a read of at most limit bytes may return: n bytes, -1 for an error.
RecvPlain(limit) ==
  LET most == Least(limit, Data(up))
      Rest(n) == IF n = Data(up) THEN <<>> ELSE <<[up[1] EXCEPT !.size = @ - n]>>
  IN  {[n |-> n, up |-> Rest(n), acc |-> acc, late |-> n < most] : n \in 1..most}

RecvBuffer(limit) ==
  LET n == Least(limit, acc.buffer)
  IN  [n |-> n, up |-> up, acc |-> [acc EXCEPT !.buffer = @ - n], late |-> FALSE]

\* recv returned size bytes: these must be whole frames.
Decrypt(size, limit) ==
  LET late == size < Least(RecvSize, Wire(up))
      taken == {k \in 1..Len(up) :
                  /\ Wire(SubSeq(up, 1, k)) = size
                  /\ \A i \in 1..k : up[i].number = (acc.received + i - 1) % Frames}
      Taken(k) ==
        LET data == Data(SubSeq(up, 1, k))
            n == Least(limit, data)
        IN  [n |-> n, up |-> SubSeq(up, k + 1, Len(up)), late |-> late,
             acc |-> [acc EXCEPT !.received = (@ + k) % Frames, !.buffer = data - n]]
  IN  IF taken = {} THEN {[n |-> -1, up |-> up, acc |-> acc, late |-> late]}
      ELSE {Taken(k) : k \in taken}

Recv(limit) ==
  CASE ~acc.secure -> RecvPlain(limit)
    [] acc.secure /\ acc.buffer > 0 -> {RecvBuffer(limit)}
    [] OTHER -> UNION {Decrypt(size, limit) : size \in 1..Least(RecvSize, Wire(up))}

\* The header may take several reads; there is one for the content.
NextPc(got) ==
  CASE req.pc = "body" -> "handle"
    [] req.pc # "body" /\ got < HeaderSize -> "header"
    [] OTHER -> "body"

\* After an error httpd closes the connection.
Reads(limit) ==
  \E c \in Recv(limit) :
    /\ IF c.late THEN Fault ELSE UNCHANGED faults
    /\ \/ c.n = -1 /\ Ends
       \/ /\ c.n # -1
          /\ acc' = c.acc
          /\ up' = c.up
          /\ req' = [pc |-> NextPc(req.got + c.n), got |-> req.got + c.n, late |-> req.late \/ c.late]
          /\ UNCHANGED <<keys, down, ctl, skipped>>
    /\ UNCHANGED <<work, subscribed, paired>>

-----------------------------------------------------------------------------
(* httpd and hk_server_handlers_get_request_content.                       *)

\* Blocks of the header; what is read beyond it belongs to the content.
ReadHeader ==
  /\ req.pc \in {"idle", "header"}
  /\ up # <<>> \/ (req.pc = "header" /\ acc.buffer > 0)
  /\ Reads(Block)

Missing == Size(ctl.request) - req.got

\* httpd_req_recv: what it has already, and one read for the rest.
ReadBody ==
  /\ req.pc = "body"
  /\ IF Missing = 0
     THEN /\ req' = [req EXCEPT !.pc = "handle"]
          /\ UNCHANGED <<acc, keys, up, down, ctl, work, subscribed, paired, skipped, faults>>
     ELSE Reads(Missing)

\* The rest is too late; the handler goes on, even after a response 408.
BodyTimeout ==
  /\ req.pc = "body"
  /\ Missing > 0
  /\ acc.buffer = 0
  /\ Fault
  /\ req' = [req EXCEPT !.pc = "handle", !.late = TRUE]
  /\ UNCHANGED <<acc, keys, up, down, ctl, work, subscribed, paired, skipped>>

-----------------------------------------------------------------------------
(* Responses: hk_server_transport_send.                                    *)

Pieces(size) == (size + RecvSize - Overhead - 1) \div (RecvSize - Overhead)

\* Mutant of After: the counter has more bits than a nonce.
AfterUnbounded(number, size) == number + Pieces(size)

\* Mutant of After: a call sends one frame.
AfterOne(number, size) == (number + 1) % Frames

\* sent_frame_count after a call that sends size bytes.
After(number, size) == (number + Pieces(size)) % Frames

Frame(secure, number, what, content) ==
  [secure |-> secure, number |-> number, what |-> what, content |-> content]

Encrypted(number, size, what) ==
  [i \in 1..Pieces(size) |->
     Frame(TRUE, (number + i - 1) % Frames, IF i = Pieces(size) THEN what ELSE "part", <<>>)]

\* httpd_resp_send sends the header, then the content.
Respond(n) ==
  LET number == After(acc.sent, HeaderSize)
  IN  /\ down' = down \o Encrypted(acc.sent, HeaderSize, IF n = 0 THEN "end" ELSE "part")
                   \o Encrypted(number, n, "end")
      /\ acc' = [acc EXCEPT !.sent = IF n = 0 THEN number ELSE After(number, n)]

RespondPlain(content) == down' = Append(down, Frame(FALSE, 0, "end", content))

-----------------------------------------------------------------------------
(* The handlers.                                                           *)

Whole == req.got = Size(ctl.request)

Message == Deserialize(SubSeq(ctl.request.content, 1, req.got - HeaderSize))

Handles(kind) ==
  /\ req.pc = "handle"
  /\ Whole
  /\ ctl.request.kind = kind
  /\ req' = Idle
  /\ UNCHANGED <<up, ctl, work, skipped, faults>>

\* hk_srp_init_key and hk_srp_generate_key: one that nobody has.
GeneratedKeys == SrpIds \ {keys.pub, keys.srp, ctl.srp}

\* hk_pairing_setup_srp_start: an earlier SRP key of the connection is lost.
HandleM1 ==
  /\ Handles("M1")
  /\ Get(Message, State) = <<1>>
  /\ \E id \in GeneratedKeys, n \in KeySizes :
       /\ keys' = [pub |-> id, srp |-> id, computed |-> FALSE]
       /\ RespondPlain(Serialize(Add(Add(Add(<<>>, State, <<2>>),
                         PublicKey, Public(id, n)), Salt, <<id>>)))
  /\ UNCHANGED <<acc, subscribed, paired>>

\* Mutant of AfterM3: the SRP key is freed with its public part.
AfterM3FreesAll == NewKeys

AfterM3 == [keys EXCEPT !.pub = 0, !.computed = TRUE]

\* hk_srp_compute_key and hk_srp_verify.
ProofIsValid == keys.srp # 0 /\ keys.pub = keys.srp /\ Get(Message, Proof) = <<keys.srp>>

\* hk_pairing_setup_srp_verify.
HandleM3 ==
  /\ Handles("M3")
  /\ Get(Message, State) = <<3>>
  /\ ProofIsValid
  /\ keys' = AfterM3
  /\ RespondPlain(Serialize(Add(Add(<<>>, State, <<4>>), Proof, <<keys.srp>>)))
  /\ UNCHANGED <<acc, subscribed, paired>>

\* The secret that M3 computed decrypts the message.
SecretFits ==
  keys.computed /\ Get(Message, EncryptedData) = Public(keys.srp, ctl.request.n)

\* hk_srp_free_key.
AfterM5 == NewKeys

\* hk_pairing_setup_exchange_response; what it stores is in HkPairing.
HandleM5 ==
  /\ Handles("M5")
  /\ Get(Message, State) = <<5>>
  /\ SecretFits
  /\ keys' = AfterM5
  /\ paired' = TRUE
  /\ RespondPlain(Serialize(Add(Add(<<>>, State, <<6>>), EncryptedData, <<keys.srp>>)))
  /\ UNCHANGED <<acc, subscribed>>

\* The last message of pair verify: secure after the response was sent.
HandleVerify ==
  /\ Handles("verify")
  /\ RespondPlain(<<>>)
  /\ acc' = [acc EXCEPT !.secure = TRUE]
  /\ UNCHANGED <<keys, subscribed, paired>>

HandlePut ==
  /\ Handles("put")
  /\ Respond(0)
  /\ subscribed' \in {subscribed, TRUE}
  /\ UNCHANGED <<keys, paired>>

HandleGet ==
  /\ Handles("get")
  /\ \E n \in Contents : Respond(n)
  /\ UNCHANGED <<keys, subscribed, paired>>

\* Mutant of Closes: the connection stays.
ClosesNot == req' = Idle /\ UNCHANGED <<acc, keys, up, down, ctl, skipped>>

Closes == Ends

(***************************************************************************)
(* What is missing of a request is uninitialised memory, which is not      *)
(* right by chance: the handler fails.  A whole one fails for a wrong      *)
(* proof, and when memory, flash or send does.                             *)
(***************************************************************************)
Fails ==
  /\ req.pc = "handle"
  /\ \/ ~Whole /\ UNCHANGED faults
     \/ Whole /\ ctl.request.kind = "M3" /\ ~ProofIsValid /\ UNCHANGED faults
     \/ Whole /\ Fault
  /\ Closes
  /\ UNCHANGED <<work, subscribed, paired>>

Handle ==
  HandleM1 \/ HandleM3 \/ HandleM5 \/ HandleVerify \/ HandlePut \/ HandleGet \/ Fails

-----------------------------------------------------------------------------
(* Events: hk_server_send_async and hk_server_send.                        *)

Notify ==
  /\ subscribed
  /\ work + Cardinality({i \in DOMAIN down : down[i].what = "event"}) < MaxEvents
  /\ work' = work + 1
  /\ UNCHANGED <<acc, keys, req, up, down, ctl, subscribed, paired, skipped, faults>>

\* An event is one frame.
SendEvent ==
  /\ req.pc = "idle"
  /\ work > 0
  /\ acc.open
  /\ work' = work - 1
  /\ acc' = [acc EXCEPT !.sent = (@ + 1) % Frames]
  /\ \/ /\ acc.secure
        /\ down' = Append(down, Frame(TRUE, acc.sent, "event", <<>>))
        /\ UNCHANGED <<skipped, faults>>
     \/ /\ IF acc.secure THEN Fault ELSE UNCHANGED faults
        /\ skipped' = TRUE
        /\ UNCHANGED down
  /\ UNCHANGED <<keys, req, up, ctl, subscribed, paired>>

\* The transport context of a closed connection is NULL: a restart.
SendEventPanics ==
  /\ work > 0
  /\ ~acc.open
  /\ Ends
  /\ work' = 0
  /\ subscribed' = FALSE
  /\ UNCHANGED <<paired, faults>>

-----------------------------------------------------------------------------
(* The controller reads.                                                   *)

\* The SRP key of the M2 it got.
SrpOf(content) ==
  {id \in SrpIds : \E n \in KeySizes : Get(Deserialize(content), PublicKey) = Public(id, n)}

Answered(f) ==
  CASE ctl.request.kind = "M1" ->
         [ctl EXCEPT !.request = NoRequest, !.step = 2,
                     !.srp = IF SrpOf(f.content) = {} THEN 0 ELSE CHOOSE id \in SrpOf(f.content) : TRUE]
    [] ctl.request.kind = "M3" -> [ctl EXCEPT !.request = NoRequest, !.step = 4]
    [] ctl.request.kind = "M5" -> [ctl EXCEPT !.request = NoRequest, !.step = 0, !.srp = 0]
    [] OTHER -> [ctl EXCEPT !.request = NoRequest, !.secure = TRUE]

\* It gives up a connection with a frame that it cannot decrypt.
Receive ==
  /\ down # <<>>
  /\ LET f == Head(down)
         InStep == f.secure /\ ctl.secure /\ f.number = ctl.received
     IN  \/ /\ f.secure => InStep
            /\ down' = Tail(down)
            /\ ctl' = IF ~f.secure THEN Answered(f)
                      ELSE [ctl EXCEPT !.received = @ + 1,
                                       !.request = IF f.what = "end" THEN NoRequest ELSE @]
            /\ UNCHANGED <<acc, keys, req, up, skipped>>
         \/ f.secure /\ ~InStep /\ Ends
  /\ UNCHANGED <<work, subscribed, paired, faults>>

-----------------------------------------------------------------------------

Next ==
  \/ Open \/ Leave
  \/ AskSetup \/ AskVerify \/ AskSecure
  \/ ReadHeader \/ ReadBody \/ BodyTimeout
  \/ Handle
  \/ Notify \/ SendEvent \/ SendEventPanics
  \/ Receive

(***************************************************************************)
(* The httpd task reads what has arrived and never waits inside a handler; *)
(* the controller reads what it is sent.                                   *)
(***************************************************************************)
Fairness ==
  WF_vars(ReadHeader) /\ WF_vars(ReadBody) /\ WF_vars(Handle) /\ WF_vars(Receive)

Spec == Init /\ [][Next]_vars /\ Fairness

-----------------------------------------------------------------------------
(* Properties.                                                             *)

(***************************************************************************)
(* Responses and events in any order, of any number of frames, are         *)
(* numbered so that the controller can decrypt each; and its own frames    *)
(* have the numbers that the accessory will use.  Except after an event    *)
(* that used up a number and was not sent: the connection was not secure   *)
(* yet, or send failed, which hk_server_send only logs.                    *)
(***************************************************************************)
StreamsInStep ==
  ctl.secure /\ ~skipped =>
    /\ \A i \in DOMAIN down : down[i].secure /\ down[i].number = (ctl.received + i - 1) % Frames
    /\ acc.sent = (ctl.received + Len(down)) % Frames
    /\ \A i \in DOMAIN up : up[i].number \in {(acc.received + i - 1) % Frames, Frames}

(***************************************************************************)
(* A handler gets the whole content of a request that arrived in time and  *)
(* that one recv can hold, however httpd's blocks and the controller's     *)
(* frames cut it; and finds in it the values the controller put there.     *)
(***************************************************************************)
RequestIsWhole ==
  LET r == ctl.request
  IN  /\ req.pc = "handle" /\ ~req.late
      /\ (acc.secure => Size(r) + 2 * Overhead <= RecvSize)
      => /\ Whole
         /\ r.kind = "M3" => Get(Message, PublicKey) = Public(0, r.n) /\ Get(Message, Proof) = <<r.srp>>
         /\ r.kind = "M5" => Get(Message, EncryptedData) = Public(r.srp, r.n)

(***************************************************************************)
(* M3 and M5 work with the SRP key of the last M2, as the controller read  *)
(* it, which is neither freed nor unset; M3 with its public part, M5 with  *)
(* the secret that M3 computed; whether pair setup was started again, the  *)
(* code was mistyped or a connection was lost before.                      *)
(***************************************************************************)
SetupUsesLiveKeys ==
  req.pc = "handle" /\ ctl.request.kind \in {"M3", "M5"} =>
    /\ keys.srp # 0
    /\ keys.srp = ctl.srp
    /\ IF ctl.request.kind = "M3" THEN keys.pub = keys.srp ELSE keys.computed

(***************************************************************************)
(* A request is answered, or its connection ends: no order of reads,       *)
(* events and failures leaves the controller waiting.                      *)
(***************************************************************************)
RequestIsAnswered == ctl.request # NoRequest ~> ctl.request = NoRequest

=============================================================================
