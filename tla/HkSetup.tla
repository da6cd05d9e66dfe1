------------------------------ MODULE HkSetup ------------------------------
(***************************************************************************)
(* The setup of an accessory by the functions of hk.h and hk_fascade.h, as *)
(* both stacks implement it: the IP stack as linked lists that are turned  *)
(* round and numbered at the end (hk_accessories_store.c) and serialised   *)
(* (hk_accessories_serializer.c), the BLE stack as arrays that grow by one *)
(* zeroed element, which is the end marker for NimBLE (hk_gatt.c).         *)
(*                                                                         *)
(* A program is built for one stack.  It sets up from one task and starts  *)
(* the stack when it has finished, so a call is one step.  It adds         *)
(* services to an accessory and characteristics to its own services, and   *)
(* finishes once.  Types are the numbers of hk_srvs.h and hk_chrs.h; of    *)
(* the tables by type, the entries that occur here are modelled.           *)
(***************************************************************************)
EXTENDS Integers, SequencesExt

CONSTANTS
  Stacks,         \* the stacks a program may be built for
  SrvTypes,       \* services that an application adds call by call
  ChrKinds,       \* characteristics that it adds to them
  Facades,        \* the facade functions it may call instead
  Served,         \* the setups that are started
  CharRange,      \* number of values of a char, 256 in the code
  MaxAccessories, \* bounds on the calls of one setup
  MaxSrvs,
  MaxChrs,
  End,            \* a zeroed element of an array
  Wild,           \* an element of an array that was not written
  Null            \* the NULL pointer

VARIABLES
  stack,   \* the stack the program was built for
  phase,   \* how far its setup is
  wanted,  \* history: the services of each accessory, as they were asked for
  list,    \* hk_accessories of the IP stack
  gatt     \* hk_gatt_srvs of the BLE stack, and the fields of hk_gatt_setup_info

setupVars == <<stack, phase, wanted, list, gatt>>

-----------------------------------------------------------------------------
(* Tables by type.                                                         *)

\* hk_chrs_properties_get_type.
Formats ==
  [bool |-> {\h14, \h22, \h25, \h75, \h11A},
   uint8 |-> {\h4F, \h79, \h7A, \h95},
   uint32 |-> {\hD4},
   float |-> {\h11, \hC3, \hC4, \hC5, \hC6, \hC7, \hC8},
   string |-> {\h20, \h21, \h23, \h30, \h37, \h52},
   tlv8 |-> {\h4C, \h4E, \h50, \hA5}]

Format(type) ==
  IF \E f \in DOMAIN Formats : type \in Formats[f]
  THEN CHOOSE f \in DOMAIN Formats : type \in Formats[f]
  ELSE "unknown"

\* hk_chrs_properties_get_prop, as far as it concerns secure access.
ReadOnly == {\h20, \h21, \h23, \h30, \h37, \h52, \hA5}
ReadNotify ==
  {\h11, \h22, \h75, \h79, \h7A, \h95, \hC3, \hC4, \hC5, \hC6, \hC7, \hC8}
Unpaired == {\h4C, \h4E, \h4F, \h50}

\* A type that is missing in the table has all properties: -1.
Announced(type) ==
  CASE type \in ReadOnly -> {"read"}
    [] type = \h14 -> {"write"}
    [] type \in ReadNotify -> {"read", "notify"}
    [] type \in Unpaired -> {}
    [] OTHER -> {"read", "write", "notify"}

-----------------------------------------------------------------------------
(* What the application asks for.                                          *)

(***************************************************************************)
(* access: which of static value, read and write function it has, and      *)
(* can_notify; "respond" is a write function that makes a response.        *)
(***************************************************************************)
Chr(type, access) == [type |-> type, access |-> access]

Srv(type, chrs) == [type |-> type, chrs |-> chrs]

AccessoryInformation ==
  Srv(\h3E, [i \in 1..5 |-> Chr(<<\h23, \h20, \h21, \h30, \h52>>[i], {"static"})]
              \o <<Chr(\h14, {"write"})>>)

ProtocolInformation ==
  Srv(\hA2, <<Chr(\h37, {"static"}), Chr(\hA5, {"read", "write"})>>)

Pairing ==
  Srv(\h55, <<Chr(\h4C, {"respond"}), Chr(\h4E, {"respond"}),
              Chr(\h4F, {"read"}), Chr(\h50, {"read", "respond"})>>)

\* The services that hk_setup_add_accessory adds itself.
OwnServices ==
  IF stack = "ip" THEN <<AccessoryInformation>>
  ELSE <<AccessoryInformation, ProtocolInformation, Pairing>>

\* The services of hk_fascade.h.
Sensor(type, chrs) ==
  Srv(type, [i \in DOMAIN chrs |-> Chr(chrs[i], {"read", "notify"})])

Switch == Srv(\h49, <<Chr(\h25, {"read", "write", "notify"})>>)
MotionSensor == Sensor(\h85, <<\h22>>)
TemperatureSensor == Sensor(\h8A, <<\h11>>)
SimpleAirQualitySensor == Sensor(\h8D, <<\h95>>)
FullAirQualitySensor ==
  Sensor(\h8D, <<\h95, \hC3, \hC4, \hC5, \hC6, \hC7, \hC8, \h75, \h7A, \h79>>)

Accesses == {"static", "read", "write", "notify", "respond"}
Chrs == [type : Nat, access : SUBSET Accesses]
Srvs == [type : Nat, chrs : Seq(Chrs)]

\* It can be read if the table has its type as readable.
Readable(c) == "read" \in Announced(c.type) => c.access \cap {"static", "read"} # {}

(***************************************************************************)
(* An application gives a read function for a type that the table has as   *)
(* readable; hk_chr_read of the BLE stack calls it without looking.        *)
(***************************************************************************)
ASSUME KindsAssumption ==
  /\ Stacks \subseteq {"ip", "ble"}
  /\ CharRange \in Nat \ {0}
  /\ SrvTypes \subseteq Nat /\ ChrKinds \subseteq Chrs /\ Facades \subseteq Srvs
  /\ \A c \in ChrKinds : Readable(c)
  /\ \A srv \in Facades : \A k \in DOMAIN srv.chrs : Readable(srv.chrs[k])

-----------------------------------------------------------------------------
(* The IP stack: lists, the newest element first until the setup ends.     *)

IpAddAccessory(l) == <<[aid |-> 0, srvs |-> <<>>]>> \o l

IpAddSrv(l, type) ==
  [l EXCEPT ![1].srvs = <<[iid |-> 0, type |-> type, chrs |-> <<>>]>> \o @]

\* ptr is the address the application gets: which call made it.
IpAddChr(l, c) ==
  [l EXCEPT ![1].srvs[1].chrs =
     <<[aid |-> 0, iid |-> 0, type |-> c.type, access |-> c.access,
        ptr |-> <<Len(l), Len(l[1].srvs), Len(@) + 1>>]>> \o @]

IpAddChrs(l, chrs) == FoldLeft(IpAddChr, l, chrs)

IpAdd(l, srv) == IpAddChrs(IpAddSrv(l, srv.type), srv.chrs)

IpAddAll(l, srvs) == FoldLeft(IpAdd, l, srvs)

\* Mutant of InOrder: the characteristics of a service are not turned round.
InOrderNot(chrs) == chrs

InOrder(chrs) == Reverse(chrs)

\* One pass of the loop over services; done.iid is the id given last.
NumberSrv(aid, done, srv) ==
  LET chrs == InOrder(srv.chrs)
      numbered == [k \in DOMAIN chrs |->
                     [chrs[k] EXCEPT !.aid = aid, !.iid = done.iid + 1 + k]]
  IN  [iid |-> done.iid + 1 + Len(chrs),
       srvs |-> Append(done.srvs, [srv EXCEPT !.iid = done.iid + 1, !.chrs = numbered])]

NumberSrvs(aid, srvs) ==
  FoldLeft(LAMBDA done, srv : NumberSrv(aid, done, srv), [iid |-> 0, srvs |-> <<>>], srvs)

NumberAccessory(aid, accessory) ==
  [aid |-> aid, srvs |-> NumberSrvs(aid, Reverse(accessory.srvs)).srvs]

IpEndConfig(l) ==
  [a \in DOMAIN l |-> NumberAccessory(a, Reverse(l)[a])]

\* The places of the characteristics, and the one at a place.
Places ==
  UNION {UNION {{<<a, s, k>> : k \in DOMAIN list[a].srvs[s].chrs} :
                  s \in DOMAIN list[a].srvs} : a \in DOMAIN list}

At(p) == list[p[1]].srvs[p[2]].chrs[p[3]]

\* The loops over the lists come to p no later than to q.
NoLater(p, q) ==
  \/ p[1] < q[1]
  \/ p[1] = q[1] /\ p[2] < q[2]
  \/ p[1] = q[1] /\ p[2] = q[2] /\ p[3] <= q[3]

FirstAt(places) ==
  IF places = {} THEN Null
  ELSE At(CHOOSE p \in places : \A q \in places : NoLater(p, q))

\* hk_accessories_store_get_chr
GetChr(aid, iid) ==
  FirstAt({p \in Places : list[p[1]].aid = aid /\ At(p).iid = iid})

\* hk_accessories_store_get_identify_chr
IdentifyChr == FirstAt({p \in Places : At(p).type = \h14})

\* hk_accessories_serializer_perms
Perms(c) ==
  (IF c.access \cap {"static", "read"} # {} THEN {"pr"} ELSE {})
    \cup (IF "write" \in c.access THEN {"pw"} ELSE {})
    \cup (IF "notify" \in c.access THEN {"ev"} ELSE {})

\* What a controller reads from /accessories, but for the values.
Serialized ==
  [a \in DOMAIN list |->
     [aid |-> list[a].aid,
      services |-> [s \in DOMAIN list[a].srvs |->
        LET srv == list[a].srvs[s]
        IN  [type |-> srv.type, iid |-> srv.iid,
             characteristics |-> [k \in DOMAIN srv.chrs |->
               [type |-> srv.chrs[k].type, iid |-> srv.chrs[k].iid,
                perms |-> Perms(srv.chrs[k]), format |-> Format(srv.chrs[k].type)]]]]]]

-----------------------------------------------------------------------------
(* The BLE stack: arrays.  srv and chr are the indices of the last         *)
(* elements, from 0, -1 without one; next is the next instance id.         *)

NoGatt == [srvs |-> <<>>, srv |-> -1, chr |-> -1, next |-> 1, srvId |-> 0]

\* The elements of the arrays that are written.
ChrEntries ==
  [uuid : {"srv_id"}, index : Nat, srvId : Nat]
    \cup [uuid : Nat, index : Nat, srvId : Nat, type : Nat, access : SUBSET Accesses]

SrvEntries == [uuid : Nat, chrs : Seq(ChrEntries \cup {End})]

ASSUME MarkerAssumption == {End, Wild} \cap (ChrEntries \cup SrvEntries) = {} /\ End # Wild

\* hk_gatt_alloc, and the memset of the last of n elements.
Resize(array, n) ==
  [i \in 1..n |->
     IF i = n THEN End ELSE IF i \in DOMAIN array THEN array[i] ELSE Wild]

AllocSrv(g) == [g EXCEPT !.srv = @ + 1, !.srvs = Resize(@, g.srv + 2)]

AllocChr(g) ==
  [g EXCEPT !.chr = @ + 1, !.srvs[g.srv + 1].chrs = Resize(@, g.chr + 2)]

PutChr(g, c) ==
  LET n == AllocChr(g)
  IN  [n EXCEPT !.srvs[n.srv + 1].chrs[n.chr + 1] = c]

\* hk_uuids_get takes the type as uint8_t.
Uuid(type) == type % 256

\* Mutant of CloseSrv: the index goes on.
CloseSrvGoesOn(g) == IF g.srv >= 0 THEN AllocChr(g) ELSE g

\* The end marker of the characteristics of the last service.
CloseSrv(g) == IF g.srv >= 0 THEN [AllocChr(g) EXCEPT !.chr = -1] ELSE g

\* The first characteristic of a service is read for the id of the service.
BleAddSrv(g, type) ==
  LET new == AllocSrv(CloseSrv(g))
      id == new.next % CharRange
  IN  PutChr([new EXCEPT !.srvs[new.srv + 1] = [uuid |-> Uuid(type), chrs |-> <<>>],
                         !.next = @ + 1, !.srvId = id],
             [uuid |-> "srv_id", index |-> new.next, srvId |-> id])

\* hk_chr_init and the rest of hk_gatt_add_chr, hk_gatt_add_chr_static_read.
BleAddChr(g, c) ==
  PutChr([g EXCEPT !.next = @ + 1],
         [uuid |-> Uuid(c.type), index |-> g.next, srvId |-> g.srvId,
          type |-> c.type, access |-> c.access])

BleAddChrs(g, chrs) == FoldLeft(BleAddChr, g, chrs)

BleAdd(g, srv) == BleAddChrs(BleAddSrv(g, srv.type), srv.chrs)

BleAddAll(g, srvs) == FoldLeft(BleAdd, g, srvs)

BleEndConfig(g) == AllocSrv(CloseSrv(g))

\* NimBLE walks an array to its end marker.
Walk(array) ==
  SubSeq(array, 1, SelectInSeq(array, LAMBDA e : e = End) - 1)

\* Reading the descriptor of a characteristic and the first one of a service.
InstanceId(c) == c.index
ServiceId(srv) == Walk(srv.chrs)[1].srvId

\* hk_chr_signature_read
Signature(srv, c) ==
  [uuid |-> c.uuid, srvUuid |-> srv.uuid, srvId |-> c.srvId,
   props |-> Announced(c.type), format |-> Format(c.type)]

-----------------------------------------------------------------------------
(* The calls.                                                              *)

InitSetup ==
  /\ stack \in Stacks
  /\ phase = "off"
  /\ wanted = <<>>
  /\ list = <<>>
  /\ gatt = NoGatt

\* What the calls that add services srvs to the accessory added last do.
Adds(srvs) ==
  IF stack = "ip"
  THEN list' = IpAddAll(IpAddAccessory(list), srvs) /\ UNCHANGED gatt
  ELSE gatt' = BleAddAll(gatt, srvs) /\ UNCHANGED list

\* hk_store_init, and hk_gatt_init of the BLE stack.
SetupStart ==
  /\ phase = "off"
  /\ phase' = "started"
  /\ UNCHANGED <<stack, wanted, list, gatt>>

AddAccessory ==
  /\ phase = "started"
  /\ Len(wanted) < MaxAccessories
  /\ wanted' = Append(wanted, OwnServices)
  /\ Adds(OwnServices)
  /\ UNCHANGED <<stack, phase>>

\* The services and characteristics an application added itself, of the whole setup.
Extra ==
  FlattenSeq([a \in DOMAIN wanted |->
    SubSeq(wanted[a], Len(OwnServices) + 1, Len(wanted[a]))])

ExtraChrs == FlattenSeq([s \in DOMAIN Extra |-> Extra[s].chrs])

AddSrv(type) ==
  /\ phase = "started"
  /\ wanted # <<>>
  /\ Len(Extra) < MaxSrvs
  /\ wanted' = [wanted EXCEPT ![Len(wanted)] = Append(@, Srv(type, <<>>))]
  /\ IF stack = "ip"
     THEN list' = IpAddSrv(list, type) /\ UNCHANGED gatt
     ELSE gatt' = BleAddSrv(gatt, type) /\ UNCHANGED list
  /\ UNCHANGED <<stack, phase>>

AddChr(c) ==
  /\ phase = "started"
  /\ wanted # <<>>
  /\ Len(Last(wanted)) > Len(OwnServices)
  /\ Len(ExtraChrs) < MaxChrs
  /\ wanted' = [wanted EXCEPT ![Len(wanted)][Len(Last(wanted))].chrs = Append(@, c)]
  /\ IF stack = "ip"
     THEN list' = IpAddChr(list, c) /\ UNCHANGED gatt
     ELSE gatt' = BleAddChr(gatt, c) /\ UNCHANGED list
  /\ UNCHANGED <<stack, phase>>

SetupFinish ==
  /\ phase = "started"
  /\ phase' = "finished"
  /\ IF stack = "ip"
     THEN list' = IpEndConfig(list) /\ UNCHANGED gatt
     ELSE gatt' = BleEndConfig(gatt) /\ UNCHANGED list
  /\ UNCHANGED <<stack, wanted>>

\* A function of hk_fascade.h makes all the calls of a setup.
Facade(srv) ==
  LET srvs == Append(OwnServices, srv)
  IN  /\ phase = "off"
      /\ phase' = "finished"
      /\ wanted' = <<srvs>>
      /\ IF stack = "ip"
         THEN /\ list' = IpEndConfig(IpAddAll(IpAddAccessory(list), srvs))
              /\ UNCHANGED gatt
         ELSE /\ gatt' = BleEndConfig(BleAddAll(gatt, srvs))
              /\ UNCHANGED list
      /\ UNCHANGED stack

\* hk_init starts the server, or hands the table to NimBLE.
Start ==
  /\ phase = "finished"
  /\ wanted \in Served
  /\ phase' = "running"
  /\ UNCHANGED <<stack, wanted, list, gatt>>

\* A restart loses it all, and the program sets up again, maybe after an update.
RestartSetup ==
  /\ phase' = "off"
  /\ wanted' = <<>>
  /\ list' = <<>>
  /\ gatt' = NoGatt
  /\ UNCHANGED stack

SetupNext ==
  \/ SetupStart
  \/ AddAccessory
  \/ \E type \in SrvTypes : AddSrv(type)
  \/ \E c \in ChrKinds : AddChr(c)
  \/ SetupFinish
  \/ \E srv \in Facades : Facade(srv)

-----------------------------------------------------------------------------
(* Properties.                                                             *)

\* What is set up stays as it is when the stack runs.
SetUp == phase = "finished"

\* The id of a service, and those of its characteristics.
Iid(srv, k) == IF k = 0 THEN srv.iid ELSE srv.characteristics[k].iid

IidsDiffer(served) ==
  \A s, t \in DOMAIN served :
    \A k \in 0..Len(served[s].characteristics), l \in 0..Len(served[t].characteristics) :
      Iid(served[s], k) = Iid(served[t], l) => s = t /\ k = l

\* Service s of accessory a is served as it was asked for.
ServesSrv(a, s, srv, asked) ==
  /\ srv.type = asked.type
  /\ Len(srv.characteristics) = Len(asked.chrs)
  /\ GetChr(a, srv.iid) = Null
  /\ \A k \in DOMAIN asked.chrs :
       LET chr == srv.characteristics[k]
       IN  /\ chr.type = asked.chrs[k].type
           /\ chr.perms = Perms(asked.chrs[k])
           /\ GetChr(a, chr.iid).ptr = <<a, s, k>>

ServesAccessory(a, served, asked) ==
  /\ IidsDiffer(served)
  /\ served[1].type = \h3E /\ served[1].iid = 1
  /\ Len(served) = Len(asked)
  /\ \A s \in DOMAIN served : ServesSrv(a, s, served[s], asked[s])

(***************************************************************************)
(* What the IP stack serves is what the application set up: every          *)
(* accessory, service and characteristic in the order of the calls, with   *)
(* its type, permissions and format, ids that are unique in an accessory   *)
(* with the accessory information first, and each id leads to the          *)
(* characteristic whose pointer the application got.  The lists are built  *)
(* backwards and turned round once, level by level, while ids are counted. *)
(***************************************************************************)
ListServesSetup ==
  stack = "ip" /\ SetUp =>
    /\ [a \in DOMAIN wanted |-> a] = [a \in DOMAIN list |-> list[a].aid]
    /\ \A a \in DOMAIN wanted : ServesAccessory(a, Serialized[a].services, wanted[a])
    /\ wanted # <<>> => IdentifyChr.ptr = <<1, 1, 6>>

\* A service as NimBLE finds it, and as it was asked for.
FindsSrv(srv, asked) ==
  LET chrs == Walk(srv.chrs)
  IN  /\ End \in ToSet(srv.chrs)
      /\ Wild \notin ToSet(chrs)
      /\ Len(chrs) = Len(asked.chrs) + 1
      /\ asked.type < 256 => srv.uuid = asked.type
      /\ InstanceId(chrs[1]) < CharRange => ServiceId(srv) = InstanceId(chrs[1])
      /\ \A k \in DOMAIN asked.chrs :
           LET c == asked.chrs[k]
               sig == Signature(srv, chrs[k + 1])
           IN  /\ c.type < 256 => sig.uuid = c.type
               /\ sig.srvUuid = srv.uuid
               /\ sig.srvId = ServiceId(srv)
               /\ sig.format = Format(c.type)
               /\ "read" \in sig.props =>
                    chrs[k + 1].access \cap {"static", "read"} # {}

InstanceIdsDiffer(found) ==
  \A s, t \in DOMAIN found :
    LET chrs == Walk(found[s].chrs)
        others == Walk(found[t].chrs)
    IN  \A k \in DOMAIN chrs, l \in DOMAIN others :
          InstanceId(chrs[k]) = InstanceId(others[l]) => s = t /\ k = l

(***************************************************************************)
(* NimBLE finds in the arrays what the application set up, service by      *)
(* service, and never walks beyond their ends or into unwritten elements;  *)
(* instance ids are unique, every characteristic names the service it is   *)
(* in, and what is announced as readable can be read.  Asked of types that *)
(* fit into the 8 bits hk_uuids_get keeps of them, and of service ids that *)
(* fit into a char.                                                        *)
(***************************************************************************)
TableServesSetup ==
  stack = "ble" /\ SetUp =>
    LET asked == FlattenSeq(wanted)
        found == Walk(gatt.srvs)
    IN  /\ End \in ToSet(gatt.srvs)
        /\ Wild \notin ToSet(gatt.srvs)
        /\ Len(found) = Len(asked)
        /\ \A s \in DOMAIN found : FindsSrv(found[s], asked[s])
        /\ InstanceIdsDiffer(found)

=============================================================================
