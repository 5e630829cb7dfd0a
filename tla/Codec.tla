--------------------------------- MODULE Codec ---------------------------------
(***************************************************************************)
(* The wire format: getPacked() and decode() of                            *)
(* src/src/transport-messages.cpp, as operators on sequences of bytes.     *)
(*                                                                         *)
(* A message is a record of its type, its id and its fields, integers or   *)
(* strings of bytes.  What packData() and unpackData() of a type do is a   *)
(* layout: the fields in wire order, in the groups that unpackData() reads *)
(* under one length test.  Latitudes, longitudes and voltages are the      *)
(* fixed-point integers that go on the wire.                               *)
(***************************************************************************)
EXTENDS Integers, Sequences, SequencesExt

(* FoldLeft of the sequences library, along the indices of the sequence      *)
(* rather than its subsets, so that a proof can follow it step by step.      *)
Fold(op(_, _), base, seq) ==
    LET f[i \in 0..Len(seq)] == IF i = 0 THEN base ELSE op(f[i - 1], seq[i])
    IN  f[Len(seq)]

(***************************************************************************)
(* Integers, big-endian in w bytes: htons(), htonl(), htonll() and back.   *)
(* A negative integer comes out in two's complement, since \div rounds     *)
(* down.                                                                   *)
(***************************************************************************)
Quotients(n, w) ==
    LET q[i \in 0..w] == IF i = 0 THEN n ELSE q[i - 1] \div 256
    IN  q

Bytes(n, w) == LET q == Quotients(n, w) IN [i \in 1..w |-> q[w - i] % 256]

Value(start, b) == Fold(LAMBDA n, x : 256 * n + x, start, b)

Unsigned(b) == Value(0, b)

Signed(b) == Value(IF b[1] < 128 THEN 0 ELSE -1, b)

Byte == 0..255

Zeros(n) == [i \in 1..n |-> 0]

(* What is missing to the next multiple of 8 after n bytes, from 1 to 8. *)
ToBoundary(n) == 8 - (n % 8)

(* Broken: nothing at all is missing at a multiple of 8. *)
PackStringTight(bl, s) ==
    LET b == bl \o Bytes(Len(s), 2) \o s
    IN  b \o Zeros((-Len(b)) % 8)

(* packString() *)
PackString(bl, s) ==
    LET b == bl \o Bytes(Len(s), 2) \o s
    IN  b \o Zeros(ToBoundary(Len(b)))

(***************************************************************************)
(* Layouts.  A field is <<name, kind, width>>; the kind is "u" or "s" for  *)
(* an unsigned or signed integer, "string" for a length and what           *)
(* packString() adds, "rest" for a string up to the end of the message.    *)
(***************************************************************************)
TypeCode ==
    [unknown |-> 0, closed |-> 1, identity |-> 2, rtt_request |-> 3,
     rtt_response |-> 4, position_report |-> 5, system_status |-> 6,
     search_status |-> 7, command |-> 8, server_list |-> 9, smm_settings |-> 10,
     identity_non_aircraft |-> 11, identity_required |-> 12]

PositionLayout ==
    << <<<<"timestamp", "u", 8>>>>, <<<<"latitude", "s", 4>>>>,
       <<<<"longitude", "s", 4>>>>, <<<<"altitude", "u", 4>>>>,
       <<<<"icao_address", "u", 4>>>>, <<<<"heading", "u", 2>>>>,
       <<<<"horizontal_velocity", "u", 2>>>>, <<<<"vertical_velocity", "s", 2>>>>,
       <<<<"squawk", "u", 2>>>>, <<<<"callsign", "string", 2>>>>,
       <<<<"flags", "u", 2>>>>, <<<<"altitude_type", "u", 1>>>>,
       <<<<"emitter_type", "u", 1>>>> >>

StatusLayout ==
    << <<<<"bat_percent", "u", 1>>, <<"mah_used", "u", 4>>>>,
       <<<<"voltage", "u", 4>>>> >>

SearchLayout ==
    << <<<<"search_id", "u", 8>>, <<"point_completed", "u", 8>>,
         <<"points_total", "u", 8>>>> >>

CommandLayout ==
    << <<<<"timestamp", "u", 8>>, <<"latitude", "s", 4>>, <<"longitude", "s", 4>>,
         <<"altitude", "u", 4>>, <<"command", "u", 1>>>> >>

SMMLayout ==
    << <<<<"server_url", "string", 2>>>>, <<<<"username", "string", 2>>>>,
       <<<<"password", "string", 2>>>> >>

Layout(type) ==
    CASE type = "identity"              -> << <<<<"name", "rest", 0>>>> >>
      [] type = "rtt_response"          -> << <<<<"request_id", "u", 8>>>> >>
      [] type = "position_report"       -> PositionLayout
      [] type = "system_status"         -> StatusLayout
      [] type = "search_status"         -> SearchLayout
      [] type = "command"               -> CommandLayout
      [] type = "smm_settings"          -> SMMLayout
      [] type = "identity_non_aircraft" -> << <<<<"capabilities", "u", 8>>>> >>
      [] OTHER                          -> <<>>

(* One entry of a server list, repeated to the end of the message. *)
ServerGroup == <<<<"port", "u", 2>>, <<"address", "string", 2>>>>

(* What a group is tested for before it is read. *)
GroupLength(group) == Fold(LAMBDA n, f : n + f[3], 0, group)

(* The fields of a layout, and their names. *)
Fields(layout) == UNION {Range(layout[i]) : i \in DOMAIN layout}
Names(layout) == {f[1] : f \in Fields(layout)}

(* The members of the class of a message: tslc is never on the wire. *)
Members(type) ==
    Names(Layout(type)) \cup (IF type = "position_report" THEN {"tslc"} ELSE {})

-----------------------------------------------------------------------------
(* getPacked(): the header, packData(), and updateSize(). *)

HeaderLength == 12

(* The length is filled in at the end; createHeader() leaves '0' there. *)
Header(m) == <<48, 48>> \o Bytes(TypeCode[m.type], 2) \o Bytes(m.id, 8)

PackField(bl, f, fields) ==
    CASE f[2] = "string" -> PackString(bl, fields[f[1]])
      [] f[2] = "rest"   -> bl \o fields[f[1]]
      [] OTHER           -> bl \o Bytes(fields[f[1]], f[3])

PackGroup(bl, group, fields) ==
    Fold(LAMBDA b, f : PackField(b, f, fields), bl, group)

PackLayout(bl, layout, fields) ==
    Fold(LAMBDA b, group : PackGroup(b, group, fields), bl, layout)

PackServers(bl, servers) ==
    Fold(LAMBDA b, server : PackGroup(b, ServerGroup, server), bl, servers)

PackData(bl, m) ==
    IF m.type = "server_list"
    THEN PackServers(bl, m.fields.servers)
    ELSE PackLayout(bl, Layout(m.type), m.fields)

(* Pads to a multiple of 8; the length, in 16 bits, does not count that. *)
UpdateSize(bl) ==
    Bytes(Len(bl), 2) \o SubSeq(bl, 3, Len(bl)) \o Zeros((-Len(bl)) % 8)

GetPacked(m) == UpdateSize(PackData(Header(m), m))

-----------------------------------------------------------------------------
(* decode(): a reader is a record of the offset and the fields read so far. *)

Slice(bl, offset, n) == SubSeq(bl, offset + 1, offset + n)

UntilZero(s) == IF Contains(s, 0) THEN SubSeq(s, 1, SelectInSeq(s, LAMBDA x : x = 0) - 1)
                ELSE s

Read(r, name, value, n) ==
    [offset |-> r.offset + n, fields |-> [r.fields EXCEPT ![name] = value]]

(* After a string the offset moves on by 1 to 8 bytes, as in packString(). *)
ReadString(bl, r, name) ==
    LET n    == Unsigned(Slice(bl, r.offset, 2))
        past == 2 + n + ToBoundary(r.offset + 2 + n)
    IN  Read(r, name, Slice(bl, r.offset + 2, n), past)

ReadName(bl, r, name) ==
    LET n == Len(bl) - r.offset
    IN  Read(r, name, UntilZero(Slice(bl, r.offset, n)), n)

ReadField(bl, r, f) ==
    CASE f[2] = "string" -> ReadString(bl, r, f[1])
      [] f[2] = "rest"   -> ReadName(bl, r, f[1])
      [] f[2] = "u"      -> Read(r, f[1], Unsigned(Slice(bl, r.offset, f[3])), f[3])
      [] f[2] = "s"      -> Read(r, f[1], Signed(Slice(bl, r.offset, f[3])), f[3])

(* length - offset is unsigned: an offset beyond the end passes every test, *)
(* which no message of PackData gets to.                                    *)
ReadGroup(bl, r, group) ==
    IF Len(bl) - r.offset >= GroupLength(group)
    THEN Fold(LAMBDA q, f : ReadField(bl, q, f), r, group)
    ELSE r

ReadLayout(bl, r, layout) ==
    Fold(LAMBDA q, group : ReadGroup(bl, q, group), r, layout)

(* The members of a message before anything is read. *)
Fresh(type) ==
    [x \in Members(type) |->
        IF \E f \in Fields(Layout(type)) : f[1] = x /\ f[2] \in {"string", "rest"}
        THEN <<>> ELSE 0]

(* The entries of a server list, while there is room for a port and a length. *)
(* Each takes a byte at least, so that Len(bl) rounds are enough.            *)
ReadServer(bl, r) ==
    IF Len(bl) - r.offset < GroupLength(ServerGroup) THEN r
    ELSE LET entry == ReadGroup(bl, [offset |-> r.offset,
                                     fields |-> [port |-> 0, address |-> <<>>]], ServerGroup)
         IN  [offset |-> entry.offset, servers |-> Append(r.servers, entry.fields)]

Servers(bl) ==
    Fold(LAMBDA r, x : ReadServer(bl, r), [offset |-> HeaderLength, servers |-> <<>>], bl).servers

UnpackData(bl, type) ==
    IF type = "server_list" THEN [servers |-> Servers(bl)]
    ELSE ReadLayout(bl, [offset |-> HeaderLength, fields |-> Fresh(type)], Layout(type)).fields

(* The types decode() makes no message of. *)
NullMessage == [type |-> "null", id |-> 0, fields |-> <<>>]

(* decode().  The constructor of identity_required passes the type of         *)
(* identity to its base.                                                     *)
Decode(bl) ==
    LET code  == Unsigned(Slice(bl, 2, 2))
        known == {t \in DOMAIN TypeCode : TypeCode[t] = code} \ {"unknown", "closed"}
    IN  IF known = {} THEN NullMessage
        ELSE LET type == CHOOSE t \in known : TRUE
             IN  [type   |-> IF type = "identity_required" THEN "identity" ELSE type,
                  id     |-> Unsigned(Slice(bl, 4, 8)),
                  fields |-> UnpackData(bl, type)]

-----------------------------------------------------------------------------
(* The messages a program can make.                                           *)

(* A field holds what its width on the wire can: an integer of which nothing *)
(* but the sign is left beyond it, a string with a length of 16 bits, a name *)
(* that does not end early.                                                  *)
Fits(f, x) ==
    CASE f[2] = "u"      -> x \in Int /\ Quotients(x, f[3])[f[3]] = 0
      [] f[2] = "s"      -> /\ x \in Int
                            /\ Quotients(x, f[3])[f[3]]
                                 = (IF Bytes(x, f[3])[1] < 128 THEN 0 ELSE -1)
      [] f[2] = "string" -> x \in Seq(Byte) /\ Len(x) < 65536
      [] f[2] = "rest"   -> x \in Seq(Byte) /\ ~Contains(x, 0)

FieldsFit(fields, layout) == \A f \in Fields(layout) : Fits(f, fields[f[1]])

(* Every member has a value of its type, and the whole is not longer than the *)
(* 16 bits of its length can say.                                            *)
WellFormed(m) ==
    /\ m = [type |-> m.type, id |-> m.id, fields |-> m.fields]
    /\ m.type \in DOMAIN TypeCode \ {"unknown", "closed"}
    /\ Fits(<<"id", "u", 8>>, m.id)
    /\ IF m.type = "server_list"
       THEN LET servers == m.fields.servers IN
               /\ m.fields = [servers |-> servers]
               /\ servers \in Seq([port : Int, address : Seq(Byte)])
               /\ \A i \in DOMAIN servers : FieldsFit(servers[i], <<ServerGroup>>)
       ELSE /\ m.fields = [x \in Members(m.type) |-> m.fields[x]]
            /\ FieldsFit(m.fields, Layout(m.type))
    /\ Len(PackData(Header(m), m)) < 65536

===============================================================================
