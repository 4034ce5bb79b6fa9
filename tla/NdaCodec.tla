------------------------------ MODULE NdaCodec ------------------------------
(***************************************************************************)
(* The NDA binary format of src/protocol/nda_native.rs: the TLV encoding   *)
(* of JSON values, the walk over it that decodes nothing, the request      *)
(* frames with their hash, their encrypted form, and the flat format; with *)
(* the client's copy (client/src/transport/nda_codec.rs) and the copy of   *)
(* src/registry.rs.                                                        *)
(*                                                                         *)
(* A byte is a number below 8.  Every length, count and number takes one   *)
(* byte where the code takes four, two or eight, so a header is the tag    *)
(* and one more byte.  A byte equal to BadByte is not valid UTF-8.         *)
(***************************************************************************)
EXTENDS Integers, Sequences, SequencesExt

CONSTANTS
    Values,       \* JSON values a peer encodes
    FrameValues,  \* those of them sent in a frame
    RawBuffers,   \* byte sequences nobody encoded
    Methods,      \* method bytes without the encryption flag
    Keys,         \* session keys
    MaxDepth,     \* TLV_MAX_DEPTH, 32
    MaxString,    \* TLV_MAX_STRING_LEN, 10 000 000
    MaxElements,  \* TLV_MAX_ELEMENTS, 100 000
    MaxKeyBytes,  \* u16::MAX
    BadByte       \* a byte that is no UTF-8

VARIABLES
    buf,      \* a TLV buffer
    value,    \* the value it encodes, or NoValue
    frame,    \* a frame, or NoFrame
    request,  \* history: the request it was built from
    intact,   \* no byte has been changed since
    merkle,   \* NDA_MERKLE_ENABLED
    key       \* SESSION_KEY, or "none"

codecVars == <<buf, value, frame, request, intact, merkle, key>>

Null == [t |-> "null"]
NoValue == [t |-> "no value"]
NoFrame == [magic |-> "none"]
Bad == [ok |-> FALSE]
Refused == <<-1>>
None == <<-2>>
EncryptedFlag == 8
ZeroHash == <<"zero">>

\* SHA-256 of a payload; two payloads never share one.
Hash(payload) == <<"hash", payload>>

Flat(s) == FlattenSeq(s)
Utf8(s) == \A i \in DOMAIN s : s[i] # BadByte
From(s, n) == SubSeq(s, n + 1, Len(s))

RECURSIVE Encodable(_), Encode(_)

\* encode_json_value fails on a key longer than its length field.
Encodable(v) ==
    CASE v.t = "arr" -> \A i \in DOMAIN v.items : Encodable(v.items[i])
      [] v.t = "obj" -> \A i \in DOMAIN v.fields :
                            Len(v.fields[i].key) <= MaxKeyBytes /\ Encodable(v.fields[i].val)
      [] OTHER -> TRUE

\* encode_json_value: a number that is no i64 is written as a float.
Encode(v) ==
    CASE v.t = "str" -> <<1, Len(v.bytes)>> \o v.bytes
      [] v.t = "int" -> <<2, v.n>>
      [] v.t \in {"float", "big"} -> <<7, v.n>>
      [] v.t = "bool" -> <<3, IF v.b THEN 1 ELSE 0>>
      [] v.t = "null" -> <<4>>
      [] v.t = "arr" -> <<5, Len(v.items)>> \o Flat([i \in DOMAIN v.items |-> Encode(v.items[i])])
      [] v.t = "obj" -> <<6, Len(v.fields)>>
             \o Flat([i \in DOMAIN v.fields |->
                        <<Len(v.fields[i].key)>> \o v.fields[i].key \o Encode(v.fields[i].val)])

\* Map::insert: the last field of a name counts.
Insert(fields, k, v) == Append(SelectSeq(fields, LAMBDA f : f.key # k), [key |-> k, val |-> v])

Decoded(v, n) == [ok |-> TRUE, val |-> v, used |-> n]

RECURSIVE Decode(_, _, _), DecodeItems(_, _, _, _, _), DecodeFields(_, _, _, _, _)

\* The elements of an array, from offset off; limited is FALSE in the client.
DecodeItems(s, off, count, depth, limited) ==
    IF count = 0 THEN [ok |-> TRUE, items |-> <<>>, off |-> off]
    ELSE LET d == Decode(From(s, off), depth + 1, limited) IN
         IF ~d.ok THEN Bad
         ELSE LET rest == DecodeItems(s, off + d.used, count - 1, depth, limited) IN
              IF ~rest.ok THEN Bad
              ELSE [ok |-> TRUE, items |-> <<d.val>> \o rest.items, off |-> rest.off]

DecodeFields(s, off, count, depth, limited) ==
    IF count = 0 THEN [ok |-> TRUE, items |-> <<>>, off |-> off]
    ELSE IF off >= Len(s) \/ off + 1 + s[off + 1] > Len(s) THEN Bad
    ELSE LET k == SubSeq(s, off + 2, off + 1 + s[off + 1])
             d == Decode(From(s, off + 1 + s[off + 1]), depth + 1, limited) IN
         IF ~Utf8(k) \/ ~d.ok THEN Bad
         ELSE LET rest == DecodeFields(s, off + 1 + s[off + 1] + d.used, count - 1, depth, limited) IN
              IF ~rest.ok THEN Bad
              ELSE [ok |-> TRUE, items |-> <<[key |-> k, val |-> d.val]>> \o rest.items,
                    off |-> rest.off]

Fields(read) ==
    FoldLeft(LAMBDA acc, f : Insert(acc, f.key, f.val), <<>>, read)

\* decode_json_value_inner, with the server's limits or the client's none.
Decode(s, depth, limited) ==
    IF (limited /\ depth > MaxDepth) \/ s = <<>> THEN Bad
    ELSE CASE s[1] = 4 -> Decoded(Null, 1)
           [] s[1] \notin 1..7 \/ Len(s) < 2 -> Bad
           [] s[1] = 1 /\ Len(s) >= 2 ->
                IF (limited /\ s[2] > MaxString) \/ Len(s) < 2 + s[2] THEN Bad
                ELSE LET b == SubSeq(s, 3, 2 + s[2]) IN
                     IF Utf8(b) THEN Decoded([t |-> "str", bytes |-> b], 2 + s[2]) ELSE Bad
           [] s[1] = 2 /\ Len(s) >= 2 -> Decoded([t |-> "int", n |-> s[2]], 2)
           [] s[1] = 7 /\ Len(s) >= 2 -> Decoded([t |-> "float", n |-> s[2]], 2)
           [] s[1] = 3 /\ Len(s) >= 2 -> Decoded([t |-> "bool", b |-> s[2] # 0], 2)
           [] s[1] = 5 /\ Len(s) >= 2 ->
                IF limited /\ s[2] > MaxElements THEN Bad
                ELSE LET d == DecodeItems(s, 2, s[2], depth, limited) IN
                     IF d.ok THEN Decoded([t |-> "arr", items |-> d.items], d.off) ELSE Bad
           [] s[1] = 6 /\ Len(s) >= 2 ->
                IF limited /\ s[2] > MaxElements THEN Bad
                ELSE LET d == DecodeFields(s, 2, s[2], depth, limited) IN
                     IF d.ok THEN Decoded([t |-> "obj", fields |-> Fields(d.items)], d.off) ELSE Bad

\* Faulty variant: the outermost value counts as one level.
ServerDecodeDeep(s) == Decode(s, 1, TRUE)

ServerDecode(s) == Decode(s, 0, TRUE)

\* The copies: src/registry.rs has the server's limits, the client none.
RegistryDecode(s) == Decode(s, 0, TRUE)
ClientDecode(s) == Decode(s, 0, FALSE)
RegistryEncode(v) == Encode(v)
ClientEncode(v) == Encode(v)

RECURSIVE Skip(_, _), SkipItems(_, _, _, _, _)

\* Faulty variant of the walk: the depth is counted from one.
SkipFrom(s) == Skip(s, 1)

\* Offset after count elements, each with a key if keyed; or 0.
SkipItems(s, off, count, depth, keyed) ==
    IF count = 0 THEN off
    ELSE LET at == IF keyed /\ off < Len(s) THEN off + 1 + s[off + 1] ELSE off
             n  == IF (keyed /\ off >= Len(s)) \/ at > Len(s) THEN 0 ELSE Skip(From(s, at), depth + 1)
         IN  IF n = 0 THEN 0 ELSE SkipItems(s, at + n, count - 1, depth, keyed)

\* skip_tlv_value_inner: the length of a value, or 0 for a refusal.
Skip(s, depth) ==
    IF depth > MaxDepth \/ s = <<>> THEN 0
    ELSE CASE s[1] = 4 -> 1
           [] s[1] \notin 1..7 \/ Len(s) < 2 -> 0
           [] s[1] = 1 /\ Len(s) >= 2 -> IF s[2] > MaxString \/ Len(s) < 2 + s[2] THEN 0 ELSE 2 + s[2]
           [] s[1] \in {2, 3, 7} /\ Len(s) >= 2 -> 2
           [] s[1] \in {5, 6} /\ Len(s) >= 2 ->
                IF s[2] > MaxElements THEN 0 ELSE SkipItems(s, 2, s[2], depth, s[1] = 6)

SkipValue(s) == Skip(s, 0)

RECURSIVE ExtractFrom(_, _, _, _)

ExtractFrom(s, off, count, k) ==
    IF count = 0 THEN <<>>
    ELSE IF off >= Len(s) \/ off + 1 + s[off + 1] > Len(s) THEN Refused
    ELSE LET at == off + 1 + s[off + 1]  n == SkipValue(From(s, at)) IN
         IF n = 0 THEN Refused
         ELSE IF SubSeq(s, off + 2, at) = k THEN SubSeq(s, at + 1, at + n)
         ELSE ExtractFrom(s, at + n, count - 1, k)

\* Faulty variant: the key's length is not skipped with the key.
ExtractShifted(s, k) ==
    IF Len(s) < 3 \/ s[1] # 6 THEN <<>> ELSE ExtractFrom(s, 3, s[2], k)

\* extract_tlv_field: the bytes of the first field of that name, <<>> if there is
\* none.
Extract(s, k) ==
    IF s = <<>> \/ s[1] # 6 THEN <<>>
    ELSE IF Len(s) < 2 THEN Refused
    ELSE ExtractFrom(s, 2, s[2], k)

\* extract_tools_call_fields: the last "arguments" of an object, and the last "name"
\* that is a string.
NameKey == <<0>>
ArgumentsKey == <<1>>
NoFields == [name |-> None, arguments |-> <<>>]

\* Faulty variant: only the name's tag is looked at, and its length is left in front.
TakeFieldRaw(got, k, v) ==
    IF k = NameKey /\ v[1] = 1 THEN [got EXCEPT !.name = From(v, 1)]
    ELSE IF k = ArgumentsKey THEN [got EXCEPT !.arguments = v] ELSE got

TakeField(got, k, v) ==
    IF k = NameKey /\ v[1] = 1 THEN [got EXCEPT !.name = IF Utf8(From(v, 2)) THEN From(v, 2) ELSE None]
    ELSE IF k = ArgumentsKey THEN [got EXCEPT !.arguments = v] ELSE got

RECURSIVE CallFieldsFrom(_, _, _, _)

CallFieldsFrom(s, off, count, got) ==
    IF count = 0 THEN got
    ELSE IF off >= Len(s) \/ off + 1 + s[off + 1] > Len(s) THEN [got EXCEPT !.name = Refused]
    ELSE LET at == off + 1 + s[off + 1]  n == SkipValue(From(s, at)) IN
         IF n = 0 THEN [got EXCEPT !.name = Refused]
         ELSE CallFieldsFrom(s, at + n, count - 1, TakeField(got, SubSeq(s, off + 2, at), SubSeq(s, at + 1, at + n)))

CallFields(s) ==
    IF s = <<>> \/ s[1] # 6 THEN NoFields
    ELSE IF Len(s) < 2 THEN [NoFields EXCEPT !.name = Refused]
    ELSE CallFieldsFrom(s, 2, s[2], NoFields)

-----------------------------------------------------------------------------
(* Frames. *)

\* build_nda_encrypted_frame: null data is left out.
Payload(r, flag) ==
    <<r.method + flag>> \o Encode(r.id) \o (IF r.data = Null THEN <<>> ELSE Encode(r.data))

HashField(payload) == IF merkle THEN Hash(payload) ELSE ZeroHash

\* Faulty variant: an encrypted frame's hash is not compared with its plain text.
OpenedUnchecked(f) ==
    IF \/ f.magic \notin {"NMCP", "NMCE"}
       \/ f.magic = "NMCE" /\ f.key # key
       \/ f.magic = "NMCP" /\ merkle /\ f.hash # Hash(f.payload)
      THEN Bad
      ELSE [ok |-> TRUE, payload |-> f.payload]

\* The payload of a frame as parse_nda_request gets at it: the magic, the key,
\* and the hash of the plain text if it is enabled.
Opened(f) ==
    IF \/ f.magic \notin {"NMCP", "NMCE"}
       \/ f.magic = "NMCE" /\ f.key # key
       \/ merkle /\ f.hash # Hash(f.payload)
      THEN Bad
      ELSE [ok |-> TRUE, payload |-> f.payload]

Unflagged(m) == IF m >= EncryptedFlag THEN m - EncryptedFlag ELSE m

\* Faulty variant: bytes after the data are let pass.
ParseLoose(f) ==
    LET o == Opened(f)  p == o.payload IN
    IF ~o.ok \/ (o.ok /\ p = <<>>) THEN Bad
    ELSE LET i == ServerDecode(From(p, 1)) IN
         IF ~i.ok THEN Bad
         ELSE IF 1 + i.used = Len(p)
                THEN [ok |-> TRUE, method |-> Unflagged(p[1]), id |-> i.val, data |-> Null]
         ELSE LET d == ServerDecode(From(p, 1 + i.used)) IN
              IF ~d.ok THEN Bad
              ELSE [ok |-> TRUE, method |-> Unflagged(p[1]), id |-> i.val, data |-> d.val]

\* parse_nda_request: the whole payload is decoded and nothing may follow it.
Parse(f) ==
    LET o == Opened(f)  p == o.payload IN
    IF ~o.ok \/ (o.ok /\ p = <<>>) THEN Bad
    ELSE LET i == ServerDecode(From(p, 1)) IN
         IF ~i.ok THEN Bad
         ELSE IF 1 + i.used = Len(p)
                THEN [ok |-> TRUE, method |-> Unflagged(p[1]), id |-> i.val, data |-> Null]
         ELSE LET d == ServerDecode(From(p, 1 + i.used)) IN
              IF ~d.ok \/ 1 + i.used + d.used # Len(p) THEN Bad
              ELSE [ok |-> TRUE, method |-> Unflagged(p[1]), id |-> i.val, data |-> d.val]

\* parse_nda_request_inplace: the id is walked over, the data is not looked at, and
\* the flag is cleared in an encrypted frame only.
ParseInplace(f) ==
    LET o == Opened(f)  p == o.payload IN
    IF ~o.ok \/ (o.ok /\ Len(p) < 2) THEN Bad
    ELSE LET n == SkipValue(From(p, 1)) IN
         IF n = 0 THEN Bad
         ELSE [ok |-> TRUE, method |-> IF f.magic = "NMCE" THEN Unflagged(p[1]) ELSE p[1],
               id |-> SubSeq(p, 2, 1 + n), data |-> From(p, 1 + n)]

\* build_nda_response_raw: the id is echoed as it came, the hash is zero; and
\* parse_nda_response of the client, which takes a zero hash for none.
Respond(status, idTlv, resultTlv) ==
    [magic |-> "NMCP", hash |-> ZeroHash, payload |-> <<status>> \o idTlv \o resultTlv]

ParseResponse(f) ==
    LET p == f.payload IN
    IF f.magic # "NMCP" \/ p = <<>> \/ f.hash \notin {ZeroHash, Hash(p)} THEN Bad
    ELSE LET i == ClientDecode(From(p, 1)) IN
         IF ~i.ok THEN Bad
         ELSE IF 1 + i.used >= Len(p)
                THEN [ok |-> TRUE, status |-> p[1], id |-> i.val, result |-> [t |-> "obj", fields |-> <<>>]]
         ELSE LET r == ClientDecode(From(p, 1 + i.used)) IN
              IF ~r.ok THEN Bad ELSE [ok |-> TRUE, status |-> p[1], id |-> i.val, result |-> r.val]

-----------------------------------------------------------------------------
(* The frame of a converted tool and the encoded tools/list. *)

\* json_to_nmcp_frame: the method byte, the name and the arguments, each with its
\* length; the name's length is cut to its field.
CacheEncode(name, args) ==
    <<1, Len(name) % (MaxKeyBytes + 1)>> \o name \o <<Len(RegistryEncode(args))>> \o RegistryEncode(args)

\* Faulty variant: the arguments start at their length.
CachedArgsEarly(name, p) == RegistryDecode(From(p, 2 + p[2]))

\* execute_cached_nmcp_frame, up to the arguments: the name must be the tool's, and
\* both lengths must fit the frame.
CachedArgs(name, p) ==
    IF Len(p) < 2 + p[2] \/ SubSeq(p, 3, 2 + p[2]) # name THEN Bad
    ELSE LET at == 2 + p[2] IN
         IF Len(p) < at + 1 \/ Len(p) < at + 1 + p[at + 1] THEN Bad
         ELSE RegistryDecode(SubSeq(p, at + 2, at + 1 + p[at + 1]))

Str(b) == [t |-> "str", bytes |-> b]
Field(k, v) == [key |-> k, val |-> v]

\* Faulty variant: the fields in the order of the structure.
DirectListUnsorted(tools) ==
    <<6, 1, 1, 3, 5, Len(tools)>>
      \o Flat([i \in DOMAIN tools |->
                  <<6, 3, 1, 2>> \o Encode(Str(tools[i].name)) \o <<1, 0>> \o Encode(Str(tools[i].description))
                    \o <<1, 1>> \o Encode(tools[i].schema)])

\* encode_tools_list_result: the list without a value tree.  The names "tools",
\* "description", "inputSchema" and "name" are <<3>>, <<0>>, <<1>> and <<2>>.
DirectList(tools) ==
    <<6, 1, 1, 3, 5, Len(tools)>>
      \o Flat([i \in DOMAIN tools |->
                  <<6, 3, 1, 0>> \o Encode(Str(tools[i].description)) \o <<1, 1>> \o Encode(tools[i].schema)
                    \o <<1, 2>> \o Encode(Str(tools[i].name))])

\* The same list as a value, with its fields in order.
ListValue(tools) ==
    [t |-> "obj", fields |-> <<Field(<<3>>,
       [t |-> "arr", items |-> [i \in DOMAIN tools |->
          [t |-> "obj", fields |-> <<Field(<<0>>, Str(tools[i].description)), Field(<<1>>, tools[i].schema),
                                     Field(<<2>>, Str(tools[i].name))>>]]])>>]

-----------------------------------------------------------------------------
(* The flat format: leaves in order, without names or nesting. *)

RECURSIVE FlatEncode(_), Leaves(_)

FlatEncode(v) ==
    CASE v.t = "arr" -> Flat([i \in DOMAIN v.items |-> FlatEncode(v.items[i])])
      [] v.t = "obj" -> Flat([i \in DOMAIN v.fields |-> FlatEncode(v.fields[i].val)])
      [] v.t \in {"float", "big"} -> <<5, v.n>>
      [] OTHER -> Encode(v)

\* What is left of a value: reference for the round trip.
Leaves(v) ==
    CASE v.t = "arr" -> Flat([i \in DOMAIN v.items |-> Leaves(v.items[i])])
      [] v.t = "obj" -> Flat([i \in DOMAIN v.fields |-> Leaves(v.fields[i].val)])
      [] v.t = "big" -> <<[t |-> "float", n |-> v.n]>>
      [] OTHER -> <<v>>

\* Faulty variant: a null takes a byte of data.
FlatDecodeWide(s) ==
    CASE s[1] = 4 -> Decoded(Null, 2)
      [] s[1] = 1 /\ Len(s) >= 2 -> Decoded([t |-> "str", bytes |-> SubSeq(s, 3, 2 + s[2])], 2 + s[2])
      [] s[1] = 2 -> Decoded([t |-> "int", n |-> s[2]], 2)
      [] s[1] = 5 -> Decoded([t |-> "float", n |-> s[2]], 2)
      [] s[1] = 3 -> Decoded([t |-> "bool", b |-> s[2] # 0], 2)

\* decode_flat_value.
FlatDecode(s) ==
    CASE s[1] = 4 -> Decoded(Null, 1)
      [] s[1] \notin 1..5 \/ (s[1] # 4 /\ Len(s) < 2) -> Bad
      [] s[1] = 1 /\ Len(s) >= 2 ->
           LET b == SubSeq(s, 3, 2 + s[2]) IN
           IF Len(s) < 2 + s[2] \/ ~Utf8(b) THEN Bad
           ELSE Decoded([t |-> "str", bytes |-> b], 2 + s[2])
      [] s[1] = 2 /\ Len(s) >= 2 -> Decoded([t |-> "int", n |-> s[2]], 2)
      [] s[1] = 5 /\ Len(s) >= 2 -> Decoded([t |-> "float", n |-> s[2]], 2)
      [] s[1] = 3 /\ Len(s) >= 2 -> Decoded([t |-> "bool", b |-> s[2] # 0], 2)

RECURSIVE FlatFieldsFrom(_, _)

FlatFieldsFrom(s, read) ==
    IF s = <<>> THEN read
    ELSE IF Len(read) >= MaxElements THEN <<Bad>>
    ELSE LET d == FlatDecode(s) IN
         IF d.ok THEN FlatFieldsFrom(From(s, d.used), Append(read, d.val)) ELSE <<Bad>>

\* The fields of parse_flat_request and parse_flat_response.
FlatFields(s) == FlatFieldsFrom(s, <<>>)

\* value_to_u64: the id of a flat request; a string that is no number becomes 0.
FlatId(v) == IF v.t \in {"int", "big"} THEN v.n ELSE 0

-----------------------------------------------------------------------------
CodecInit ==
    /\ value = NoValue /\ buf = <<>>
    /\ frame = NoFrame /\ request = NoFrame /\ intact = TRUE
    /\ merkle = TRUE
    /\ key = "none"

\* A peer encodes a value ...
EncodeValue ==
    /\ value = NoValue /\ buf = <<>>
    /\ value' \in {v \in Values : Encodable(v)} /\ buf' = Encode(value')
    /\ UNCHANGED <<frame, request, intact, merkle, key>>

\* ... or bytes arrive that nobody encoded.
ReceiveBytes ==
    /\ value = NoValue /\ buf = <<>>
    /\ buf' \in RawBuffers
    /\ UNCHANGED <<value, frame, request, intact, merkle, key>>

\* build_nda_request of the client, with the value as its data.
Build ==
    /\ value \in FrameValues /\ frame = NoFrame
    /\ \E m \in Methods, i \in {[t |-> "int", n |-> 1], [t |-> "str", bytes |-> <<0>>]} :
         LET r == [method |-> m, id |-> i, data |-> value]
             p == <<m>> \o ClientEncode(i) \o (IF value = Null THEN <<>> ELSE ClientEncode(value)) IN
         /\ request' = r
         /\ frame' = [magic |-> "NMCP", hash |-> Hash(p), payload |-> p, key |-> "none"]
    /\ UNCHANGED <<buf, value, intact, merkle, key>>

\* build_nda_encrypted_frame, with the key of the moment.
BuildEncrypted ==
    /\ value \in FrameValues /\ frame = NoFrame /\ key # "none"
    /\ \E m \in Methods :
         LET r == [method |-> m, id |-> [t |-> "int", n |-> 1], data |-> value]
             p == Payload(r, EncryptedFlag) IN
         /\ request' = r
         /\ frame' = [magic |-> "NMCE", hash |-> HashField(p), payload |-> p, key |-> key]
    /\ UNCHANGED <<buf, value, intact, merkle, key>>

\* A byte of the payload changes or is cut off on the way.
Damage ==
    /\ frame # NoFrame /\ intact
    /\ \E p \in {Front(frame.payload)}
                  \cup {[frame.payload EXCEPT ![i] = b] : i \in DOMAIN frame.payload, b \in {0, 1, 5, BadByte}}
                  \cup {Append(frame.payload, 4)} :
         frame' = [frame EXCEPT !.payload = p] /\ intact' = (p = frame.payload)
    /\ UNCHANGED <<buf, value, request, merkle, key>>

\* set_session_encryption_key, clear_session_key.
SetKey == key' \in Keys \cup {"none"} /\ UNCHANGED <<buf, value, frame, request, intact, merkle>>

\* set_merkle_enabled.
SetMerkle == merkle' = ~merkle /\ UNCHANGED <<buf, value, frame, request, intact, key>>

CodecNext ==
    \/ EncodeValue \/ ReceiveBytes
    \/ Build \/ BuildEncrypted \/ Damage
    \/ (value \in FrameValues /\ (SetKey \/ SetMerkle))

CodecSpec == CodecInit /\ [][CodecNext]_codecVars

-----------------------------------------------------------------------------
RECURSIVE Depth(_), WithinLimits(_), AsFloats(_)

Depth(v) ==
    CASE v.t = "arr" /\ v.items # <<>> -> 1 + Depth(Head(v.items))
      [] v.t = "obj" /\ v.fields # <<>> -> 1 + Depth(Head(v.fields).val)
      [] OTHER -> 0

WithinLimits(v) ==
    CASE v.t = "str" -> Len(v.bytes) <= MaxString
      [] v.t = "arr" -> Len(v.items) <= MaxElements /\ \A i \in DOMAIN v.items : WithinLimits(v.items[i])
      [] v.t = "obj" -> Len(v.fields) <= MaxElements
                          /\ \A i \in DOMAIN v.fields : WithinLimits(v.fields[i].val)
      [] OTHER -> TRUE

\* The value with its integers above i64::MAX as floats.
AsFloats(v) ==
    CASE v.t = "big" -> [t |-> "float", n |-> v.n]
      [] v.t = "arr" -> [v EXCEPT !.items = [i \in DOMAIN v.items |-> AsFloats(v.items[i])]]
      [] v.t = "obj" -> [v EXCEPT !.fields = [i \in DOMAIN v.fields |->
                                                [v.fields[i] EXCEPT !.val = AsFloats(@)]]]
      [] OTHER -> v

\* What one side encodes the other decodes to the same value, using every byte: the
\* server within its limits, the client always.
RoundTrip ==
    value # NoValue =>
        /\ ClientDecode(RegistryEncode(value)) = Decoded(AsFloats(value), Len(buf))
        /\ WithinLimits(value) /\ Depth(value) <= MaxDepth =>
               ServerDecode(buf) = Decoded(AsFloats(value), Len(buf))

\* The walk that decodes nothing takes exactly the bytes decoding takes, on every
\* buffer that decodes, also one nobody encoded.
SkipMirrorsDecode ==
    LET d == ServerDecode(buf) IN d.ok => SkipValue(buf) = d.used

\* A field taken out of an encoded object is the encoding of that field.
ExtractAsDecoded ==
    value # NoValue /\ value.t = "obj" /\ SkipValue(buf) # 0 =>
        \A i \in DOMAIN value.fields : Extract(buf, value.fields[i].key) = Encode(value.fields[i].val)

\* What the fields of an object say of a call: what serde_json's indexing would say.
CallOf(fields) ==
    LET at(k) == SelectSeq(fields, LAMBDA f : f.key = k)
        names == at(NameKey)  args == at(ArgumentsKey)
    IN [name |-> IF names # <<>> /\ names[1].val.t = "str" THEN names[1].val.bytes ELSE None,
        arguments |-> IF args # <<>> THEN Encode(args[1].val) ELSE <<>>]

\* A tools/call read in place has the name and the arguments that were encoded, in
\* whatever order and among whatever other fields.
CallAsEncoded ==
    value # NoValue /\ value.t = "obj" /\ SkipValue(buf) # 0 => CallFields(buf) = CallOf(value.fields)

\* The encoder and the four readers of a value agree with each other.
ValuesReturn == RoundTrip /\ SkipMirrorsDecode /\ ExtractAsDecoded /\ CallAsEncoded

\* A request is parsed as it was built or not at all, whatever happened to the
\* bytes, the key and the switch in between, as long as hashes are checked; the
\* two parsers agree on it, and the answer to it carries its id.
ParsedAsBuilt ==
    frame # NoFrame /\ merkle /\ frame.hash # ZeroHash =>
        LET p == Parse(frame)  q == ParseInplace(frame) IN
        p.ok =>
            /\ intact /\ frame.key \in {"none", key}
            /\ p.method = request.method /\ p.id = AsFloats(request.id) /\ p.data = AsFloats(request.data)
            /\ q.ok /\ q.method = p.method
            /\ ParseResponse(Respond(0, q.id, <<4>>)) =
                   [ok |-> TRUE, status |-> 0, id |-> p.id, result |-> Null]

\* With the hash switched off a damaged frame may be misread, but never accepted
\* with bytes left over.
NothingTrails ==
    frame # NoFrame /\ Parse(frame).ok =>
        LET p == frame.payload  i == ServerDecode(From(p, 1)) IN
        \/ 1 + i.used = Len(p)
        \/ 1 + i.used + ServerDecode(From(p, 1 + i.used)).used = Len(p)

\* The flat format keeps the leaves of the arguments in their order, or refuses more
\* of them than its limit.
FlatKeepsLeaves ==
    value # NoValue =>
        FlatFields(FlatEncode(value)) =
            IF Len(Leaves(value)) <= MaxElements THEN Leaves(value) ELSE <<Bad>>

\* A converted tool runs with the arguments it was converted with, and only under
\* its own name.
CachedArgsReturn ==
    value # NoValue /\ WithinLimits(value) /\ Depth(value) <= MaxDepth =>
        LET p == CacheEncode(<<1, 2>>, value) IN
        /\ CachedArgs(<<1, 2>>, p) = Decoded(AsFloats(value), Len(Encode(value)))
        /\ \A other \in {<<>>, <<1>>, <<2, 1>>} : ~CachedArgs(other, p).ok

\* The list encoded straight from the registry is byte for byte the encoded value,
\* so a client decodes the tools that were registered.
DirectListSame ==
    value # NoValue =>
        LET tools == <<[name |-> <<1>>, description |-> <<2, 3>>, schema |-> value]>> IN
        DirectList(tools) = Encode(ListValue(tools))

\* A frame reads back as it was built, whichever of the encodings and shortcuts made
\* and read it, and one with bytes missing, changed or left over is refused.
FramesReturn ==
    /\ ParsedAsBuilt /\ NothingTrails /\ FlatKeepsLeaves
    /\ CachedArgsReturn /\ DirectListSame

-----------------------------------------------------------------------------
(* Claims the code does not satisfy. *)

\* "TLV encoding preserves all JSON types and supports round-trip conversion": an
\* integer above i64::MAX comes back as a float, and a value beyond the decoder's
\* limits does not come back.
EveryValueReturns == value # NoValue => ServerDecode(buf) = Decoded(value, Len(buf))

\* What the walk accepts decodes: a string that is no UTF-8 does not.
DecodeMirrorsSkip == SkipValue(buf) # 0 => ServerDecode(buf).ok

\* The first field of a name is the one decoding keeps: it keeps the last.
ExtractAsDecodedAlways ==
    LET d == ServerDecode(buf) IN
    d.ok /\ d.val.t = "obj" =>
        \A i \in DOMAIN d.val.fields : Extract(buf, d.val.fields[i].key) = Encode(d.val.fields[i].val)

\* "Either field may be absent (None), matching serde_json indexing semantics": of a name
\* given twice, first as a string and then as something else, the first stays.
CallAsDecodedAlways ==
    LET d == ServerDecode(buf) IN d.ok /\ d.val.t = "obj" => CallFields(buf) = CallOf(d.val.fields)

\* Both parsers of a request agree: they differ on trailing bytes, and on the flag in
\* a plain frame.
ParsersAgree ==
    frame # NoFrame =>
        /\ Parse(frame).ok = ParseInplace(frame).ok
        /\ Parse(frame).ok => Parse(frame).method = ParseInplace(frame).method

\* A flat request carries its id: an id that is no number becomes 0.
FlatIdKept == frame # NoFrame => FlatId(request.id) = IF request.id.t = "int" THEN request.id.n ELSE -1
=============================================================================
