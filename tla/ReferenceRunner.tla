-------------------------- MODULE ReferenceRunner --------------------------
(***************************************************************************)
(* What one run of dev/tools/run_baileys_reference.mts makes of a request:  *)
(* for every operation, when it throws and what it answers otherwise.  The  *)
(* functions of the reference it calls (codecs, ciphers, the content        *)
(* builder) lie outside this repository and are injective tags here.        *)
(***************************************************************************)
EXTENDS JsonNode, Jids, SequencesExt

CONSTANTS
    Available,      \* [events, globals]: the definitions the reference holds
    WallClock       \* the time Date.now gives when it is not replaced

Strings(in, fields) == \A f \in fields : IsString(Field(in, f))

\* A node as its answer.
NodeAnswer(n) == Obj([node |-> NormalizeJsonNode(n)])

OptionalString(v) == IF IsString(v) THEN v[2] ELSE <<>>

Child(tag, attrs) == Node(tag, attrs, NoContent)

-----------------------------------------------------------------------------
(* Binary nodes and addresses. *)

WABinaryEncodeThrows(in) ==
    LET node == Field(in, "node")
    IN  ~IsJsonNode(node) \/ ~DecodableContent(Field(node[2], "content"))

WABinaryEncode(in) == Obj([encoded_hex |-> Str(<<"wire", DecodeJsonNode(in.node)>>)])

WABinaryDecodeThrows(in) == ~Strings(in, {"encoded_hex"})

WABinaryDecode(in) == NodeAnswer(in.encoded_hex[2][2])

JidDecodeThrows(in) == ~Strings(in, {"jid"})

\* normalizeDecodedJid: only a domain that is a real agent is shown as one.
OptionalNum(p) == IF p = NoPart THEN Null ELSE Num(p[1])

NormalizeDecodedJid(t) ==
    IF ~IsJid(t) THEN Null
    ELSE LET d == RefDecode(t)
         IN  Obj([user   |-> Str(d.user),
                  server |-> Str(d.server),
                  device |-> OptionalNum(d.device),
                  agent  |-> IF d.domain > 1 /\ d.domain < 128 THEN Num(d.domain) ELSE Null])

JidDecode(in) == Obj([jid |-> NormalizeDecodedJid(in.jid[2])])

JidEncodeThrows(in) ==
    \/ ~Strings(in, {"server"})
    \/ LET user == Field(in, "user")
       IN  ~Absent(user) /\ ~IsString(user) /\ ~IsNumber(user)
    \/ \E f \in {"device", "agent"} :
          ~Absent(Field(in, f)) /\ ~IsNumber(Field(in, f))

JidEncodeAnswer(in) ==
    LET number(f) == IF Absent(Field(in, f)) THEN 0 ELSE in[f][2]
        user == IF Absent(Field(in, "user")) THEN "" ELSE in.user[2]
    IN  Obj([jid |-> Str(JidEncode(user, in.server[2], number("device"), number("agent")))])

JidNormalizedUser(in) == Obj([jid |-> Str(RefNormalizedUser(in.jid[2]))])

JidSameUserThrows(in) == ~Strings(in, {"jid1", "jid2"})

JidSameUser(in) == Obj([same_user |-> <<"boolean", RefSameUser(in.jid1[2], in.jid2[2])>>])

-----------------------------------------------------------------------------
(* Pairing by code. *)

\* Keys and ciphertexts are terms over what they are computed from.
PairingKey(code, salt) == <<"pbkdf2", code, salt>>

DerivePairingKeyThrows(in) == ~Strings(in, {"pairing_code", "salt_base64"})

FromBase64(v) == v[2][2]

DerivePairingKey(in) ==
    Obj([key_hex |-> Str(PairingKey(in.pairing_code[2], FromBase64(in.salt_base64)))])

BuildPairingRequestThrows(in) ==
    \/ ~Strings(in, {"pairing_code", "phone_number", "pairing_ephemeral_public_base64",
                     "noise_public_base64", "salt_base64", "iv_base64"})
    \/ ~IsObject(Field(in, "browser"))
    \/ ~Strings(in.browser[2], {"platform_name", "browser"})

BuildPairingRequest(in) ==
    LET salt    == FromBase64(in.salt_base64)
        iv      == FromBase64(in.iv_base64)
        browser == in.browser[2].browser[2]
        key     == PairingKey(in.pairing_code[2], salt)
        wrapped == <<"ctr", key, iv, FromBase64(in.pairing_ephemeral_public_base64)>>
        part(tag, content) == Node(tag, NoAttrs, content)
    IN  Obj([pairing_code |-> in.pairing_code,
             node |-> NormalizeJsonNode(
               Node("iq", [to |-> SWhatsappNet, type |-> "set", xmlns |-> "md"], Nodes(<<
                 Node("link_code_companion_reg",
                      [jid   |-> User(in.phone_number[2], SWhatsappNet),
                       stage |-> "companion_hello",
                       should_show_push_notification |-> "true"], Nodes(<<
                   part("link_code_pairing_wrapped_companion_ephemeral_pub",
                        Bytes(<<salt, iv, wrapped>>)),
                   part("companion_server_auth_key_pub", Bytes(FromBase64(in.noise_public_base64))),
                   part("companion_platform_id", Text(<<"platform", browser>>)),
                   part("companion_platform_display",
                        Text(<<browser, in.browser[2].platform_name[2]>>)),
                   part("link_code_pairing_nonce", Text("0"))>>))>>)))])

-----------------------------------------------------------------------------
(* Message content: withOptionalDateNow replaces the clock for the call.    *)

Clock(now) == IF IsNumber(now) THEN now[2] ELSE WallClock

\* generateWAMessageContent: only limitSharing stamps its content.
GenerateContent(content, clock) ==
    [content |-> content, secret |-> <<>>,
     stamp |-> IF "limitSharing" \in DOMAIN content THEN clock ELSE 0]

Secret(in) == Field(in, "message_secret_base64")

MessageContentThrows(in) ==
    \/ ~IsObject(Field(in, "content"))
    \/ ~Absent(Secret(in)) /\ ~IsString(Secret(in))

MessageContent(in) ==
    LET message == GenerateContent(in.content[2], Clock(Field(in, "now_ms")))
    IN  Obj([message_hex |-> Str(
            IF Absent(Secret(in)) THEN message
            ELSE [message EXCEPT !.secret = FromBase64(Secret(in))])])

-----------------------------------------------------------------------------
(* Presence. *)

WithoutAt(name) == SelectSeq(name, LAMBDA c : c # "@")

Availability == {"available", "unavailable"}

\* The address a chat state is sent from, empty where the caller has none.
ChatstateFrom(in) ==
    OptionalString(Field(in, IF in.to_jid[2][4] = "lid" THEN "me_lid" ELSE "me_id"))

PresenceSendThrows(in) ==
    \/ ~Strings(in, {"type"})
    \/ /\ in.type[2] \notin Availability
       /\ \/ ~Strings(in, {"to_jid"})
          \/ ~IsJid(in.to_jid[2])
          \/ ChatstateFrom(in) = <<>>

PresenceSend(in) ==
    LET type == in.type[2]
        name == OptionalString(Field(in, "me_name"))
    IN  IF type \in Availability
        THEN IF name = <<>> THEN Obj([node |-> Null])
             ELSE NodeAnswer(Child("presence", [name |-> WithoutAt(name), type |-> type]))
        ELSE NodeAnswer(
               Node("chatstate", [from |-> ChatstateFrom(in), to |-> in.to_jid[2]],
                    Nodes(<<IF type = "recording" THEN Child("composing", [media |-> "audio"])
                            ELSE Child(type, NoAttrs)>>)))

\* buildReferenceTcTokenContent: a key store that holds the token under the
\* normalised address, and buildTcTokenFromJid of the reference over it.
TokenThrows(in) ==
    LET token == Field(in, "tc_token_base64")
        time  == Field(in, "tc_token_timestamp")
    IN  \/ ~Absent(token) /\ ~IsString(token)
        \/ time # Undefined /\ ~IsString(time)

RefTcToken(token, time) == Node("tctoken", [t |-> time], Bytes(token))

TokenNodes(in) ==
    IF Absent(Field(in, "tc_token_base64")) THEN <<>>
    ELSE <<RefTcToken(FromBase64(in.tc_token_base64), Field(in, "tc_token_timestamp")[2])>>

ContentOf(nodes) == IF nodes = <<>> THEN NoContent ELSE Nodes(nodes)

PresenceSubscribeThrows(in) == ~Strings(in, {"to_jid", "message_tag"}) \/ TokenThrows(in)

PresenceSubscribe(in) ==
    NodeAnswer(Node("presence",
                    [to |-> in.to_jid[2], id |-> in.message_tag[2], type |-> "subscribe"],
                    ContentOf(TokenNodes(in))))

Attr(n, a) == IF a \in DOMAIN n.attrs THEN n.attrs[a] ELSE <<>>
Has(n, a, v) == a \in DOMAIN n.attrs /\ n.attrs[a] = v

\* The first child that tells a chat state, as a set of at most one node.
Chatstate(n) ==
    IF n.content[1] = "nodes" /\ n.content[2] # <<>> THEN {n.content[2][1]} ELSE {}

PresenceParseThrows(in) ==
    \/ WABinaryEncodeThrows(in)
    \/ LET n == DecodeJsonNode(in.node)
       IN  \/ Attr(n, "from") = <<>>
           \/ n.tag # "presence" /\ Chatstate(n) = {}

\* "last" is <<"time", n>> where it spells a number and one word where not:
\* "deny" is skipped and NaN is written as null.
LastSeen(n) == IF Len(Attr(n, "last")) = 2 THEN Num(Attr(n, "last")[2]) ELSE Null

ParsePresenceUpdate(n) ==
    LET child == CHOOSE c \in Chatstate(n) : TRUE
        known == IF n.tag = "presence"
                 THEN IF Has(n, "type", "unavailable") THEN "unavailable" ELSE "available"
                 ELSE IF Has(child, "media", "audio") THEN "recording"
                 ELSE IF child.tag = "paused" THEN "available" ELSE child.tag
        seen  == IF n.tag = "presence" THEN LastSeen(n) ELSE Null
        who   == IF Attr(n, "participant") = <<>> THEN Attr(n, "from") ELSE Attr(n, "participant")
    IN  Obj([id |-> Str(Attr(n, "from")),
             presences |-> Obj([p \in {who} |->
                 Obj([last_known_presence |-> Str(known), last_seen |-> seen])])])

PresenceParse(in) == Obj([update |-> ParsePresenceUpdate(DecodeJsonNode(in.node))])

-----------------------------------------------------------------------------
(* Profile picture, privacy and analytics. *)

ProfilePictureThrows(in) ==
    \/ ~Strings(in, {"jid", "type"})
    \/ in.type[2] \notin {"preview", "image"}
    \/ TokenThrows(in)

\* buildProfilePictureQueryContent of the reference nests the token nodes.
ProfilePicture(in) ==
    NodeAnswer(Node("iq", [target |-> RefNormalizedUser(in.jid[2]), to |-> SWhatsappNet,
                           type |-> "get", xmlns |-> "w:profile:picture"],
                    Nodes(<<Node("picture", [type |-> in.type[2], query |-> "url"],
                                 ContentOf(TokenNodes(in)))>>)))

PrivacyQueryThrows(in) == ~Strings(in, {"name", "value"})

PrivacyQuery(in) ==
    NodeAnswer(Node("iq", [xmlns |-> "privacy", to |-> SWhatsappNet, type |-> "set"],
                    Nodes(<<Node("privacy", NoAttrs,
                      Nodes(<<Child("category", [name |-> in.name[2], value |-> in.value[2]])>>))>>)))

RegistryCounts == Obj([events |-> Num(Available.events), globals |-> Num(Available.globals)])

IsPair(v) == IsArray(v) /\ Len(v[2]) = 2 /\ IsString(v[2][1])

\* normalizeOrderedPairs and Object.fromEntries: a repeated name keeps its
\* first place and takes its last value; anything but a list counts as none.
PairsThrow(v) == IsArray(v) /\ \E i \in DOMAIN v[2] : ~IsPair(v[2][i])

FromEntries(v) ==
    IF ~IsArray(v) THEN <<>>
    ELSE LET pairs    == [i \in DOMAIN v[2] |-> [name |-> v[2][i][2][1][2], value |-> v[2][i][2][2]]]
             first(i) == \A j \in 1..(i - 1) : pairs[j].name # pairs[i].name
             last(i)  == CHOOSE j \in DOMAIN pairs :
                            /\ pairs[j].name = pairs[i].name
                            /\ \A k \in DOMAIN pairs : pairs[k].name = pairs[i].name => k <= j
             firsts   == SelectSeq([i \in DOMAIN pairs |-> i], first)
         IN  [k \in DOMAIN firsts |-> pairs[last(firsts[k])]]

WAMEvents(in) == IF IsArray(Field(in, "events")) THEN in.events[2] ELSE <<>>

WAMEncodeThrows(in) ==
    \/ ~IsNumber(Field(in, "sequence"))
    \/ \E i \in DOMAIN WAMEvents(in) :
          LET e == WAMEvents(in)[i]
          IN  \/ ~IsObject(e)
              \/ ~Strings(e[2], {"name"})
              \/ PairsThrow(Field(e[2], "props"))
              \/ PairsThrow(Field(e[2], "globals"))

WAMEncode(in) ==
    Obj([wam_hex |-> Str(<<in.sequence[2],
        [i \in DOMAIN WAMEvents(in) |->
            LET e == WAMEvents(in)[i][2]
            IN  [name    |-> e.name[2],
                 props   |-> FromEntries(Field(e, "props")),
                 globals |-> FromEntries(Field(e, "globals"))]]>>)])

-----------------------------------------------------------------------------
(* runOperation and main. *)

Throws(op, in) ==
    CASE op = "wabinary.encode"              -> WABinaryEncodeThrows(in)
      [] op = "wabinary.decode"              -> WABinaryDecodeThrows(in)
      [] op \in {"jid.decode", "jid.normalized_user"} -> JidDecodeThrows(in)
      [] op = "jid.encode"                   -> JidEncodeThrows(in)
      [] op = "jid.same_user"                -> JidSameUserThrows(in)
      [] op = "auth.derive_pairing_code_key" -> DerivePairingKeyThrows(in)
      [] op = "auth.build_pairing_request"   -> BuildPairingRequestThrows(in)
      [] op = "message.generate_content"     -> MessageContentThrows(in)
      [] op = "feature.presence_send"        -> PresenceSendThrows(in)
      [] op = "feature.presence_subscribe"   -> PresenceSubscribeThrows(in)
      [] op = "feature.presence_parse"       -> PresenceParseThrows(in)
      [] op = "feature.profile_picture_query" -> ProfilePictureThrows(in)
      [] op = "feature.privacy_query"        -> PrivacyQueryThrows(in)
      [] op = "wam.encode"                   -> WAMEncodeThrows(in)
      [] op = "wam.registry_counts"          -> FALSE
      [] OTHER                               -> TRUE

Answer(op, in) ==
    CASE op = "wabinary.encode"              -> WABinaryEncode(in)
      [] op = "wabinary.decode"              -> WABinaryDecode(in)
      [] op = "jid.decode"                   -> JidDecode(in)
      [] op = "jid.normalized_user"          -> JidNormalizedUser(in)
      [] op = "jid.encode"                   -> JidEncodeAnswer(in)
      [] op = "jid.same_user"                -> JidSameUser(in)
      [] op = "auth.derive_pairing_code_key" -> DerivePairingKey(in)
      [] op = "auth.build_pairing_request"   -> BuildPairingRequest(in)
      [] op = "message.generate_content"     -> MessageContent(in)
      [] op = "feature.presence_send"        -> PresenceSend(in)
      [] op = "feature.presence_subscribe"   -> PresenceSubscribe(in)
      [] op = "feature.presence_parse"       -> PresenceParse(in)
      [] op = "feature.profile_picture_query" -> ProfilePicture(in)
      [] op = "feature.privacy_query"        -> PrivacyQuery(in)
      [] op = "wam.encode"                   -> WAMEncode(in)
      [] op = "wam.registry_counts"          -> RegistryCounts

\* parseRequest, over what JSON.parse returned.
WellFormed(request) ==
    /\ IsObject(request)
    /\ IsString(Field(request[2], "operation"))
    /\ IsObject(Field(request[2], "input"))

\* What main writes and exits with.
Response(request) ==
    IF WellFormed(request) /\ ~Throws(request[2].operation[2], request[2].input[2])
    THEN [ok |-> TRUE, status |-> 0,
          result |-> Answer(request[2].operation[2], request[2].input[2])]
    ELSE [ok |-> FALSE, status |-> 1]
=============================================================================
