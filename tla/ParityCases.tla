---------------------------- MODULE ParityCases ----------------------------
(***************************************************************************)
(* The cases of the parity suite (test/baileys_ex/parity): what a test      *)
(* passes to the program and to the runner, and the answer it expects.  The *)
(* suite holds one or two inputs for each operation; the sets here widen    *)
(* them to every type, kind of address and stored token a caller has.       *)
(***************************************************************************)
EXTENDS ReferenceRunner, ParityPeers

-----------------------------------------------------------------------------
(* Cases: what a test passes to the runner and to the program.              *)

Case(op, input, peer) == [op |-> op, input |-> input, peer |-> peer]

\* The answer a test expects to be the runner's: the node it was sent, or null.
NodeOf(peer) ==
    IF peer = Refused THEN Refused
    ELSE IF peer = Nothing THEN Obj([node |-> Null])
    ELSE Obj([node |-> NormalizeBinaryNode(peer[2])])

PresenceSendCase(type, to, me) ==
    Case("feature.presence_send",
         [type |-> Str(type), to_jid |-> Str(to), me_id |-> Str(me.id),
          me_lid |-> Str(me.lid), me_name |-> Str(me.name)],
         NodeOf(SendUpdate(type, to, me)))

TokenInput(tokens, jid) ==
    IF NormalizedUser(jid) \notin DOMAIN tokens THEN [x \in {} |-> {}]
    ELSE [tc_token_base64    |-> Str(Base64(tokens[NormalizedUser(jid)].token)),
          tc_token_timestamp |-> Str(tokens[NormalizedUser(jid)].time)]

PresenceSubscribeCase(to, tokens) ==
    Case("feature.presence_subscribe",
         [to_jid |-> Str(to), message_tag |-> Str("tag")] @@ TokenInput(tokens, to),
         NodeOf(Subscribe(to, "tag", tokens)))

PresenceParseCase(n) ==
    Case("feature.presence_parse", [node |-> NormalizeBinaryNode(n)],
         LET peer == HandleUpdate(n)
         IN  IF peer = Refused THEN Refused ELSE Obj([update |-> peer[2]]))

ProfilePictureCase(jid, type, tokens) ==
    Case("feature.profile_picture_query",
         [jid |-> Str(jid), type |-> Str(type)] @@ TokenInput(tokens, jid),
         NodeOf(PictureUrl(jid, type, tokens)))

PrivacyCase(name, value) ==
    Case("feature.privacy_query", [name |-> Str(name), value |-> Str(value)],
         NodeOf(PrivacyQueryNode(name, value)))

PairingKeyCase(code, salt) ==
    Case("auth.derive_pairing_code_key",
         [pairing_code |-> Str(code), salt_base64 |-> Str(Base64(salt))],
         Obj([key_hex |-> Str(DerivePairingCodeKey(code, salt))]))

PairingRequestCase(code, phone, public, noise, salt, iv, browser, platform) ==
    Case("auth.build_pairing_request",
         [pairing_code |-> Str(code), phone_number |-> Str(phone),
          pairing_ephemeral_public_base64 |-> Str(Base64(public)),
          noise_public_base64 |-> Str(Base64(noise)),
          salt_base64 |-> Str(Base64(salt)), iv_base64 |-> Str(Base64(iv)),
          browser |-> Obj([platform_name |-> Str(platform), browser |-> Str(browser)])],
         Obj([pairing_code |-> Str(code),
              node |-> NormalizeBinaryNode(
                         CompanionHello(phone, GeneratePairingKey(code, public, salt, iv),
                                        noise, browser, platform)[2])]))

\* A reaction is sent without the secret, which the runner would add to it.
MessageCase(content, now, secret) ==
    Case("message.generate_content",
         [content |-> Obj(content), now_ms |-> Num(now)]
           @@ IF "react" \in DOMAIN content THEN [x \in {} |-> {}]
              ELSE [message_secret_base64 |-> Str(Base64(secret))],
         Obj([message_hex |-> Str(Build(content, now, secret))]))

\* normalize_jid/1 of the suite.
JidDecodeCase(t) ==
    Case("jid.decode", [jid |-> Str(t)],
         Obj([jid |-> IF ~IsJid(t) THEN Null
                      ELSE LET j == Parse(t)
                           IN  Obj([user |-> Str(j.user), server |-> Str(j.server),
                                    device |-> OptionalNum(j.device),
                                    agent |-> OptionalNum(j.agent)])]))

JidEncodeCase(user, server, device, agent) ==
    Case("jid.encode", [user |-> Str(user), server |-> Str(server),
                        device |-> device, agent |-> agent],
         LET number(v) == IF Absent(v) THEN 0 ELSE v[2]
         IN  Obj([jid |-> Str(JidEncode(user, server, number(device), number(agent)))]))

JidNormalizedCase(t) ==
    Case("jid.normalized_user", [jid |-> Str(t)], Obj([jid |-> Str(NormalizedUser(t))]))

JidSameUserCase(t, u) ==
    Case("jid.same_user", [jid1 |-> Str(t), jid2 |-> Str(u)],
         Obj([same_user |-> <<"boolean", SameUser(t, u)>>]))


\* The codec of the program gives the wire form the reference reads.
EncodeCase(n) ==
    Case("wabinary.encode", [node |-> NormalizeBinaryNode(n)],
         Obj([encoded_hex |-> Str(<<"wire", n>>)]))

DecodeCase(n) ==
    Case("wabinary.decode", [encoded_hex |-> Str(<<"wire", n>>)],
         Obj([node |-> NormalizeBinaryNode(n)]))

WAMCase(name, props) ==
    LET pairs == [i \in DOMAIN props |-> Arr(<<Str(props[i].name), props[i].value>>)]
    IN  Case("wam.encode",
             [sequence |-> Num(7),
              events   |-> Arr(<<Obj([name |-> Str(name), props |-> Arr(pairs)])>>)],
             Obj([wam_hex |-> Str(<<7, <<[name |-> name, props |-> props, globals |-> <<>>]>>>>)]))

\* A request no function of the program makes: the runner throws.
BadCase(op, input) == Case(op, input, Refused)

-----------------------------------------------------------------------------
(* Their inputs. *)

Alice == User("alice", SWhatsappNet)
AliceLid == User("alice", "lid")
Group == User("group", "g.us")
AliceDevice == Jid("alice", 0, 2, "c.us")
AliceAgent == Jid("alice", 8, 3, SWhatsappNet)
NotAJid == TextWithoutAt("alice")

Addresses == {Alice, AliceLid, Group, AliceDevice, AliceAgent}

Me(id, lid, name) == [id |-> id, lid |-> lid, name |-> name]
Name == <<"J", "@", "B">>
Selves == {Me(Alice, AliceLid, Name), Me(EmptyText, AliceLid, Name),
           Me(Alice, EmptyText, Name), Me(Alice, AliceLid, <<>>)}

NoTokens == [j \in {} |-> {}]
Tokens == {NoTokens, Alice :> [token |-> <<"token">>, time |-> "later"]}

Chatstates == {<<>>} \union
    {<<Node(tag, attrs, NoContent)>> :
        tag \in {"composing", "recording", "paused", "available"},
        attrs \in {NoAttrs, [media |-> "audio"]}}

Froms == {NoAttrs, [from |-> Group], [from |-> Alice],
          [from |-> Group, participant |-> AliceAgent]}

PresenceNodes ==
    {Node("presence", [from |-> Alice] @@ t @@ l, NoContent) :
        t \in {NoAttrs, [type |-> "unavailable"]},
        l \in {NoAttrs, [last |-> <<"deny">>], [last |-> <<"soon">>], [last |-> <<"time", 5>>]}}
    \union {Node("chatstate", [from |-> Group, participant |-> AliceAgent],
                 IF c = <<>> THEN NoContent ELSE Nodes(c)) : c \in Chatstates}
    \union {Node(tag, f, Nodes(<<Child("paused", NoAttrs)>>)) :
                tag \in {"presence", "chatstate"}, f \in Froms}

WireNodes ==
    {Node("iq", [type |-> "get"], c) : c \in
        {NoContent, Text("ping"), Bytes(<<"b">>), Nodes(<<Child("ping", NoAttrs)>>),
         Nodes(<<Node("a", NoAttrs, Bytes(<<"b">>)), Node("b", NoAttrs, Text("t"))>>)}}

\* The operations of each test module; a caller may also ask for others.
OperationsOf(module) ==
    CASE module = "auth"     -> {"auth.derive_pairing_code_key", "auth.build_pairing_request"}
      [] module = "message"  -> {"message.generate_content"}
      [] module = "wam"      -> {"wam.registry_counts", "wam.encode", "unknown"}
      [] module = "feature"  -> {"feature.presence_send", "feature.presence_subscribe",
                                 "feature.presence_parse", "feature.profile_picture_query",
                                 "feature.privacy_query"}
      [] module = "protocol" -> {"wabinary.encode", "wabinary.decode", "jid.decode",
                                 "jid.encode", "jid.normalized_user", "jid.same_user"}

CasesOf(op) ==
    CASE op = "wabinary.encode" ->
             {EncodeCase(n) : n \in WireNodes} \union
             {BadCase(op, [node |-> v]) : v \in {Null, Obj([content |-> Null]),
                 Obj([tag |-> Str("iq"), content |-> Num(1)])}}
      [] op = "wabinary.decode" -> {DecodeCase(n) : n \in WireNodes}
      [] op = "jid.decode" -> {JidDecodeCase(t) : t \in Addresses \union {NotAJid}}
      [] op = "jid.encode" ->
             {JidEncodeCase("alice", SWhatsappNet, d, a) : d \in {Null, Num(3)}, a \in {Null, Num(8)}}
      [] op = "jid.normalized_user" ->
             {JidNormalizedCase(t) : t \in Addresses \union {NotAJid}}
      [] op = "jid.same_user" ->
             {JidSameUserCase(t, u) : t \in {Alice, Group}, u \in Addresses}
      [] op = "auth.derive_pairing_code_key" ->
             {PairingKeyCase("CODE", <<"salt">>), BadCase(op, [pairing_code |-> Str("CODE")])}
      [] op = "auth.build_pairing_request" ->
             {PairingRequestCase("CODE", "alice", <<"pub">>, <<"noise">>, <<"salt">>, <<"iv">>,
                                 "Chrome", "Mac OS")}
      [] op = "message.generate_content" ->
             {MessageCase(c, now, <<"secret">>) : now \in {1, 2},
                c \in {[text |-> "hello"], [react |-> "fire"], [limitSharing |-> "on"]}}
      [] op = "feature.presence_send" ->
             {PresenceSendCase(t, EmptyText, me) : t \in Availability, me \in Selves} \union
             {PresenceSendCase(t, to, me) : t \in {"composing", "recording", "paused"},
                 to \in {Alice, AliceLid, NotAJid}, me \in Selves}
      [] op = "feature.presence_subscribe" ->
             {PresenceSubscribeCase(to, k) : to \in Addresses, k \in Tokens}
      [] op = "feature.presence_parse" -> {PresenceParseCase(n) : n \in PresenceNodes}
      [] op = "feature.profile_picture_query" ->
             {ProfilePictureCase(j, t, k) : j \in Addresses, t \in {"preview"}, k \in Tokens} \union
             {ProfilePictureCase(Alice, "image", NoTokens)}
      [] op = "feature.privacy_query" ->
             {PrivacyCase(n, v) : n \in {"readreceipts"}, v \in {"all", "none"}}
      [] op = "wam.encode" ->
             {WAMCase("Dropped", <<[name |-> "code", value |-> Num(5)],
                                   [name |-> "sys", value |-> Num(1)]>>),
              WAMCase("Dropped", <<>>)}
      [] op = "wam.registry_counts" -> {Case(op, NoAttrs, RegistryCounts)}
      [] OTHER -> {BadCase(op, NoAttrs)}
=============================================================================
