---------------------------- MODULE ParityPeers ----------------------------
(***************************************************************************)
(* The functions of the program that the parity suite holds against the     *)
(* reference: presence, profile picture and privacy (lib/.../feature), the  *)
(* companion hello (auth/phone.ex) and message content (message/builder.ex).*)
(* Each gives the node it hands to the connection, Nothing where it hands   *)
(* over none, or Refused where it returns an error.                         *)
(***************************************************************************)
EXTENDS JsonNode, Jids

Nothing == <<"nothing">>
Refused == <<"refused">>
Sent(n) == <<"sent", n>>

-----------------------------------------------------------------------------
(* feature/presence.ex *)

AvailabilityNode(name, type) ==
    Node("presence", [name |-> SelectSeq(name, LAMBDA c : c # "@"), type |-> type], NoContent)

ChatstateNode(from, to, type) ==
    Node("chatstate", [from |-> from, to |-> to],
         Nodes(<<IF type = "recording" THEN Node("composing", [media |-> "audio"], NoContent)
                 ELSE Node(type, NoAttrs, NoContent)>>))

\* chatstate_from_jid/2 and required_from_jid/1, the empty text for an error
ChatstateFromJid(to, me) ==
    IF ~IsJid(to) THEN EmptyText ELSE IF Parse(to).server = "lid" THEN me.lid ELSE me.id

\* send_update/4
SendUpdate(type, to, me) ==
    IF type \in {"available", "unavailable"}
    THEN IF me.name = <<>> THEN Nothing ELSE Sent(AvailabilityNode(me.name, type))
    ELSE LET from == ChatstateFromJid(to, me)
         IN  IF from = EmptyText THEN Refused ELSE Sent(ChatstateNode(from, to, type))

\* build_content/4 of feature/tc_token.ex; "tokens" maps addresses to the
\* stored token and its time.
BuildContent(tokens, jid) ==
    IF jid \notin DOMAIN tokens THEN NoContent
    ELSE Nodes(<<Node("tctoken", [t |-> tokens[jid].time], Bytes(tokens[jid].token))>>)

TokenContent(tokens, jid) == IF IsUserOrLid(jid) THEN BuildContent(tokens, jid) ELSE NoContent

\* subscribe/3
Subscribe(to, tag, tokens) ==
    Sent(Node("presence", [to |-> to, id |-> tag, type |-> "subscribe"],
              TokenContent(tokens, NormalizedUser(to))))

AttrOf(n, a) == IF a \in DOMAIN n.attrs THEN n.attrs[a] ELSE EmptyText
IsAttr(n, a, v) == a \in DOMAIN n.attrs /\ n.attrs[a] = v

ChildPresenceTypeTag(child) ==
    IF IsAttr(child, "media", "audio") THEN "recording" ELSE child.tag

ChildPresenceType(child) ==
    IF IsAttr(child, "media", "audio") THEN "recording"
    ELSE IF child.tag \in {"unavailable", "recording", "composing"} THEN child.tag
    ELSE "available"

\* handle_update/2 for a node that is not ignored, as the suite writes it.
HandleUpdate(n) ==
    LET from == AttrOf(n, "from")
        who  == IF "participant" \in DOMAIN n.attrs THEN n.attrs.participant ELSE from
        last == AttrOf(n, "last")
        update(known, seen) ==
            Obj([id |-> Str(from), presences |-> Obj([p \in {who} |->
                   Obj([last_known_presence |-> Str(known), last_seen |-> seen])])])
    IN  IF from = EmptyText THEN Refused
        ELSE IF n.tag = "presence"
        THEN Sent(update(IF IsAttr(n, "type", "unavailable") THEN "unavailable" ELSE "available",
                         IF Len(last) = 2 THEN Num(last[2]) ELSE Null))
        ELSE IF n.content[1] = "nodes" /\ n.content[2] # <<>>
        THEN Sent(update(ChildPresenceType(n.content[2][1]), Null))
        ELSE Refused

-----------------------------------------------------------------------------
(* feature/profile.ex and feature/privacy.ex *)

\* picture_url/4, for an account whose own addresses are not the target
PictureUrl(jid, type, tokens) ==
    LET target == NormalizedUser(jid)
    IN  Sent(Node("iq", [target |-> target, to |-> SWhatsappNet, type |-> "get",
                         xmlns |-> "w:profile:picture"],
                  Nodes(<<Node("picture", [type |-> type, query |-> "url"],
                               TokenContent(tokens, target))>>)))

PrivacyQueryNode(name, value) ==
    Sent(Node("iq", [xmlns |-> "privacy", to |-> SWhatsappNet, type |-> "set"],
              Nodes(<<Node("privacy", NoAttrs,
                  Nodes(<<Node("category", [name |-> name, value |-> value], NoContent)>>))>>)))

-----------------------------------------------------------------------------
(* auth/phone.ex *)

DerivePairingCodeKey(code, salt) == <<"pbkdf2", code, salt>>

GeneratePairingKey(code, public, salt, iv) ==
    <<salt, iv, <<"ctr", DerivePairingCodeKey(code, salt), iv, public>>>>

\* companion_hello_node/4
CompanionHello(phone, wrapped, noise, browser, platform) ==
    Sent(Node("iq", [to |-> SWhatsappNet, type |-> "set", xmlns |-> "md"],
      Nodes(<<Node("link_code_companion_reg",
        [jid |-> JidEncode(phone, SWhatsappNet, 0, 0), stage |-> "companion_hello",
         should_show_push_notification |-> "true"],
        Nodes(<<
          Node("link_code_pairing_wrapped_companion_ephemeral_pub", NoAttrs, Bytes(wrapped)),
          Node("companion_server_auth_key_pub", NoAttrs, Bytes(noise)),
          Node("companion_platform_id", NoAttrs, Text(<<"platform", browser>>)),
          Node("companion_platform_display", NoAttrs, Text(<<browser, platform>>)),
          Node("link_code_pairing_nonce", NoAttrs, Text("0"))>>))>>)))

-----------------------------------------------------------------------------
(* message/builder.ex: build/2 for text, reactions and limit_sharing.  The  *)
(* reporting secret goes to every content but a reaction.                   *)

Build(content, now, secret) ==
    [content |-> content,
     stamp   |-> IF "limitSharing" \in DOMAIN content THEN now ELSE 0,
     secret  |-> IF "react" \in DOMAIN content THEN <<>> ELSE secret]
=============================================================================
