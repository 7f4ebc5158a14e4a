-------------------------------- MODULE Jids --------------------------------
(***************************************************************************)
(* Addresses (lib/baileys_ex/protocol/jid.ex).  The text of an address is   *)
(* the tuple <<user, agent, device, server>> its parts spell, with an agent *)
(* or a device of 0 for one that is not written; a text without "@" is a    *)
(* shorter tuple.  The functions of the reference on the same texts         *)
(* (WABinary/jid-utils.ts, outside this repository) are those the runner    *)
(* needs, as it uses them.                                                  *)
(***************************************************************************)
EXTENDS Naturals, Sequences

SWhatsappNet == "s.whatsapp.net"

Jid(user, agent, device, server) == <<user, agent, device, server>>
User(user, server) == Jid(user, 0, 0, server)

EmptyText    == <<>>
TextWithoutAt(t) == <<t>>

IsJid(t) == Len(t) = 4

\* parse/1: nil for a text without "@"; a missing part is nil, here NoPart.
NoPart == <<>>
Part(n) == IF n = 0 THEN NoPart ELSE <<n>>

Parse(t) == [user |-> t[1], server |-> t[4], device |-> Part(t[3]), agent |-> Part(t[2])]

JidEncode(user, server, device, agent) == <<user, agent, device, server>>

\* normalized_user/1
NormalizedUser(t) ==
    IF ~IsJid(t) THEN EmptyText
    ELSE User(t[1], IF t[4] = "c.us" THEN SWhatsappNet ELSE t[4])

\* same_user?/2
SameUser(t, u) == IsJid(t) /\ IsJid(u) /\ t[1] # "" /\ t[1] = u[1]

IsUserOrLid(t) == IsJid(t) /\ t[4] \in {SWhatsappNet, "lid"}

-----------------------------------------------------------------------------
(* The reference. *)

DomainType(t) ==
    CASE t[4] = "lid"        -> 1
      [] t[4] = "hosted"     -> 128
      [] t[4] = "hosted.lid" -> 129
      [] OTHER               -> t[2]

\* jidDecode, for a text with "@".
RefDecode(t) == [user |-> t[1], server |-> t[4], device |-> Part(t[3]), domain |-> DomainType(t)]

RefNormalizedUser(t) ==
    IF ~IsJid(t) THEN EmptyText
    ELSE User(t[1], IF t[4] = "c.us" THEN SWhatsappNet ELSE t[4])

RefSameUser(t, u) == IsJid(t) /\ IsJid(u) /\ t[1] = u[1]
=============================================================================
