-------------------------- MODULE SignalAddresses --------------------------
(***************************************************************************)
(* Session addresses (lib/baileys_ex/signal/address.ex) and the mapping of  *)
(* phone numbers to linked identities (signal/lid_mapping_store.ex).        *)
(***************************************************************************)
EXTENDS Jids, FiniteSets, TLC

NoAddress == <<"invalid">>

WhatsappServers == {SWhatsappNet, "c.us", "lid", "hosted", "hosted.lid"}

\* Device 99 is a hosted one.
Unhosted(t) == t[3] = 99 /\ t[4] \notin {"hosted", "hosted.lid"}

\* resolve_domain_type/2
DomainTypeForServer(server) ==
    CASE server = "lid"        -> 1
      [] server = "hosted"     -> 128
      [] server = "hosted.lid" -> 129
      [] OTHER                 -> 0

ResolveDomainType(t) ==
    IF DomainTypeForServer(t[4]) = 0 THEN t[2] ELSE DomainTypeForServer(t[4])

\* from_jid/1: <<user, domain type, device>> spells the name and the device.
FromJid(t) ==
    IF ~IsJid(t) \/ t[4] \notin WhatsappServers \/ Unhosted(t) THEN NoAddress
    ELSE <<t[1], ResolveDomainType(t), t[3]>>

-----------------------------------------------------------------------------
(* A mapping is a pair of functions, from users of phone numbers to users   *)
(* of linked identities and back.                                           *)

NoMappings == [forward |-> <<>>, reverse |-> <<>>]

IsPn(t) == IsJid(t) /\ t[4] \in {SWhatsappNet, "c.us", "hosted"}
IsLid(t) == IsJid(t) /\ t[4] = "lid"

\* store_lid_pn_mappings/2 for one pair, given either way round.
StoreMapping(s, pair) ==
    LET store(pn, lid) == [forward |-> (pn[1] :> lid[1]) @@ s.forward,
                           reverse |-> (lid[1] :> pn[1]) @@ s.reverse]
    IN  IF IsLid(pair.lid) /\ IsPn(pair.pn) THEN store(pair.pn, pair.lid)
        ELSE IF IsLid(pair.pn) /\ IsPn(pair.lid) THEN store(pair.lid, pair.pn)
        ELSE s

\* get_lid_for_pn/2 and build_lid/2, without a lookup; EmptyText for nil.
LidForPn(s, pn) ==
    IF ~IsPn(pn) \/ pn[1] \notin DOMAIN s.forward THEN EmptyText
    ELSE Jid(s.forward[pn[1]], 0, pn[3], IF pn[4] = "hosted" THEN "hosted.lid" ELSE "lid")

\* get_pn_for_lid/2 and build_pn/2
PnForLid(s, lid) ==
    IF ~IsLid(lid) \/ lid[1] \notin DOMAIN s.reverse THEN EmptyText
    ELSE Jid(s.reverse[lid[1]], 0, lid[3], SWhatsappNet)
=============================================================================
