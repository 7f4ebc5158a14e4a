--------------------------- MODULE SessionRecord ---------------------------
(***************************************************************************)
(* The sessions kept for one peer (lib/baileys_ex/signal/session_record.ex):*)
(* a function from base keys to sessions, of which this module reads only   *)
(* the field "closed": 0 while the session is open, afterwards the time of  *)
(* its closing.                                                             *)
(***************************************************************************)
EXTENDS Naturals, FiniteSets, Functions

CONSTANT MaxClosed      \* @max_closed_sessions

ASSUME MaxClosedAssumption == MaxClosed \in Nat

EmptyRecord == [b \in {} |-> {}]

OpenSessions(r) == {b \in DOMAIN r : r[b].closed = 0}

ClosedSessions(r) == DOMAIN r \ OpenSessions(r)

\* The session get_open_session/1 finds, as a set of at most one base key.
OpenSession(r) ==
    IF OpenSessions(r) = {} THEN {} ELSE {CHOOSE b \in OpenSessions(r) : TRUE}

PutSession(r, b, s) == [k \in DOMAIN r \union {b} |-> IF k = b THEN s ELSE r[k]]

ClosedLater(r, b) == {c \in ClosedSessions(r) : r[c].closed > r[b].closed}

\* Too many sessions: the open one and the MaxClosed last closed stay.
Trimmed(r) ==
    IF Cardinality(DOMAIN r) <= MaxClosed + 1 THEN r
    ELSE Restrict(r, OpenSessions(r) \union
             {b \in ClosedSessions(r) : Cardinality(ClosedLater(r, b)) < MaxClosed})

\* close_open_session/2
CloseOpenSession(r, now) ==
    IF OpenSession(r) = {} THEN r
    ELSE Trimmed([b \in DOMAIN r |-> IF b \in OpenSession(r)
                                     THEN [r[b] EXCEPT !.closed = now] ELSE r[b]])
=============================================================================
