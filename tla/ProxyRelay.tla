------------------------------ MODULE ProxyRelay ------------------------------
(***************************************************************************)
(* A proxy session as two relays, one for the requests and one for the     *)
(* responses.  Data that the process adds is not the relays' business.     *)
(***************************************************************************)
EXTENDS ProxySession

\* The bytes of the peers among those of q, in their order.
OfPeers(q) ==
    LET kept[i \in 0..Len(q)] ==
            IF i = 0 THEN <<>>
            ELSE IF q[i] = 0 THEN kept[i - 1] ELSE Append(kept[i - 1], q[i])
    IN  kept[Len(q)]

Relayed(d) == OfPeers(deliv[d])

Requests == INSTANCE OrderedRelay
    WITH sent <- sent["req"], delivered <- Relayed("req"), open <- ~ses.closed

Responses == INSTANCE OrderedRelay
    WITH sent <- sent["res"], delivered <- Relayed("res"), open <- ~ses.closed

\* Each direction of the session is an ordered, complete relay until the
\* session closes (session.hpp 304-347, 490-517, 559-584).
RequestsRelayed == Requests!Spec
ResponsesRelayed == Responses!Spec
=============================================================================
