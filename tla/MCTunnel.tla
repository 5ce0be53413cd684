------------------------------ MODULE MCTunnel ------------------------------
(* Payloads and setups for Tunnel.                                         *)
EXTENDS Tunnel

CONSTANTS c1, c2, r1

Payloads == {c1, c2, r1}

\* A client that waits for each reply, with the operator freezing and thawing.
Waiting ==
    [client_data |-> <<c1, c2>>, remote_data |-> <<r1>>, family |-> 4,
     lockstep |-> TRUE, dial_at_once |-> TRUE, max_toggles |-> 2, may_stop |-> FALSE]

\* A client that says everything at once, an IPv6 remote.
Hasty ==
    [client_data |-> <<c1>>, remote_data |-> <<r1>>, family |-> 6,
     lockstep |-> FALSE, dial_at_once |-> TRUE, max_toggles |-> 0, may_stop |-> FALSE]

\* A proxy that may be stopped at any point.
Stopped ==
    [client_data |-> <<c1>>, remote_data |-> <<>>, family |-> 4,
     lockstep |-> TRUE, dial_at_once |-> FALSE, max_toggles |-> 0, may_stop |-> TRUE]

AllSetups == {Waiting, Hasty, Stopped}

\* The least that shows what is found about refusals and echoes.
Plain ==
    {[client_data |-> <<c1>>, remote_data |-> <<>>, family |-> 4,
      lockstep |-> TRUE, dial_at_once |-> FALSE, max_toggles |-> 0, may_stop |-> FALSE]}
=============================================================================
