-------------------------------- MODULE Relay --------------------------------
(***************************************************************************)
(* What a tunnel promises once it is established: two byte streams side by *)
(* side.  What is read from one peer is queued for the other, and a queue  *)
(* is delivered from its front; both directions are independent, until     *)
(* the relay begins to close.  Tunnel.tla is shown to implement this       *)
(* specification.                                                          *)
(***************************************************************************)
EXTENDS Naturals, Sequences

CONSTANTS Side, Token,
          Opening   \* what each side is sent before any payload

VARIABLES phase,      \* "setup", "flowing" or "closed"
          queue,      \* accepted for each side and not delivered yet
          delivered   \* delivered to each side, oldest first

relayVars == <<phase, queue, delivered>>

Init == phase = "setup" /\ queue = [s \in Side |-> <<>>]
                        /\ delivered = [s \in Side |-> <<>>]

\* The relay starts with the opening under way and, behind it, whatever the
\* peers were early with.
Starts ==
    /\ phase = "setup"
    /\ phase' = "flowing"
    /\ queue' \in [Side -> Seq(Token)]
    /\ delivered' \in [Side -> Seq(Token)]
    /\ \A s \in Side :
          Opening[s] = SubSeq(delivered'[s] \o queue'[s], 1, Len(Opening[s]))

Accepts(s, bs) ==
    /\ phase = "flowing"
    /\ queue' = [queue EXCEPT ![s] = @ \o bs]
    /\ UNCHANGED <<phase, delivered>>

Delivers(s, n) ==
    /\ phase = "flowing"
    /\ delivered' = [delivered EXCEPT ![s] = @ \o SubSeq(queue[s], 1, n)]
    /\ queue' = [queue EXCEPT ![s] = SubSeq(@, n + 1, Len(@))]
    /\ UNCHANGED phase

\* From here on the relay promises nothing.
Closes ==
    /\ phase' = "closed"
    /\ queue' = [s \in Side |-> <<>>]
    /\ delivered' = [s \in Side |-> <<>>]

\* The bytes accepted are what queue' has and queue does not.
Next ==
    \/ Starts
    \/ \E s \in Side :
          \/ Accepts(s, SubSeq(queue'[s], Len(queue[s]) + 1, Len(queue'[s])))
          \/ \E n \in 1 .. Len(queue[s]) : Delivers(s, n)
    \/ Closes

Spec == Init /\ [][Next]_relayVars
=============================================================================
