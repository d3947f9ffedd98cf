--------------------------- MODULE MaroonService ---------------------------
(***************************************************************************)
(* What the server of step11_ws_state_machine promises a client, without   *)
(* its machine: a request accepted at some time is answered by a fixed     *)
(* script of texts, each due at its own time; the texts are said in the    *)
(* order of the script, none is left out or said twice, and none is said   *)
(* before it is due.  The service may stop at any time.                    *)
(***************************************************************************)
EXTENDS Naturals, Sequences

CONSTANTS
  Clients, Offered, Instants,
  Script(_, _)   \* what is said in answer to a request, from its start on

VARIABLES
  clock,    \* the time
  request,  \* request[c]: <<>>, or what c asked for and when
  said,     \* said[c]: the texts of its script that c has been told
  stopped

serviceVars == <<clock, request, said, stopped>>

-----------------------------------------------------------------------------
ScriptOf(c) == IF request[c] = <<>> THEN <<>>
               ELSE Script(request[c].asked, request[c].start)

-----------------------------------------------------------------------------
Init ==
  /\ clock = 0
  /\ request = [c \in Clients |-> <<>>]
  /\ said = [c \in Clients |-> <<>>]
  /\ stopped = FALSE

Tick ==
  /\ clock' \in {t \in Instants : t > clock}
  /\ UNCHANGED <<request, said, stopped>>

Accept(c) ==
  /\ request[c] = <<>>
  /\ \E r \in Offered[c] :
       request' = [request EXCEPT ![c] = [asked |-> r, start |-> clock]]
  /\ UNCHANGED <<clock, said, stopped>>

Say(c) ==
  /\ Len(said[c]) < Len(ScriptOf(c))
  /\ ScriptOf(c)[Len(said[c]) + 1].at <= clock
  /\ said' = [said EXCEPT ![c] = Append(@, ScriptOf(c)[Len(@) + 1])]
  /\ UNCHANGED <<clock, request, stopped>>

Stop ==
  /\ stopped' = TRUE
  /\ UNCHANGED <<clock, request, said>>

Next == ~stopped /\ (Tick \/ Stop \/ \E c \in Clients : Accept(c) \/ Say(c))

Spec == Init /\ [][Next]_serviceVars
=============================================================================
