--------------------------- MODULE MCHttpRequests ---------------------------
(***************************************************************************)
(* Two requests of one signed-in user for any of the operations; the       *)
(* windows admit one search and one study at a time.                       *)
(***************************************************************************)
EXTENDS HttpRequests, TLC

CONSTANTS r1, r2, ada, proxy, peer

MCRequest == {r1, r2}
MCCaller == [r \in MCRequest |-> [user |-> ada, proxy |-> proxy, host |-> peer]]

=============================================================================
