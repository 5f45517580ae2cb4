----------------------------- MODULE EchoService -----------------------------
(***************************************************************************)
(* What a client of the echo server may rely on: it asks one request after *)
(* the other, and each is answered on its own connection, once and in      *)
(* order, until the connection is lost.                                    *)
(***************************************************************************)
EXTENDS Naturals, Sequences

CONSTANTS Clients,
          Requests   (* how many requests a client makes                     *)

VARIABLES asked,     (* requests made                                        *)
          got,       (* the answers, by the number of their request          *)
          up         (* the client has not given up                          *)

vars == <<asked, got, up>>

Init == /\ asked = [c \in Clients |-> 0]
        /\ got = [c \in Clients |-> <<>>]
        /\ up = [c \in Clients |-> TRUE]

Ask(c) == /\ up[c]
          /\ asked[c] = Len(got[c]) /\ asked[c] < Requests
          /\ asked' = [asked EXCEPT ![c] = @ + 1]
          /\ UNCHANGED <<got, up>>

Answer(c) == /\ up[c]
             /\ Len(got[c]) < asked[c]
             /\ got' = [got EXCEPT ![c] = Append(@, asked[c])]
             /\ UNCHANGED <<asked, up>>

GiveUp(c) == /\ up[c]
             /\ up' = [up EXCEPT ![c] = FALSE]
             /\ UNCHANGED <<asked, got>>

Next == \E c \in Clients : Ask(c) \/ Answer(c) \/ GiveUp(c)

Spec == Init /\ [][Next]_vars

\* A request is answered in the end, unless its client gives up.
FairSpec == Spec /\ \A c \in Clients : WF_vars(Answer(c))
=============================================================================
