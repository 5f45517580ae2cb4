---------------------------- MODULE SendService ----------------------------
(***************************************************************************)
(* What a session's write side promises those that call Send: a node is    *)
(* accepted while fewer than MAX_SENDQUE nodes wait and refused only if    *)
(* that many do, the peer gets the accepted ones whole and in the order of *)
(* the calls, and gets all of them as long as the connection works.  With  *)
(* exactly MAX_SENDQUE nodes waiting it may go either way: one that has    *)
(* gone out stays in the queue until its handler runs.                     *)
(***************************************************************************)
EXTENDS Naturals

CONSTANTS MAX_SENDQUE,
          MaxSends       (* bound on the calls of Send                       *)

VARIABLES accepted,      (* nodes accepted                                   *)
          refused,       (* nodes refused                                    *)
          delivered,     (* nodes the peer has got: the first ones accepted  *)
          up             (* the connection works                             *)

vars == <<accepted, refused, delivered, up>>

Waiting == accepted - delivered
MayCall == accepted + refused < MaxSends

Init == accepted = 0 /\ refused = 0 /\ delivered = 0 /\ up = TRUE

Accept == /\ MayCall /\ Waiting <= MAX_SENDQUE
          /\ accepted' = accepted + 1
          /\ UNCHANGED <<refused, delivered, up>>

Refuse == /\ MayCall /\ Waiting >= MAX_SENDQUE
          /\ refused' = refused + 1
          /\ UNCHANGED <<accepted, delivered, up>>

Deliver == /\ up /\ delivered < accepted
           /\ delivered' = delivered + 1
           /\ UNCHANGED <<accepted, refused, up>>

Lose == /\ up
        /\ up' = FALSE
        /\ UNCHANGED <<accepted, refused, delivered>>

Next == Accept \/ Refuse \/ Deliver \/ Lose

Spec == Init /\ [][Next]_vars

\* The next node goes out in the end, unless the connection fails.
FairSpec == Spec /\ WF_vars(Deliver)
=============================================================================
