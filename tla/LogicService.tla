---------------------------- MODULE LogicService ----------------------------
(***************************************************************************)
(* What the logic layer promises the sessions that post to it: messages    *)
(* are dealt with one at a time in the order they were posted, a message   *)
(* whose id has a callback is answered exactly once, any other is dropped, *)
(* and every message is dealt with unless a callback ends the process.     *)
(***************************************************************************)
EXTENDS Naturals, Sequences

CONSTANTS Msgs,      (* messages a session may post            *)
          Known,     (* those whose id has a callback          *)
          IllTyped   (* those that make their callback throw   *)

VARIABLES pending,   (* posted and not dealt with              *)
          replies,   (* answered, in the order of the answers  *)
          crashed    (* a callback has thrown                  *)

svars == <<pending, replies, crashed>>

SInit == /\ pending = <<>>
         /\ replies = <<>>
         /\ crashed = FALSE

SPost(m) == /\ ~crashed
            /\ pending' = Append(pending, m)
            /\ UNCHANGED <<replies, crashed>>

SDeal == /\ ~crashed
         /\ pending # <<>>
         /\ Head(pending) \notin IllTyped
         /\ pending' = Tail(pending)
         /\ replies' = IF Head(pending) \in Known
                       THEN Append(replies, Head(pending)) ELSE replies
         /\ UNCHANGED crashed

SCrash == /\ ~crashed
          /\ pending # <<>>
          /\ Head(pending) \in IllTyped
          /\ crashed' = TRUE
          /\ UNCHANGED <<pending, replies>>

SNext == (\E m \in Msgs : SPost(m)) \/ SDeal \/ SCrash

SSpec     == SInit /\ [][SNext]_svars
SFairSpec == SSpec /\ WF_svars(SDeal \/ SCrash)
=============================================================================
