--------------------------- MODULE MCConversation ---------------------------
(* Model values for Conversation: a1 and s1 are of one thread. *)
EXTENDS Conversation, TLC

CONSTANTS a1, s1, s2, t1, t2

MCThreadOf == a1 :> t1 @@ s1 :> t1 @@ s2 :> t2
=============================================================================
