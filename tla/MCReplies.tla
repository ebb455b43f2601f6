------------------------------ MODULE MCReplies -----------------------------
(* Instances of Replies for TLC.                                            *)
EXTENDS ReplyProps, MCClient
=============================================================================
