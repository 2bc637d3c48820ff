---------------------------- MODULE MCMsgSession ----------------------------
(* Two messages, two connections, room for one message in each direction and  *)
(* two indications: the sockets fill, a blocking request meets another         *)
(* message, and the session is opened again.                                   *)
EXTENDS MsgSession

=============================================================================
