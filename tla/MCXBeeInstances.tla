-------------------------- MODULE MCXBeeInstances --------------------------
(* XBeeInstances with one connection that has a callback: two instances with  *)
(* the thread that starts callback threads.                                   *)
EXTENDS XBeeInstances

HandlerThread == <<"handler">>
=============================================================================
