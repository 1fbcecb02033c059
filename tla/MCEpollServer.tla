---------------------------- MODULE MCEpollServer ----------------------------
(* Two connections on two descriptors, requests that arrive in two pieces   *)
(* and a send buffer smaller than a response.                               *)
EXTENDS EpollServer
=============================================================================
