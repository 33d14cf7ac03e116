--------------------------------- MODULE MCTools ---------------------------------
(***************************************************************************)
(* Three invocations of any tools, with a host on the local subnet and one *)
(* behind the gateway.                                                     *)
(***************************************************************************)
EXTENDS Tools
==================================================================================
