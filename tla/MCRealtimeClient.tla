-------------------------- MODULE MCRealtimeClient --------------------------
(***************************************************************************)
(* One page, two fetches, one restart of the server: the constants are     *)
(* numbers and are given in the configurations.                            *)
(***************************************************************************)
EXTENDS RealtimeClient

=============================================================================
