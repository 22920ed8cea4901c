---------------------------- MODULE MCAvServices ----------------------------
(* Instances of AvServices for TLC. *)
EXTENDS AvServices, TLC

CONSTANTS p1, p2, t1, t2, c1

\* The boot thread or the page, a second request, and a command.
MCKinds == t1 :> {"ensure", "stop_x0x", "listener_start", "start_x0x"}
        @@ t2 :> {"ensure", "search", "stop"}
        @@ c1 :> {"command", "stop"}
=============================================================================
