-------------------------- MODULE MCSessionServer --------------------------
(* Small instances of SessionServer for TLC. *)
EXTENDS SessionServer, TLC

CONSTANTS a, b, c1, c2

\* Two clients; one client that connects twice, with another role.
OneEach     == c1 :> a @@ c2 :> b
Reconnect   == c1 :> a @@ c2 :> a
Controllers == c1 :> "controller" @@ c2 :> "controller"
WithAdmin   == c1 :> "controller" @@ c2 :> "admin"
WithViewer  == c1 :> "viewer" @@ c2 :> "admin"
=============================================================================
