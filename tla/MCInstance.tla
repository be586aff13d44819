----------------------------- MODULE MCInstance -----------------------------
(***************************************************************************)
(* The instance of Instance for TLC: settings as the two templates give    *)
(* them (the .env file on the host, the process environment in a           *)
(* container), and one with a port of 0.                                   *)
(***************************************************************************)
EXTENDS Instance

Nothing == [s \in Settings |-> "unset"]
Template == [host |-> "x", port |-> "1", ttl |-> "1", flag |-> "false"]

OnHost == [file |-> Template, shell |-> Nothing]
InContainer == [file |-> Nothing, shell |-> Template]
PortZero == [file |-> Nothing, shell |-> [Template EXCEPT !["port"] = "0"]]

Deployments == {OnHost, InContainer, PortZero}
=============================================================================
