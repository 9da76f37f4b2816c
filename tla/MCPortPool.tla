---------------------------- MODULE MCPortPool ----------------------------
(* Small instances of PortPool for TLC. *)
EXTENDS PortPool

CONSTANTS e1, e2, ssh, a

\* Specs in which enabling ssh puts a name in front of one that has a port.
SshLate == {<<>>, <<a>>, <<ssh, a>>}

\* One exposure, on or off.
SshOnly == {<<>>, <<ssh>>}
=============================================================================
