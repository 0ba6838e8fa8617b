---------------------------- MODULE MCPacketPath ----------------------------
(***************************************************************************)
(* Small instances of PacketPath for TLC.  The mempools are the sockets 0  *)
(* and 1, named by strings; the buffers are model values.                  *)
(***************************************************************************)
EXTENDS PacketPath, TLC

CONSTANTS m1, m2, m3, m4, m5, c1, c2

Sockets == {"socket0", "socket1"}

\* Both sockets have buffers.
HomeMixed == [m \in {m1, m2, m3, m4, m5} |->
                IF m \in {m4, m5} THEN "socket1" ELSE "socket0"]

\* Every core on the socket of its port.
Aligned == c1 :> "socket0" @@ c2 :> "socket1"
AllOnZero == c1 :> "socket0" @@ c2 :> "socket0"

ToPort == c1 :> "port" @@ c2 :> "port"
PortAndKni == c1 :> "port" @@ c2 :> "kni"

=============================================================================
