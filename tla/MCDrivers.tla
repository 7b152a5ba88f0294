----------------------------- MODULE MCDrivers ------------------------------
(* Instances of Drivers: the lists of names are sequences.                 *)
EXTENDS Drivers

Udp == <<"udp">>
Both == <<"udp", "tcp">>
Rnd == <<"RND">>
Dctcp == <<"DCTCP">>
None == << >>
LowerCase == ("udp" :> "udp") @@ ("tcp" :> "tcp")
               @@ ("RND" :> "rnd") @@ ("DCTCP" :> "dctcp")
=============================================================================
