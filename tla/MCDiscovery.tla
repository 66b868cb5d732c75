---------------------------- MODULE MCDiscovery -----------------------------
(* Instances of Discovery for TLC. *)
EXTENDS Discovery

At(scheme, host, port) == [scheme |-> scheme, host |-> host, port |-> port]

SomeSchemes == {"", "http", "https", "ftp"}
SomeHosts == {"", "localhost", "lan"}
OnlyLocal == {"localhost"}
TwoPorts == 0..2
GnarlyApp == At("http", "localhost", 1)

\* A client that was told where to go, and one that has to look, in both
\* directories, in one of them or in none.
Told ==
    [addr : {{}, {Blank}, {At("", "lan", 1)}, {At("http", "lan", 1)}, {At("https", "lan", 0)}},
     url : {At("http", "lan", 2)}, searched : {{1}},
     token : {{}, {""}, {"given"}}, envToken : {"env"}]
Looking ==
    [addr : {{}}, url : {Blank}, searched : {{}, {2}, {1, 2}},
     token : {{}}, envToken : {"env"}]
ToldOrLooking == Told \cup Looking

\* Another scheme, no host, no port, and a network address in the clear.
BadRecords ==
    {At("ftp", "localhost", 1), At("https", "", 1), At("https", "localhost", 0),
     At("http", "lan", 2)}
=============================================================================
