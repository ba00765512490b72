----------------------------- MODULE PinningMC ------------------------------
(***************************************************************************)
(* Pinning for TLC: starts before leap days, centuries and the turn of the *)
(* year, and configs whose entries expire in those days.                   *)
(***************************************************************************)
EXTENDS Pinning

CONSTANTS k1, k2, k3

Site == <<"example", ".", "com">>
Plain(n) == [name |-> n, as |-> "plain"]
Shouted(n) == [name |-> n, as |-> "padded and in upper case"]
Pin(h, sub, pins, e) == [host |-> h, sub |-> sub, pins |-> pins, expiration |-> e]

FewNames ==
    {[name |-> n, ip |-> FALSE] :
        n \in {Site, <<"a", ".">> \o Site, <<"b", ".", "a", ".">> \o Site, <<"not">> \o Site,
               <<"com">>}}
    \cup {[name |-> Site, ip |-> TRUE]}

FewChains == {<<k1>>, <<k3, k2>>, <<Bad, k1>>, <<k3, Bad>>, <<k3>>}

FewStarts ==
    {Date(1970, 1, 1), Date(1972, 2, 28), Date(1999, 12, 30), Date(2000, 2, 28),
     Date(2001, 2, 27), Date(2100, 2, 27)}

FewConfigs ==
    {<<>>,
     <<Pin(Shouted(Site), TRUE, <<k1, k2>>, Never)>>,
     <<Pin(Plain(Site), FALSE, <<k1>>, Never), Pin(Plain(<<"a", ".">> \o Site), TRUE, <<k2>>, Date(1972, 2, 29))>>,
     <<Pin(Plain(Site), TRUE, <<k2>>, Date(2000, 3, 1)), Pin(Shouted(Site), TRUE, <<k1>>, Date(2000, 2, 29))>>,
     <<Pin(Plain(Site), TRUE, <<k1>>, Date(1969, 12, 31)), Pin(Plain(Site), FALSE, <<k2>>, Date(2100, 3, 1))>>,
     <<Pin(Plain(Site), TRUE, <<k1>>, Date(2000, 1, 1))>>}
    \cup {<<Pin(Plain(Site), TRUE, <<k1>>, d)>> :
             d \in {Date(2100, 2, 29), Date(2000, 2, 30), Date(2001, 2, 29), Date(2001, 4, 31),
                    Date(2001, 13, 1), Date(2001, 0, 1), Date(2001, 1, 0), Date(2001, 12, 32)}}
    \cup {<<Pin(Plain(Site), TRUE, <<k1>>, Never), e>> :
             e \in {Pin(Plain(<<>>), TRUE, <<k1>>, Never), Pin(Plain(Site), TRUE, <<>>, Never),
                    Pin(Plain(Site), TRUE, <<k1, Bad>>, Never)}}
=============================================================================
