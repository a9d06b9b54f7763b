------------------------------- MODULE MCOnion -------------------------------
(* Payloads of a few records, right and wrong, for Onion. *)
EXTENDS Onion

CONSTANT MaxRecords  \* bound on the records of a payload of arbitrary ones

R(t, v) == [type |-> t, value |-> v, long |-> FALSE]

\* The three usual records and everything that can be wrong with one
MCRecords ==
    {R(2, v) : v \in {<<1, 0>>, <<0, 1>>, <<>>, <<1, 0, 0, 0>>, <<1, 0, 0, 0, 0>>}}
    \cup {R(4, v) : v \in {<<3>>, <<1, 0, 0>>, <<1, 0, 0, 0>>}}
    \cup {R(6, v) : v \in {<<0, 0, 1, 7>>, <<1, 7>>}}
    \cup {R(t, <<1>>) : t \in {0, 3, 8, 10, 18, Base, Base + 1}}
    \cup {[R(3, <<1>>) EXCEPT !.long = TRUE]}

\* The payloads read at a final hop, and a few that can be relayed
MCFinal == BoundedSeq(MCRecords, MaxRecords)
MCRelay ==
    {<<R(2, <<1>>), R(4, <<3>>), R(6, <<0, 0, 1, 7>>)>> \o p : p \in
        {<<>>, <<R(7, <<>>)>>, <<R(8, <<1, 2>>)>>, <<R(8, <<1, 2>>), R(9, <<5>>)>>, <<R(10, <<>>)>>}}
    \cup {<<R(2, <<1>>), R(4, <<3>>)>>}
MCLast == {<<R(2, <<1>>), R(4, <<3>>)>> \o p : p \in
              {<<>>, <<R(7, <<>>)>>, <<R(8, <<1, 2>>)>>, <<R(8, <<1, 2, 3>>)>>, <<R(8, <<1, 2, 3, 4>>)>>}}

MCRoutes ==
    {<<p>> : p \in MCFinal \cup MCRelay} \cup {<<p, q>> : p \in MCRelay \cup MCLast, q \in MCLast \cup MCRelay}

MCDirects ==
    {[amount |-> a, cltv |-> c, secret |-> s] : a \in {0, 1, Base, Base^W64 - 1}, c \in {0, Base^W32 - 1},
         s \in {<<>>, <<1, 2>>}}

MCSymmetry == Permutations(Hashes)

MCCodes == {<<2, 0>>, <<0, 1>>}
=============================================================================
