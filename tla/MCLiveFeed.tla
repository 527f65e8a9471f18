----------------------------- MODULE MCLiveFeed -----------------------------
EXTENDS LiveFeed

CONSTANTS a, b, n, x

Advertising(address, name, rssi) ==
    [address |-> address, name |-> name, rssi |-> rssi,
     link |-> "advertising", type |-> 0]

\* A device that sends its name in some PDUs only, and another.
Air == {Advertising(a, n, -40), Advertising(a, NoName, -60), Advertising(b, NoName, -40)}

\* Beside them a data PDU: LLID 2, SN and NESN 0, so that its header's low
\* nibble is that of an ADV_NONCONN_IND.  x stands for its first six bytes.
AirWithData ==
    {Advertising(a, n, -40),
     [address |-> x, name |-> NoName, rssi |-> -50, link |-> "data", type |-> 2]}
=============================================================================
