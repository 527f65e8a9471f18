------------------------- MODULE MCConnectionFollow -------------------------
EXTENDS ConnectionFollow, Csa2

\* A CONNECT_IND of the tests, but CSA#1.
Good == [available |-> 36, type |-> 5, payload_len |-> 34,
         win_size_units |-> 2, win_offset_units |-> 3, interval_units |-> 6,
         peripheral_latency |-> 0, supervision_timeout_units |-> 500,
         channel_map |-> 0..36, hop_increment |-> 5,
         access_address |-> AdvertisingAccessAddress, chsel |-> FALSE]

Followed == {
    Good,
    [Good EXCEPT !.hop_increment = 16, !.channel_map = {0, 36}],
    [Good EXCEPT !.channel_map = {9, 10, 21, 22, 23, 33, 34, 35, 36}, !.chsel = TRUE],
    [Good EXCEPT !.hop_increment = 7, !.channel_map = {1, 2, 8}, !.chsel = TRUE,
                 !.win_offset_units = 6, !.win_size_units = 5]}

\* One for every check; each would be a different connection if it passed.
Refused == {
    [Good EXCEPT !.available = 1],
    [Good EXCEPT !.available = 35, !.hop_increment = 6],
    [Good EXCEPT !.type = 0],
    [Good EXCEPT !.payload_len = 33],
    [Good EXCEPT !.win_size_units = 9],
    [Good EXCEPT !.win_size_units = 6],
    [Good EXCEPT !.win_offset_units = 7],
    [Good EXCEPT !.interval_units = 5, !.win_offset_units = 0],
    [Good EXCEPT !.peripheral_latency = 500],
    [Good EXCEPT !.supervision_timeout_units = 9],
    [Good EXCEPT !.supervision_timeout_units = 12, !.peripheral_latency = 7],
    [Good EXCEPT !.channel_map = {1, 2, 37}],
    [Good EXCEPT !.channel_map = {3}],
    [Good EXCEPT !.hop_increment = 4],
    [Good EXCEPT !.hop_increment = 17]}

MCConnectInds == Followed \cup Refused

MCTimes == {0, 95, 195}
MCGuards == {<<0, 0>>, <<2, 3>>, <<150, 60>>}
=============================================================================
