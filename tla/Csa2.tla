-------------------------------- MODULE Csa2 --------------------------------
(***************************************************************************)
(* The pseudo-random number of Channel Selection Algorithm #2.  A 32-bit   *)
(* access address is the pair of its upper and lower 16 bits.              *)
(***************************************************************************)
EXTENDS Integers, Bitwise, FiniteSetsExt, SequencesExt

BitOf(x, i) == (x \div 2^i) % 2

reverse_bits8(value) ==
    MapThenSumSet(LAMBDA i : BitOf(value, i) * 2^(7 - i), 0..7)

csa2_permute(value) ==
    reverse_bits8(value % 256) + 256 * reverse_bits8(value \div 256)

csa2_mam(a, b) == (17 * a + b) % 65536

ble_csa2_channel_identifier(access_address) ==
    access_address[1] ^^ access_address[2]

PrnE(access_address, event_counter) ==
    LET id == ble_csa2_channel_identifier(access_address)
        Round(prn, round) == csa2_mam(csa2_permute(prn), id)
    IN  FoldLeft(Round, event_counter ^^ id, <<1, 2, 3>>) ^^ id

AdvertisingAccessAddress == <<36489, 48854>>    \* 0x8E89, 0xBED6

\* The Bluetooth SIG's sample data, as the driver's tests quote it.
ASSUME SampleData ==
    LET Prn(counter) == PrnE(AdvertisingAccessAddress, counter)
    IN  /\ ble_csa2_channel_identifier(AdvertisingAccessAddress) = 12383
        /\ [n \in 0..3 |-> Prn(n)] = (0 :> 56857 @@ 1 :> 1685 @@ 2 :> 38301 @@ 3 :> 27475)
        /\ [n \in 6..8 |-> Prn(n)] = (6 :> 10975 @@ 7 :> 5490 @@ 8 :> 46970)
        /\ [n \in 11..13 |-> Prn(n)] = (11 :> 8628 @@ 12 :> 34748 @@ 13 :> 22072)
============================================================================
