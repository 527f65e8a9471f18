--------------------------- MODULE MCFrameStream ---------------------------
(***************************************************************************)
(* Small instances of FrameStream: payloads of at most four bytes, data    *)
(* records of at least two bytes (channel, marker).                        *)
(***************************************************************************)
EXTENDS FrameStream

Data(payload) == [type |-> 16, payload |-> payload]
Status(payload) == [type |-> 1, payload |-> payload]
Unknown(payload) == [type |-> 2, payload |-> payload]
Junk(bytes) == [type |-> Noise, payload |-> bytes]

\* Frames that look like frame headers inside, empty and short ones, both
\* kinds of rejected record, bytes between frames and an oversized length.
MCFrames ==
    { Data(<<2, 0>>),
      Data(<<21, 0, 85, 16>>),
      Data(<<3, 1>>),
      Data(<<40, 0>>),
      Data(<<>>),
      Status(<<85, 1, 0, 0>>),
      Unknown(<<0>>),
      Junk(<<85, 16, 9, 0>>) }

\* They can be told apart in the stream.
ASSUME Distinguishable == \A e \in MCFrames : Known(e) \/ Quiet(e)

\* A frame of an unknown type that holds the header of a data frame.
MCNested ==
    { Data(<<1, 0>>), Unknown(<<85, 16, 4, 0>>) }

\* Records without the magic byte.
MCPlain ==
    { Data(<<1, 0, 7>>), Data(<<2, 0>>) }
============================================================================
