--------------------------- MODULE FrameChannel ---------------------------
(***************************************************************************)
(* What a caller of wch_read_packets may rely on: every reportable BLE     *)
(* record the firmware emits reaches the packet callback exactly once, in  *)
(* the order of emission, however the USB stack cuts the byte stream into  *)
(* transfers.  An unbounded FIFO channel without loss.                     *)
(***************************************************************************)
EXTENDS Naturals, Sequences

CONSTANT Record           \* the payloads the firmware can report

VARIABLES sent,           \* every record emitted so far
          received        \* every record the callback has been given

vars == <<sent, received>>

Init == /\ sent = << >>
        /\ received = << >>

Send(r) == /\ sent' = Append(sent, r)
           /\ UNCHANGED received

Deliver == /\ Len(received) < Len(sent)
           /\ received' = Append(received, sent[Len(received) + 1])
           /\ UNCHANGED sent

Next == Deliver \/ \E r \in Record : Send(r)

Safety == Init /\ [][Next]_vars

Spec == Safety /\ WF_vars(Deliver)
===========================================================================
