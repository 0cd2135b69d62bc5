------------------------------ MODULE MCNodeState ------------------------------
(***************************************************************************)
(* NodeState with counters of a few values.  The frames are the ACKs for   *)
(* every ID/Seq pair, one ACK for a neighbour, the legacy POLL, an uplink  *)
(* of a neighbour, an ACK with a wrong direction and a damaged ACK.        *)
(***************************************************************************)
EXTENDS NodeState

Message(type, source, destination, id, seq, payload) ==
  [type |-> type, source |-> source, destination |-> destination,
   transaction_id |-> id, sequence |-> seq, payload |-> payload]

Intact(m) == [message |-> m, intact |-> TRUE]

MCFrames ==
  { Intact(Message(ACK, 0, NodeAddress, id, seq, << >>)) : id \in Ids, seq \in Seqs }
    \cup
  { Intact(Message(ACK, 0, NodeAddress + 1, 0, 0, << >>)),
    Intact(Message(ACK, NodeAddress + 1, NodeAddress, 0, 0, << >>)),
    Intact(Message(POLL, 0, NodeAddress, 0, 0, << >>)),
    Intact(Message(DATA, NodeAddress + 1, 0, 0, 0, <<0, 0, 0, 0>>)),
    [message |-> Message(ACK, 0, NodeAddress, 0, 0, << >>), intact |-> FALSE] }
================================================================================
