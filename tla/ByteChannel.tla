---------------------------- MODULE ByteChannel ----------------------------
(***************************************************************************)
(* What a server connection promises its peer (spec section 7, "outbound  *)
(* frames to a given recipient are preserved in the order queueSend was   *)
(* called"): the bytes the peer receives are always a prefix of the bytes *)
(* written, in order, none lost, duplicated or invented while the         *)
(* connection is open.  A write that fails may leave part of its bytes    *)
(* written and closes the channel; once closed, bytes not yet received    *)
(* may be dropped.                                                         *)
(***************************************************************************)
EXTENDS Sequences, SequencesExt

VARIABLES
  sent,   \* every byte written, in order
  recv,   \* the bytes the peer has received
  open    \* the connection is not closing

Init ==
  /\ sent = <<>>
  /\ recv = <<>>
  /\ open = TRUE

\* A write appends its bytes; a failing one appends some and closes.
Write ==
  /\ open
  /\ IsPrefix(sent, sent')
  /\ open' \in BOOLEAN
  /\ UNCHANGED recv

Close ==
  /\ open
  /\ open' = FALSE
  /\ UNCHANGED <<sent, recv>>

\* The peer receives more of what was written.
Deliver ==
  /\ Len(recv') > Len(recv)
  /\ IsPrefix(recv', sent)
  /\ UNCHANGED <<sent, open>>

\* After close, bytes not received yet may be dropped.
Discard ==
  /\ ~open
  /\ IsPrefix(sent', sent)
  /\ IsPrefix(recv, sent')
  /\ UNCHANGED <<recv, open>>

Next == Write \/ Close \/ Deliver \/ Discard

Spec == Init /\ [][Next]_<<sent, recv, open>>

=============================================================================
