-------------------------- MODULE ReliableChannel --------------------------
(***************************************************************************)
(* What one direction of a net_chan_t promises to the code above it        *)
(* (net_chan.c): the commands that were added to chan->message come out of *)
(* Netchan_Process at the other end in the order they were written, each   *)
(* at most once and none skipped, several at a time, however the datagrams *)
(* in between are lost, duplicated or reordered.                           *)
(***************************************************************************)
EXTENDS Integers, Sequences

CONSTANT Commands      \* The reliable commands that can be written.

VARIABLES written,     \* The commands written at the sending end, in order.
          read         \* The commands read at the receiving end, in order.

vars == <<written, read>>

Init == written = <<>> /\ read = <<>>

(* The sender adds a command to the stream. *)
Write(c) ==
  /\ written' = Append(written, c)
  /\ UNCHANGED read

(* The receiver reads the next commands of the stream, and no others. *)
Read ==
  /\ \E n \in Len(read) .. Len(written) : read' = SubSeq(written, 1, n)
  /\ UNCHANGED written

Next == Read \/ \E c \in Commands : Write(c)

Spec == Init /\ [][Next]_vars
=============================================================================
