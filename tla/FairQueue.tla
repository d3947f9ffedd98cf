----------------------------- MODULE FairQueue -----------------------------
(***************************************************************************)
(* The queue of those who wait for a fair tokio primitive: the Mutex of    *)
(* step11, the slots of a bounded channel in step07 and step12.  Who asks  *)
(* comes last (Append), who is served leaves first (Tail), and a future    *)
(* that is dropped while it waits leaves from where it stands (Without).   *)
(***************************************************************************)
EXTENDS Naturals, Sequences

Members(queue) == {queue[i] : i \in DOMAIN queue}

(* Nobody stands in the queue twice.                                       *)
Distinct(queue) ==
  \A i, j \in DOMAIN queue : queue[i] = queue[j] => i = j

(* The queue once `a`, which waits in it, has left.                        *)
Without(queue, a) ==
  LET place == CHOOSE i \in DOMAIN queue : queue[i] = a
  IN SubSeq(queue, 1, place - 1) \o SubSeq(queue, place + 1, Len(queue))
=============================================================================
