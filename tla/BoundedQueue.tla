---------------------------- MODULE BoundedQueue ----------------------------
(***************************************************************************)
(* What an offline buffer promises: messages come out in the order in      *)
(* which they were put in, each at most once, and no more than Size are    *)
(* kept; what is put into a full queue is lost, and a restart empties it.  *)
(***************************************************************************)
EXTENDS Naturals, Sequences

CONSTANTS Messages, Size, Nothing

VARIABLES
  items,  \* the messages, the oldest first
  taken   \* the last one that was taken, Nothing if there is none

QueueInit == items = <<>> /\ taken = Nothing

Put(m) == Len(items) < Size /\ items' = Append(items, m) /\ UNCHANGED taken

TakeOut == items # <<>> /\ taken' = Head(items) /\ items' = Tail(items)

Clear == items' = <<>> /\ taken' = Nothing

QueueNext == (\E m \in Messages : Put(m)) \/ TakeOut \/ Clear

QueueSpec == QueueInit /\ [][QueueNext]_<<items, taken>>
=============================================================================
