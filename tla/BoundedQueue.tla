--------------------------- MODULE BoundedQueue ---------------------------
(***************************************************************************)
(* What every buffer of the SoC promises its two sides: a queue of at most *)
(* Cap items, read in the order they were written.  One step is one clock  *)
(* edge; in it the writer may put an item, the reader may take the oldest  *)
(* one (an item put in the same cycle included, when Through is TRUE), and *)
(* the queue may be flushed.  inp and out are the items put and taken in   *)
(* the last step, or Nothing.                                              *)
(***************************************************************************)
EXTENDS Naturals, Sequences

CONSTANTS Data,     \* items
          Nothing,  \* "no item"
          Cap,      \* capacity
          Through   \* may an item be taken in the cycle it is put?

VARIABLES q, inp, out

vars == <<q, inp, out>>

TypeOK == /\ q \in Seq(Data)
          /\ Len(q) <= Cap
          /\ inp \in Data \cup {Nothing}
          /\ out \in Data \cup {Nothing}

Init == q = <<>> /\ inp = Nothing /\ out = Nothing

Idle == q' = q /\ inp' = Nothing /\ out' = Nothing

Put(d) == /\ Len(q) < Cap
          /\ q' = Append(q, d)
          /\ inp' = d
          /\ out' = Nothing

Take == /\ q # <<>>
        /\ q' = Tail(q)
        /\ inp' = Nothing
        /\ out' = Head(q)

PutTake(d) == /\ Len(q) < Cap
              /\ Through \/ q # <<>>
              /\ q' = Tail(Append(q, d))
              /\ inp' = d
              /\ out' = Head(Append(q, d))

\* A flush discards the content; a reader that takes in the same cycle still
\* gets the oldest item.
Flush == /\ q' = <<>>
         /\ inp' \in Data \cup {Nothing}
         /\ inp' # Nothing => Len(q) < Cap
         /\ \/ out' = Nothing
            \/ q # <<>> /\ out' = Head(q)
            \/ q = <<>> /\ Through /\ inp' # Nothing /\ out' = inp'

Next == \/ Idle
        \/ \E d \in Data : Put(d) \/ PutTake(d)
        \/ Take
        \/ Flush

Spec == Init /\ [][Next]_vars
============================================================================
