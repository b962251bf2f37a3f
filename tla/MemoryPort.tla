---------------------------- MODULE MemoryPort ----------------------------
(***************************************************************************)
(* What the memories promise the bus: requests are answered once, in the   *)
(* order they were accepted, and a read is answered with the word its      *)
(* address held when the read was accepted.  The programmer may load a     *)
(* word too.  An address in Shadow is answered with a word of ShadowWords  *)
(* instead (the boot register over the DCCM).                              *)
(***************************************************************************)
EXTENDS Naturals, Sequences

CONSTANTS Lanes, Shadow, ShadowWords, Cap, Nothing

VARIABLES treq,   \* request [op, addr, mask, data] on the bus, or Nothing
          load,   \* the programmer's write [addr, data], or Nothing
          store,  \* word at each address
          pend,   \* answers owed to the bus, oldest first
          out     \* answer the bus took in the last cycle, or Nothing

vars == <<treq, load, store, pend, out>>

Zero == [l \in Lanes |-> 0]

Init == pend = <<>> /\ out = Nothing

\* What the accepted request is answered with.
ReadWords == IF treq.addr \in Shadow THEN ShadowWords ELSE {store[treq.addr]}
Answers   == [op : {treq.op}, data : IF treq.op = "Get" THEN ReadWords ELSE {Zero}]

\* rest: what remains owed after this cycle's answer.
Accept(rest) == /\ treq # Nothing
                /\ Len(pend) < Cap
                /\ \E ans \in Answers : pend' = Append(rest, ans)

Refuse(rest) == /\ pend' = rest
                /\ treq # Nothing => treq' = treq

Stored == IF treq.op = "Get" THEN store
          ELSE [store EXCEPT ![treq.addr] =
                  [l \in Lanes |-> IF l \in treq.mask THEN treq.data[l] ELSE @[l]]]

Loaded(s) == IF load = Nothing THEN s ELSE [s EXCEPT ![load.addr] = load.data]

Cycle(rest) == \/ Accept(rest) /\ store' = Loaded(Stored)
               \/ Refuse(rest) /\ store' = Loaded(store)

Next == \/ Cycle(pend) /\ out' = Nothing
        \/ pend # <<>> /\ Cycle(Tail(pend)) /\ out' = Head(pend)

Spec == Init /\ [][Next]_vars
============================================================================
