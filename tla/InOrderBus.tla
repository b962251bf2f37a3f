---------------------------- MODULE InOrderBus ----------------------------
(***************************************************************************)
(* What a host of the SoC's bus may rely on: a request that was accepted   *)
(* is answered once, by the device it was addressed to, with its own       *)
(* source number, and answers come in the order of the requests.  One step *)
(* is one clock edge: it may accept a request, deliver an answer, or both. *)
(***************************************************************************)
EXTENDS Naturals, Sequences

CONSTANTS Devices,   \* who may answer
          Sources,   \* source numbers
          MaxOut,    \* requests a host has in flight at most
          Nothing    \* no answer in the last cycle

VARIABLES sent,      \* the requests in flight, oldest first
          got        \* the answer delivered at the last edge

vars == <<sent, got>>

Request == [dev : Devices, src : Sources]

TypeOK == /\ sent \in Seq(Request)
          /\ Len(sent) <= MaxOut
          /\ got \in Request \cup {Nothing}

Init == sent = <<>> /\ got = Nothing

Idle == sent' = sent /\ got' = Nothing

\* No two requests in flight share a source number: the host tells the answers
\* apart by it.
Fresh(r) == \A i \in DOMAIN sent : sent[i].src # r.src

Accept(r) == /\ Len(sent) < MaxOut /\ Fresh(r)
             /\ sent' = Append(sent, r)
             /\ got' = Nothing

Answer == /\ sent # <<>>
          /\ sent' = Tail(sent)
          /\ got' = Head(sent)

AcceptAnswer(r) == /\ sent # <<>>
                   /\ Len(sent) < MaxOut /\ Fresh(r)
                   /\ sent' = Append(Tail(sent), r)
                   /\ got' = Head(sent)

Next == \/ Idle
        \/ \E r \in Request : Accept(r) \/ AcceptAnswer(r)
        \/ Answer

Spec == Init /\ [][Next]_vars

\* Every request in flight is answered.
Answering == Answer \/ \E r \in Request : AcceptAnswer(r)

LiveSpec == Spec /\ WF_vars(Answering)
============================================================================
