---------------------------- MODULE TlulSocket ----------------------------
(***************************************************************************)
(* tlul_socket_1n: the crossbar stage between one host and N devices, with *)
(* the error responder as device N.  All FIFOs of the instances in the SoC *)
(* have depth 0, so requests and answers cross the socket within a cycle   *)
(* and its registers only steer: num_req_outstanding counts the requests   *)
(* in flight, dev_select_outstanding names the one device they are at.     *)
(*                                                                         *)
(* The host is tlul_host_adapter driven by a core that holds a request     *)
(* until it is granted.  The devices are external: a device accepts when   *)
(* it likes and answers its oldest request at any later edge.              *)
(***************************************************************************)
EXTENDS Naturals, Sequences

CONSTANTS N,         \* devices 0 .. N-1; N is the error responder
          MaxReqs,   \* source numbers of the host adapter
          CountMod,  \* the counter counts modulo this (2^OutstandingW)
          HostReady, \* values the host drives on d_ready
          Nothing    \* no request, no answer

ASSUME NAssumption       == N \in Nat
ASSUME MaxReqsAssumption == MaxReqs \in Nat \ {0}
ASSUME CountAssumption   == CountMod \in Nat /\ MaxReqs < CountMod
ASSUME ReadyAssumption   == HostReady \subseteq BOOLEAN
ASSUME NothingAssumption ==
         /\ Nothing \notin 0 .. N
         /\ Nothing \notin [dev : 0 .. N, src : 0 .. MaxReqs - 1]

VARIABLES req,                    \* device the host's waiting request is for
          source_q,               \* host adapter: the next source number
          num_req_outstanding, dev_select_outstanding,
          dq,                     \* requests at each device, oldest first
          err_req_pending, err_rsp_pending, err_source,
          sent, got               \* history: in flight, last answer

hostVars == <<req, source_q>>
errVars  == <<err_req_pending, err_rsp_pending, err_source>>
socketVars     == <<hostVars, num_req_outstanding, dev_select_outstanding, dq,
              errVars, sent, got>>

Devices == 0 .. N - 1
Targets == 0 .. N
Sources == 0 .. MaxReqs - 1
Request == [dev : Targets, src : Sources]

SocketTypeOK == /\ req \in Targets \cup {Nothing}
          /\ source_q \in Sources
          /\ num_req_outstanding \in 0 .. CountMod - 1
          /\ dev_select_outstanding \in Targets
          /\ dq \in [Devices -> Seq(Sources)]
          /\ err_req_pending \in BOOLEAN
          /\ err_rsp_pending \in BOOLEAN
          /\ err_source \in Sources
          /\ sent \in Seq(Request)
          /\ got \in Request \cup {Nothing}

SocketInit == /\ req \in Targets \cup {Nothing}
        /\ source_q = 0
        /\ num_req_outstanding = 0
        /\ dev_select_outstanding = 0
        /\ dq = [i \in Devices |-> <<>>]
        /\ err_req_pending = FALSE
        /\ err_rsp_pending = FALSE
        /\ err_source = 0
        /\ sent = <<>>
        /\ got = Nothing

\* Faults that the runs must notice, each placed before what it replaces.
HoldAllRequests_Never    == FALSE
HoldAllRequests_AboveOne == num_req_outstanding > 1 /\ req # dev_select_outstanding

\* A request for another device than the one that is busy waits.
HoldAllRequests == /\ num_req_outstanding # 0
                   /\ req # dev_select_outstanding

ErrAReady(d_ready) == ~err_rsp_pending /\ ~(err_req_pending /\ ~d_ready)
ErrDValid_Stalled  == err_rsp_pending

ErrDValid          == err_req_pending \/ err_rsp_pending

\* a_ready of the addressed device, seen by the host.
AcceptReq(rdy, d_ready) ==
  /\ req # Nothing
  /\ ~HoldAllRequests
  /\ IF req = N THEN ErrAReady(d_ready) ELSE rdy

\* valid: the devices that drive d_valid.  Only the outstanding one is heard.
AcceptRsp(valid, d_ready) ==
  /\ d_ready
  /\ IF dev_select_outstanding = N THEN ErrDValid
                                   ELSE dev_select_outstanding \in valid

AnswerSource == IF dev_select_outstanding = N
                THEN err_source ELSE Head(dq[dev_select_outstanding])

NextSource == IF source_q = MaxReqs - 1 THEN 0 ELSE source_q + 1

Counter_AcceptWins(a, d) == CASE a -> (num_req_outstanding + 1) % CountMod
                              [] ~a /\ d -> num_req_outstanding - 1
                              [] OTHER -> num_req_outstanding

Counter(a, d) == CASE a /\ ~d -> (num_req_outstanding + 1) % CountMod
                   [] ~a /\ d -> IF num_req_outstanding = 0 THEN CountMod - 1
                                 ELSE num_req_outstanding - 1
                   [] OTHER   -> num_req_outstanding

\* The device accepts after it has answered; it never answers in the cycle of
\* the request.
DeviceQueue(i, a, valid, d_ready) ==
  LET rest == IF i \in valid /\ d_ready THEN Tail(dq[i]) ELSE dq[i]
  IN  IF a /\ req = i THEN Append(rest, source_q) ELSE rest

ErrResp(a, d_ready) ==
  /\ IF a /\ req = N
     THEN err_req_pending' = TRUE /\ err_source' = source_q
     ELSE /\ err_req_pending' = (err_req_pending /\ err_rsp_pending)
          /\ UNCHANGED err_source
  /\ err_rsp_pending' = (ErrDValid /\ ~d_ready)

\* The core raises a request while fewer than MaxReqs are in flight and holds it
\* until it is granted.
HostRequest(a) ==
  IF req # Nothing /\ ~a THEN req' = req
  ELSE \/ req' = Nothing
       \/ Len(sent') < MaxReqs /\ req' \in Targets

Cycle(rdy, valid, d_ready) ==
  LET a == AcceptReq(rdy, d_ready)
      d == AcceptRsp(valid, d_ready)
      rest == IF d THEN Tail(sent) ELSE sent
  IN  /\ num_req_outstanding' = Counter(a, d)
      /\ dev_select_outstanding' = IF a THEN req ELSE dev_select_outstanding
      /\ source_q' = IF a THEN NextSource ELSE source_q
      /\ dq' = [i \in Devices |-> DeviceQueue(i, a, valid, d_ready)]
      /\ ErrResp(a, d_ready)
      /\ sent' = IF a THEN Append(rest, [dev |-> req, src |-> source_q]) ELSE rest
      /\ got' = IF d THEN [dev |-> dev_select_outstanding, src |-> AnswerSource]
                     ELSE Nothing
      /\ HostRequest(a)

Busy == {i \in Devices : dq[i] # <<>>}

SocketNext == \E rdy \in BOOLEAN, valid \in SUBSET Busy, d_ready \in HostReady :
          Cycle(rdy, valid, d_ready)

SocketSpec == SocketInit /\ [][SocketNext]_socketVars

----------------------------------------------------------------------------
(* The devices accept and answer in the end, and the host adapter ties      *)
(* d_ready to 1.                                                            *)
Accepting == \E valid \in SUBSET Busy, d_ready \in HostReady :
               AcceptReq(TRUE, d_ready) /\ Cycle(TRUE, valid, d_ready)

Answering == \E rdy \in BOOLEAN, valid \in SUBSET Busy, d_ready \in HostReady :
               AcceptRsp(valid, d_ready) /\ Cycle(rdy, valid, d_ready)

SocketLiveSpec == SocketSpec /\ WF_socketVars(Accepting) /\ WF_socketVars(Answering)

----------------------------------------------------------------------------
\* The counter is the number of requests in flight, although it moves on the
\* handshakes alone: it never wraps below zero and is never left behind.
CounterExact == num_req_outstanding = Len(sent)

SourcesOf(s) == [k \in DOMAIN s |-> s[k].src]

\* Everything in flight is at the device the answer multiplexer listens to, in
\* order; no other device could have an answer that the socket would swallow.
OneDeviceBusy ==
  /\ \A k \in DOMAIN sent : sent[k].dev = dev_select_outstanding
  /\ \A i \in Devices :
       dq[i] = IF i = dev_select_outstanding THEN SourcesOf(sent) ELSE <<>>
  /\ IF dev_select_outstanding = N /\ sent # <<>>
     THEN ErrDValid /\ Len(sent) = 1 /\ err_source = sent[1].src
     ELSE ~ErrDValid

\* The host sees an in-order bus: own answers, once, in order, from the device
\* the address selected, with source numbers that are never ambiguous.
Bus == INSTANCE InOrderBus WITH Devices <- Targets, MaxOut <- MaxReqs

ImplementsBus == Bus!Spec

\* A request that waits for another device to drain is accepted in the end, and
\* each request in flight is answered.
ImplementsLiveBus ==
  /\ Bus!LiveSpec
  /\ \A s \in Sources : (req # Nothing /\ source_q = s) ~> (source_q # s)
============================================================================
