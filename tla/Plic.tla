-------------------------------- MODULE Plic --------------------------------
(***************************************************************************)
(* rv_plic: gateways, priority tree and registered target behind a         *)
(* tlul_adapter_reg, with the devices that raise lines and the software    *)
(* that claims and completes.  Vectors of bits are sets of sources.        *)
(*                                                                         *)
(* Devices and software are external: a device moves its line at any edge, *)
(* software writes any register and claims at any time, handlers may nest, *)
(* and it only completes what it claimed.  Source 0 is tied low in         *)
(* azadi_soc_top, so the identifier 0 means that nothing is pending.       *)
(***************************************************************************)
EXTENDS Naturals

CONSTANTS Levels,      \* NumLevels, of the tree
          NumSrc,
          MAX_PRIO

\* Nodes of the tree with h levels above them.
Nodes[h \in 0 .. Levels] == IF h = 0 THEN 1 ELSE 2 * Nodes[h - 1]

ASSUME LevelsAssumption == Levels \in Nat \ {0}
ASSUME SourcesAssumption == NumSrc \in 2 .. Nodes[Levels] /\ NumSrc > Nodes[Levels - 1]
ASSUME PrioAssumption == MAX_PRIO \in Nat

Src  == 1 .. NumSrc - 1
Prio == 0 .. MAX_PRIO

VARIABLES intr_src,                \* lines of the devices
          src_q, ip, ia,           \* gateways: line before, pending, active
          le, ie, prio, threshold, \* registers that software writes
          irq_q, irq_id_q,         \* target
          outstanding,             \* adapter: an answer is on the bus
          inService                \* claimed and not completed by software

regs == <<le, ie, prio, threshold>>
plicVars == <<intr_src, src_q, ip, ia, regs, irq_q, irq_id_q, outstanding, inService>>

PlicTypeOK == /\ {intr_src, src_q, ip, ia, le, ie, inService} \subseteq SUBSET Src
              /\ prio \in [Src -> Prio] /\ threshold \in Prio
              /\ irq_q \in BOOLEAN /\ irq_id_q \in Src \cup {0}
              /\ outstanding \in BOOLEAN

PlicInit == /\ intr_src \in SUBSET Src
            /\ src_q = {} /\ ip = {} /\ ia = {}
            /\ le = {} /\ ie = {} /\ prio = [s \in Src |-> 0] /\ threshold = 0
            /\ irq_q = FALSE /\ irq_id_q = 0
            /\ outstanding = FALSE /\ inService = {}

----------------------------------------------------------------------------
\* Faults that the run must notice, each placed before what it replaces.
AReady_Always == TRUE

AReady == ~outstanding

\* Lines that ask for an interrupt: high, or just risen.
Set == {s \in intr_src : s \in le => s \notin src_q}

Pending_InService(claim) == (ip \cup Set) \ claim

Pending(claim) == (ip \cup (Set \ (ia \cup ip))) \ (ip \cap claim)

Active(complete) == (ia \cup (Set \ ia)) \ ((ia \cap complete) \ ip)

Sel_Tie(c0, c1) == c1.is /\ (c0.is => c1.max >= c0.max)

\* The second child is passed on.
Sel(c0, c1) == \/ ~c0.is /\ c1.is
               \/ c0.is /\ c1.is /\ c1.max > c0.max

\* The leaves beyond the sources are tied off.
Leaf(n) == IF n \in Src THEN [is |-> n \in ip \cap ie, id |-> n, max |-> prio[n]]
           ELSE [is |-> FALSE, id |-> 0, max |-> 0]

Forward(c0, c1) == IF Sel(c0, c1) THEN c1 ELSE c0

\* The level that is h levels above the leaves, by offset.
Tree[h \in 0 .. Levels] ==
  IF h = 0 THEN [offset \in Nat |-> Leaf(offset)]
  ELSE [offset \in Nat |-> Forward(Tree[h - 1][2 * offset], Tree[h - 1][2 * offset + 1])]

Root == Tree[Levels][0]

Irq_TooHigh == Root.is /\ Root.max > threshold + 1

Irq   == Root.is /\ Root.max > threshold
IrqId == IF Root.is THEN Root.id ELSE 0

\* Gateways and target at a clock edge.
Edge(claim, complete) == /\ intr_src' \in SUBSET Src
                         /\ src_q' = intr_src
                         /\ ip' = Pending(claim)
                         /\ ia' = Active(complete)
                         /\ irq_q' = Irq
                         /\ irq_id_q' = IrqId

\* The load/store unit takes the answer in the cycle after its access.
Idle == /\ Edge({}, {})
        /\ outstanding' = FALSE
        /\ UNCHANGED <<regs, inService>>

Access(claim, complete) == /\ AReady
                           /\ outstanding' = TRUE
                           /\ Edge(claim, complete)

\* A read of cc0, which returns irq_id_q.
Claim == /\ Access({irq_id_q}, {})
         /\ inService' = inService \cup ({irq_id_q} \ {0})
         /\ UNCHANGED regs

\* A write of cc0.
Complete(s) == /\ s \in inService
               /\ Access({}, {s})
               /\ inService' = inService \ {s}
               /\ UNCHANGED regs

Write(l, e, p, t) == /\ Access({}, {})
                     /\ le' = l /\ ie' = e /\ prio' = p /\ threshold' = t
                     /\ UNCHANGED inService

\* Software writes one register at a time; the lines change their kind while masked.
Configure ==
  \/ \E e \in SUBSET Src \ {ie} : Write(le, e, prio, threshold)
  \/ \E t \in Prio \ {threshold} : Write(le, ie, prio, t)
  \/ \E s \in Src : \E p \in Prio \ {prio[s]} : Write(le, ie, [prio EXCEPT ![s] = p], threshold)
  \/ \E l \in SUBSET Src \ {le} : ie = {} /\ Write(l, ie, prio, threshold)

\* rst_ni, which resets the core too.
Reset == /\ UNCHANGED intr_src
         /\ src_q' = {} /\ ip' = {} /\ ia' = {}
         /\ le' = {} /\ ie' = {} /\ prio' = [s \in Src |-> 0] /\ threshold' = 0
         /\ irq_q' = FALSE /\ irq_id_q' = 0
         /\ outstanding' = FALSE /\ inService' = {}

PlicNext == Idle \/ Claim \/ (\E s \in Src : Complete(s)) \/ Configure \/ Reset

PlicSpec == PlicInit /\ [][PlicNext]_plicVars

\* The core takes an interrupt in the end, whatever the program goes on to access,
\* and a handler completes what it claimed; the clock ticks.
PlicLiveSpec == /\ PlicSpec
                /\ WF_plicVars(Idle)
                /\ SF_plicVars(irq_q /\ Claim)
                /\ \A s \in Src : SF_plicVars(Complete(s))

----------------------------------------------------------------------------
Raises(s) == s \in ip /\ s \in ie /\ prio[s] > threshold

Outranks(r, s) == prio[r] > prio[s] \/ (prio[r] = prio[s] /\ r < s)

\* The identifier is a cycle behind the pending bits and the registers, yet whenever
\* a claim can be made it names a source that is pending, enabled and not being
\* served, and the interrupt line is up for a reason: the adapter's one outstanding
\* access leaves the target the cycle it needs.
ClaimSound ==
  AReady => /\ irq_id_q # 0 => irq_id_q \in (ip \cap ie) \ inService
            /\ irq_q => Raises(irq_id_q)

\* A source is active exactly while it is pending or being served, never both: none
\* is delivered again before it is completed, and none stays blocked afterwards.
ActiveAccounted == ia = ip \cup inService /\ ip \cap inService = {}

\* The tree presents the pending source of the highest priority, of equal ones the
\* one with the lowest number.
HighestFirst ==
  [][~Reset =>
       \A s \in ip \cap ie :
         (\A r \in (ip \cap ie) \ {s} : Outranks(s, r)) => irq_id_q' = s]_plicVars

\* A source that goes on asking above the threshold is claimed, unless sources that
\* outrank it keep coming.
Delivered ==
  \A s \in Src :
    <>[]Raises(s) => []<>(\E r \in Src : Outranks(r, s) /\ r \in ip \cap ie)
============================================================================
