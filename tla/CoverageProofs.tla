--------------------------- MODULE CoverageProofs ---------------------------
(***************************************************************************)
(* The coverage run, for all trace files: what it counts are the operand   *)
(* values and hazards of the program, in fields that the row has filled    *)
(* and in the bins of their own names.                                     *)
(***************************************************************************)
EXTENDS AssembledRows, SequenceTheorems, WellFoundedInduction, TLAPS

\* The last of a set of positions.
Latest(S) == CHOOSE n \in S : \A m \in S : m =< n

LEMMA LastType ==
  ASSUME NEW n \in Nat, NEW S \in SUBSET (1..n), S # {}
  PROVE  Latest(S) \in S
<1> DEFINE T == {n - m : m \in S}
<1>1. T \in SUBSET Nat /\ T # {}
  <2>1. \A m \in S : m \in Nat /\ n - m \in Nat
    OBVIOUS
  <2>2. PICK m \in S : TRUE
    OBVIOUS
  <2>3. n - m \in T
    BY <2>2
  <2>4. \A d \in T : d \in Nat
    BY <2>1
  <2> QED
    BY <2>3, <2>4
<1>2. PICK least \in T : \A m \in T : least =< m
  <2> DEFINE Less == OpToRel(<, Nat)
  <2>1. PICK x \in T : \A y \in T : <<y, x>> \notin Less
    <3>1. IsWellFoundedOn(Less, Nat)
      BY NatLessThanWellFounded
    <3> HIDE DEF Less
    <3> QED
      BY <1>1, <3>1, WFMin
  <2> HIDE DEF T
  <2>2. \A y \in T : ~(y < x)
    BY <1>1, <2>1 DEF OpToRel
  <2>3. \A y \in T : y \in Nat
    BY <1>1
  <2>4. \A y \in T : x =< y
    BY <2>2, <2>3
  <2> QED
    BY <2>4
<1>3. PICK top \in S : least = n - top
  OBVIOUS
<1>4. \A m \in S : m =< top
  <2>1. \A m \in S : n - top =< n - m
    BY <1>2, <1>3
  <2> QED
    BY <2>1
<1> QED
  BY <1>4 DEF Latest

-----------------------------------------------------------------------------
(***************************************************************************)
(* The coverage run: what the attribute table says of the operands.        *)
(***************************************************************************)
FloatGroups == {"RV32F", "RV32D"}
\* What the attribute table says of the formats: one row of it.
RowFits(r) ==
  /\ r.group \in FloatGroups => r.format \in {"I_FORMAT", "S_FORMAT", "R_FORMAT", "R4_FORMAT"}
  /\ (r.group \notin FloatGroups \cup {"RV32C", "RV64C"}) =>
       r.format \in {"I_FORMAT", "S_FORMAT", "B_FORMAT", "U_FORMAT", "J_FORMAT", "R_FORMAT"}
  /\ (r.group \notin FloatGroups) =>
       r.format \in {"I_FORMAT", "S_FORMAT", "B_FORMAT", "U_FORMAT", "J_FORMAT", "R_FORMAT",
                     "CI_FORMAT", "CIW_FORMAT", "CL_FORMAT", "CS_FORMAT", "CA_FORMAT", "CB_FORMAT",
                     "CSS_FORMAT", "CR_FORMAT", "CJ_FORMAT"}
  /\ (r.group \in FloatGroups /\ r.category = "ARITHMETIC") => r.format # "S_FORMAT"
  /\ r.name \in ToInteger \cup FromInteger =>
       r.group \in FloatGroups /\ r.format = "I_FORMAT" /\ r.category = "ARITHMETIC"
  /\ r.category = "CSR" => r.format \in {"I_FORMAT", "R_FORMAT"}
  /\ r.name \in NoOperands => r.group \notin FloatGroups
LEMMA Rv32iFits == \A r \in Rv32iMemory \cup Rv32iCompute \cup Rv32iControl : RowFits(r)
<1>1. \A r \in Rv32iMemory : RowFits(r)
  BY DEF Rv32iMemory, Row, RowFits, FloatGroups, ToInteger, FromInteger, NoOperands
<1>2. \A r \in Rv32iCompute : RowFits(r)
  BY DEF Rv32iCompute, Row, RowFits, FloatGroups, ToInteger, FromInteger, NoOperands
<1>3. \A r \in Rv32iControl : RowFits(r)
  BY DEF Rv32iControl, Row, RowFits, FloatGroups, ToInteger, FromInteger, NoOperands
<1> QED BY <1>1, <1>2, <1>3
LEMMA Rv32mFits == \A r \in Rv32mRows \cup Rv64iRows \cup Rv64mRows : RowFits(r)
<1>1. \A r \in Rv32mRows : RowFits(r)
  BY DEF Rv32mRows, Row, RowFits, FloatGroups, ToInteger, FromInteger, NoOperands
<1>2. \A r \in Rv64iRows : RowFits(r)
  BY DEF Rv64iRows, Row, RowFits, FloatGroups, ToInteger, FromInteger, NoOperands
<1>3. \A r \in Rv64mRows : RowFits(r)
  BY DEF Rv64mRows, Row, RowFits, FloatGroups, ToInteger, FromInteger, NoOperands
<1> QED BY <1>1, <1>2, <1>3
LEMMA Rv32cFits == \A r \in Rv32cRows \cup Rv64cRows : RowFits(r)
<1>1. \A r \in Rv32cRows : RowFits(r)
  BY DEF Rv32cRows, Row, RowFits, FloatGroups, ToInteger, FromInteger, NoOperands
<1>2. \A r \in Rv64cRows : RowFits(r)
  BY DEF Rv64cRows, Row, RowFits, FloatGroups, ToInteger, FromInteger, NoOperands
<1> QED BY <1>1, <1>2
LEMMA Rv32fFits == \A r \in Rv32fRows \cup Rv32dRows : RowFits(r)
<1>1. \A r \in Rv32fRows : RowFits(r)
  BY DEF Rv32fRows, Row, RowFits, FloatGroups, ToInteger, FromInteger, NoOperands
<1>2. \A r \in Rv32dRows : RowFits(r)
  BY DEF Rv32dRows, Row, RowFits, FloatGroups, ToInteger, FromInteger, NoOperands
<1> QED BY <1>1, <1>2
LEMMA IntInj == \A a, b \in DOMAIN riscv_reg_t : riscv_reg_t[a] = riscv_reg_t[b] => a = b
BY DEF riscv_reg_t
LEMMA FpInj == \A a, b \in DOMAIN riscv_fpr_t : riscv_fpr_t[a] = riscv_fpr_t[b] => a = b
BY DEF riscv_fpr_t
LEMMA Disj == \A a \in DOMAIN riscv_reg_t : a \notin DOMAIN riscv_fpr_t
BY DEF riscv_fpr_t, riscv_reg_t

-----------------------------------------------------------------------------
LEMMA TableRow ==
  ASSUME NEW n \in HasAttributes
  PROVE  get_attr_list[n] \in AttrRows /\ get_attr_list[n].name = n /\ RowFits(get_attr_list[n])
<1>1. PICK r \in AttrRows : r.name = n
  BY DEF HasAttributes
<1>2. get_attr_list[n] \in AttrRows /\ get_attr_list[n].name = n
  BY <1>1 DEF get_attr_list
<1>3. \A a \in AttrRows : RowFits(a)
  BY Rv32iFits, Rv32mFits, Rv32cFits, Rv32fFits, Zenon DEF AttrRows
<1> QED BY <1>2, <1>3

\* The formats an instruction may have.
LEMMA Formats ==
  ASSUME NEW n \in HasAttributes
  PROVE  /\ IsFloat(n) => Format(n) \in {"I_FORMAT", "S_FORMAT", "R_FORMAT", "R4_FORMAT"}
         /\ WholeInteger(n) =>
              Format(n) \in {"I_FORMAT", "S_FORMAT", "B_FORMAT", "U_FORMAT", "J_FORMAT", "R_FORMAT"}
         /\ ~IsFloat(n) =>
              Format(n) \in {"I_FORMAT", "S_FORMAT", "B_FORMAT", "U_FORMAT", "J_FORMAT", "R_FORMAT",
                             "CI_FORMAT", "CIW_FORMAT", "CL_FORMAT", "CS_FORMAT", "CA_FORMAT",
                             "CB_FORMAT", "CSS_FORMAT", "CR_FORMAT", "CJ_FORMAT"}
         /\ Fused(n) => Format(n) \in {"I_FORMAT", "R4_FORMAT"}
         /\ n \in ToInteger \cup FromInteger =>
              IsFloat(n) /\ Format(n) = "I_FORMAT" /\ Category(n) = "ARITHMETIC"
         /\ IsFloat(n) => n \notin NoOperands
         /\ Category(n) = "CSR" => Format(n) \in {"I_FORMAT", "R_FORMAT"}
BY TableRow DEF RowFits, FloatGroups, IsFloat, Format, Category, WholeInteger, Compressed, Fused

\* The fields that update_src_regs fills.
LEMMA IntegerFields ==
  ASSUME NEW n \in HasAttributes, ~IsFloat(n), NEW o, NEW s \in SourcesOf(n, o)
  PROVE  s[1] \in {"rs1", "rs2", "imm", "csr"} /\ (s[2] = 0 => s[1] = "rs1")
<1>1. n \notin NoOperands /\ s \in Sources(n)
  BY DEF SourcesOf
<1> QED BY <1>1, Formats DEF Sources

LEMMA FloatFields ==
  ASSUME NEW n \in HasAttributes, IsFloat(n), NEW o, NEW s \in SourcesOf(n, o)
  PROVE  s[1] \in {"rs1", "fs1", "fs2", "fs3", "imm"} /\ s[2] # 0
<1>1. s \in FloatSources(n, Len(o))
  BY Formats DEF SourcesOf
<1> QED BY <1>1, Formats DEF FloatSources

\* The sources of an integer instruction, by its format.
SourceSets ==
  {{<<"csr", 2>>, <<"imm", 3>>},
   {<<"csr", 2>>, <<"rs1", 3>>},
   {<<"imm", 1>>},
   {<<"imm", 2>>, <<"rs1", 0>>},
   {<<"imm", 2>>, <<"rs1", 3>>},
   {<<"imm", 2>>},
   {<<"rs1", 0>>},
   {<<"rs1", 1>>, <<"imm", 2>>},
   {<<"rs1", 1>>, <<"rs2", 2>>, <<"imm", 3>>},
   {<<"rs1", 1>>, <<"rs2", 2>>},
   {<<"rs1", 1>>},
   {<<"rs1", 2>>, <<"imm", 3>>},
   {<<"rs1", 2>>, <<"rs2", 3>>},
   {<<"rs1", 3>>, <<"imm", 2>>},
   {<<"rs2", 1>>, <<"imm", 2>>, <<"rs1", 0>>},
   {<<"rs2", 1>>, <<"imm", 2>>, <<"rs1", 3>>},
   {<<"rs2", 2>>}}

LEMMA SourcesShape ==
  ASSUME NEW n \in HasAttributes, ~IsFloat(n)
  PROVE  Sources(n) \in SourceSets
<1>1. CASE Format(n) = "J_FORMAT"
  BY <1>1 DEF Sources, SourceSets
<1>2. CASE Format(n) = "U_FORMAT"
  BY <1>2 DEF Sources, SourceSets
<1>3. CASE Format(n) = "I_FORMAT"
  BY <1>3 DEF Sources, SourceSets
<1>4. CASE Format(n) = "S_FORMAT"
  BY <1>4 DEF Sources, SourceSets
<1>5. CASE Format(n) = "B_FORMAT"
  BY <1>5 DEF Sources, SourceSets
<1>6. CASE Format(n) = "R_FORMAT"
  BY <1>6 DEF Sources, SourceSets
<1>7. CASE Format(n) = "CI_FORMAT"
  <2>1. CASE n \in {"C_ADDI16SP", "C_LDSP", "C_LWSP"}
    BY <1>7, <2>1 DEF Sources, SourceSets
  <2>2. CASE n = "C_ADDI4SPN"
    BY <1>7, <2>2 DEF Sources, SourceSets
  <2>3. CASE n \notin {"C_ADDI16SP", "C_LDSP", "C_LWSP", "C_ADDI4SPN"}
    BY <1>7, <2>3 DEF Sources, SourceSets
  <2> QED BY <2>1, <2>2, <2>3
<1>8. CASE Format(n) = "CIW_FORMAT"
  <2>1. CASE n \in {"C_ADDI16SP", "C_LDSP", "C_LWSP"}
    BY <1>8, <2>1 DEF Sources, SourceSets
  <2>2. CASE n = "C_ADDI4SPN"
    BY <1>8, <2>2 DEF Sources, SourceSets
  <2>3. CASE n \notin {"C_ADDI16SP", "C_LDSP", "C_LWSP", "C_ADDI4SPN"}
    BY <1>8, <2>3 DEF Sources, SourceSets
  <2> QED BY <2>1, <2>2, <2>3
<1>9. CASE Format(n) = "CL_FORMAT"
  BY <1>9 DEF Sources, SourceSets
<1>10. CASE Format(n) = "CS_FORMAT"
  BY <1>10 DEF Sources, SourceSets
<1>11. CASE Format(n) = "CA_FORMAT"
  BY <1>11 DEF Sources, SourceSets
<1>12. CASE Format(n) = "CB_FORMAT"
  BY <1>12 DEF Sources, SourceSets
<1>13. CASE Format(n) = "CSS_FORMAT"
  BY <1>13 DEF Sources, SourceSets
<1>14. CASE Format(n) = "CR_FORMAT"
  BY <1>14 DEF Sources, SourceSets
<1>15. CASE Format(n) = "CJ_FORMAT"
  BY <1>15 DEF Sources, SourceSets
<1> QED BY Formats, <1>1, <1>2, <1>3, <1>4, <1>5, <1>6, <1>7, <1>8, <1>9, <1>10, <1>11, <1>12,
           <1>13, <1>14, <1>15

\* A field has one source.
LEMMA OneSource ==
  ASSUME NEW n \in HasAttributes, NEW o, NEW s \in SourcesOf(n, o), NEW t \in SourcesOf(n, o),
         s[1] = t[1]
  PROVE  s = t
<1>1. CASE IsFloat(n)
  <2>1. {s, t} \subseteq FloatSources(n, Len(o))
    BY <1>1, Formats DEF SourcesOf
  <2> QED BY <1>1, <2>1, Formats DEF FloatSources
<1>2. CASE ~IsFloat(n)
  <2>1. {s, t} \subseteq Sources(n)
    BY <1>2 DEF SourcesOf
  <2>2. Sources(n) \in SourceSets
    BY <1>2, SourcesShape
  <2>3. \A S \in SourceSets : \A x, y \in S : x[1] = y[1] => x = y
    BY DEF SourceSets
  <2> QED BY <2>1, <2>2, <2>3
<1> QED BY <1>1, <1>2

\* The fields of a few positions.
LEMMA FieldOfOne ==
  ASSUME NEW a, NEW x, NEW f
  PROVE  (\E s \in {<<a, x>>} : s[1] = f) <=> f = a
OBVIOUS

LEMMA FieldOfTwo ==
  ASSUME NEW a, NEW x, NEW b, NEW y, NEW f
  PROVE  (\E s \in {<<a, x>>, <<b, y>>} : s[1] = f) <=> f \in {a, b}
<1>1. <<a, x>>[1] = a /\ <<b, y>>[1] = b
  OBVIOUS
<1> QED BY <1>1, Zenon

LEMMA FieldOfThree ==
  ASSUME NEW a, NEW x, NEW b, NEW y, NEW c, NEW z, NEW f
  PROVE  (\E s \in {<<a, x>>, <<b, y>>, <<c, z>>} : s[1] = f) <=> f \in {a, b, c}
<1>1. <<a, x>>[1] = a /\ <<b, y>>[1] = b /\ <<c, z>>[1] = c
  OBVIOUS
<1> QED BY <1>1, Zenon

\* The operands an instruction is said to have, where hazards are exact.
LEMMA HasOfInteger ==
  ASSUME NEW n \in HasAttributes, ~IsFloat(n)
  PROVE  {"fd", "fs1", "fs2"} \subseteq Has[n] /\ DestField(n) = "rd"
BY DEF Has, set_mode, HasDefault, DestField

LEMMA HasOfWholeInteger ==
  ASSUME NEW n \in HasAttributes, WholeInteger(n), NEW o, NEW f \in {"rs1", "rs2"}, n \notin NoOperands
  PROVE  f \in Has[n] <=> \E s \in SourcesOf(n, o) : s[1] = f
<1>1. SourcesOf(n, o) = Sources(n) /\ Has[n] = set_mode(n)
  BY DEF SourcesOf, WholeInteger, Has
<1>2. CASE Format(n) = "I_FORMAT"
  <2>1. set_mode(n) = IF Category(n) = "CSR" THEN HasDefault \ {"rs1", "rs2"} ELSE HasDefault \ {"rs2"}
    BY <1>2 DEF set_mode
  <2>2. Sources(n) = IF Category(n) = "LOAD" THEN {<<"rs1", 3>>, <<"imm", 2>>}
                     ELSE IF Category(n) = "CSR" THEN {<<"csr", 2>>, <<"imm", 3>>}
                     ELSE {<<"rs1", 2>>, <<"imm", 3>>}
    BY <1>2 DEF Sources
  <2>3. f \in set_mode(n) <=> (f = "rs1" /\ Category(n) # "CSR")
    BY <2>1 DEF HasDefault
  <2>4. (\E s \in Sources(n) : s[1] = f) <=> (f = "rs1" /\ Category(n) # "CSR")
    <3>1. CASE Category(n) = "LOAD"
      <4>1. (\E s \in {<<"rs1", 3>>, <<"imm", 2>>} : s[1] = f) <=> f \in {"rs1", "imm"}
        BY FieldOfTwo
      <4>2. Sources(n) = {<<"rs1", 3>>, <<"imm", 2>>}
        BY <2>2, <3>1
      <4> QED BY <4>1, <4>2, <3>1
    <3>2. CASE Category(n) = "CSR"
      <4>1. (\E s \in {<<"csr", 2>>, <<"imm", 3>>} : s[1] = f) <=> f \in {"csr", "imm"}
        BY FieldOfTwo
      <4>2. Sources(n) = {<<"csr", 2>>, <<"imm", 3>>}
        BY <2>2, <3>2
      <4> QED BY <4>1, <4>2, <3>2
    <3>3. CASE Category(n) \notin {"LOAD", "CSR"}
      <4>1. (\E s \in {<<"rs1", 2>>, <<"imm", 3>>} : s[1] = f) <=> f \in {"rs1", "imm"}
        BY FieldOfTwo
      <4>2. Sources(n) = {<<"rs1", 2>>, <<"imm", 3>>}
        BY <2>2, <3>3
      <4> QED BY <4>1, <4>2, <3>3
    <3> QED BY <3>1, <3>2, <3>3
  <2> QED BY <1>1, <2>3, <2>4
<1>3. CASE Format(n) \in {"S_FORMAT", "B_FORMAT"}
  <2>1. f \in set_mode(n)
    BY <1>3, Formats DEF set_mode, HasDefault
  <2>2. Sources(n) \in {{<<"rs2", 1>>, <<"imm", 2>>, <<"rs1", 3>>},
                        {<<"rs1", 1>>, <<"rs2", 2>>, <<"imm", 3>>}}
    BY <1>3 DEF Sources
  <2>3. \E s \in Sources(n) : s[1] = f
    <3>1. \E s \in {<<"rs2", 1>>, <<"imm", 2>>, <<"rs1", 3>>} : s[1] = f
      BY FieldOfThree, Zenon
    <3>2. \E s \in {<<"rs1", 1>>, <<"rs2", 2>>, <<"imm", 3>>} : s[1] = f
      BY FieldOfThree, Zenon
    <3> QED BY <2>2, <3>1, <3>2
  <2> QED BY <1>1, <2>1, <2>3
<1>4. CASE Format(n) \in {"U_FORMAT", "J_FORMAT"}
  <2>1. f \notin set_mode(n)
    BY <1>4 DEF set_mode
  <2>2. Sources(n) = {<<"imm", 2>>}
    BY <1>4 DEF Sources
  <2> QED BY <1>1, <2>1, <2>2
<1>5. CASE Format(n) = "R_FORMAT"
  <2>1. f \in set_mode(n) <=> (f = "rs1" \/ Category(n) # "CSR")
    BY <1>5 DEF set_mode, HasDefault
  <2>2. Sources(n) = IF Category(n) = "CSR" THEN {<<"csr", 2>>, <<"rs1", 3>>}
                     ELSE {<<"rs1", 2>>, <<"rs2", 3>>}
    BY <1>5 DEF Sources
  <2>3. (\E s \in Sources(n) : s[1] = f) <=> (f = "rs1" \/ Category(n) # "CSR")
    <3>1. CASE Category(n) = "CSR"
      <4>1. (\E s \in {<<"csr", 2>>, <<"rs1", 3>>} : s[1] = f) <=> f \in {"csr", "rs1"}
        BY FieldOfTwo
      <4>2. Sources(n) = {<<"csr", 2>>, <<"rs1", 3>>}
        BY <2>2, <3>1
      <4> QED BY <4>1, <4>2, <3>1
    <3>2. CASE Category(n) # "CSR"
      <4>1. (\E s \in {<<"rs1", 2>>, <<"rs2", 3>>} : s[1] = f) <=> f \in {"rs1", "rs2"}
        BY FieldOfTwo
      <4>2. Sources(n) = {<<"rs1", 2>>, <<"rs2", 3>>}
        BY <2>2, <3>2
      <4> QED BY <4>1, <4>2, <3>2
    <3> QED BY <3>1, <3>2
  <2> QED BY <1>1, <2>1, <2>3
<1> QED BY <1>2, <1>3, <1>4, <1>5, Formats

LEMMA HasOfToInteger ==
  ASSUME NEW n \in HasAttributes, n \in ToInteger
  PROVE  "fd" \notin Has[n] /\ "rd" \in Has[n] /\ DestField(n) = "rd" /\ n \notin NoOperands
<1>1. IsFloat(n) /\ Format(n) = "I_FORMAT" /\ Category(n) = "ARITHMETIC" /\ n \notin NoOperands
  BY Formats
<1>2. Has[n] = set_fd_mode(n, set_mode(n))
  BY <1>1 DEF Has
<1>3. "fd" \notin Has[n] /\ "rd" \in Has[n]
  BY <1>1, <1>2 DEF set_fd_mode
<1> QED BY <1>1, <1>3 DEF DestField

LEMMA HasOfFromInteger ==
  ASSUME NEW n \in HasAttributes, n \in FromInteger, NEW o
  PROVE  /\ Has[n] \cap {"rs1", "rs2"} = {"rs1"} /\ SourcesOf(n, o) = {<<"rs1", 2>>}
         /\ DestField(n) = "fd" /\ n \notin NoOperands
<1>1. /\ IsFloat(n) /\ Format(n) = "I_FORMAT" /\ Category(n) = "ARITHMETIC" /\ n \notin NoOperands
      /\ n \notin ToInteger
  BY Formats DEF ToInteger, FromInteger
<1>2. Has[n] = set_fd_mode(n, set_mode(n))
  BY <1>1 DEF Has
<1>3. set_mode(n) = HasDefault \ {"rs2"}
  BY <1>1 DEF set_mode
<1>4. Has[n] = ((HasDefault \ {"rs2"}) \ {"fs2", "fs1"}) \cup {"rs1"}
  BY <1>1, <1>2, <1>3 DEF set_fd_mode
<1>5. Has[n] = {"rs1", "rd", "fd"}
  BY <1>4 DEF HasDefault
<1> QED BY <1>1, <1>5 DEF DestField, SourcesOf, FloatSources

LEMMA HasOfFused ==
  ASSUME NEW n \in HasAttributes, Fused(n), NEW o, NEW f \in {"fs1", "fs2", "fs3"}
  PROVE  /\ f \in Has[n] <=> \E s \in SourcesOf(n, o) : s[1] = f
         /\ "fd" \in Has[n] /\ DestField(n) = "fd" /\ n \notin NoOperands
         /\ f = "fs2" /\ f \in Has[n] => Arity(n) = {4}
<1>1. /\ IsFloat(n) /\ Format(n) \in {"I_FORMAT", "R4_FORMAT"} /\ Category(n) = "ARITHMETIC"
      /\ n \notin NoOperands /\ "fd" \in Has[n]
  BY Formats DEF Fused
<1>2. Has[n] = set_fd_mode(n, set_mode(n)) /\ SourcesOf(n, o) = FloatSources(n, Len(o))
  BY <1>1 DEF Has, SourcesOf
<1>3. set_mode(n) = IF Format(n) = "I_FORMAT" THEN HasDefault \ {"rs2"} ELSE HasDefault
  BY <1>1 DEF set_mode
<1>4. f \in Has[n] <=> \E s \in SourcesOf(n, o) : s[1] = f
  <2>1. CASE Format(n) = "R4_FORMAT"
    <3>1. FloatSources(n, Len(o)) = {<<"fs1", 2>>, <<"fs2", 3>>, <<"fs3", 4>>}
      BY <2>1 DEF FloatSources
    <3>2. f \in Has[n]
      BY <1>2, <1>3, <2>1 DEF set_fd_mode, HasDefault
    <3>3. \E s \in SourcesOf(n, o) : s[1] = f
      BY <1>2, <3>1
    <3> QED BY <3>2, <3>3
  <2>2. CASE Format(n) = "I_FORMAT"
    <3>1. FloatSources(n, Len(o)) = IF "fs1" \in Has[n] THEN {<<"fs1", 2>>} ELSE {<<"rs1", 2>>}
      BY <2>2 DEF FloatSources
    <3>2. Has[n] \cap {"fs1", "fs2", "fs3"} \subseteq {"fs1"}
      BY <1>1, <1>2, <1>3, <2>2 DEF set_fd_mode, HasDefault
    <3>3. CASE f = "fs1"
      <4>1. (\E s \in FloatSources(n, Len(o)) : s[1] = f) <=> "fs1" \in Has[n]
        <5>1. CASE "fs1" \in Has[n]
          <6>1. FloatSources(n, Len(o)) = {<<"fs1", 2>>}
            BY <3>1, <5>1
          <6> QED BY <3>3, <5>1, <6>1, FieldOfOne
        <5>2. CASE "fs1" \notin Has[n]
          <6>1. FloatSources(n, Len(o)) = {<<"rs1", 2>>}
            BY <3>1, <5>2
          <6>2. \A s \in {<<"rs1", 2>>} : s[1] # f
            BY <3>3
          <6> QED BY <5>2, <6>1, <6>2
        <5> QED BY <5>1, <5>2
      <4> QED BY <1>2, <3>3, <4>1
    <3>4. CASE f # "fs1"
      <4>1. f \notin Has[n]
        BY <3>2, <3>4
      <4>2. \A s \in FloatSources(n, Len(o)) : s[1] # f
        BY <3>1, <3>4
      <4> QED BY <1>2, <4>1, <4>2
    <3> QED BY <3>3, <3>4
  <2> QED BY <1>1, <2>1, <2>2
<1>5. f = "fs2" /\ f \in Has[n] => Arity(n) = {4}
  <2>1. Format(n) = "I_FORMAT" => "fs2" \notin Has[n]
    BY <1>1, <1>2, <1>3 DEF set_fd_mode
  <2> QED BY <1>1, <2>1 DEF Arity
<1> QED BY <1>1, <1>4, <1>5 DEF DestField

\* What the attribute table says of the operands that are written: one row of it.
Unparsed == {"NOP", "WFI", "FENCE", "FENCE_I", "C_NOP"}
SignMoves == {"FSGNJ_S", "FSGNJX_S", "FSGNJN_S", "FSGNJ_D", "FSGNJX_D", "FSGNJN_D"}
RowWritten(r) ==
  /\ r.name \in TwoAddress => r.group \in {"RV32C", "RV64C"}
  /\ r.group \in {"RV32C", "RV64C"} =>
       r.format \in {"CI_FORMAT", "CIW_FORMAT", "CL_FORMAT", "CS_FORMAT", "CA_FORMAT", "CB_FORMAT",
                     "CSS_FORMAT", "CR_FORMAT", "CJ_FORMAT"}
  /\ r.format = "CA_FORMAT" => r.name \in TwoAddress
  /\ r.name \in NoOperands \ (Unparsed \cup {"SFENCE_VMA"}) => r.category = "SYSTEM"
  /\ r.name = "SFENCE_VMA" => r.format = "R_FORMAT" /\ r.category # "CSR"
  /\ r.name \in Unparsed \cup {"SFENCE_VMA"} => r.category \notin {"LOAD", "STORE"}
  /\ r.category = "SYSTEM" => r.name \in NoOperands \cup {"DRET"}
  /\ r.name = "DRET" => r.group \notin FloatGroups /\ r.format = "I_FORMAT" /\ r.category = "SYSTEM"
  /\ (r.group \notin FloatGroups /\ r.category = "LOAD") =>
       r.format \in {"I_FORMAT", "CL_FORMAT"} \/ (r.format = "CI_FORMAT" /\ r.name \in {"C_LWSP", "C_LDSP"})
  /\ (r.group \notin FloatGroups /\ r.category = "STORE") =>
       r.format \in {"S_FORMAT", "CS_FORMAT", "CSS_FORMAT"}
  /\ (r.group \in FloatGroups /\ r.category = "LOAD") =>
       r.name \in {"FLW", "FLD", "FSD"} /\ r.format = "I_FORMAT"
  /\ (r.group \in FloatGroups /\ r.format = "S_FORMAT") => r.name = "FSW"
  /\ r.name = "FSD" => r.category = "LOAD" /\ r.format = "I_FORMAT"
  /\ r.name \in SignMoves => r.group \in FloatGroups /\ r.format = "R_FORMAT" /\ r.category # "COMPARE"
  /\ r.name \in {"FCLASS_S", "FCLASS_D"} => r.category # "COMPARE"
  /\ r.name = "C_JAL" => r.group \notin FloatGroups

LEMMA RowsWritten == \A r \in AttrRows : RowWritten(r)
<1> USE DEF Row, RowWritten, FloatGroups, TwoAddress, NoOperands, Unparsed, SignMoves
<1>1. \A r \in Rv32iMemory : RowWritten(r)
  BY DEF Rv32iMemory
<1>2. \A r \in Rv32iCompute : RowWritten(r)
  BY DEF Rv32iCompute
<1>3. \A r \in Rv32iControl : RowWritten(r)
  BY DEF Rv32iControl
<1>4. \A r \in Rv32mRows : RowWritten(r)
  BY DEF Rv32mRows
<1>5. \A r \in Rv64iRows : RowWritten(r)
  BY DEF Rv64iRows
<1>6. \A r \in Rv64mRows : RowWritten(r)
  BY DEF Rv64mRows
<1>7. \A r \in Rv32cRows : RowWritten(r)
  BY DEF Rv32cRows
<1>8. \A r \in Rv64cRows : RowWritten(r)
  BY DEF Rv64cRows
<1>9. \A r \in Rv32fRows : RowWritten(r)
  BY DEF Rv32fRows
<1>10. \A r \in Rv32dRows : RowWritten(r)
  BY DEF Rv32dRows
<1> HIDE DEF RowWritten
<1> QED BY <1>1, <1>2, <1>3, <1>4, <1>5, <1>6, <1>7, <1>8, <1>9, <1>10 DEF AttrRows

\* What of it the operands depend on.
LEMMA WrittenTable ==
  ASSUME NEW n \in HasAttributes
  PROVE  RowWritten(get_attr_list[n]) /\ get_attr_list[n].name = n
BY TableRow, RowsWritten

-----------------------------------------------------------------------------
(***************************************************************************)
(* The operands: where those of a row convert at all, they are the ones    *)
(* the instruction is written with.                                        *)
(***************************************************************************)
NameOf(e) == update_instr_name(e.instr)
Fields(n, e) == {s[1] : s \in SourcesOf(n, e.operand)}
\* The names of a row's sources of which the hazards are computed.
Named(n, e) ==
  {SourceName(e, s) : s \in {t \in SourcesOf(n, e.operand) : t[1] \in RegFields}}

\* The kinds of operands.
IntegerOperands == {"rd", "rs1", "rs2", "sp", "zero"}
FloatOperands == {"fd", "fs1", "fs2", "fs3"}
Kind(f) ==
  CASE f \in IntegerOperands -> "integer"
    [] f \in FloatOperands -> "float"
    [] OTHER -> f
SourceFieldNames == {"rs1", "rs2", "fs1", "fs2", "fs3", "imm", "csr"}
OperandFields == IntegerOperands \cup FloatOperands \cup {"imm", "csr", "none"}
\* Whether every source is taken from an operand of its kind.
Placed(text, sources) ==
  \A s \in sources : s[2] # 0 => s[2] \in DOMAIN text /\ Kind(text[s[2]]) = Kind(s[1])
\* Whether the sources are the operands that are read: those of the integer and fused
\* instructions are all of them, those of an access are the base and the offset.
Told(n, text, sources) ==
  /\ \A s \in sources : s[1] \in RegFields =>
       IF s[2] = 0 THEN \E k \in DOMAIN text : text[k] = "sp" ELSE text[s[2]] \in ReadFields(n) \/ (Len(text) = 2 /\ s[1] = "fs2")
  /\ (Fused(n) \/ n \in FromInteger \/ WholeInteger(n)) =>
       \A k \in DOMAIN text : text[k] \in ReadFields(n) =>
         \E s \in sources : s[1] \in RegFields /\ s[2] = k
  /\ IsMemory(n) =>
       /\ \E s \in sources : s[1] = "rs1"
       /\ \E s \in sources : s[1] = "imm"
       /\ \A s \in sources : \A k \in DOMAIN text :
            /\ (s[1] = "rs1" /\ text[k] \in {"rs1", "sp"}) => s[2] = k \/ (s[2] = 0 /\ text[k] = "sp")
            /\ (s[1] = "imm" /\ text[k] = "imm") => s[2] = k

\* An operand of a kind converts to a field of that kind, and to no other.
LEMMA Spelled ==
  ASSUME NEW f \in OperandFields, NEW g \in SourceFieldNames \cup {"rd", "fd"}, NEW o \in Spelling(f)
  PROVE  Converts(g, o) <=> Kind(f) = Kind(g)
<1> DEFINE I == DOMAIN riscv_reg_t
           F == DOMAIN riscv_fpr_t
<1>1. /\ I \cap F = {} /\ I \cap (Immediates \cup Csrs \cup {""}) = {}
      /\ F \cap (Immediates \cup Csrs \cup {""}) = {} /\ Immediates \cap Csrs = {}
      /\ "" \notin Immediates \cup Csrs /\ {"SP", "ZERO"} \subseteq I
  BY DEF riscv_reg_t, riscv_fpr_t, Immediates, Csrs
<1>2. \A x : /\ g \in {"rs1", "rs2", "rd"} => (Converts(g, x) <=> x \in I)
             /\ g \in {"fs1", "fs2", "fs3", "fd"} => (Converts(g, x) <=> x \in F)
             /\ g = "imm" => (Converts(g, x) <=> x \in Immediates)
             /\ g = "csr" => (Converts(g, x) <=> x \in Csrs)
  BY DEF Converts
<1>3. /\ f \in IntegerOperands => o \in I
      /\ f \in FloatOperands => o \in F
      /\ f = "imm" => o \in Immediates
      /\ f = "csr" => o \in Csrs
      /\ f = "none" => o = ""
  BY <1>1 DEF Spelling, IntegerOperands, FloatOperands
<1> HIDE DEF I, F
<1> QED BY <1>1, <1>2, <1>3 DEF Kind, SourceFieldNames, OperandFields, IntegerOperands, FloatOperands

Exact(n) == Fused(n) \/ n \in FromInteger \/ WholeInteger(n)
\* An instruction as convert2asm writes it: its sources are found where it names them,
\* and those of an access are not found if its address is written the other way round.
Shown(n, text, sources) ==
  /\ Placed(text, sources) /\ Told(n, text, sources) /\ Len(text) \in Arity(n)
  /\ DOMAIN text = 1 .. Len(text)
  /\ \A k \in DOMAIN text : text[k] \in OperandFields
  /\ \A k \in DOMAIN text : text[k] \in WrittenFields(n) => Kind(text[k]) = Kind(DestField(n))
  /\ IsAddress(text) => <<"imm", 2>> \in sources /\ text[3] \in {"rs1", "sp"}

LEMMA WholeShown ==
  ASSUME NEW n \in HasAttributes, WholeInteger(n), n \notin NoOperands, n # "DRET"
  PROVE  Shown(n, convert2asm(n), Sources(n))
<1>0. DestField(n) = "rd"
  BY HasOfInteger DEF WholeInteger
<1>1. /\ Category(n) # "SYSTEM" /\ n \notin TwoAddress /\ ~IsFloat(n) /\ ~Compressed(n)
      /\ n \notin {"NOP", "WFI", "FENCE", "FENCE_I", "C_NOP", "SFENCE_VMA"}
      /\ (IsMemory(n) => Format(n) \in {"I_FORMAT", "S_FORMAT"})
      /\ (IsMemory(n) /\ Format(n) = "I_FORMAT" => Category(n) = "LOAD")
  BY WrittenTable, Formats DEF RowWritten, WholeInteger, IsFloat, Compressed, Category, Format, IsMemory, FloatGroups, NoOperands
<1>2. convert2asm(n) = IntegerText(n)
  BY <1>1 DEF convert2asm
<1>3. Format(n) \in {"I_FORMAT", "S_FORMAT", "B_FORMAT", "U_FORMAT", "J_FORMAT", "R_FORMAT"}
  BY Formats
<1> USE DEF Shown, Placed, Told, Kind, IntegerOperands, FloatOperands, OperandFields, ReadFields, WrittenFields, RegFields, IsAddress
<1>4. CASE Format(n) \in {"J_FORMAT", "U_FORMAT"}
  <2>1. convert2asm(n) = <<"rd", "imm">> /\ Sources(n) = {<<"imm", 2>>}
    BY <1>1, <1>2, <1>4 DEF IntegerText, Sources
  <2>2. 2 \in Arity(n) /\ ~IsMemory(n)
    BY <1>1, <1>4 DEF Arity, IsMemory
  <2> QED BY <1>0, <1>1, <2>1, <2>2
<1>5. CASE Format(n) = "I_FORMAT" /\ Category(n) = "LOAD"
  <2>1. convert2asm(n) = <<"rd", "imm", "rs1">> /\ Sources(n) = {<<"rs1", 3>>, <<"imm", 2>>}
    BY <1>1, <1>2, <1>5 DEF IntegerText, Sources
  <2>2. 3 \in Arity(n)
    BY <1>1, <1>5 DEF Arity, IsMemory
  <2> QED BY <1>0, <1>1, <2>1, <2>2
<1>6. CASE Format(n) = "I_FORMAT" /\ Category(n) = "CSR"
  <2>1. convert2asm(n) = <<"rd", "csr", "imm">> /\ Sources(n) = {<<"csr", 2>>, <<"imm", 3>>}
    BY <1>1, <1>2, <1>6 DEF IntegerText, Sources
  <2>2. 3 \in Arity(n) /\ ~IsMemory(n)
    BY <1>1, <1>6 DEF Arity, IsMemory
  <2> QED BY <1>0, <1>1, <2>1, <2>2
<1>7. CASE Format(n) = "I_FORMAT" /\ Category(n) \notin {"LOAD", "CSR"}
  <2>1. convert2asm(n) = <<"rd", "rs1", "imm">> /\ Sources(n) = {<<"rs1", 2>>, <<"imm", 3>>}
    BY <1>1, <1>2, <1>7 DEF IntegerText, Sources
  <2>2. 3 \in Arity(n) /\ ~IsMemory(n)
    BY <1>1, <1>7 DEF Arity, IsMemory
  <2> QED BY <1>0, <1>1, <2>1, <2>2
<1>8. CASE Format(n) = "S_FORMAT"
  <2>1. convert2asm(n) = <<"rs2", "imm", "rs1">> /\ Sources(n) = {<<"rs2", 1>>, <<"imm", 2>>, <<"rs1", 3>>}
    BY <1>1, <1>2, <1>8 DEF IntegerText, Sources
  <2>2. 3 \in Arity(n)
    BY <1>1, <1>8 DEF Arity, IsMemory
  <2> QED BY <1>0, <1>1, <2>1, <2>2
<1>9. CASE Format(n) = "B_FORMAT"
  <2>1. convert2asm(n) = <<"rs1", "rs2", "imm">> /\ Sources(n) = {<<"rs1", 1>>, <<"rs2", 2>>, <<"imm", 3>>}
    BY <1>1, <1>2, <1>9 DEF IntegerText, Sources
  <2>2. 3 \in Arity(n) /\ ~IsMemory(n)
    BY <1>1, <1>9 DEF Arity, IsMemory
  <2> QED BY <1>0, <1>1, <2>1, <2>2
<1>10. CASE Format(n) = "R_FORMAT" /\ Category(n) = "CSR"
  <2>1. convert2asm(n) = <<"rd", "csr", "rs1">> /\ Sources(n) = {<<"csr", 2>>, <<"rs1", 3>>}
    BY <1>1, <1>2, <1>10 DEF IntegerText, Sources
  <2>2. 3 \in Arity(n) /\ ~IsMemory(n)
    BY <1>1, <1>10 DEF Arity, IsMemory
  <2> QED BY <1>0, <1>1, <2>1, <2>2
<1>11. CASE Format(n) = "R_FORMAT" /\ Category(n) # "CSR"
  <2>1. convert2asm(n) = <<"rd", "rs1", "rs2">> /\ Sources(n) = {<<"rs1", 2>>, <<"rs2", 3>>}
    BY <1>1, <1>2, <1>11 DEF IntegerText, Sources
  <2>2. 3 \in Arity(n) /\ ~IsMemory(n)
    BY <1>1, <1>11 DEF Arity, IsMemory
  <2> QED BY <1>0, <1>1, <2>1, <2>2
<1> QED BY <1>3, <1>4, <1>5, <1>6, <1>7, <1>8, <1>9, <1>10, <1>11

LEMMA CompressedShown ==
  ASSUME NEW n \in HasAttributes, ~IsFloat(n), Compressed(n), n \notin NoOperands
  PROVE  Shown(n, convert2asm(n), Sources(n))
<1>0. DestField(n) = "rd"
  BY HasOfInteger
<1>1. /\ Category(n) \notin {"SYSTEM", "CSR"} /\ ~IsFloat(n) /\ ~Exact(n) /\ n # "DRET"
      /\ n \notin {"NOP", "WFI", "FENCE", "FENCE_I", "C_NOP", "SFENCE_VMA"}
      /\ (IsMemory(n) => \/ Format(n) \in {"CL_FORMAT", "CS_FORMAT", "CSS_FORMAT"}
                         \/ Format(n) = "CI_FORMAT" /\ n \in {"C_LWSP", "C_LDSP"})
      /\ (Format(n) = "CA_FORMAT" => n \in TwoAddress)
  <2>1. RowWritten(get_attr_list[n]) /\ get_attr_list[n].name = n
    BY WrittenTable
  <2>2. Format(n) \in {"CI_FORMAT", "CIW_FORMAT", "CL_FORMAT", "CS_FORMAT", "CA_FORMAT",
                      "CB_FORMAT", "CSS_FORMAT", "CR_FORMAT", "CJ_FORMAT"}
    BY <2>1 DEF RowWritten, Compressed, Format
  <2>3. Category(n) # "CSR" /\ n \notin FromInteger /\ ~Fused(n) /\ ~WholeInteger(n) /\ n # "SFENCE_VMA"
    BY <2>1, <2>2, Formats DEF RowWritten, Fused, WholeInteger, Format
  <2> QED BY <2>1, <2>2, <2>3
     DEF RowWritten, Exact, IsFloat, Compressed, Category, Format, IsMemory, FloatGroups, NoOperands
<1>2. convert2asm(n) = CompressedText(n)
  BY <1>1 DEF convert2asm
<1>3. Format(n) \in {"CI_FORMAT", "CIW_FORMAT", "CL_FORMAT", "CS_FORMAT", "CA_FORMAT",
                    "CB_FORMAT", "CSS_FORMAT", "CR_FORMAT", "CJ_FORMAT"}
  BY WrittenTable DEF RowWritten, Compressed, Format
<1> USE DEF Exact, Shown, Placed, Told, Kind, IntegerOperands, FloatOperands, OperandFields, ReadFields, WrittenFields, RegFields, IsAddress
<1>4. CASE Format(n) \in {"CI_FORMAT", "CIW_FORMAT"} /\ n = "C_ADDI16SP"
  <2>1. convert2asm(n) = <<"sp", "imm">> /\ Sources(n) = {<<"imm", 2>>, <<"rs1", 0>>}
    BY <1>1, <1>2, <1>4 DEF CompressedText, Sources
  <2>2. 2 \in Arity(n) /\ ~IsMemory(n)
    BY <1>1, <1>4 DEF Arity, IsMemory
  <2> QED BY <1>0, <1>1, <2>1, <2>2
<1>5. CASE Format(n) \in {"CI_FORMAT", "CIW_FORMAT"} /\ n = "C_ADDI4SPN"
  <2>1. convert2asm(n) = <<"rd", "sp", "imm">> /\ Sources(n) = {<<"rs1", 0>>}
    BY <1>1, <1>2, <1>5 DEF CompressedText, Sources
  <2>2. 3 \in Arity(n) /\ ~IsMemory(n)
    BY <1>1, <1>5 DEF Arity, IsMemory
  <2> QED BY <1>0, <1>1, <2>1, <2>2
<1>6. CASE Format(n) \in {"CI_FORMAT", "CIW_FORMAT"} /\ n \in {"C_LDSP", "C_LWSP"}
  <2>1. convert2asm(n) = <<"rd", "imm", "sp">> /\ Sources(n) = {<<"imm", 2>>, <<"rs1", 0>>}
    BY <1>1, <1>2, <1>6 DEF CompressedText, Sources
  <2>2. 3 \in Arity(n)
    BY <1>1, <1>6 DEF Arity, IsMemory
  <2> QED BY <1>0, <1>1, <2>1, <2>2
<1>7. CASE Format(n) \in {"CI_FORMAT", "CIW_FORMAT"} /\ n \notin {"C_ADDI16SP", "C_ADDI4SPN", "C_LDSP", "C_LWSP"}
  <2>1. convert2asm(n) = <<"rd", "imm">> /\ Sources(n) = {<<"imm", 2>>}
    BY <1>1, <1>2, <1>7 DEF CompressedText, Sources
  <2>2. 2 \in Arity(n) /\ ~IsMemory(n)
    BY <1>1, <1>7 DEF Arity, IsMemory
  <2> QED BY <1>0, <1>1, <2>1, <2>2
<1>8. CASE Format(n) = "CL_FORMAT"
  <2>1. convert2asm(n) = <<"rd", "imm", "rs1">> /\ Sources(n) = {<<"imm", 2>>, <<"rs1", 3>>}
    BY <1>1, <1>2, <1>8 DEF CompressedText, Sources
  <2>2. 3 \in Arity(n)
    BY <1>1, <1>8 DEF Arity, IsMemory
  <2> QED BY <1>0, <1>1, <2>1, <2>2
<1>9. CASE Format(n) = "CS_FORMAT"
  <2>1. convert2asm(n) = <<"rs2", "imm", "rs1">> /\ Sources(n) = {<<"rs2", 1>>, <<"imm", 2>>, <<"rs1", 3>>}
    BY <1>1, <1>2, <1>9 DEF CompressedText, Sources
  <2>2. 3 \in Arity(n)
    BY <1>1, <1>9 DEF Arity, IsMemory
  <2> QED BY <1>0, <1>1, <2>1, <2>2
<1>10. CASE Format(n) = "CA_FORMAT"
  <2>1. convert2asm(n) = <<"rd", "rs2">> /\ Sources(n) = {<<"rs1", 1>>, <<"rs2", 2>>}
    BY <1>1, <1>2, <1>10 DEF CompressedText, Sources
  <2>2. 2 \in Arity(n) /\ ~IsMemory(n)
    BY <1>1, <1>10 DEF Arity, IsMemory
  <2> QED BY <1>0, <1>1, <1>10, <2>1, <2>2
<1>11. CASE Format(n) = "CB_FORMAT"
  <2>1. convert2asm(n) = <<"rs1", "imm">> /\ Sources(n) = {<<"rs1", 1>>, <<"imm", 2>>}
    BY <1>1, <1>2, <1>11 DEF CompressedText, Sources
  <2>2. 2 \in Arity(n) /\ ~IsMemory(n)
    BY <1>1, <1>11 DEF Arity, IsMemory
  <2> QED BY <1>0, <1>1, <2>1, <2>2
<1>12. CASE Format(n) = "CSS_FORMAT"
  <2>1. convert2asm(n) = <<"rs2", "imm", "sp">> /\ Sources(n) = {<<"rs2", 1>>, <<"imm", 2>>, <<"rs1", 0>>}
    BY <1>1, <1>2, <1>12 DEF CompressedText, Sources
  <2>2. 3 \in Arity(n)
    BY <1>1, <1>12 DEF Arity, IsMemory
  <2> QED BY <1>0, <1>1, <2>1, <2>2
<1>13. CASE Format(n) = "CR_FORMAT" /\ n \in {"C_JR", "C_JALR"}
  <2>1. convert2asm(n) = <<"rs1">> /\ Sources(n) = {<<"rs1", 1>>}
    BY <1>1, <1>2, <1>13 DEF CompressedText, Sources
  <2>2. 1 \in Arity(n) /\ ~IsMemory(n)
    BY <1>1, <1>13 DEF Arity, IsMemory
  <2> QED BY <1>0, <1>1, <2>1, <2>2
<1>14. CASE Format(n) = "CR_FORMAT" /\ n \notin {"C_JR", "C_JALR"}
  <2>1. convert2asm(n) = <<"rd", "rs2">> /\ Sources(n) = {<<"rs2", 2>>}
    BY <1>1, <1>2, <1>14 DEF CompressedText, Sources
  <2>2. 2 \in Arity(n) /\ ~IsMemory(n)
    BY <1>1, <1>14 DEF Arity, IsMemory
  <2> QED BY <1>0, <1>1, <2>1, <2>2
<1>15. CASE Format(n) = "CJ_FORMAT"
  <2>1. convert2asm(n) = <<"imm">> /\ Sources(n) = {<<"imm", 1>>}
    BY <1>1, <1>2, <1>15 DEF CompressedText, Sources
  <2>2. 1 \in Arity(n) /\ ~IsMemory(n)
    BY <1>1, <1>15 DEF Arity, IsMemory
  <2> QED BY <1>0, <1>1, <2>1, <2>2
<1> QED BY <1>3, <1>4, <1>5, <1>6, <1>7, <1>8, <1>9, <1>10, <1>11, <1>12, <1>13, <1>14, <1>15

\* Floating point: accesses are written otherwise than they are read.
LEMMA FloatShown ==
  ASSUME NEW n \in HasAttributes, IsFloat(n), Category(n) # "LOAD", Format(n) # "S_FORMAT"
  PROVE  Shown(n, convert2asm(n), FloatSources(n, Len(convert2asm(n))))
<1>1. ~IsMemory(n) /\ n \notin TwoAddress /\ n # "FSD" /\ ~WholeInteger(n)
  BY WrittenTable DEF RowWritten, WholeInteger, IsFloat, Category, IsMemory, FloatGroups
<1>2. convert2asm(n) = FloatText(n)
  BY DEF convert2asm
<1>3. Format(n) \in {"I_FORMAT", "R_FORMAT", "R4_FORMAT"} /\ n \notin NoOperands
  BY Formats
<1>4. (n \in {"FCLASS_S", "FCLASS_D"} => Category(n) # "COMPARE") /\ (n \in SignMoves => Format(n) = "R_FORMAT") /\ (n \in FromInteger => Format(n) = "I_FORMAT")
  BY WrittenTable, Formats DEF RowWritten, Format, Category
<1>5. Has[n] = set_fd_mode(n, set_mode(n))
  BY DEF Has
<1> USE DEF Exact, Placed, Told, Kind, IntegerOperands, FloatOperands, OperandFields, ReadFields, WrittenFields, RegFields, IsAddress
<1>6. CASE Format(n) = "I_FORMAT"
  <2>1. set_mode(n) \cap {"fs1", "fd"} = {"fs1", "fd"}
    BY DEF set_mode, HasDefault
  <2>5. Format(n) # "CB_FORMAT"
    BY <1>6
  <2>2. CASE n \in ToInteger
    <3>1. "fs1" \in Has[n] /\ DestField(n) = "rd"
      BY <1>5, <1>6, <2>1, <2>2, HasOfToInteger DEF set_fd_mode
    <3>2. convert2asm(n) = <<"rd", "fs1">> /\ FloatSources(n, 2) = {<<"fs1", 2>>}
      BY <1>1, <1>2, <1>6, <2>2, <3>1 DEF FloatText, FloatSources, ToInteger, FromInteger
    <3>3. 2 \in Arity(n)
      BY <1>6 DEF Arity
    <3>4. Len(convert2asm(n)) = 2
      BY <3>2
    <3>5. Shown(n, <<"rd", "fs1">>, {<<"fs1", 2>>})
      BY <1>1, <1>6, <3>1, <3>3 DEF Shown
    <3> QED BY <3>2, <3>3, <3>4, <3>5, Zenon
  <2>3. CASE n \in FromInteger
    <3>1. DestField(n) = "fd" /\ \A o : SourcesOf(n, o) = {<<"rs1", 2>>}
      BY <2>3, HasOfFromInteger
    <3>2. convert2asm(n) = <<"fd", "rs1">>
      BY <1>1, <1>2, <1>6, <2>3 DEF FloatText, ToInteger, FromInteger
    <3>3. 2 \in Arity(n) /\ FloatSources(n, 2) = {<<"rs1", 2>>}
      <4>1. SourcesOf(n, <<1, 2>>) = FloatSources(n, Len(<<1, 2>>))
        BY <1>3, Zenon DEF SourcesOf
      <4>2. Len(<<1, 2>>) = 2
        OBVIOUS
      <4> HIDE DEF Shown
      <4>3. FloatSources(n, 2) = {<<"rs1", 2>>}
        BY <3>1, <4>1, <4>2, Zenon
      <4> QED BY <1>6, <4>3 DEF Arity
    <3>4. Len(convert2asm(n)) = 2
      BY <3>2
    <3>5. Shown(n, <<"fd", "rs1">>, {<<"rs1", 2>>})
      BY <1>1, <1>6, <3>1, <3>3 DEF Shown
    <3> QED BY <3>2, <3>3, <3>4, <3>5, Zenon
  <2>4. CASE n \notin ToInteger \cup FromInteger
    <3>1. "fs1" \in Has[n] /\ DestField(n) = "fd"
      BY <1>5, <1>6, <2>1, <2>4 DEF set_fd_mode, DestField
    <3>2. convert2asm(n) = <<"fd", "fs1">> /\ FloatSources(n, 2) = {<<"fs1", 2>>}
      BY <1>1, <1>2, <1>6, <2>4, <3>1 DEF FloatText, FloatSources
    <3>3. 2 \in Arity(n)
      BY <1>6 DEF Arity
    <3>4. Len(convert2asm(n)) = 2
      BY <3>2
    <3>5. Shown(n, <<"fd", "fs1">>, {<<"fs1", 2>>})
      BY <1>1, <1>6, <3>1, <3>3 DEF Shown
    <3> QED BY <3>2, <3>3, <3>4, <3>5, Zenon
  <2> QED BY <2>2, <2>3, <2>4
<1>7. CASE Format(n) = "R_FORMAT"
  <2>1. ~Exact(n) /\ Arity(n) = 1..4
    BY <1>1, <1>4, <1>7 DEF Fused, Arity
  <2>2. "fd" \in set_mode(n)
    BY DEF set_mode, HasDefault
  <2>3. CASE n \in {"FCLASS_S", "FCLASS_D"}
    <3>1. convert2asm(n) = <<"rd", "fs1">> /\ FloatSources(n, 2) = {}
      BY <1>1, <1>2, <1>4, <1>7, <2>3 DEF FloatText, FloatSources
    <3>2. Len(convert2asm(n)) = 2
      BY <3>1
    <3>3. DestField(n) = "rd"
      BY <1>4, <1>5, <1>7, <2>3 DEF DestField, set_fd_mode
    <3>4. Shown(n, <<"rd", "fs1">>, {})
      BY <1>1, <1>7, <2>1, <3>3 DEF Shown
    <3> QED BY <3>1, <3>2, <3>4, Zenon
  <2>4. CASE Category(n) = "COMPARE"
    <3>1. convert2asm(n) = <<"rd", "fs1", "fs2">> /\ FloatSources(n, 3) = {}
      BY <1>1, <1>2, <1>4, <1>7, <2>4 DEF FloatText, FloatSources
    <3>2. Len(convert2asm(n)) = 3
      BY <3>1
    <3>3. DestField(n) = "rd"
      BY <1>5, <1>7, <2>4 DEF DestField, set_fd_mode
    <3>4. Shown(n, <<"rd", "fs1", "fs2">>, {})
      BY <1>1, <1>7, <2>1, <3>3 DEF Shown
    <3> QED BY <3>1, <3>2, <3>4, Zenon
  <2>5. CASE n \notin {"FCLASS_S", "FCLASS_D"} /\ Category(n) # "COMPARE"
    <3>1. convert2asm(n) = <<"fd", "fs1", "fs2">> /\ FloatSources(n, 3) = {}
      BY <1>1, <1>2, <1>7, <2>5 DEF FloatText, FloatSources
    <3>2. Len(convert2asm(n)) = 3
      BY <3>1
    <3>3. DestField(n) = "fd"
      BY <1>5, <1>7, <2>2, <2>5 DEF DestField, set_fd_mode
    <3>4. Shown(n, <<"fd", "fs1", "fs2">>, {})
      BY <1>1, <1>7, <2>1, <3>3 DEF Shown
    <3> QED BY <3>1, <3>2, <3>4, Zenon
  <2> QED BY <2>3, <2>4, <2>5
<1>8. CASE Format(n) = "R4_FORMAT"
  <2>1. /\ convert2asm(n) = <<"fd", "fs1", "fs2", "fs3">>
        /\ FloatSources(n, 4) = {<<"fs1", 2>>, <<"fs2", 3>>, <<"fs3", 4>>}
    BY <1>1, <1>2, <1>8 DEF FloatText, FloatSources
  <2>2. 4 \in Arity(n) /\ DestField(n) = "fd"
    BY <1>5, <1>8 DEF Arity, DestField, set_fd_mode, set_mode, HasDefault
  <2>3. Len(convert2asm(n)) = 4
    BY <2>1
  <2>4. Shown(n, <<"fd", "fs1", "fs2", "fs3">>, {<<"fs1", 2>>, <<"fs2", 3>>, <<"fs3", 4>>})
    BY <1>1, <1>8, <2>2 DEF Shown
  <2> QED BY <2>1, <2>3, <2>4, Zenon
<1> QED BY <1>3, <1>6, <1>7, <1>8

LEMMA SignMoveShown ==
  ASSUME NEW n \in HasAttributes, n \in SignMoves
  PROVE  IsFloat(n) /\ Shown(n, <<"fd", "fs1">>, FloatSources(n, 2))
<1>1. ~IsMemory(n) /\ n \notin TwoAddress /\ ~WholeInteger(n) /\ Format(n) = "R_FORMAT" /\ IsFloat(n)
  BY WrittenTable DEF RowWritten, WholeInteger, IsFloat, Category, IsMemory, FloatGroups, Format
<1>2. n \notin FromInteger /\ ~Fused(n) /\ 2 \in Arity(n)
  BY <1>1, Formats DEF Fused, Arity
<1>3. FloatSources(n, 2) = {<<"fs1", 2>>, <<"fs2", 1>>}
  BY <1>1 DEF FloatSources, SignMoves
<1>4. "fd" \in set_mode(n) /\ Has[n] = set_fd_mode(n, set_mode(n)) /\ Category(n) # "COMPARE"
  BY <1>1, WrittenTable DEF set_mode, HasDefault, Has, RowWritten, Category
<1>5. DestField(n) = "fd"
  BY <1>1, <1>4 DEF DestField, set_fd_mode, SignMoves
<1> QED BY <1>1, <1>2, <1>3, <1>5
     DEF Exact, Shown, Placed, Told, Kind, IntegerOperands, FloatOperands, OperandFields, ReadFields, WrittenFields, RegFields, IsAddress

\* A store as the converters write it.
LEMMA FswShown ==
  ASSUME NEW n \in HasAttributes, IsFloat(n), Format(n) = "S_FORMAT"
  PROVE  /\ convert2asm(n) = <<"fs2", "imm", "rs1">>
         /\ \A k : FloatSources(n, k) = {<<"fs2", 1>>, <<"rs1", 2>>, <<"imm", 3>>}
         /\ Shown(n, <<"fs2", "rs1", "imm">>, FloatSources(n, 3))
<1>1. ~IsMemory(n) /\ n \notin TwoAddress /\ ~WholeInteger(n)
  BY WrittenTable DEF RowWritten, WholeInteger, IsFloat, Category, IsMemory, FloatGroups, Format
<1>2. n \notin FromInteger /\ ~Fused(n) /\ 3 \in Arity(n)
  BY <1>1, Formats DEF Fused, Arity
<1>3. \A k : FloatSources(n, k) = {<<"fs2", 1>>, <<"rs1", 2>>, <<"imm", 3>>}
  BY DEF FloatSources
<1>4. convert2asm(n) = <<"fs2", "imm", "rs1">>
  BY DEF convert2asm, FloatText
<1>5. Shown(n, <<"fs2", "rs1", "imm">>, {<<"fs2", 1>>, <<"rs1", 2>>, <<"imm", 3>>})
  BY <1>1, <1>2
     DEF Exact, Shown, Placed, Told, Kind, IntegerOperands, FloatOperands, OperandFields, ReadFields, WrittenFields, RegFields, IsAddress
<1> QED BY <1>3, <1>4, <1>5

\* A load is written with an address, which has no floating-point register.
LEMMA FloatLoadText ==
  ASSUME NEW n \in HasAttributes, IsFloat(n), Category(n) = "LOAD"
  PROVE  /\ convert2asm(n) \in {<<"fd", "imm", "rs1">>, <<"fs2", "imm", "rs1">>}
         /\ \A k : FloatSources(n, k) = {<<"fs1", 2>>}
<1>1. /\ n \in {"FLW", "FLD", "FSD"} /\ Format(n) = "I_FORMAT"
      /\ n \notin ToInteger \cup FromInteger
  BY WrittenTable DEF RowWritten, IsFloat, Category, FloatGroups, Format, ToInteger, FromInteger
<1>2. convert2asm(n) \in {<<"fd", "imm", "rs1">>, <<"fs2", "imm", "rs1">>}
  BY <1>1 DEF convert2asm, FloatText
<1>3. set_mode(n) \cap {"fs1"} = {"fs1"} /\ Has[n] = set_fd_mode(n, set_mode(n))
  BY DEF Has, set_mode, HasDefault
<1>4. "fs1" \in Has[n]
  BY <1>1, <1>3 DEF set_fd_mode
<1> QED BY <1>1, <1>2, <1>4 DEF FloatSources

\* The fields that sources fill.
LEMMA SourceKinds ==
  ASSUME NEW n \in HasAttributes, NEW o, NEW s \in SourcesOf(n, o)
  PROVE  s[1] \in SourceFieldNames /\ (s[2] = 0 => s[1] = "rs1") /\ s[2] \in Nat
<1>1. CASE IsFloat(n)
  <2>1. s \in FloatSources(n, Len(o))
    BY <1>1, Formats DEF SourcesOf
  <2>2. s[2] \in Nat
    BY <1>1, <2>1, Formats DEF FloatSources
  <2> QED BY <1>1, <2>2, FloatFields DEF SourceFieldNames
<1>2. CASE ~IsFloat(n)
  <2>1. s \in Sources(n)
    BY <1>2 DEF SourcesOf
  <2>2. Sources(n) \in SourceSets
    BY <1>2, SourcesShape
  <2>3. \A S \in SourceSets : \A x \in S : x[2] \in Nat
    BY DEF SourceSets
  <2> QED BY <1>2, <2>1, <2>2, <2>3, IntegerFields DEF SourceFieldNames
<1> QED BY <1>1, <1>2

\* A source that is looked for where an operand of another kind is cannot be converted.
LEMMA Misplaced ==
  ASSUME NEW e, AsWritten(e), NEW n \in HasAttributes, n = NameOf(e), n \notin NoOperands,
         NEW s \in SourcesOf(n, e.operand), s[2] \in DOMAIN Text(e), s[2] # 0,
         Text(e)[s[2]] \in OperandFields, Kind(Text(e)[s[2]]) # Kind(s[1])
  PROVE  ~Parses(n, e)
<1>1. e.operand[s[2]] \in Spelling(Text(e)[s[2]])
  BY Zenon DEF AsWritten
<1>2. s[1] \in SourceFieldNames
  BY SourceKinds
<1>3. ~Converts(s[1], e.operand[s[2]])
  BY <1>1, <1>2, Spelled
<1> QED BY <1>3 DEF Parses

\* A pseudo instruction of one source is a sign move.
LEMMA OneSourceName ==
  ASSUME NEW m \in OneSourcePseudo
  PROVE  update_instr_name(m) \in SignMoves
BY DEF OneSourcePseudo, update_instr_name, SignMoves

\* An instruction in the order of the assembler whose operands are not those of an
\* access of floating point.
LEMMA TextShown ==
  ASSUME NEW n \in HasAttributes, n \notin NoOperands, n # "DRET",
         IsFloat(n) => Category(n) # "LOAD" /\ Format(n) # "S_FORMAT",
         NEW o, Len(o) = Len(convert2asm(n))
  PROVE  Shown(n, convert2asm(n), SourcesOf(n, o))
<1>1. CASE IsFloat(n)
  <2>1. SourcesOf(n, o) = FloatSources(n, Len(convert2asm(n)))
    BY <1>1 DEF SourcesOf
  <2> QED BY <1>1, <2>1, FloatShown
<1>2. CASE ~IsFloat(n)
  <2>1. SourcesOf(n, o) = Sources(n)
    BY <1>2 DEF SourcesOf
  <2> QED BY <1>2, <2>1, WholeShown, CompressedShown DEF WholeInteger
<1> QED BY <1>1, <1>2

\* A floating-point load cannot be converted in either order of its operands.
LEMMA FloatLoadUnparsed ==
  ASSUME NEW e, AsWritten(e), NEW n \in HasAttributes, n = NameOf(e), IsFloat(n), Category(n) = "LOAD"
  PROVE  ~Parses(n, e)
<1> DEFINE text == convert2asm(n)
           sources == SourcesOf(n, e.operand)
<1>1. n \notin NoOperands
  BY Formats
<1>2. e.instr \notin OneSourcePseudo
  <2>1. n \notin SignMoves
    BY WrittenTable, Formats DEF RowWritten, Category, Format, IsFloat, SignMoves
  <2> QED BY <2>1, OneSourceName DEF NameOf
<1>3. Text(e) = IF e.order = "converter" THEN process_instr(text) ELSE text
  BY <1>2 DEF Text, NameOf
<1>4. text \in {<<"fd", "imm", "rs1">>, <<"fs2", "imm", "rs1">>} /\ sources = {<<"fs1", 2>>}
  BY <1>1, FloatLoadText DEF SourcesOf
<1>5. 2 \in DOMAIN Text(e) /\ Text(e)[2] \in {"imm", "rs1"}
  BY <1>3, <1>4 DEF process_instr, IsAddress
<1>6. Kind("imm") # Kind("fs1") /\ Kind("rs1") # Kind("fs1") /\ {"imm", "rs1"} \subseteq OperandFields
  BY DEF Kind, IntegerOperands, FloatOperands, OperandFields
<1>7. PICK s \in sources : s = <<"fs1", 2>>
  BY <1>4
<1>8. s[2] = 2 /\ s[1] = "fs1"
  BY <1>7
<1>9. Text(e)[2] \in OperandFields /\ Kind(Text(e)[2]) # Kind("fs1")
  BY <1>5, <1>6
<1> QED BY <1>1, <1>5, <1>8, <1>9, Misplaced

\* dret has no operand, but is parsed as an instruction of three.
LEMMA DretUnparsed ==
  ASSUME NEW e, AsWritten(e), "DRET" \in HasAttributes, NameOf(e) = "DRET"
  PROVE  ~Parses("DRET", e)
<1>1. Category("DRET") = "SYSTEM" /\ Format("DRET") = "I_FORMAT" /\ ~IsFloat("DRET")
  BY WrittenTable, Formats DEF RowWritten, Category, Format, IsFloat, FloatGroups
<1>2. convert2asm("DRET") = <<"none">>
  BY <1>1 DEF convert2asm
<1>3. e.instr \notin OneSourcePseudo
  BY OneSourceName DEF SignMoves, NameOf
<1>4. Text(e) = <<"none">>
  <2>1. process_instr(<<"none">>) = <<"none">>
    BY DEF process_instr, IsAddress
  <2> QED BY <1>2, <1>3, <2>1 DEF Text, NameOf
<1>5. Len(e.operand) = 1
  BY <1>4 DEF AsWritten
<1>6. Arity("DRET") = {3}
  BY <1>1 DEF Arity
<1> QED BY <1>5, <1>6 DEF Parses, NoOperands

\* Where the operands of a row convert, its sources are the operands it is written with.
LEMMA RowShown ==
  ASSUME NEW e, AsWritten(e), NEW n \in HasAttributes, n = NameOf(e), n \notin NoOperands,
         Parses(n, e)
  PROVE  Shown(n, Text(e), SourcesOf(n, e.operand))
<1> DEFINE text == convert2asm(n)
           sources == SourcesOf(n, e.operand)
<1>1. Len(e.operand) = Len(Text(e))
  BY Zenon DEF AsWritten
<1>2. n # "DRET"
  BY DretUnparsed
<1>3. CASE e.instr \in OneSourcePseudo
  <2>1. Text(e) = <<"fd", "fs1">> /\ n \in SignMoves
    BY <1>3, OneSourceName DEF Text, NameOf
  <2>2. Len(e.operand) = 2
    BY <1>1, <2>1
  <2>3. IsFloat(n) /\ Shown(n, <<"fd", "fs1">>, FloatSources(n, 2))
    BY <2>1, SignMoveShown
  <2>4. sources = FloatSources(n, 2)
    BY <2>2, <2>3 DEF SourcesOf
  <2> QED BY <2>1, <2>3, <2>4
<1>4. CASE e.instr \notin OneSourcePseudo
  <2>1. Text(e) = IF e.order = "converter" THEN process_instr(text) ELSE text
    BY <1>4 DEF Text, NameOf
  <2>2. CASE IsFloat(n) /\ Category(n) = "LOAD"
    BY <2>2, FloatLoadUnparsed
  <2>3. CASE IsFloat(n) /\ Format(n) = "S_FORMAT"
    <3>1. /\ text = <<"fs2", "imm", "rs1">>
          /\ \A k : FloatSources(n, k) = {<<"fs2", 1>>, <<"rs1", 2>>, <<"imm", 3>>}
          /\ Shown(n, <<"fs2", "rs1", "imm">>, FloatSources(n, 3))
      BY <2>3, FswShown
    <3>2. process_instr(text) = <<"fs2", "rs1", "imm">>
      BY <3>1 DEF process_instr, IsAddress
    <3>3. sources = {<<"fs2", 1>>, <<"rs1", 2>>, <<"imm", 3>>} /\ sources = FloatSources(n, 3)
      BY <2>3, <3>1 DEF SourcesOf
    <3>4. CASE e.order = "converter"
      <4>1. Text(e) = <<"fs2", "rs1", "imm">>
        BY <2>1, <3>2, <3>4
      <4> QED BY <3>1, <3>3, <4>1, Zenon
    <3>5. CASE e.order # "converter"
      <4>1. Text(e) = <<"fs2", "imm", "rs1">> /\ <<"rs1", 2>> \in sources
        BY <2>1, <3>1, <3>3, <3>5
      <4>2. Kind("imm") # Kind("rs1") /\ "imm" \in OperandFields
        BY DEF Kind, IntegerOperands, FloatOperands, OperandFields
      <4> QED BY <4>1, <4>2, Misplaced
    <3> QED BY <3>4, <3>5
  <2>4. CASE IsFloat(n) => Category(n) # "LOAD" /\ Format(n) # "S_FORMAT"
    <3>1. Len(process_instr(text)) = Len(text)
      BY DEF process_instr, IsAddress
    <3>2. Shown(n, text, sources)
      BY <1>1, <1>2, <2>1, <2>4, <3>1, TextShown
    <3>3. CASE e.order = "converter" /\ IsAddress(text)
      <4>1. <<"imm", 2>> \in sources /\ text[3] \in {"rs1", "sp"}
        BY <3>2, <3>3 DEF Shown
      <4>2. 2 \in DOMAIN Text(e) /\ Text(e)[2] = text[3]
        BY <2>1, <3>3 DEF process_instr
      <4>3. \A f \in {"rs1", "sp"} : Kind(f) # Kind("imm") /\ f \in OperandFields
        BY DEF Kind, IntegerOperands, FloatOperands, OperandFields
      <4> QED BY <4>1, <4>2, <4>3, Misplaced
    <3>4. CASE ~(e.order = "converter" /\ IsAddress(text))
      <4>1. Text(e) = text
        BY <2>1, <3>4 DEF process_instr
      <4> QED BY <3>2, <4>1
    <3> QED BY <3>3, <3>4
  <2> QED BY <2>2, <2>3, <2>4
<1> QED BY <1>3, <1>4

\* What the operands of a row say.
LEMMA WrittenParts ==
  ASSUME NEW e \in TraceRow, AsWritten(e), NEW n, n = NameOf(e)
  PROVE  /\ Len(e.operand) = Len(Text(e)) /\ e.operand \in Seq(STRING)
         /\ \A k \in DOMAIN Text(e) : e.operand[k] \in Spelling(Text(e)[k])
         /\ \A k \in DOMAIN e.operand :
              e.operand[k] \in DOMAIN riscv_reg_t \cup DOMAIN riscv_fpr_t => e.operand[k] \in Registers
         /\ e.reads = OperandsAt(e, ReadFields(n))
         /\ WrittenBy(e) \subseteq OperandsAt(e, WrittenFields(n)) \cup (IF n = "C_JAL" THEN {"RA"} ELSE {})
         /\ IF IsMemory(n)
            THEN /\ e.base \in OperandsAt(e, {"rs1", "sp"})
                 /\ e.offset \in {get_val(o) : o \in OperandsAt(e, {"imm"})}
            ELSE e.base = "none"
<1>1. e.operand \in Seq(STRING)
  BY DEF TraceRow
<1>2. /\ Len(e.operand) = Len(Text(e))
      /\ \A k \in DOMAIN Text(e) : e.operand[k] \in Spelling(Text(e)[k])
      /\ {e.operand[k] : k \in DOMAIN e.operand} \cap (DOMAIN riscv_reg_t \cup DOMAIN riscv_fpr_t)
           \subseteq Registers
      /\ e.reads = OperandsAt(e, ReadFields(n))
      /\ WrittenBy(e) \subseteq OperandsAt(e, WrittenFields(n)) \cup (IF n = "C_JAL" THEN {"RA"} ELSE {})
      /\ IF IsMemory(n)
         THEN e.base \in OperandsAt(e, {"rs1", "sp"}) /\ e.offset \in {get_val(o) : o \in OperandsAt(e, {"imm"})}
         ELSE e.base = "none"
  BY Zenon DEF AsWritten, NameOf
<1> QED BY <1>1, <1>2

\* The sources of a row are registers and immediates the instruction is written with.
LEMMA SourcesWritten ==
  ASSUME NEW e \in TraceRow, AsWritten(e), NEW n \in HasAttributes, n = NameOf(e),
         Shown(n, Text(e), SourcesOf(n, e.operand))
  PROVE  /\ DOMAIN e.operand = DOMAIN Text(e)
         /\ \A s \in SourcesOf(n, e.operand) : s[2] # 0 =>
              /\ s[2] \in DOMAIN e.operand /\ SourceName(e, s) = e.operand[s[2]]
              /\ e.operand[s[2]] \in Spelling(Text(e)[s[2]])
              /\ Converts(s[1], e.operand[s[2]])
<1>1. DOMAIN e.operand = DOMAIN Text(e)
  <2>1. DOMAIN Text(e) = 1 .. Len(Text(e))
    BY DEF Shown
  <2> QED BY <2>1, WrittenParts
<1>2. ASSUME NEW s \in SourcesOf(n, e.operand), s[2] # 0
      PROVE  /\ s[2] \in DOMAIN Text(e) /\ Kind(Text(e)[s[2]]) = Kind(s[1])
             /\ Text(e)[s[2]] \in OperandFields
  BY <1>2 DEF Shown, Placed
<1>3. ASSUME NEW s \in SourcesOf(n, e.operand), s[2] # 0
      PROVE  /\ s[2] \in DOMAIN e.operand /\ SourceName(e, s) = e.operand[s[2]]
             /\ e.operand[s[2]] \in Spelling(Text(e)[s[2]])
             /\ Converts(s[1], e.operand[s[2]])
  <2>1. e.operand[s[2]] \in Spelling(Text(e)[s[2]])
    BY <1>2, <1>3, WrittenParts
  <2>2. s[1] \in SourceFieldNames
    BY SourceKinds
  <2>3. Converts(s[1], e.operand[s[2]])
    BY <1>2, <1>3, <2>1, <2>2, Spelled
  <2> QED BY <1>1, <1>2, <1>3, <2>1, <2>3 DEF SourceName
<1> QED BY <1>1, <1>3

\* What converts to a register is one.
LEMMA ConvertsRegister ==
  ASSUME NEW f \in RegFields, NEW o, Converts(f, o)
  PROVE  o \in DOMAIN riscv_reg_t \cup DOMAIN riscv_fpr_t
BY DEF Converts, RegFields

\* The registers taken for sources are registers the row reads.
LEMMA SourcesRead ==
  ASSUME NEW e \in TraceRow, AsWritten(e), NEW n \in HasAttributes, n = NameOf(e),
         Shown(n, Text(e), SourcesOf(n, e.operand)),
         NEW s \in SourcesOf(n, e.operand), s[1] \in RegFields
  PROVE  /\ SourceName(e, s) \in Registers
         /\ SourceName(e, s) \in e.reads \/ (Len(e.operand) = 2 /\ s[1] = "fs2")
<1>1. /\ IF s[2] = 0 THEN \E k \in DOMAIN Text(e) : Text(e)[k] = "sp"
         ELSE Text(e)[s[2]] \in ReadFields(n) \/ (Len(Text(e)) = 2 /\ s[1] = "fs2")
  BY DEF Shown, Told
<1>2. CASE s[2] = 0
  <2>1. PICK k \in DOMAIN Text(e) : Text(e)[k] = "sp"
    BY <1>1, <1>2
  <2>2. e.operand[k] = "SP" /\ k \in DOMAIN e.operand
    BY <2>1, WrittenParts, SourcesWritten DEF Spelling
  <2>3. "sp" \in ReadFields(n)
    BY DEF ReadFields
  <2>4. "SP" \in e.reads
    BY <2>1, <2>2, <2>3, WrittenParts DEF OperandsAt
  <2>5. "SP" \in DOMAIN riscv_reg_t
    BY DEF riscv_reg_t
  <2>6. "SP" \in Registers
    BY <2>2, <2>5, WrittenParts
  <2> QED BY <1>2, <2>4, <2>6 DEF SourceName
<1>3. CASE s[2] # 0
  <2>1. /\ s[2] \in DOMAIN e.operand /\ SourceName(e, s) = e.operand[s[2]]
        /\ Converts(s[1], e.operand[s[2]]) /\ s[2] \in DOMAIN Text(e)
    BY <1>3, SourcesWritten
  <2>2. e.operand[s[2]] \in Registers
    BY <2>1, ConvertsRegister, WrittenParts
  <2>3. Text(e)[s[2]] \in ReadFields(n) => e.operand[s[2]] \in e.reads
    BY <2>1, WrittenParts DEF OperandsAt
  <2> QED BY <1>1, <1>3, <2>1, <2>2, <2>3, WrittenParts
<1> QED BY <1>2, <1>3

\* Of the instructions whose hazards are exact all registers the row reads are sources.
LEMMA ReadsSourced ==
  ASSUME NEW e \in TraceRow, AsWritten(e), NEW n \in HasAttributes, n = NameOf(e),
         Shown(n, Text(e), SourcesOf(n, e.operand)), Exact(n)
  PROVE  e.reads \subseteq Named(n, e)
<1> SUFFICES ASSUME NEW x \in e.reads PROVE x \in Named(n, e)
  OBVIOUS
<1>1. PICK k \in DOMAIN Text(e) : Text(e)[k] \in ReadFields(n) /\ x = e.operand[k]
  BY WrittenParts DEF OperandsAt
<1>2. PICK s \in SourcesOf(n, e.operand) : s[1] \in RegFields /\ s[2] = k
  BY <1>1 DEF Shown, Told, Exact
<1>3. k # 0
  <2>1. DOMAIN Text(e) = 1 .. Len(Text(e))
    BY DEF Shown
  <2> QED BY <2>1
<1>4. SourceName(e, s) = x
  BY <1>1, <1>2, <1>3 DEF SourceName
<1> QED BY <1>2, <1>4 DEF Named

\* The first source and the immediate of an access are its base and offset.
LEMMA AccessSourced ==
  ASSUME NEW e \in TraceRow, AsWritten(e), NEW n \in HasAttributes, n = NameOf(e),
         Shown(n, Text(e), SourcesOf(n, e.operand)), IsMemory(n)
  PROVE  /\ {"rs1", "imm"} \subseteq Fields(n, e)
         /\ \A s \in SourcesOf(n, e.operand) :
              /\ s[1] = "rs1" => SourceName(e, s) = e.base
              /\ s[1] = "imm" => get_val(SourceName(e, s)) = e.offset
<1> DEFINE sources == SourcesOf(n, e.operand)
           text == Text(e)
<1>1. /\ \E s \in sources : s[1] = "rs1"
      /\ \E s \in sources : s[1] = "imm"
      /\ \A s \in sources : \A k \in DOMAIN text :
           /\ (s[1] = "rs1" /\ text[k] \in {"rs1", "sp"}) => s[2] = k \/ (s[2] = 0 /\ text[k] = "sp")
           /\ (s[1] = "imm" /\ text[k] = "imm") => s[2] = k
  BY DEF Shown, Told
<1>2. DOMAIN text = 1 .. Len(text) /\ DOMAIN e.operand = DOMAIN text
  BY SourcesWritten DEF Shown
<1>3. PICK b \in DOMAIN text : text[b] \in {"rs1", "sp"} /\ e.base = e.operand[b]
  BY WrittenParts DEF OperandsAt
<1>4. PICK o \in DOMAIN text : text[o] = "imm" /\ e.offset = get_val(e.operand[o])
  BY WrittenParts DEF OperandsAt
<1>5. ASSUME NEW s \in sources, s[1] = "rs1" PROVE SourceName(e, s) = e.base
  <2>1. s[2] = b \/ (s[2] = 0 /\ text[b] = "sp")
    BY <1>1, <1>3, <1>5
  <2>2. CASE s[2] = b
    BY <1>2, <1>3, <2>2 DEF SourceName
  <2>3. CASE s[2] = 0 /\ text[b] = "sp"
    <3>1. e.operand[b] = "SP"
      BY <2>3, WrittenParts DEF Spelling
    <3> QED BY <1>3, <2>3, <3>1 DEF SourceName
  <2> QED BY <2>1, <2>2, <2>3
<1>6. ASSUME NEW s \in sources, s[1] = "imm" PROVE get_val(SourceName(e, s)) = e.offset
  <2>1. s[2] = o /\ o # 0
    BY <1>1, <1>2, <1>4, <1>6
  <2> QED BY <1>4, <2>1 DEF SourceName
<1> QED BY <1>1, <1>5, <1>6 DEF Fields

\* An instruction without operands reads no register.
LEMMA NoOperandsText ==
  ASSUME NEW e, AsWritten(e), NEW n \in HasAttributes, n = NameOf(e), n \in NoOperands
  PROVE  /\ Text(e) \in {<<"none">>, <<"zero", "zero">>} /\ ~IsMemory(n)
<1>1. /\ n \in Unparsed \cup {"SFENCE_VMA"} \/ Category(n) = "SYSTEM"
      /\ (n = "SFENCE_VMA" => Format(n) = "R_FORMAT" /\ Category(n) # "CSR" /\ ~Compressed(n))
      /\ Category(n) \notin {"LOAD", "STORE"} /\ ~IsFloat(n)
  BY WrittenTable, Formats DEF RowWritten, Category, Format, IsFloat, NoOperands, Unparsed, Compressed
<1>2. convert2asm(n) \in {<<"none">>, <<"zero", "zero">>}
  <2>1. CASE Category(n) = "SYSTEM" \/ n \in Unparsed
    BY <1>1, <2>1 DEF convert2asm, Unparsed
  <2>2. CASE ~(Category(n) = "SYSTEM" \/ n \in Unparsed)
    <3>1. n = "SFENCE_VMA"
      BY <1>1, <2>2
    <3>2. convert2asm(n) = IntegerText(n)
      BY <1>1, <2>2, <3>1 DEF convert2asm, Unparsed
    <3>3. IntegerText(n) = <<"zero", "zero">>
      BY <1>1, <3>1 DEF IntegerText
    <3> QED BY <3>2, <3>3
  <2> QED BY <2>1, <2>2
<1>3. e.instr \notin OneSourcePseudo
  BY OneSourceName DEF SignMoves, NameOf, NoOperands
<1>4. process_instr(convert2asm(n)) = convert2asm(n)
  BY <1>2 DEF process_instr, IsAddress
<1>5. Text(e) = convert2asm(n)
  BY <1>3, <1>4 DEF Text, NameOf
<1> QED BY <1>1, <1>2, <1>5 DEF IsMemory

\* A row that tells what its instruction does is taken for that.
LEMMA ExecutedAsWritten ==
  ASSUME NEW e \in TraceRow, AsWritten(e), NameOf(e) \in HasAttributes
  PROVE  AsExecuted(e)
<1> DEFINE n == NameOf(e)
<1>0. n = NameOf(e) /\ n \in HasAttributes
  OBVIOUS
<1> HIDE DEF n
<1> SUFFICES ASSUME Parses(n, e)
             PROVE  /\ \A s \in SourcesOf(n, e.operand) : s[1] \in RegFields \ {DestField(n)} =>
                         /\ SourceName(e, s) \in Registers
                         /\ SourceName(e, s) \in e.reads \/ (Len(e.operand) = 2 /\ s[1] = "fs2")
                    /\ Exact(n) => e.reads \subseteq Named(n, e)
                    /\ e.base # "none" =>
                         /\ IsMemory(n) /\ {"rs1", "imm"} \subseteq Fields(n, e)
                         /\ \A s \in SourcesOf(n, e.operand) :
                              /\ s[1] = "rs1" => SourceName(e, s) = e.base
                              /\ s[1] = "imm" => get_val(SourceName(e, s)) = e.offset
  BY <1>0, Zenon DEF AsExecuted, Named, Fields, NameOf, Exact
<1>1. CASE n \in NoOperands
  <2>1. SourcesOf(n, e.operand) = {} /\ Text(e) \in {<<"none">>, <<"zero", "zero">>} /\ ~IsMemory(n)
    BY <1>0, <1>1, NoOperandsText DEF SourcesOf
  <2>2. e.reads = {}
    <3>1. "none" \notin ReadFields(n) /\ "zero" \notin ReadFields(n)
      BY DEF ReadFields
    <3>2. \A k \in DOMAIN Text(e) : Text(e)[k] \in {"none", "zero"}
      BY <2>1
    <3> QED BY <1>0, <3>1, <3>2, WrittenParts DEF OperandsAt
  <2>3. e.base = "none"
    BY <1>0, <2>1, WrittenParts
  <2> QED BY <2>1, <2>2, <2>3
<1>2. CASE n \notin NoOperands
  <2>1. Shown(n, Text(e), SourcesOf(n, e.operand))
    BY <1>0, <1>2, RowShown
  <2>2. e.base # "none" => IsMemory(n)
    BY <1>0, WrittenParts
  <2> QED BY <1>0, <2>1, <2>2, SourcesRead, ReadsSourced, AccessSourced
<1> QED BY <1>1, <1>2

\* A row in the assembler's order that tells what its instruction does can be parsed.
LEMMA AcceptedAsWritten ==
  ASSUME NEW e \in TraceRow, AsWritten(e), e.order = "assembler", NEW n \in HasAttributes, n = NameOf(e),
         e.instr \notin {"DRET", "FLW", "FLD", "FSW", "FSD"}
  PROVE  Parses(n, e)
<1>1. CASE n \in NoOperands
  BY <1>1 DEF Parses
<1>2. CASE n \notin NoOperands
  <2>1. n \notin {"DRET", "FLW", "FLD", "FSW", "FSD"}
    BY DEF NameOf, update_instr_name
  <2>2. IsFloat(n) => Category(n) # "LOAD" /\ Format(n) # "S_FORMAT"
    BY <2>1, WrittenTable DEF RowWritten, IsFloat, Category, Format, FloatGroups
  <2>3. Shown(n, Text(e), SourcesOf(n, e.operand))
    <3>1. CASE e.instr \in OneSourcePseudo
      <4>1. Text(e) = <<"fd", "fs1">> /\ n \in SignMoves
        BY <3>1, OneSourceName DEF Text, NameOf
      <4>2. IsFloat(n) /\ Shown(n, <<"fd", "fs1">>, FloatSources(n, 2))
        BY <4>1, SignMoveShown
      <4>3. Len(e.operand) = 2
        BY <4>1, WrittenParts
      <4> QED BY <1>2, <4>1, <4>2, <4>3 DEF SourcesOf
    <3>2. CASE e.instr \notin OneSourcePseudo
      <4>1. Text(e) = convert2asm(n)
        BY <3>2 DEF Text, NameOf
      <4> QED BY <1>2, <2>1, <2>2, <4>1, WrittenParts, TextShown
    <3> QED BY <3>1, <3>2
  <2>4. Len(e.operand) \in Arity(n)
    BY <2>3, WrittenParts DEF Shown
  <2>5. ASSUME NEW s \in SourcesOf(n, e.operand), s[2] # 0
        PROVE  s[2] <= Len(e.operand) /\ Converts(s[1], e.operand[s[2]])
    <3>1. s[2] \in DOMAIN e.operand /\ Converts(s[1], e.operand[s[2]])
      BY <2>3, <2>5, SourcesWritten
    <3>2. e.operand \in Seq(STRING)
      BY WrittenParts
    <3> QED BY <3>1, <3>2
  <2>6. ASSUME NEW i \in DOMAIN e.gpr
        PROVE  Converts(DestField(n), e.gpr[i][1])
    <3>1. e.gpr[i][1] \in WrittenBy(e)
      BY DEF WrittenBy
    <3>2. CASE e.gpr[i][1] \in OperandsAt(e, WrittenFields(n))
      <4>1. PICK k \in DOMAIN Text(e) : Text(e)[k] \in WrittenFields(n) /\ e.gpr[i][1] = e.operand[k]
        BY <3>2 DEF OperandsAt
      <4>2. Kind(Text(e)[k]) = Kind(DestField(n)) /\ Text(e)[k] \in OperandFields
        BY <2>3, <4>1 DEF Shown
      <4>3. e.operand[k] \in Spelling(Text(e)[k]) /\ DestField(n) \in {"rd", "fd"}
        BY <4>1, WrittenParts DEF DestField
      <4> QED BY <4>1, <4>2, <4>3, Spelled
    <3>3. CASE n = "C_JAL" /\ e.gpr[i][1] = "RA"
      <4>1. DestField(n) = "rd"
        BY <3>3, WrittenTable DEF RowWritten, DestField, IsFloat, FloatGroups
      <4> QED BY <3>3, <4>1 DEF Converts, riscv_reg_t
    <3> QED BY <3>1, <3>2, <3>3, WrittenParts
  <2> QED BY <2>4, <2>5, <2>6 DEF Parses
<1> QED BY <1>1, <1>2

-----------------------------------------------------------------------------
(***************************************************************************)
(* The registers the instructions look up are those of the program.        *)
(***************************************************************************)
\* A known register of the file that is read is one the instructions look up.
Coherent == \A r \in Registers : arch[r] # Unknown => gpr_state[r] = arch[r]
\* Once an instruction of the file is sampled its row is remembered.
RowKept == instr_cnt > 0 => sampled # NoRow
\* x0 reads as zero.
ZeroKept == "ZERO" \in Registers => gpr_state["ZERO"] = 0
FileOpen == stage = "read" => file > 0
CovInv == CovTypeOK /\ Coherent /\ RowKept /\ FileOpen /\ ZeroKept

CovPairs == (Registers \ {"ZERO"}) \X RegValues
WritesOf(g, r) == {i \in DOMAIN g : g[i][1] = r}

\* The last of the updates of a register is one of them.
LEMMA LastUpdate ==
  ASSUME NEW g \in Seq(CovPairs), NEW r, WritesOf(g, r) # {}
  PROVE  /\ Latest(WritesOf(g, r)) \in WritesOf(g, r)
         /\ g[Latest(WritesOf(g, r))][2] \in RegValues
<1>1. Len(g) \in Nat /\ DOMAIN g = 1 .. Len(g) /\ \A i \in DOMAIN g : g[i] \in CovPairs
  OBVIOUS
<1>2. WritesOf(g, r) \in SUBSET (1 .. Len(g))
  BY <1>1 DEF WritesOf
<1>3. Latest(WritesOf(g, r)) \in WritesOf(g, r)
  BY <1>1, <1>2, LastType
<1>4. g[Latest(WritesOf(g, r))] \in CovPairs
  BY <1>1, <1>3 DEF WritesOf
<1> QED BY <1>3, <1>4 DEF CovPairs

\* What a row's updates make of the registers.
LEMMA AfterUpdatesType ==
  ASSUME NEW S, RegValues \subseteq S, NEW state \in [Registers -> S], NEW g \in Seq(CovPairs)
  PROVE  GprAfter(state, g) \in [Registers -> S]
<1>1. ASSUME NEW r \in Registers PROVE GprAfter(state, g)[r] \in S
  <2>1. /\ WritesOf(g, r) = {} => GprAfter(state, g)[r] = state[r]
        /\ WritesOf(g, r) # {} => GprAfter(state, g)[r] = g[Latest(WritesOf(g, r))][2]
    BY DEF GprAfter, WritesOf, Latest
  <2>2. WritesOf(g, r) # {} => g[Latest(WritesOf(g, r))][2] \in RegValues
    BY LastUpdate
  <2> QED BY <2>1, <2>2
<1>2. GprAfter(state, g) = [r \in Registers |-> GprAfter(state, g)[r]]
  BY DEF GprAfter
<1> QED BY <1>1, <1>2

\* A row that is read is a row of an open file.
LEMMA RowRead ==
  ASSUME CovInv, NEW e \in RowsHere
  PROVE  /\ e \in TraceRow /\ stage = "read" /\ file \in 1 .. Len(TraceFiles)
         /\ row + 1 \in Nat /\ row + 1 <= Len(TraceFiles[file])
<1>1. stage = "read" /\ row < Len(TraceFiles[file]) /\ e \in TraceFiles[file][row + 1]
  BY DEF RowsHere
<1>2. file \in 1 .. Len(TraceFiles) /\ row \in Nat
  BY <1>1 DEF CovInv, CovTypeOK, FileOpen
<1>3. TraceFiles[file] \in Seq(SUBSET TraceRow)
  BY <1>2, TraceAssumption
<1>4. row + 1 \in 1 .. Len(TraceFiles[file])
  BY <1>1, <1>2, <1>3
<1>5. TraceFiles[file][row + 1] \in SUBSET TraceRow
  BY <1>3, <1>4
<1> QED BY <1>1, <1>2, <1>4, <1>5

\* An interpreted row tells what its instruction does.
LEMMA RowWrites ==
  ASSUME CovInv, NEW e \in RowsHere, Interpreted(e)
  PROVE  AsWritten(e) /\ AsExecuted(e) /\ e \in TraceRow /\ NameOf(e) \in HasAttributes
<1>1. /\ e \in TraceRow /\ file \in 1 .. Len(TraceFiles)
      /\ row + 1 \in 1 .. Len(TraceFiles[file])
  BY RowRead DEF CovInv, CovTypeOK
<1>2. e \in TraceFiles[file][row + 1]
  BY DEF RowsHere
<1>3. file \in DOMAIN TraceFiles /\ row + 1 \in DOMAIN TraceFiles[file]
  <2>1. TraceFiles \in Seq(Seq(SUBSET TraceRow)) /\ TraceFiles[file] \in Seq(SUBSET TraceRow)
    BY <1>1, TraceAssumption
  <2> QED BY <1>1, <2>1
<1>4. AsWritten(e)
  BY <1>2, <1>3, WrittenAssumption, Zenon
<1>5. NameOf(e) \in HasAttributes
  BY DEF Interpreted, NameOf
<1> QED BY <1>1, <1>4, <1>5, ExecutedAsWritten

\* What the architecture knows after a row is a value or nothing.
LEMMA ArchType ==
  ASSUME CovInv, NEW e \in TraceRow, NEW parsed \in BOOLEAN
  PROVE  ArchAfter(e, parsed) \in [Registers -> RegValues \cup {Unknown}]
<1>1. e.gpr \in Seq(CovPairs)
  BY DEF TraceRow, CovPairs
<1>2. arch \in [Registers -> RegValues \cup {Unknown}]
  BY DEF CovInv, CovTypeOK
<1>3. CASE parsed
  <2>1. GprAfter(arch, e.gpr) \in [Registers -> RegValues \cup {Unknown}]
    BY <1>1, <1>2, AfterUpdatesType
  <2> QED BY <1>3, <2>1 DEF ArchAfter
<1>4. CASE ~parsed
  BY <1>2, <1>4 DEF ArchAfter
<1> QED BY <1>3, <1>4

\* A row that is not parsed keeps the registers coherent.
LEMMA UnparsedCoherent ==
  ASSUME Coherent, NEW e, arch' = ArchAfter(e, FALSE), gpr_state' = gpr_state,
         arch \in [Registers -> RegValues \cup {Unknown}]
  PROVE  Coherent'
BY DEF Coherent, ArchAfter

\* A row that is parsed, too.
LEMMA ParsedCoherent ==
  ASSUME CovInv, NEW e \in TraceRow, NEW n, arch' = ArchAfter(e, n \notin NoOperands),
         gpr_state' = GprAfter(gpr_state, Updates(n, e))
  PROVE  Coherent' /\ ZeroKept' /\ gpr_state' \in [Registers -> RegValues]
<1>1. e.gpr \in Seq(CovPairs)
  BY DEF TraceRow, CovPairs
<1>2. /\ arch \in [Registers -> RegValues \cup {Unknown}]
      /\ gpr_state \in [Registers -> RegValues] /\ Coherent /\ ZeroKept
  BY DEF CovInv, CovTypeOK
<1>3. CASE n \in NoOperands
  <2>1. Updates(n, e) = <<>>
    BY <1>3 DEF Updates
  <2>2. gpr_state' = gpr_state
    BY <1>2, <2>1 DEF GprAfter
  <2>3. Coherent'
    BY <1>2, <1>3, <2>2, UnparsedCoherent
  <2> QED BY <1>2, <2>2, <2>3 DEF ZeroKept
<1>4. CASE n \notin NoOperands
  <2>1. gpr_state' = GprAfter(gpr_state, e.gpr) /\ arch' = GprAfter(arch, e.gpr)
    BY <1>4 DEF Updates, ArchAfter
  <2>2. gpr_state' \in [Registers -> RegValues]
    <3>1. RegValues \subseteq RegValues /\ gpr_state \in [Registers -> RegValues]
      BY <1>2
    <3>2. GprAfter(gpr_state, e.gpr) \in [Registers -> RegValues]
      BY <1>1, <3>1, AfterUpdatesType, Zenon
    <3> QED BY <2>1, <3>2, Zenon
  <2>3. ASSUME NEW r \in Registers, arch'[r] # Unknown PROVE gpr_state'[r] = arch'[r]
    <3>0. /\ arch \in [Registers -> RegValues \cup {Unknown}] /\ r \in Registers
          /\ gpr_state \in [Registers -> RegValues]
      BY <1>2, <2>3
    <3>1. /\ WritesOf(e.gpr, r) = {} => arch'[r] = arch[r] /\ gpr_state'[r] = gpr_state[r]
          /\ WritesOf(e.gpr, r) # {} => arch'[r] = gpr_state'[r]
      <4>1. /\ WritesOf(e.gpr, r) = {} => GprAfter(arch, e.gpr)[r] = arch[r]
            /\ WritesOf(e.gpr, r) # {} =>
                 GprAfter(arch, e.gpr)[r] = e.gpr[Latest(WritesOf(e.gpr, r))][2]
        BY <3>0 DEF GprAfter, WritesOf, Latest
      <4>2. /\ WritesOf(e.gpr, r) = {} => GprAfter(gpr_state, e.gpr)[r] = gpr_state[r]
            /\ WritesOf(e.gpr, r) # {} =>
                 GprAfter(gpr_state, e.gpr)[r] = e.gpr[Latest(WritesOf(e.gpr, r))][2]
        BY <3>0 DEF GprAfter, WritesOf, Latest
      <4> QED BY <2>1, <4>1, <4>2
    <3> QED BY <1>2, <2>3, <3>1 DEF Coherent
  <2>4. ZeroKept'
    <3>1. WritesOf(e.gpr, "ZERO") = {}
      BY <1>1 DEF CovPairs, WritesOf
    <3>2. "ZERO" \in Registers => GprAfter(gpr_state, e.gpr)["ZERO"] = gpr_state["ZERO"]
      BY <1>2, <3>1 DEF GprAfter, WritesOf
    <3> QED BY <1>2, <2>1, <3>2 DEF ZeroKept
  <2> QED BY <2>2, <2>3, <2>4 DEF Coherent
<1> QED BY <1>3, <1>4

\* An instruction starts without hazards.
LEMMA InstructionRecord ==
  ASSUME NEW n, NEW e
  PROVE  \E r, v, m, c, b, f :
           Instruction(n, e) =
             [instr |-> n, reg |-> r, value |-> v, mem_addr |-> m, csr |-> c, branch_hit |-> b,
              fed |-> f, gpr_hazard |-> hazard_e.NO_HAZARD, lsu_hazard |-> hazard_e.NO_HAZARD]
BY Zenon DEF Instruction

LEMMA InstructionFields ==
  ASSUME NEW n, NEW e
  PROVE  LET i == Instruction(n, e)
         IN  /\ i.instr = n /\ i.gpr_hazard = hazard_e.NO_HAZARD /\ i.lsu_hazard = hazard_e.NO_HAZARD
             /\ i = [instr |-> i.instr, reg |-> i.reg, value |-> i.value, mem_addr |-> i.mem_addr,
                     csr |-> i.csr, branch_hit |-> i.branch_hit, fed |-> i.fed,
                     gpr_hazard |-> i.gpr_hazard, lsu_hazard |-> i.lsu_hazard]
<1> DEFINE i == Instruction(n, e)
<1>1. PICK r, v, m, c, b, f :
        i = [instr |-> n, reg |-> r, value |-> v, mem_addr |-> m, csr |-> c, branch_hit |-> b,
             fed |-> f, gpr_hazard |-> hazard_e.NO_HAZARD, lsu_hazard |-> hazard_e.NO_HAZARD]
  BY InstructionRecord
<1> HIDE DEF i
<1> QED BY <1>1 DEF i

\* The instruction keeps its name and values and gets hazards of the enumeration.
LEMMA HazardsMarked ==
  ASSUME NEW n, NEW e, NEW pre
  PROVE  LET i == Instruction(n, e)
             cur == check_hazard_condition(i, pre)
         IN  /\ i.instr = n /\ cur.instr = n /\ cur.value = i.value
             /\ i.gpr_hazard = 0 /\ i.lsu_hazard = 0
             /\ {cur.gpr_hazard, cur.lsu_hazard} \subseteq 0 .. 3
<1> DEFINE i == Instruction(n, e)
           R(dest, sources, otherwise) == RegisterHazard(i, pre, sources, dest, otherwise)
           cur == check_hazard_condition(i, pre)
<1>1. /\ i.instr = n /\ i.gpr_hazard = 0 /\ i.lsu_hazard = 0
      /\ i = [instr |-> i.instr, reg |-> i.reg, value |-> i.value, mem_addr |-> i.mem_addr,
              csr |-> i.csr, branch_hit |-> i.branch_hit, fed |-> i.fed,
              gpr_hazard |-> i.gpr_hazard, lsu_hazard |-> i.lsu_hazard]
  <2>1. hazard_e.NO_HAZARD = 0
    BY DEF hazard_e
  <2> HIDE DEF i
  <2> QED BY <2>1, InstructionFields DEF i
<1> HIDE DEF i
<1>2. \A dest, sources : \A otherwise \in 0 .. 3 : R(dest, sources, otherwise) \in 0 .. 3
  BY DEF RegisterHazard, hazard_e
<1>3. MemoryHazard(i, pre) \in 0 .. 3
  BY DEF MemoryHazard, hazard_e
<1> HIDE DEF R
<1>4. /\ cur.instr = n /\ cur.value = i.value
      /\ cur.gpr_hazard = R("fd", {"fs1", "fs2", "fs3"}, R("rd", {"rs1", "rs2"}, hazard_e.NO_HAZARD))
      /\ cur.lsu_hazard = MemoryHazard(i, pre)
  BY <1>1 DEF check_hazard_condition, R
<1>5. hazard_e.NO_HAZARD \in 0 .. 3
  BY DEF hazard_e
<1>6. cur.gpr_hazard \in 0 .. 3
  BY <1>2, <1>4, <1>5, Zenon
<1> QED BY <1>1, <1>3, <1>4, <1>6 DEF i

\* The covergroups an instruction is sampled into have an instance.
LEMMA GroupsInstantiated ==
  ASSUME NEW i
  PROVE  CoverGroupsOf(i) \subseteq DOMAIN cg_instantiation
<1>1. "opcode_cg" \in DOMAIN cg_instantiation
  BY SMTT(30) DEF cg_instantiation
<1>2. "hint_cg" \in DOMAIN cg_instantiation
  BY SMTT(30) DEF cg_instantiation
<1>3. "illegal_compressed_instr_cg" \in DOMAIN cg_instantiation
  BY SMTT(30) DEF cg_instantiation
<1>4. "rv32i_misc_cg" \in DOMAIN cg_instantiation
  BY SMTT(30) DEF cg_instantiation
<1>5. "mepc_alignment_cg" \in DOMAIN cg_instantiation
  BY SMTT(30) DEF cg_instantiation
<1> QED BY <1>1, <1>2, <1>3, <1>4, <1>5 DEF CoverGroupsOf

LEMMA CovStarts == CovInit => CovInv
<1> SUFFICES ASSUME CovInit PROVE CovInv
  OBVIOUS
<1> USE DEF CovInit
<1>1. /\ file = 0 /\ Len(TraceFiles) \in Nat /\ row = 0
      /\ 0 \in RegValues /\ RegValues \subseteq Nat
  BY TraceAssumption
<1>2. gpr_state \in [Registers -> RegValues] /\ arch \in [Registers -> RegValues \cup {Unknown}]
  BY <1>1 DEF KnownAtStart
<1>3. {pre_instr.gpr_hazard, pre_instr.lsu_hazard} \subseteq 0 .. 3
  BY DEF NoInstr, hazard_e
<1>4. pre_instr.instr = "none"
  BY DEF NoInstr
<1>5. CovTypeOK
  <2>1. /\ stage \in {"open", "read", "report", "crash"} /\ file \in 0 .. Len(TraceFiles)
        /\ row \in Nat /\ (file > 0 => row <= Len(TraceFiles[file]))
    BY <1>1
  <2>2. instr_cnt \in 0 .. row /\ skipped_cnt \in Nat /\ unexpected_illegal_instr_cnt \in Nat
    BY <1>1
  <2>3. expect_illegal_instr \in BOOLEAN /\ covered \subseteq DOMAIN cg_instantiation
    BY Zenon
  <2>4. pre_instr.instr \in HasAttributes \cup {"none"}
    BY <1>4
  <2> QED BY <1>2, <1>3, <2>1, <2>2, <2>3, <2>4, Zenon DEF CovTypeOK
<1>6. Coherent
  BY DEF Coherent, KnownAtStart
<1> QED BY <1>1, <1>5, <1>6 DEF CovInv, RowKept, FileOpen, ZeroKept

\* A row is skipped: nothing of what is sampled changes.
LEMMA RowSkipped ==
  ASSUME CovInv, NEW e \in RowsHere,
         row' = row + 1 /\ file' = file, stage' = stage,
         skipped_cnt' \in Nat, unexpected_illegal_instr_cnt' \in Nat,
         expect_illegal_instr' \in BOOLEAN, arch' = ArchAfter(e, FALSE),
         UNCHANGED <<gpr_state, instr_cnt, pre_instr, covered, sampled>>
  PROVE  CovInv'
<1>1. /\ e \in TraceRow /\ file \in 1 .. Len(TraceFiles)
      /\ row + 1 \in Nat /\ row + 1 <= Len(TraceFiles[file])
  BY RowRead
<1>2. arch' \in [Registers -> RegValues \cup {Unknown}]
  BY <1>1, ArchType
<1>3. CovTypeOK'
  <2>1. row' \in Nat /\ file' \in 0 .. Len(TraceFiles) /\ row' <= Len(TraceFiles[file'])
    BY <1>1 DEF CovInv, CovTypeOK
  <2>2. instr_cnt' \in 0 .. row'
    BY <1>1 DEF CovInv, CovTypeOK
  <2> QED BY <1>2, <2>1, <2>2 DEF CovInv, CovTypeOK
<1>4. Coherent'
  BY UnparsedCoherent DEF CovInv, CovTypeOK
<1> QED BY <1>3, <1>4 DEF CovInv, RowKept, FileOpen, ZeroKept

LEMMA MalformedHolds ==
  ASSUME CovInv, NEW e, Malformed(e)
  PROVE  CovInv'
<1>1. /\ e \in RowsHere /\ row' = row + 1 /\ file' = file /\ stage' = stage
      /\ arch' = ArchAfter(e, FALSE) /\ skipped_cnt' = skipped_cnt + 1
      /\ unexpected_illegal_instr_cnt' = unexpected_illegal_instr_cnt
      /\ expect_illegal_instr' = expect_illegal_instr
      /\ UNCHANGED <<gpr_state, instr_cnt, pre_instr, covered, sampled>>
  BY DEF Malformed, Reading
<1>2. /\ skipped_cnt' \in Nat /\ unexpected_illegal_instr_cnt' \in Nat
      /\ expect_illegal_instr' \in BOOLEAN
  BY <1>1 DEF CovInv, CovTypeOK
<1> QED BY <1>1, <1>2, RowSkipped

LEMMA WellFormedRow ==
  ASSUME CovInv, NEW e, WellFormed(e)
  PROVE  /\ e \in RowsHere /\ e \in TraceRow /\ row' = row + 1 /\ file' = file
         /\ skipped_cnt' = skipped_cnt /\ skipped_cnt' \in Nat
         /\ expect_illegal_instr' \in BOOLEAN
<1>1. e \in RowsHere
  BY DEF WellFormed, Reading
<1>2. e \in TraceRow
  BY <1>1, RowRead
<1>3. e.illegal \in BOOLEAN
  BY <1>2 DEF TraceRow
<1> QED BY <1>1, <1>2, <1>3 DEF WellFormed, Reading, CovInv, CovTypeOK

LEMMA SkipHolds ==
  ASSUME CovInv, NEW e, Skip(e)
  PROVE  CovInv'
<1>1. /\ e \in RowsHere /\ row' = row + 1 /\ file' = file /\ skipped_cnt' \in Nat
      /\ expect_illegal_instr' \in BOOLEAN
  BY WellFormedRow DEF Skip
<1>2. /\ stage' = stage /\ arch' = ArchAfter(e, FALSE)
      /\ UNCHANGED <<gpr_state, instr_cnt, pre_instr, covered, sampled>>
      /\ unexpected_illegal_instr_cnt' \in Nat
  BY DEF Skip, CovInv, CovTypeOK
<1> QED BY <1>1, <1>2, RowSkipped

LEMMA NoOpcodeHolds ==
  ASSUME CovInv, NEW e, NoOpcode(e)
  PROVE  CovInv'
<1>1. /\ e \in RowsHere /\ row' = row + 1 /\ file' = file /\ skipped_cnt' \in Nat
      /\ expect_illegal_instr' \in BOOLEAN
  BY WellFormedRow DEF NoOpcode
<1>2. /\ stage' = stage /\ arch' = ArchAfter(e, FALSE)
      /\ UNCHANGED <<gpr_state, instr_cnt, pre_instr, covered, sampled>>
      /\ unexpected_illegal_instr_cnt' \in Nat
  BY DEF NoOpcode, CovInv, CovTypeOK
<1> QED BY <1>1, <1>2, RowSkipped

LEMMA CrashHolds ==
  ASSUME CovInv, NEW e, Crash(e)
  PROVE  CovInv'
<1>1. /\ e \in RowsHere /\ e \in TraceRow /\ row' = row + 1 /\ file' = file
      /\ skipped_cnt' \in Nat /\ expect_illegal_instr' \in BOOLEAN
  BY WellFormedRow DEF Crash
<1>2. /\ row + 1 \in Nat /\ row + 1 <= Len(TraceFiles[file])
  BY <1>1, RowRead
<1>3. /\ stage' = "crash" /\ sampled' = e /\ covered' = {}
      /\ UNCHANGED <<gpr_state, instr_cnt, pre_instr, unexpected_illegal_instr_cnt, arch>>
  BY DEF Crash
<1>4. CovTypeOK'
  BY <1>1, <1>2, <1>3 DEF CovInv, CovTypeOK
<1>5. Coherent'
  BY <1>3 DEF CovInv, Coherent
<1>6. e # NoRow
  BY <1>1 DEF TraceRow, NoRow
<1> QED BY <1>3, <1>4, <1>5, <1>6 DEF CovInv, RowKept, FileOpen, ZeroKept

\* The row that is remembered is not the one before the first.
LEMMA SampledRow ==
  ASSUME NEW e \in TraceRow, NEW a
  PROVE  [e EXCEPT !.address = a] # NoRow
<1>1. [e EXCEPT !.address = a].instr = e.instr
  BY DEF TraceRow
<1>2. e.instr # "none" /\ NoRow.instr = "none"
  BY DEF TraceRow, NoRow
<1> QED BY <1>1, <1>2

LEMMA SampleHolds ==
  ASSUME CovInv, NEW e, Sample(e)
  PROVE  CovInv'
<1> DEFINE n == update_instr_name(e.instr)
<1>1. /\ e \in RowsHere /\ e \in TraceRow /\ row' = row + 1 /\ file' = file
      /\ skipped_cnt' \in Nat /\ expect_illegal_instr' \in BOOLEAN
  BY WellFormedRow DEF Sample
<1>2. /\ row + 1 \in Nat /\ row + 1 <= Len(TraceFiles[file])
  BY <1>1, RowRead
<1>3. /\ stage' = stage /\ unexpected_illegal_instr_cnt' = unexpected_illegal_instr_cnt
      /\ n \in HasAttributes
  BY DEF Sample
<1>4. CASE get_attr_list[n].group \notin supported_isa
  <2>1. /\ arch' = ArchAfter(e, FALSE)
        /\ UNCHANGED <<gpr_state, instr_cnt, pre_instr, covered, sampled>>
    BY <1>4 DEF Sample
  <2>2. unexpected_illegal_instr_cnt' \in Nat
    BY <1>3 DEF CovInv, CovTypeOK
  <2> QED BY <1>1, <1>3, <2>1, <2>2, RowSkipped
<1>5. CASE get_attr_list[n].group \in supported_isa
  <2> DEFINE i == Instruction(n, e)
             cur == IF instr_cnt > 0 THEN check_hazard_condition(i, pre_instr) ELSE i
  <2>1. /\ gpr_state' = GprAfter(gpr_state, Updates(n, e))
        /\ arch' = ArchAfter(e, n \notin NoOperands)
        /\ CgSample(i, e)
    BY <1>5 DEF Sample
  <2> HIDE DEF n
  <2>2. /\ instr_cnt' = instr_cnt + 1 /\ pre_instr' = cur /\ covered' = CoverGroupsOf(cur)
        /\ sampled' = [e EXCEPT !.address = Address(e)]
    BY <2>1 DEF CgSample
  <2>3. cur.instr = n /\ {cur.gpr_hazard, cur.lsu_hazard} \subseteq 0 .. 3
    BY HazardsMarked
  <2> HIDE DEF cur, i
  <2>4. Coherent' /\ ZeroKept' /\ gpr_state' \in [Registers -> RegValues]
    BY <1>1, <2>1, ParsedCoherent
  <2>5. arch' \in [Registers -> RegValues \cup {Unknown}]
    BY <1>1, <2>1, ArchType
  <2>6. covered' \subseteq DOMAIN cg_instantiation
    BY <2>2, GroupsInstantiated
  <2>7. sampled' # NoRow
    BY <1>1, <2>2, SampledRow
  <2>8. CovTypeOK'
    BY <1>1, <1>2, <1>3, <2>2, <2>3, <2>4, <2>5, <2>6 DEF CovInv, CovTypeOK
  <2> QED BY <1>1, <1>3, <2>4, <2>7, <2>8 DEF CovInv, RowKept, FileOpen, ZeroKept
<1> QED BY <1>4, <1>5

LEMMA CovStepHolds == CovInv /\ [CovNext]_covvars => CovInv'
<1> SUFFICES ASSUME CovInv, [CovNext]_covvars PROVE CovInv'
  OBVIOUS
<1>1. CASE OpenFile
  <2>1. /\ stage' = "read" /\ file' = file + 1 /\ row' = 0 /\ instr_cnt' = 0
        /\ file < Len(TraceFiles) /\ sampled' = NoRow
        /\ arch' = KnownAtStart
        /\ UNCHANGED <<gpr_state, pre_instr, expect_illegal_instr, skipped_cnt,
                       unexpected_illegal_instr_cnt, covered>>
    BY <1>1 DEF OpenFile, Reset
  <2>2. file \in 0 .. Len(TraceFiles) /\ Len(TraceFiles) \in Nat
    BY TraceAssumption DEF CovInv, CovTypeOK
  <2>3. TraceFiles[file + 1] \in Seq(SUBSET TraceRow)
    BY <2>1, <2>2, TraceAssumption
  <2>4. CovTypeOK'
    <3>1. arch' \in [Registers -> RegValues \cup {Unknown}]
      BY <2>1, TraceAssumption DEF KnownAtStart
    <3> QED BY <2>1, <2>2, <2>3, <3>1 DEF CovInv, CovTypeOK
  <2>5. Coherent'
    BY <2>1 DEF CovInv, Coherent, ZeroKept, KnownAtStart
  <2> QED BY <2>1, <2>2, <2>4, <2>5 DEF CovInv, RowKept, FileOpen, ZeroKept
<1>2. CASE CloseFile
  BY <1>2 DEF CloseFile, CovInv, CovTypeOK, Coherent, RowKept, FileOpen, ZeroKept
<1>3. CASE get_coverage_report
  BY <1>3 DEF get_coverage_report, CovInv, CovTypeOK, Coherent, RowKept, FileOpen, ZeroKept
<1>4. CASE \E e \in RowsHere : Malformed(e) \/ Skip(e) \/ NoOpcode(e) \/ Sample(e) \/ Crash(e)
  BY <1>4, MalformedHolds, SkipHolds, NoOpcodeHolds, SampleHolds, CrashHolds
<1>5. CASE UNCHANGED covvars
  BY <1>5 DEF covvars, CovInv, CovTypeOK, Coherent, RowKept, FileOpen, ZeroKept
<1> QED BY <1>1, <1>2, <1>3, <1>4, <1>5 DEF CovNext

LEMMA CovInvariant == CovSpec => []CovInv
BY CovStarts, CovStepHolds, PTL DEF CovSpec

\* A row that ends the run is not one in the assembler's order that tells what it does.
LEMMA CrashExplained ==
  ASSUME CovInv, NEW e \in RowsHere, Crash(e)
  PROVE  AssembledRowsAccepted'
<1>1. /\ e.shape = "whole" /\ e.instr \notin Pseudo \cup HasAtomicLetters /\ sampled' = e
      /\ NameOf(e) \in HasAttributes => ~Parses(NameOf(e), e)
  BY DEF Crash, WellFormed, NameOf
<1>2. CASE NameOf(e) \in HasAttributes
  <2>1. Interpreted(e)
    BY <1>1, <1>2 DEF Interpreted, NameOf
  <2>2. AsWritten(e) /\ e \in TraceRow
    BY <2>1, RowWrites
  <2>3. e.order # "assembler" \/ e.instr \in {"DRET", "FLW", "FLD", "FSW", "FSD"}
    BY <1>1, <1>2, <2>2, AcceptedAsWritten
  <2> QED BY <1>1, <2>3 DEF AssembledRowsAccepted
<1>3. CASE NameOf(e) \notin HasAttributes
  BY <1>1, <1>3 DEF AssembledRowsAccepted, NameOf
<1> QED BY <1>2, <1>3

-----------------------------------------------------------------------------
(***************************************************************************)
(* The registers and hazards that are counted are those of the rows: what  *)
(* the last row sampled left behind is what the next one is compared with. *)
(***************************************************************************)
\* The register that a row's update names as destination, and the registers recorded.
DestOf(n, e) == IF Updates(n, e) = <<>> THEN {} ELSE {DestField(n)}
SourceFor(n, e, f) == CHOOSE s \in SourcesOf(n, e.operand) : s[1] = f
RegsOf(n, e) ==
  [f \in RegFields |->
     IF f \in DestOf(n, e) THEN Number(Updates(n, e)[Len(Updates(n, e))][1])
     ELSE IF f \in Fields(n, e) THEN Number(SourceName(e, SourceFor(n, e, f))) ELSE 0]

\* What the last row sampled left behind.
Remembered ==
  (instr_cnt > 0 /\ stage # "crash") =>
    LET n == pre_instr.instr
    IN  /\ sampled \in TraceRow /\ n \in HasAttributes /\ n = NameOf(sampled)
        /\ Parses(n, sampled) /\ AsExecuted(sampled)
        /\ pre_instr.reg = RegsOf(n, sampled)
        /\ (IsMemory(n) /\ sampled.address # Unknown) => pre_instr.mem_addr = sampled.address
CountStarts == (sampled # NoRow /\ stage # "crash") => instr_cnt > 0
HazardInv == CovInv /\ Remembered /\ CountStarts

\* A source that is looked up by its field is one of the sources.
LEMMA SourceFound ==
  ASSUME NEW n, NEW e, NEW f \in Fields(n, e)
  PROVE  SourceFor(n, e, f) \in SourcesOf(n, e.operand) /\ SourceFor(n, e, f)[1] = f
<1>1. PICK s \in SourcesOf(n, e.operand) : s[1] = f
  BY DEF Fields
<1> QED BY <1>1 DEF SourceFor

\* What assign_trace_info_to_instr makes of a row.
LEMMA InstructionParts ==
  ASSUME NEW n, NEW e
  PROVE  LET i == Instruction(n, e)
         IN  /\ i.instr = n /\ i.reg = RegsOf(n, e)
             /\ \A f \in Fields(n, e) \cap RegFields :
                  f \notin DestOf(n, e) => i.value[f] = get_gpr_state(SourceName(e, SourceFor(n, e, f)))
             /\ IsMemory(n) => i.mem_addr = i.value["rs1"] +
                                 (IF "imm" \in Fields(n, e)
                                  THEN get_val(SourceName(e, SourceFor(n, e, "imm"))) ELSE 0)
<1> DEFINE i == Instruction(n, e)
<1>1. i.instr = n
  BY DEF Instruction
<1>2. i.reg = RegsOf(n, e)
  BY DEF Instruction, RegsOf, DestOf, Fields, SourceFor
<1>3. ASSUME NEW f \in Fields(n, e) \cap RegFields, f \notin DestOf(n, e)
      PROVE  i.value[f] = get_gpr_state(SourceName(e, SourceFor(n, e, f)))
  BY <1>3 DEF Instruction, DestOf, Fields, SourceFor
<1>4. IsMemory(n) => i.mem_addr = i.value["rs1"] +
                       (IF "imm" \in Fields(n, e)
                        THEN get_val(SourceName(e, SourceFor(n, e, "imm"))) ELSE 0)
  BY DEF Instruction, IsMemory, Fields, SourceFor
<1> HIDE DEF i
<1> QED BY <1>1, <1>2, <1>3, <1>4 DEF i

\* The operand that a source names is a register of the field's file.
LEMMA SourceClass ==
  ASSUME NEW n \in HasAttributes, NEW e, Parses(n, e),
         NEW s \in SourcesOf(n, e.operand), s[1] \in RegFields
  PROVE  SourceName(e, s) \in (IF s[1] \in {"rs1", "rs2"} THEN DOMAIN riscv_reg_t
                               ELSE DOMAIN riscv_fpr_t)
<1>1. n \notin NoOperands
  BY DEF SourcesOf
<1>2. s[2] # 0 => Converts(s[1], e.operand[s[2]])
  BY <1>1 DEF Parses
<1>3. s[1] \in {"rs1", "rs2", "fs1", "fs2", "fs3"} /\ (s[2] = 0 => s[1] = "rs1")
  BY IntegerFields, FloatFields DEF RegFields
<1>4. "SP" \in DOMAIN riscv_reg_t
  BY DEF riscv_reg_t
<1>5. CASE s[2] = 0
  BY <1>3, <1>4, <1>5 DEF SourceName
<1>6. CASE s[2] # 0
  <2>1. CASE s[1] \in {"rs1", "rs2"}
    BY <1>2, <1>6, <2>1 DEF SourceName, Converts
  <2>2. CASE s[1] \in {"fs1", "fs2", "fs3"}
    BY <1>2, <1>6, <2>2 DEF SourceName, Converts
  <2> QED BY <1>3, <2>1, <2>2
<1> QED BY <1>5, <1>6

\* Registers of one file are told apart by their numbers.
LEMMA NumbersDiffer ==
  ASSUME NEW x, NEW y, \/ {x, y} \subseteq DOMAIN riscv_reg_t
                       \/ {x, y} \subseteq DOMAIN riscv_fpr_t
  PROVE  Number(x) = Number(y) <=> x = y
<1>1. CASE {x, y} \subseteq DOMAIN riscv_reg_t
  BY <1>1, IntInj DEF Number
<1>2. CASE {x, y} \subseteq DOMAIN riscv_fpr_t
  <2>1. x \notin DOMAIN riscv_reg_t /\ y \notin DOMAIN riscv_reg_t
    BY <1>2, Disj
  <2> QED BY <1>2, <2>1, FpInj DEF Number
<1> QED BY <1>1, <1>2

\* A row that updates one register.
LEMMA OneUpdate ==
  ASSUME NEW n, NEW e \in TraceRow, Parses(n, e), n \notin NoOperands, Len(e.gpr) = 1
  PROVE  LET x == e.gpr[1][1]
         IN  /\ DestOf(n, e) = {DestField(n)} /\ DestField(n) \in RegFields
             /\ RegsOf(n, e)[DestField(n)] = Number(x)
             /\ WrittenBy(e) = {x} /\ Converts(DestField(n), x) /\ x # "ZERO"
<1> DEFINE x == e.gpr[1][1]
<1>1. e.gpr \in Seq((Registers \ {"ZERO"}) \X RegValues)
  BY DEF TraceRow
<1>2. DOMAIN e.gpr = {1} /\ e.gpr # <<>> /\ e.gpr[1] \in (Registers \ {"ZERO"}) \X RegValues
  BY <1>1
<1>3. Updates(n, e) = e.gpr
  BY DEF Updates
<1>4. DestField(n) \in RegFields
  BY DEF DestField, RegFields
<1>5. DestOf(n, e) = {DestField(n)}
  BY <1>2, <1>3 DEF DestOf
<1>6. RegsOf(n, e)[DestField(n)] = Number(x)
  BY <1>3, <1>4, <1>5 DEF RegsOf
<1>7. WrittenBy(e) = {x}
  BY <1>2 DEF WrittenBy
<1>8. Converts(DestField(n), x)
  BY <1>2 DEF Parses
<1>9. x # "ZERO"
  BY <1>2
<1> QED BY <1>4, <1>5, <1>6, <1>7, <1>8, <1>9

\* What a row that can be parsed says of the program.
LEMMA ExecutedRow ==
  ASSUME NEW e, AsExecuted(e), NEW n, n = NameOf(e), Parses(n, e)
  PROVE  /\ \A s \in SourcesOf(n, e.operand) : s[1] \in RegFields \ {DestField(n)} =>
              /\ SourceName(e, s) \in Registers
              /\ SourceName(e, s) \in e.reads \/ (Len(e.operand) = 2 /\ s[1] = "fs2")
         /\ (Fused(n) \/ n \in FromInteger \/ WholeInteger(n)) => e.reads \subseteq Named(n, e)
         /\ e.base # "none" =>
              /\ IsMemory(n) /\ {"rs1", "imm"} \subseteq Fields(n, e)
              /\ \A s \in SourcesOf(n, e.operand) :
                   /\ s[1] = "rs1" => SourceName(e, s) = e.base
                   /\ s[1] = "imm" => get_val(SourceName(e, s)) = e.offset
BY Zenon DEF AsExecuted, NameOf, Named, Fields

\* A register is read by a row exactly if its number is recorded in a source field
\* of fields: all sources of its file are, and the row names what it reads.
LEMMA ReadsRecorded ==
  ASSUME NEW n \in HasAttributes, NEW e, Parses(n, e), NEW fields \in SUBSET RegFields,
         NEW class, NEW x \in class,
         \/ class = DOMAIN riscv_reg_t /\ fields = {"rs1", "rs2"}
         \/ class = DOMAIN riscv_fpr_t /\ fields = {"fs1", "fs2", "fs3"},
         e.reads \subseteq Named(n, e),
         \A s \in SourcesOf(n, e.operand) : s[1] \in fields => SourceName(e, s) \in e.reads,
         fields \cap DestOf(n, e) = {},
         \A f \in fields : f \in Has[n] <=> f \in Fields(n, e)
  PROVE  x \in e.reads <=> Number(x) \in {RegsOf(n, e)[f] : f \in fields \cap Has[n]}
<1>1. ASSUME NEW s \in SourcesOf(n, e.operand), s[1] \in fields
      PROVE  /\ s[1] \in Has[n] /\ RegsOf(n, e)[s[1]] = Number(SourceName(e, s))
             /\ SourceName(e, s) \in class
  <2>1. s[1] \in Fields(n, e) /\ s[1] \in RegFields /\ s[1] \notin DestOf(n, e)
    BY <1>1 DEF Fields
  <2>2. SourceFor(n, e, s[1]) = s
    BY <2>1, SourceFound, OneSource
  <2>3. SourceName(e, s) \in class
    BY <1>1, <2>1, SourceClass
  <2> QED BY <1>1, <2>1, <2>2, <2>3 DEF RegsOf
<1>2. ASSUME x \in e.reads
      PROVE  Number(x) \in {RegsOf(n, e)[f] : f \in fields \cap Has[n]}
  <2>1. PICK s \in SourcesOf(n, e.operand) : s[1] \in RegFields /\ x = SourceName(e, s)
    BY <1>2 DEF Named
  <2>2. s[1] \in fields
    <3>1. s[1] \in {"rs1", "rs2", "fs1", "fs2", "fs3"}
      BY <2>1, IntegerFields, FloatFields DEF RegFields
    <3>2. x \in (IF s[1] \in {"rs1", "rs2"} THEN DOMAIN riscv_reg_t ELSE DOMAIN riscv_fpr_t)
      BY <2>1, SourceClass
    <3> QED BY <3>1, <3>2, Disj
  <2> QED BY <1>1, <2>1, <2>2
<1>3. ASSUME NEW f \in fields \cap Has[n], Number(x) = RegsOf(n, e)[f]
      PROVE  x \in e.reads
  <2>1. f \in Fields(n, e)
    BY <1>3
  <2>2. SourceFor(n, e, f) \in SourcesOf(n, e.operand) /\ SourceFor(n, e, f)[1] = f
    BY <2>1, SourceFound
  <2> DEFINE y == SourceName(e, SourceFor(n, e, f))
  <2>3. RegsOf(n, e)[f] = Number(y) /\ y \in class
    BY <1>1, <1>3, <2>2
  <2>4. y \in e.reads
    BY <1>3, <2>2
  <2> HIDE DEF y
  <2>5. x = y
    BY <1>3, <2>3, NumbersDiffer
  <2> QED BY <2>4, <2>5
<1> QED BY <1>2, <1>3

\* Of a floating-point instruction whose operands are all filled.
LEMMA FusedReads ==
  ASSUME NEW e \in TraceRow, NEW n \in HasAttributes, n = NameOf(e), Fused(n),
         Parses(n, e), AsExecuted(e), NEW x \in DOMAIN riscv_fpr_t
  PROVE  x \in e.reads <=>
           Number(x) \in {RegsOf(n, e)[f] : f \in {"fs1", "fs2", "fs3"} \cap Has[n]}
<1> DEFINE fields == {"fs1", "fs2", "fs3"}
<1>1. /\ \A f \in fields : f \in Has[n] <=> f \in Fields(n, e)
      /\ DestField(n) = "fd" /\ n \notin NoOperands
      /\ ("fs2" \in Has[n] => Arity(n) = {4})
  BY HasOfFused DEF Fields
<1>2. fields \in SUBSET RegFields /\ fields \cap DestOf(n, e) = {}
  BY <1>1 DEF RegFields, DestOf
<1>3. e.reads \subseteq Named(n, e)
  BY ExecutedRow
<1>4. ASSUME NEW s \in SourcesOf(n, e.operand), s[1] \in fields
      PROVE  SourceName(e, s) \in e.reads
  <2>1. Len(e.operand) \in Arity(n)
    BY <1>1 DEF Parses
  <2>2. s[1] \in RegFields \ {DestField(n)}
    BY <1>1, <1>4 DEF RegFields
  <2>3. SourceName(e, s) \in e.reads \/ (Len(e.operand) = 2 /\ s[1] = "fs2")
    BY <2>2, ExecutedRow
  <2>4. s[1] \in Has[n]
    BY <1>1, <1>4 DEF Fields
  <2>5. ~(Len(e.operand) = 2 /\ s[1] = "fs2")
    <3>1. s[1] = "fs2" => Len(e.operand) \in {4}
      BY <1>1, <2>1, <2>4
    <3> QED BY <3>1
  <2> QED BY <2>3, <2>5
<1> HIDE DEF fields
<1>5. DOMAIN riscv_fpr_t = DOMAIN riscv_fpr_t /\ fields = {"fs1", "fs2", "fs3"}
  BY DEF fields
<1> QED BY <1>1, <1>2, <1>3, <1>4, <1>5, ReadsRecorded

\* Of an instruction whose integer operands are all filled.
LEMMA IntegerReads ==
  ASSUME NEW e \in TraceRow, NEW n \in HasAttributes, n = NameOf(e),
         n \in FromInteger \/ WholeInteger(n),
         Parses(n, e), AsExecuted(e), NEW x \in DOMAIN riscv_reg_t, x # "ZERO"
  PROVE  x \in e.reads <=>
           Number(x) \in {RegsOf(n, e)[f] : f \in {"rs1", "rs2"} \cap Has[n]}
<1> DEFINE fields == {"rs1", "rs2"}
<1>1. e.reads \subseteq Named(n, e)
  BY ExecutedRow
<1>2. CASE n \in NoOperands
  <2>1. SourcesOf(n, e.operand) = {} /\ Updates(n, e) = <<>>
    BY <1>2 DEF SourcesOf, Updates
  <2>2. e.reads = {}
    BY <1>1, <2>1 DEF Named
  <2>3. \A f \in RegFields : RegsOf(n, e)[f] = 0
    BY <2>1 DEF RegsOf, DestOf, Fields
  <2>4. Number(x) # 0
    <3>1. "ZERO" \in DOMAIN riscv_reg_t /\ riscv_reg_t["ZERO"] = 0
      BY DEF riscv_reg_t
    <3> QED BY <3>1, IntInj DEF Number
  <2> QED BY <2>2, <2>3, <2>4 DEF RegFields
<1>3. CASE n \notin NoOperands
  <2>1. \A f \in fields : f \in Has[n] <=> f \in Fields(n, e)
    <3>1. CASE n \in FromInteger
      <4>1. Has[n] \cap {"rs1", "rs2"} = {"rs1"} /\ SourcesOf(n, e.operand) = {<<"rs1", 2>>}
        BY <3>1, HasOfFromInteger
      <4>2. Fields(n, e) = {"rs1"}
        BY <4>1 DEF Fields
      <4> QED BY <4>1, <4>2
    <3>2. CASE WholeInteger(n)
      BY <1>3, <3>2, HasOfWholeInteger DEF Fields
    <3> QED BY <3>1, <3>2
  <2>2. DestField(n) \in {"rd", "fd"}
    BY DEF DestField
  <2>3. fields \in SUBSET RegFields /\ fields \cap DestOf(n, e) = {}
    BY <2>2 DEF RegFields, DestOf
  <2>4. ASSUME NEW s \in SourcesOf(n, e.operand), s[1] \in fields
        PROVE  SourceName(e, s) \in e.reads
    <3>1. s[1] \in RegFields \ {DestField(n)} /\ s[1] # "fs2"
      BY <2>2, <2>4 DEF RegFields
    <3>2. SourceName(e, s) \in e.reads \/ (Len(e.operand) = 2 /\ s[1] = "fs2")
      BY <3>1, ExecutedRow
    <3> QED BY <3>1, <3>2
  <2> HIDE DEF fields
  <2>5. DOMAIN riscv_reg_t = DOMAIN riscv_reg_t /\ fields = {"rs1", "rs2"}
    BY DEF fields
  <2>6. x \in e.reads <=> Number(x) \in {RegsOf(n, e)[f] : f \in fields \cap Has[n]}
    BY <1>1, <2>1, <2>3, <2>4, <2>5, ReadsRecorded
  <2> QED BY <2>5, <2>6
<1> QED BY <1>2, <1>3

\* No integer instruction has a floating-point field filled.
LEMMA IntegerRegs ==
  ASSUME NEW n \in HasAttributes, ~IsFloat(n), NEW e
  PROVE  RegsOf(n, e)["fd"] = 0 /\ RegsOf(n, e)["fs1"] = 0
<1>1. Fields(n, e) \subseteq {"rs1", "rs2", "imm", "csr"}
  BY IntegerFields DEF Fields
<1>2. DestOf(n, e) \subseteq {"rd"}
  BY HasOfInteger DEF DestOf
<1> QED BY <1>1, <1>2 DEF RegsOf, RegFields

\* The address noted with a row says nothing about the instruction it becomes.
LEMMA SameInstruction ==
  ASSUME NEW n, NEW d, NEW e, d.operand = e.operand, d.gpr = e.gpr
  PROVE  /\ Instruction(n, d) = Instruction(n, e)
         /\ RegsOf(n, d) = RegsOf(n, e)
         /\ Parses(n, d) <=> Parses(n, e)
<1>1. Instruction(n, d) = Instruction(n, e)
  BY DEF Instruction, SourceName, Updates
<1>2. Parses(n, d) <=> Parses(n, e)
  BY DEF Parses
<1>3. RegsOf(n, d) = RegsOf(n, e)
  <2>1. Instruction(n, d).reg = RegsOf(n, d) /\ Instruction(n, e).reg = RegsOf(n, e)
    BY InstructionParts
  <2> QED BY <1>1, <2>1
<1> QED BY <1>1, <1>2, <1>3

LEMMA SameExecuted ==
  ASSUME NEW d \in TraceRow, NEW e \in TraceRow, AsExecuted(d),
         d.operand = e.operand, d.gpr = e.gpr, d.instr = e.instr, d.reads = e.reads,
         d.base = e.base, d.offset = e.offset
  PROVE  AsExecuted(e)
<1> DEFINE n == update_instr_name(e.instr)
<1>1. \A s : SourceName(d, s) = SourceName(e, s)
  BY DEF SourceName
<1>2. n = update_instr_name(d.instr) /\ SourcesOf(n, d.operand) = SourcesOf(n, e.operand)
  OBVIOUS
<1> HIDE DEF n
<1>3. Parses(n, d) <=> Parses(n, e)
  BY SameInstruction
<1> SUFFICES ASSUME Parses(n, e)
             PROVE  /\ \A s \in SourcesOf(n, e.operand) : s[1] \in RegFields \ {DestField(n)} =>
                         /\ SourceName(e, s) \in Registers
                         /\ SourceName(e, s) \in e.reads \/ (Len(e.operand) = 2 /\ s[1] = "fs2")
                    /\ (Fused(n) \/ n \in FromInteger \/ WholeInteger(n)) => e.reads \subseteq Named(n, e)
                    /\ e.base # "none" =>
                         /\ IsMemory(n) /\ {"rs1", "imm"} \subseteq Fields(n, e)
                         /\ \A s \in SourcesOf(n, e.operand) :
                              /\ s[1] = "rs1" => SourceName(e, s) = e.base
                              /\ s[1] = "imm" => get_val(SourceName(e, s)) = e.offset
  BY Zenon DEF AsExecuted, Named, Fields, n
<1>4. Parses(n, d) /\ n = NameOf(d)
  BY <1>2, <1>3 DEF NameOf
<1>5. Named(n, d) = Named(n, e) /\ Fields(n, d) = Fields(n, e)
  BY <1>1, <1>2 DEF Named, Fields
<1>6. /\ \A s \in SourcesOf(n, d.operand) : s[1] \in RegFields \ {DestField(n)} =>
           /\ SourceName(d, s) \in Registers
           /\ SourceName(d, s) \in d.reads \/ (Len(d.operand) = 2 /\ s[1] = "fs2")
      /\ (Fused(n) \/ n \in FromInteger \/ WholeInteger(n)) => d.reads \subseteq Named(n, d)
      /\ d.base # "none" =>
           /\ IsMemory(n) /\ {"rs1", "imm"} \subseteq Fields(n, d)
           /\ \A s \in SourcesOf(n, d.operand) :
                /\ s[1] = "rs1" => SourceName(d, s) = d.base
                /\ s[1] = "imm" => get_val(SourceName(d, s)) = d.offset
  BY <1>4, ExecutedRow, Zenon
<1> QED BY <1>1, <1>2, <1>5, <1>6

\* A step that samples row e samples it as an instruction of its name.
LEMMA SampledStep ==
  ASSUME CovInv, [CovNext]_covvars, NEW e \in RowsHere, Samples(e)
  PROVE  LET n == NameOf(e)
             i == Instruction(n, e)
         IN  /\ e \in TraceRow /\ n \in HasAttributes /\ Parses(n, e) /\ AsExecuted(e)
             /\ AsWritten(e) /\ covered' = CoverGroupsOf(pre_instr')
             /\ stage = "read" /\ stage' = "read"
             /\ pre_instr' = IF instr_cnt > 0 THEN check_hazard_condition(i, pre_instr) ELSE i
             /\ instr_cnt' = instr_cnt + 1 /\ sampled' = [e EXCEPT !.address = Address(e)]
<1>1. instr_cnt \in Nat /\ instr_cnt' = instr_cnt + 1 /\ sampled' = [e EXCEPT !.address = Address(e)]
  BY DEF Samples, CovInv, CovTypeOK
<1>2. instr_cnt' # instr_cnt /\ instr_cnt' # 0
  BY <1>1
<1>3. e \in TraceRow /\ stage = "read"
  BY RowRead
<1>4. PICK d \in RowsHere : Sample(d)
  BY <1>2 DEF CovNext, covvars, OpenFile, Reset, CloseFile, get_coverage_report, Malformed, Skip,
              NoOpcode, Crash
<1>5. d \in TraceRow
  BY RowRead
<1> DEFINE m == NameOf(d)
           j == Instruction(m, d)
<1>6. /\ m \in HasAttributes /\ Parses(m, d) /\ stage' = stage /\ covered' = CoverGroupsOf(pre_instr')
      /\ pre_instr' = IF instr_cnt > 0 THEN check_hazard_condition(j, pre_instr) ELSE j
      /\ sampled' = [d EXCEPT !.address = Address(d)]
  BY <1>2, <1>4 DEF Sample, CgSample, NameOf
<1>7. /\ d.operand = e.operand /\ d.gpr = e.gpr /\ d.instr = e.instr /\ d.shape = e.shape
  <2> HIDE DEF m, j
  <2>1. [d EXCEPT !.address = Address(d)] = [e EXCEPT !.address = Address(e)]
    BY <1>1, <1>6, Zenon
  <2> DEFINE a == Address(d)
             b == Address(e)
  <2> HIDE DEF a, b
  <2>2. [d EXCEPT !.address = a] = [e EXCEPT !.address = b]
    BY <2>1 DEF a, b
  <2> QED BY <1>3, <1>5, <2>2 DEF TraceRow
<1>8. m = NameOf(e)
  BY <1>7 DEF NameOf
<1>9. j = Instruction(m, e) /\ Parses(m, e)
  BY <1>6, <1>7, SameInstruction
<1>10. AsWritten(e) /\ AsExecuted(e)
  <2>1. Interpreted(d)
    BY <1>4, <1>6 DEF Sample, WellFormed, Interpreted, NameOf
  <2>2. Interpreted(e)
    BY <1>7, <2>1 DEF Interpreted
  <2> QED BY <2>2, RowWrites
<1> HIDE DEF m, j
<1> QED BY <1>1, <1>3, <1>6, <1>8, <1>9, <1>10

\* The address computed for an access is the one accessed.
LEMMA MemAddr ==
  ASSUME CovInv, NEW e \in TraceRow, NEW n \in HasAttributes, n = NameOf(e), Parses(n, e),
         AsExecuted(e), e.base # "none", Address(e) # Unknown
  PROVE  IsMemory(n) /\ Instruction(n, e).mem_addr = Address(e)
<1>1. e.base \in Registers /\ arch[e.base] # Unknown /\ Address(e) = arch[e.base] + e.offset
  BY DEF Address, TraceRow
<1>2. /\ IsMemory(n) /\ {"rs1", "imm"} \subseteq Fields(n, e)
      /\ \A s \in SourcesOf(n, e.operand) :
           /\ s[1] = "rs1" => SourceName(e, s) = e.base
           /\ s[1] = "imm" => get_val(SourceName(e, s)) = e.offset
  BY ExecutedRow
<1>3. /\ SourceName(e, SourceFor(n, e, "rs1")) = e.base
      /\ get_val(SourceName(e, SourceFor(n, e, "imm"))) = e.offset
  BY <1>2, SourceFound
<1>4. "rs1" \in RegFields /\ "rs1" \notin DestOf(n, e)
  BY DEF RegFields, DestOf, DestField
<1>5. /\ Instruction(n, e).value["rs1"] = get_gpr_state(e.base)
      /\ Instruction(n, e).mem_addr = Instruction(n, e).value["rs1"] + e.offset
  BY <1>2, <1>3, <1>4, InstructionParts
<1>6. get_gpr_state(e.base) = arch[e.base]
  BY <1>1 DEF get_gpr_state, CovInv, Coherent, ZeroKept
<1> QED BY <1>1, <1>2, <1>5, <1>6

\* The address noted with a row is an integer.
LEMMA AddressType ==
  ASSUME CovInv, NEW e \in TraceRow
  PROVE  Address(e) \in Int
<1>1. CASE e.base = "none" \/ arch[e.base] = Unknown
  BY <1>1 DEF Address, Unknown
<1>2. CASE ~(e.base = "none" \/ arch[e.base] = Unknown)
  <2>1. e.base \in Registers /\ e.offset \in Int
    BY <1>2 DEF TraceRow
  <2>2. arch[e.base] \in Nat
    BY <1>2, <2>1, TraceAssumption DEF CovInv, CovTypeOK
  <2> QED BY <1>2, <2>1, <2>2 DEF Address
<1> QED BY <1>1, <1>2

\* The hazards that are computed of an instruction change nothing else of it.
LEMMA HazardsOnly ==
  ASSUME NEW n, NEW e, NEW pre
  PROVE  LET i == Instruction(n, e)
             cur == check_hazard_condition(i, pre)
         IN  /\ cur.instr = n /\ cur.reg = i.reg /\ cur.mem_addr = i.mem_addr /\ cur.value = i.value
             /\ cur.gpr_hazard = RegisterHazard(i, pre, {"fs1", "fs2", "fs3"}, "fd",
                                   RegisterHazard(i, pre, {"rs1", "rs2"}, "rd", hazard_e.NO_HAZARD))
             /\ cur.lsu_hazard = MemoryHazard(i, pre)
<1> DEFINE i == Instruction(n, e)
<1>1. /\ i.instr = n
      /\ i = [instr |-> i.instr, reg |-> i.reg, value |-> i.value, mem_addr |-> i.mem_addr,
              csr |-> i.csr, branch_hit |-> i.branch_hit, fed |-> i.fed,
              gpr_hazard |-> i.gpr_hazard, lsu_hazard |-> i.lsu_hazard]
  BY InstructionFields
<1> HIDE DEF i
<1> QED BY <1>1 DEF check_hazard_condition, i

\* The row that is remembered with its address.
LEMMA NotedRow ==
  ASSUME CovInv, NEW e \in TraceRow, AsExecuted(e)
  PROVE  LET s == [e EXCEPT !.address = Address(e)]
         IN  /\ s \in TraceRow /\ AsExecuted(s) /\ s.address = Address(e)
             /\ s.operand = e.operand /\ s.gpr = e.gpr /\ s.instr = e.instr /\ s.reads = e.reads
             /\ s.base = e.base /\ s.offset = e.offset
<1> DEFINE s == [e EXCEPT !.address = Address(e)]
<1>1. s \in TraceRow /\ s.address = Address(e)
  BY AddressType DEF TraceRow
<1>2. /\ s.operand = e.operand /\ s.gpr = e.gpr /\ s.instr = e.instr /\ s.reads = e.reads
      /\ s.base = e.base /\ s.offset = e.offset
  BY DEF TraceRow
<1> HIDE DEF s
<1>3. AsExecuted(s)
  BY <1>1, <1>2, SameExecuted
<1> QED BY <1>1, <1>2, <1>3 DEF s

\* An access has a base exactly where its address is noted.
LEMMA SampledRemembered ==
  ASSUME CovInv, [CovNext]_covvars, NEW e \in RowsHere, Samples(e)
  PROVE  Remembered'
<1> DEFINE n == NameOf(e)
           i == Instruction(n, e)
<1>1. /\ e \in TraceRow /\ n \in HasAttributes /\ Parses(n, e) /\ AsExecuted(e)
      /\ pre_instr' = IF instr_cnt > 0 THEN check_hazard_condition(i, pre_instr) ELSE i
      /\ sampled' = [e EXCEPT !.address = Address(e)]
  BY SampledStep
<1>2. /\ sampled' \in TraceRow /\ AsExecuted(sampled') /\ sampled'.address = Address(e)
      /\ sampled'.operand = e.operand /\ sampled'.gpr = e.gpr /\ sampled'.instr = e.instr
  BY <1>1, NotedRow
<1>3. n = NameOf(sampled')
  BY <1>2 DEF NameOf
<1> HIDE DEF n
<1>4. /\ pre_instr'.instr = n /\ pre_instr'.reg = i.reg /\ pre_instr'.mem_addr = i.mem_addr
  BY <1>1, HazardsOnly, InstructionParts
<1>5. i.reg = RegsOf(n, e)
  BY InstructionParts
<1>6. Parses(n, sampled') /\ RegsOf(n, sampled') = RegsOf(n, e)
  BY <1>1, <1>2, SameInstruction
<1>7. Address(e) # Unknown => i.mem_addr = Address(e)
  <2>1. Address(e) # Unknown => e.base # "none"
    BY DEF Address
  <2> QED BY <1>1, <2>1, MemAddr DEF n
<1> HIDE DEF i
<1>8. /\ sampled' \in TraceRow /\ n \in HasAttributes /\ n = NameOf(sampled')
      /\ Parses(n, sampled') /\ AsExecuted(sampled')
      /\ pre_instr'.reg = RegsOf(n, sampled')
      /\ sampled'.address # Unknown => pre_instr'.mem_addr = sampled'.address
  BY <1>1, <1>2, <1>3, <1>4, <1>5, <1>6, <1>7
<1> QED BY <1>4, <1>8 DEF Remembered

\* A step that samples nothing forgets nothing, except where a file is opened or the
\* run ends.
LEMMA NothingSampled ==
  ASSUME CovInv, [CovNext]_covvars, \A e \in RowsHere : ~Samples(e)
  PROVE  \/ UNCHANGED <<pre_instr, sampled, instr_cnt>> /\ (stage = "crash" => stage' = "crash")
         \/ instr_cnt' = 0 /\ sampled' = NoRow
         \/ stage' = "crash"
<1>1. CASE OpenFile
  BY <1>1 DEF OpenFile, Reset
<1>2. CASE CloseFile \/ get_coverage_report
  BY <1>2 DEF CloseFile, get_coverage_report
<1>3. CASE \E e \in RowsHere : Malformed(e) \/ Skip(e) \/ NoOpcode(e) \/ Sample(e) \/ Crash(e)
  <2>1. PICK e \in RowsHere : Malformed(e) \/ Skip(e) \/ NoOpcode(e) \/ Sample(e) \/ Crash(e)
    BY <1>3
  <2>2. CASE Malformed(e) \/ Skip(e) \/ NoOpcode(e)
    BY <2>2 DEF Malformed, Skip, NoOpcode
  <2>3. CASE Sample(e)
    <3>1. ~Samples(e)
      OBVIOUS
    <3>2. UNCHANGED <<stage, instr_cnt, pre_instr, sampled>>
      BY <2>3, <3>1 DEF Sample, CgSample, Samples
    <3> QED BY <3>2
  <2>4. CASE Crash(e)
    BY <2>4 DEF Crash
  <2> QED BY <2>1, <2>2, <2>3, <2>4
<1>4. CASE UNCHANGED covvars
  BY <1>4 DEF covvars
<1> QED BY <1>1, <1>2, <1>3, <1>4 DEF CovNext

LEMMA HazardStarts == CovInit => HazardInv
<1> SUFFICES ASSUME CovInit PROVE HazardInv
  OBVIOUS
<1>1. instr_cnt = 0 /\ sampled = NoRow
  BY DEF CovInit
<1> QED BY <1>1, CovStarts DEF HazardInv, Remembered, CountStarts

LEMMA HazardStepHolds == HazardInv /\ [CovNext]_covvars => HazardInv'
<1> SUFFICES ASSUME HazardInv, [CovNext]_covvars PROVE HazardInv'
  OBVIOUS
<1>1. CovInv /\ CovInv'
  BY CovStepHolds DEF HazardInv
<1>2. CASE \E e \in RowsHere : Samples(e)
  <2>1. PICK e \in RowsHere : Samples(e)
    BY <1>2
  <2>2. Remembered'
    BY <1>1, <2>1, SampledRemembered
  <2>3. instr_cnt' > 0
    BY <1>1, <2>1 DEF Samples, CovInv, CovTypeOK
  <2> QED BY <1>1, <2>2, <2>3 DEF HazardInv, CountStarts
<1>3. CASE \A e \in RowsHere : ~Samples(e)
  <2>1. CASE UNCHANGED <<pre_instr, sampled, instr_cnt>> /\ (stage = "crash" => stage' = "crash")
    <3>1. Remembered'
      BY <2>1 DEF HazardInv, Remembered
    <3>2. CountStarts'
      BY <2>1 DEF HazardInv, CountStarts
    <3> QED BY <1>1, <3>1, <3>2 DEF HazardInv
  <2>2. CASE instr_cnt' = 0 /\ sampled' = NoRow
    BY <1>1, <2>2 DEF HazardInv, Remembered, CountStarts
  <2>3. CASE stage' = "crash"
    BY <1>1, <2>3 DEF HazardInv, Remembered, CountStarts
  <2> QED BY <1>1, <1>3, <2>1, <2>2, <2>3, NothingSampled
<1> QED BY <1>2, <1>3

LEMMA HazardInvariant == CovSpec => []HazardInv
BY HazardStarts, HazardStepHolds, PTL DEF CovSpec

-----------------------------------------------------------------------------
\* Where no operand is missing the values and the address are those of the program.
LEMMA OperandsOfRow ==
  ASSUME CovInv, [CovNext]_covvars, NEW e \in RowsHere, Samples(e)
  PROVE  LET i == pre_instr'
             sources == SourceFields(i.instr, e) \ {DestField(i.instr)}
             class(f) == IF f \in {"rs1", "rs2"} THEN DOMAIN riscv_reg_t ELSE DOMAIN riscv_fpr_t
         IN  /\ \A f \in sources : \E r \in Registers \cap class(f) :
                  /\ Number(r) = i.reg[f]
                  /\ r \in e.reads \/ (Len(e.operand) = 2 /\ f = "fs2")
                  /\ arch[r] # Unknown => i.value[f] = arch[r]
             /\ (e.base # "none" /\ Address(e) # Unknown) => i.mem_addr = Address(e)
<1> DEFINE n == NameOf(e)
           j == Instruction(n, e)
           class(f) == IF f \in {"rs1", "rs2"} THEN DOMAIN riscv_reg_t ELSE DOMAIN riscv_fpr_t
<1>1. /\ e \in TraceRow /\ n \in HasAttributes /\ Parses(n, e) /\ AsExecuted(e)
      /\ pre_instr' = IF instr_cnt > 0 THEN check_hazard_condition(j, pre_instr) ELSE j
  BY SampledStep
<1>2. n = NameOf(e)
  OBVIOUS
<1> HIDE DEF n
<1>3. /\ pre_instr'.instr = n /\ pre_instr'.reg = j.reg /\ pre_instr'.mem_addr = j.mem_addr
      /\ pre_instr'.value = j.value
  BY <1>1, HazardsOnly, InstructionParts
<1>4. ASSUME NEW f \in SourceFields(n, e) \ {DestField(n)}
      PROVE  \E r \in Registers \cap class(f) :
               /\ Number(r) = j.reg[f]
               /\ r \in e.reads \/ (Len(e.operand) = 2 /\ f = "fs2")
               /\ arch[r] # Unknown => j.value[f] = arch[r]
  <2> DEFINE s == SourceFor(n, e, f)
             x == SourceName(e, s)
  <2>1. f \in Fields(n, e) \cap RegFields /\ f \notin DestOf(n, e)
    BY DEF SourceFields, Fields, DestOf
  <2>2. s \in SourcesOf(n, e.operand) /\ s[1] = f
    BY <2>1, SourceFound
  <2>3. j.reg[f] = Number(x)
    <3>1. RegsOf(n, e)[f] = Number(x)
      BY <2>1 DEF RegsOf
    <3>2. j.reg = RegsOf(n, e)
      BY InstructionParts
    <3> QED BY <3>1, <3>2
  <2>4. j.value[f] = get_gpr_state(x)
    BY <2>1, InstructionParts
  <2>5. x \in Registers /\ (x \in e.reads \/ (Len(e.operand) = 2 /\ f = "fs2"))
    BY <1>1, <1>2, <2>1, <2>2, ExecutedRow
  <2>6. x \in class(f)
    BY <1>1, <2>1, <2>2, SourceClass
  <2> HIDE DEF x, s, j
  <2>7. arch[x] # Unknown => get_gpr_state(x) = arch[x]
    BY <2>5 DEF get_gpr_state, CovInv, Coherent, ZeroKept
  <2> QED BY <2>3, <2>4, <2>5, <2>6, <2>7
<1>5. (e.base # "none" /\ Address(e) # Unknown) => j.mem_addr = Address(e)
  BY <1>1, <1>2, MemAddr
<1> HIDE DEF j
<1> QED BY <1>3, <1>4, <1>5

\* Of two instructions of the integer file each pair is counted as a RAW hazard.
LEMMA IntegerPair ==
  ASSUME HazardInv, instr_cnt > 0, stage # "crash", NEW n \in HasAttributes, NEW e,
         ~IsFloat(n), ~IsFloat(pre_instr.instr)
  PROVE  check_hazard_condition(Instruction(n, e), pre_instr).gpr_hazard = hazard_e.RAW_HAZARD
<1> DEFINE i == Instruction(n, e)
           m == pre_instr.instr
<1>1. m \in HasAttributes /\ pre_instr.reg = RegsOf(m, sampled)
  BY DEF HazardInv, Remembered
<1>2. pre_instr.reg["fd"] = 0 /\ "fd" \in Has[m]
  BY <1>1, IntegerRegs, HasOfInteger
<1>3. i.instr = n /\ i.reg["fs1"] = 0 /\ "fs1" \in Has[n]
  BY InstructionParts, IntegerRegs, HasOfInteger
<1> HIDE DEF i
<1>4. \A o : RegisterHazard(i, pre_instr, {"fs1", "fs2", "fs3"}, "fd", o) = hazard_e.RAW_HAZARD
  BY <1>2, <1>3 DEF RegisterHazard
<1> QED BY <1>4, HazardsOnly DEF i

\* The hazards of the registers are told apart by their numbers.
LEMMA HazardsDiffer ==
  /\ hazard_e.RAW_HAZARD # hazard_e.WAW_HAZARD /\ hazard_e.RAW_HAZARD # hazard_e.WAR_HAZARD
  /\ hazard_e.WAW_HAZARD # hazard_e.WAR_HAZARD /\ hazard_e.NO_HAZARD # hazard_e.RAW_HAZARD
  /\ hazard_e.NO_HAZARD # hazard_e.WAW_HAZARD /\ hazard_e.NO_HAZARD # hazard_e.WAR_HAZARD
BY DEF hazard_e

\* What HazardInv says of the row that was sampled last.
LEMMA LastRow ==
  ASSUME HazardInv, instr_cnt > 0, stage # "crash"
  PROVE  LET m == pre_instr.instr
         IN  /\ sampled \in TraceRow /\ m \in HasAttributes /\ m = NameOf(sampled)
             /\ Parses(m, sampled) /\ AsExecuted(sampled) /\ pre_instr.reg = RegsOf(m, sampled)
             /\ (IsMemory(m) /\ sampled.address # Unknown) => pre_instr.mem_addr = sampled.address
BY DEF HazardInv, Remembered

\* Of two instructions of the floating-point file the hazard is that of the rows.
LEMMA FusedPair ==
  ASSUME HazardInv, instr_cnt > 0, stage # "crash", NEW n \in HasAttributes, NEW e \in TraceRow,
         n = NameOf(e), Parses(n, e), AsExecuted(e),
         Fused(n), Fused(pre_instr.instr), Len(sampled.gpr) = 1, Len(e.gpr) = 1
  PROVE  check_hazard_condition(Instruction(n, e), pre_instr).gpr_hazard = HazardOf(sampled, e)
<1> DEFINE i == Instruction(n, e)
           m == pre_instr.instr
           x == sampled.gpr[1][1]
           y == e.gpr[1][1]
           fields == {"fs1", "fs2", "fs3"}
<1>1. /\ sampled \in TraceRow /\ m \in HasAttributes /\ m = NameOf(sampled)
      /\ Parses(m, sampled) /\ AsExecuted(sampled) /\ pre_instr.reg = RegsOf(m, sampled)
  BY LastRow
<1>2. i.instr = n /\ i.reg = RegsOf(n, e)
  BY InstructionParts
<1>3. /\ "fd" \in Has[n] /\ "fd" \in Has[m] /\ DestField(n) = "fd" /\ DestField(m) = "fd"
      /\ n \notin NoOperands /\ m \notin NoOperands
  BY <1>1, HasOfFused
<1>4. /\ pre_instr.reg["fd"] = Number(x) /\ WrittenBy(sampled) = {x} /\ Converts("fd", x)
  BY <1>1, <1>3, OneUpdate
<1>5. /\ i.reg["fd"] = Number(y) /\ WrittenBy(e) = {y} /\ Converts("fd", y)
  BY <1>2, <1>3, OneUpdate
<1>6. x \in DOMAIN riscv_fpr_t /\ y \in DOMAIN riscv_fpr_t
  BY <1>4, <1>5 DEF Converts
<1> HIDE DEF i, x, y
<1>7. x \in e.reads <=> Number(x) \in {i.reg[f] : f \in fields \cap Has[n]}
  BY <1>2, <1>6, FusedReads
<1>8. y \in sampled.reads <=> Number(y) \in {pre_instr.reg[f] : f \in fields \cap Has[m]}
  BY <1>1, <1>6, FusedReads
<1>9. Number(x) = Number(y) <=> x = y
  BY <1>6, NumbersDiffer
<1> DEFINE hazard == IF x \in e.reads THEN hazard_e.RAW_HAZARD
                     ELSE IF x = y THEN hazard_e.WAW_HAZARD
                     ELSE IF y \in sampled.reads THEN hazard_e.WAR_HAZARD
                     ELSE hazard_e.NO_HAZARD
<1>10. \A o : RegisterHazard(i, pre_instr, fields, "fd", o) = hazard
  BY <1>2, <1>3, <1>4, <1>5, <1>7, <1>8, <1>9 DEF RegisterHazard
<1>11. HazardOf(sampled, e) = hazard
  <2>1. /\ ReadAfterWrite(sampled, e) <=> x \in e.reads
        /\ ReadAfterWrite(e, sampled) <=> y \in sampled.reads
        /\ WrittenBy(sampled) \cap WrittenBy(e) # {} <=> x = y
    BY <1>4, <1>5 DEF ReadAfterWrite
  <2> QED BY <2>1 DEF HazardOf
<1> HIDE DEF hazard
<1> QED BY <1>10, <1>11, HazardsOnly DEF i

\* After an instruction that moves a floating-point value to an integer register.
LEMMA ToIntegerPair ==
  ASSUME HazardInv, instr_cnt > 0, stage # "crash", NEW n \in HasAttributes, NEW e \in TraceRow,
         n = NameOf(e), Parses(n, e), AsExecuted(e), n \in FromInteger \/ WholeInteger(n),
         pre_instr.instr \in ToInteger, Len(sampled.gpr) = 1
  PROVE  check_hazard_condition(Instruction(n, e), pre_instr).gpr_hazard = hazard_e.RAW_HAZARD
           <=> ReadAfterWrite(sampled, e)
<1> DEFINE i == Instruction(n, e)
           m == pre_instr.instr
           x == sampled.gpr[1][1]
           fields == {"rs1", "rs2"}
<1>1. /\ sampled \in TraceRow /\ m \in HasAttributes
      /\ Parses(m, sampled) /\ pre_instr.reg = RegsOf(m, sampled)
  BY LastRow
<1>2. i.instr = n /\ i.reg = RegsOf(n, e)
  BY InstructionParts
<1>3. "fd" \notin Has[m] /\ "rd" \in Has[m] /\ DestField(m) = "rd" /\ m \notin NoOperands
  BY <1>1, HasOfToInteger
<1>4. /\ pre_instr.reg["rd"] = Number(x) /\ WrittenBy(sampled) = {x} /\ Converts("rd", x)
      /\ x # "ZERO"
  BY <1>1, <1>3, OneUpdate
<1>5. x \in DOMAIN riscv_reg_t
  BY <1>4 DEF Converts
<1> HIDE DEF i, x
<1>6. x \in e.reads <=> Number(x) \in {i.reg[f] : f \in fields \cap Has[n]}
  BY <1>2, <1>4, <1>5, IntegerReads
<1>7. \A o : RegisterHazard(i, pre_instr, {"fs1", "fs2", "fs3"}, "fd", o) = o
  BY <1>3 DEF RegisterHazard
<1>8. RegisterHazard(i, pre_instr, fields, "rd", hazard_e.NO_HAZARD) = hazard_e.RAW_HAZARD
        <=> x \in e.reads
  BY <1>2, <1>3, <1>4, <1>6, HazardsDiffer DEF RegisterHazard
<1>9. ReadAfterWrite(sampled, e) <=> x \in e.reads
  BY <1>4 DEF ReadAfterWrite
<1> QED BY <1>7, <1>8, <1>9, HazardsOnly DEF i

\* Of two accesses whose addresses are known.
LEMMA MemoryPair ==
  ASSUME HazardInv, instr_cnt > 0, stage # "crash", NEW n \in HasAttributes, NEW e \in TraceRow,
         n = NameOf(e), Parses(n, e), AsExecuted(e), IsMemory(n), IsMemory(pre_instr.instr),
         sampled.address # Unknown, Address(e) # Unknown
  PROVE  LET m == pre_instr.instr
             lsu == check_hazard_condition(Instruction(n, e), pre_instr).lsu_hazard
             same == sampled.address = Address(e)
         IN  /\ lsu = hazard_e.RAW_HAZARD <=> (same /\ Category(m) = "STORE" /\ Category(n) = "LOAD")
             /\ lsu = hazard_e.WAW_HAZARD <=> (same /\ Category(m) = "STORE" /\ Category(n) = "STORE")
<1> DEFINE i == Instruction(n, e)
<1>1. pre_instr.mem_addr = sampled.address
  BY DEF HazardInv, Remembered
<1>2. e.base # "none"
  BY DEF Address
<1>3. i.instr = n /\ i.mem_addr = Address(e)
  <2>1. i.instr = n
    BY InstructionParts
  <2>2. CovInv
    BY DEF HazardInv
  <2>3. i.mem_addr = Address(e)
    BY <1>2, <2>2, MemAddr
  <2> QED BY <2>1, <2>3
<1> HIDE DEF i
<1>4. /\ MemoryHazard(i, pre_instr) = hazard_e.RAW_HAZARD <=>
           (sampled.address = Address(e) /\ Category(pre_instr.instr) = "STORE" /\ Category(n) = "LOAD")
      /\ MemoryHazard(i, pre_instr) = hazard_e.WAW_HAZARD <=>
           (sampled.address = Address(e) /\ Category(pre_instr.instr) = "STORE" /\ Category(n) = "STORE")
  BY <1>1, <1>3, HazardsDiffer DEF MemoryHazard
<1>5. check_hazard_condition(i, pre_instr).lsu_hazard = MemoryHazard(i, pre_instr)
  BY HazardsOnly DEF i
<1> QED BY <1>4, <1>5 DEF i

\* The hazards that a step counts.
LEMMA HazardsOfRow ==
  ASSUME HazardInv, [CovNext]_covvars, NEW e \in RowsHere, Samples(e)
  PROVE  IF sampled = NoRow
         THEN pre_instr'.gpr_hazard = hazard_e.NO_HAZARD /\ pre_instr'.lsu_hazard = hazard_e.NO_HAZARD
         ELSE RegisterHazardCounted(e) /\ MemoryHazardCounted(e)
<1> DEFINE n == NameOf(e)
           i == Instruction(n, e)
           cur == check_hazard_condition(i, pre_instr)
<1>0. CovInv
  BY DEF HazardInv
<1>1. /\ e \in TraceRow /\ n \in HasAttributes /\ Parses(n, e) /\ AsExecuted(e) /\ stage = "read"
      /\ pre_instr' = IF instr_cnt > 0 THEN cur ELSE i
  BY <1>0, SampledStep
<1>2. CASE sampled = NoRow
  <2>1. ~(instr_cnt > 0)
    BY <1>0, <1>2 DEF CovInv, RowKept
  <2>2. i.gpr_hazard = 0 /\ i.lsu_hazard = 0
    BY HazardsMarked
  <2> QED BY <1>1, <1>2, <2>1, <2>2 DEF hazard_e
<1>3. CASE sampled # NoRow
  <2>1. instr_cnt > 0 /\ stage # "crash"
    BY <1>1, <1>3 DEF HazardInv, CountStarts
  <2>2. pre_instr' = cur /\ n = NameOf(e)
    BY <1>1, <2>1
  <2>3. cur.instr = n
    BY HazardsOnly
  <2> HIDE DEF n
  <2>4. (~IsFloat(pre_instr.instr) /\ ~IsFloat(n)) => cur.gpr_hazard = hazard_e.RAW_HAZARD
    BY <1>1, <2>1, IntegerPair
  <2>5. (Fused(pre_instr.instr) /\ Fused(n) /\ Len(sampled.gpr) = 1 /\ Len(e.gpr) = 1)
          => cur.gpr_hazard = HazardOf(sampled, e)
    BY <1>1, <2>1, <2>2, FusedPair
  <2>6. (pre_instr.instr \in ToInteger /\ (n \in FromInteger \/ WholeInteger(n)) /\ Len(sampled.gpr) = 1)
          => (cur.gpr_hazard = hazard_e.RAW_HAZARD <=> ReadAfterWrite(sampled, e))
    BY <1>1, <2>1, <2>2, ToIntegerPair
  <2>7. (IsMemory(pre_instr.instr) /\ IsMemory(n) /\ Unknown \notin {sampled.address, Address(e)})
          => /\ cur.lsu_hazard = hazard_e.RAW_HAZARD <=>
                  (sampled.address = Address(e) /\ Category(pre_instr.instr) = "STORE" /\ Category(n) = "LOAD")
             /\ cur.lsu_hazard = hazard_e.WAW_HAZARD <=>
                  (sampled.address = Address(e) /\ Category(pre_instr.instr) = "STORE" /\ Category(n) = "STORE")
    BY <1>1, <2>1, <2>2, MemoryPair
  <2> HIDE DEF cur
  <2>8. RegisterHazardCounted(e)
    BY <2>2, <2>3, <2>4, <2>5, <2>6 DEF RegisterHazardCounted
  <2>9. MemoryHazardCounted(e)
    BY <2>2, <2>3, <2>7 DEF MemoryHazardCounted
  <2> QED BY <1>3, <2>8, <2>9
<1> QED BY <1>2, <1>3

-----------------------------------------------------------------------------
(***************************************************************************)
(* What is counted: the points of the covergroup of an instruction are     *)
(* those that its format and category have, row by row of the attribute    *)
(* table.                                                                  *)
(***************************************************************************)
\* The instructions that have the result of a division.
DivNames == {"DIV", "DIVU", "REM", "REMU", "DIVW", "DIVUW", "REMW", "REMUW"}
\* The operand fields that the points of a row of the table may read.
IntegerPoints(r) ==
  CASE r.format = "R_FORMAT" ->
         IF r.category = "CSR" THEN {"rs1", "rd"}
         ELSE {"rs1", "rs2", "rd", "rs1_sign", "rs2_sign", "rd_sign", "rd_value"}
    [] r.format = "I_FORMAT" ->
         IF r.category = "LOAD" THEN {"rs1", "rd", "imm_sign"}
         ELSE {"rs1", "rd", "imm_sign", "rs1_sign", "rd_sign", "rd_value"}
    [] r.format = "S_FORMAT" -> {"rs1", "rs2", "imm_sign"}
    [] r.format = "B_FORMAT" -> {"rs1", "rs2", "rs1_sign", "rs2_sign", "imm_sign"}
    [] r.format = "U_FORMAT" -> {"rd", "rd_sign"}
    [] r.format = "J_FORMAT" -> {"imm", "imm_sign", "rd", "rd_value"}
    [] r.format = "CI_FORMAT" -> {"rd", "imm_sign"}
    [] r.format = "CIW_FORMAT" -> {"rd"}
    [] r.format = "CL_FORMAT" -> {"rd", "rs1"}
    [] r.format = "CS_FORMAT" -> {"rs1", "rs2"}
    [] r.format = "CA_FORMAT" -> {"rd", "rs2"}
    [] r.format = "CSS_FORMAT" -> {"rs2"}
    [] r.format = "CR_FORMAT" ->
         IF r.category = "JUMP" THEN {"rs1", "rs1_value", "rd_value"} ELSE {"rd", "rs2", "rs2_sign"}
    [] r.format = "CB_FORMAT" -> {"rs1", "imm_sign"}
    [] r.format = "CJ_FORMAT" -> {"imm_sign"}
FloatPoints(r) ==
  CASE r.format = "I_FORMAT" ->
         CASE r.category = "LOAD" -> {"fd", "fd_value", "rs1", "imm_sign"}
           [] r.name \in ToInteger -> {"fs1", "fs1_sign", "fs1_value", "rd", "rd_sign"}
           [] r.name \in FromInteger -> {"fd", "fd_sign", "rs1", "rs1_sign"}
           [] OTHER -> {"fd", "fd_sign", "fd_value", "fs1", "fs1_sign", "fs1_value"}
    [] r.format = "S_FORMAT" -> {"fs2", "fs2_value", "rs1", "imm_sign"}
    [] r.format = "R_FORMAT" ->
         {"fs1", "fs1_sign", "fs1_value", "fs2", "fs2_sign", "fs2_value"}
           \cup (IF r.category = "COMPARE" \/ r.name \in {"FCLASS_S", "FCLASS_D"}
                 THEN {"rd", "rd_value"} ELSE {"fd", "fd_sign", "fd_value"})
    [] r.format = "R4_FORMAT" ->
         {"fd", "fd_sign", "fd_value", "fs1", "fs1_sign", "fs1_value",
          "fs2", "fs2_sign", "fs2_value", "fs3", "fs3_sign", "fs3_value"}
\* With those of the category and the hazards.
PointFields(r) ==
  (IF r.group \in FloatGroups THEN FloatPoints(r) ELSE IntegerPoints(r))
    \cup {"cross", "gpr_hazard"}
    \cup (IF r.category \in {"LOAD", "STORE"} THEN {"lsu_hazard"} ELSE {})
    \cup (IF r.category = "BRANCH" THEN {"branch_hit"} ELSE {})
    \cup (IF r.category = "LOGICAL" \/ r.name = "ADDIW" THEN {"logical_similarity"} ELSE {})
    \cup (IF r.name \in DivNames THEN {"div_result"} ELSE {})
\* A point of row r reads a field that r has; hazards are sorted into bins of their own
\* numbers, double precision is counted of double precision, and no instruction without
\* operands or with an immediate for a CSR has a covergroup.
PointFits(r, p) ==
  /\ p.field \in PointFields(r)
  /\ (p.field \in {"gpr_hazard", "lsu_hazard"} /\ ~Renumbered(p)) => p.bins \in {hazard_e, branch_hazard_e}
  /\ (p.point \in DoublePoints /\ p.weight = 1) => r.group = "RV32D" \/ r.name = "FSW"
  /\ r.name \notin NoOperands /\ (r.category = "CSR" => r.format = "R_FORMAT")
  /\ r.format = "CI_FORMAT" => r.name # "C_ADDI4SPN"
  /\ r.format = "CR_FORMAT" => (r.category = "JUMP" <=> r.name \in {"C_JR", "C_JALR"})
\* The points of the covergroup of row r, if it has one.
RowPoints(r) == \A p \in Points(r.name) : PointFits(r, p)
\* The points of the loads and stores, group by group of the table.
LEMMA Rv32iMemoryPoints == \A r \in Rv32iMemory : RowPoints(r)
<1> USE DEF Row, RowPoints, PointFields, IntegerPoints, FloatGroups, DivNames, PointFits,
           Renumbered, DoublePoints, NoOperands, Points
<1>1. \A r \in Row("I_FORMAT", "LOAD", "RV32I", {"LB", "LH", "LW", "LBU", "LHU"}) : RowPoints(r)
  BY SMTT(30) DEF cg_instantiation
<1>2. \A r \in Row("S_FORMAT", "STORE", "RV32I", {"SB", "SH", "SW"}) : RowPoints(r)
  BY SMTT(30) DEF cg_instantiation
<1> HIDE DEF Row, RowPoints, PointFields, IntegerPoints, FloatGroups, DivNames, PointFits,
            Renumbered, DoublePoints, NoOperands, Points
<1> QED BY <1>1, <1>2 DEF Rv32iMemory

\* The points of the arithmetic, shift, logical and compare instructions, group by group of the table.
LEMMA Rv32iComputePoints == \A r \in Rv32iCompute : RowPoints(r)
<1> USE DEF Row, RowPoints, PointFields, IntegerPoints, FloatGroups, DivNames, PointFits,
           Renumbered, DoublePoints, NoOperands, Points
<1>1. \A r \in Row("R_FORMAT", "SHIFT", "RV32I", {"SLL", "SRL", "SRA"}) : RowPoints(r)
  BY SMTT(30) DEF cg_instantiation, sll_cg, srl_cg, sra_cg, r_instr_cg, SignCross, On, Signs,
              Hazard, Cross, At
<1>2. \A r \in Row("I_FORMAT", "SHIFT", "RV32I", {"SLLI", "SRLI", "SRAI"}) : RowPoints(r)
  BY SMTT(30) DEF cg_instantiation, slli_cg, srli_cg, srai_cg, ShiftImm, Hazard, On, Signs, At
<1>3. \A r \in Row("R_FORMAT", "ARITHMETIC", "RV32I", {"ADD", "SUB"}) : RowPoints(r)
  BY SMTT(30) DEF cg_instantiation, add_cg, sub_cg, r_instr_cg, SignCross, On, Signs, Hazard,
              Cross, At
<1>4. \A r \in Row("I_FORMAT", "ARITHMETIC", "RV32I", {"ADDI", "NOP"}) : RowPoints(r)
  BY SMTT(30) DEF cg_instantiation, addi_cg, On, Signs, Hazard, SignCross, At, Cross
<1>5. \A r \in Row("U_FORMAT", "ARITHMETIC", "RV32I", {"LUI", "AUIPC"}) : RowPoints(r)
  BY SMTT(30) DEF cg_instantiation, lui_cg, auipc_cg, u_instr_cg, On, Signs, Hazard, At
<1>6. \A r \in Row("R_FORMAT", "LOGICAL", "RV32I", {"XOR", "OR", "AND"}) : RowPoints(r)
  BY SMTT(30) DEF cg_instantiation, xor_cg, or_cg, and_cg, r_instr_cg, At, SignCross, On, Signs,
              Hazard, Cross
<1>7. \A r \in Row("I_FORMAT", "LOGICAL", "RV32I", {"XORI", "ORI", "ANDI"}) : RowPoints(r)
  BY SMTT(30) DEF cg_instantiation, xori_cg, ori_cg, andi_cg, i_instr_cg, At, SignCross, On,
              Signs, Hazard, Cross
<1>8. \A r \in Row("R_FORMAT", "COMPARE", "RV32I", {"SLT", "SLTU"}) : RowPoints(r)
  BY SMTT(30) DEF cg_instantiation, slt_cg, sltu_cg, cmp_instr_cg, On, Signs, SignCross, Hazard,
              At, Cross
<1>9. \A r \in Row("I_FORMAT", "COMPARE", "RV32I", {"SLTI", "SLTIU"}) : RowPoints(r)
  BY SMTT(30) DEF cg_instantiation, slti_cg, sltiu_cg, cmp_instr_cg, Signs, SignCross, On,
              Hazard, At, Cross
<1> HIDE DEF Row, RowPoints, PointFields, IntegerPoints, FloatGroups, DivNames, PointFits,
            Renumbered, DoublePoints, NoOperands, Points
<1> QED BY <1>1, <1>2, <1>3, <1>4, <1>5, <1>6, <1>7, <1>8, <1>9 DEF Rv32iCompute

\* The points of the branches, jumps and system instructions, group by group of the table.
LEMMA Rv32iControlPoints == \A r \in Rv32iControl : RowPoints(r)
<1> USE DEF Row, RowPoints, PointFields, IntegerPoints, FloatGroups, DivNames, PointFits,
           Renumbered, DoublePoints, NoOperands, Points
<1>1. \A r \in Row("B_FORMAT", "BRANCH", "RV32I", {"BEQ", "BNE", "BLT", "BGE", "BLTU", "BGEU"}) : RowPoints(r)
  BY SMTT(30) DEF cg_instantiation, beq_cg, sb_instr_cg, On, Signs, At, SignCross, Cross
<1>2. \A r \in Row("J_FORMAT", "JUMP", "RV32I", {"JAL"}) : RowPoints(r)
  BY SMTT(30) DEF cg_instantiation, jal_cg, j_instr_cg, At, Signs, On
<1>3. \A r \in Row("I_FORMAT", "JUMP", "RV32I", {"JALR"}) : RowPoints(r)
  BY SMTT(30) DEF cg_instantiation
<1>4. \A r \in Row("I_FORMAT", "SYNCH", "RV32I", {"FENCE", "FENCE_I"}) : RowPoints(r)
  BY SMTT(30) DEF cg_instantiation
<1>5. \A r \in Row("R_FORMAT", "SYNCH", "RV32I", {"SFENCE_VMA"}) : RowPoints(r)
  BY SMTT(30) DEF cg_instantiation
<1>6. \A r \in Row("I_FORMAT", "SYSTEM", "RV32I", {"ECALL", "EBREAK", "URET", "SRET", "MRET",
                 "DRET"}) : RowPoints(r)
  BY SMTT(30) DEF cg_instantiation
<1>7. \A r \in Row("I_FORMAT", "INTERRUPT", "RV32I", {"WFI"}) : RowPoints(r)
  BY SMTT(30) DEF cg_instantiation
<1>8. \A r \in Row("R_FORMAT", "CSR", "RV32I", {"CSRRW", "CSRRS", "CSRRC"}) : RowPoints(r)
  BY SMTT(30) DEF cg_instantiation, csrrw_cg, On, Hazard, At
<1>9. \A r \in Row("I_FORMAT", "CSR", "RV32I", {"CSRRWI", "CSRRSI", "CSRRCI"}) : RowPoints(r)
  BY SMTT(30) DEF cg_instantiation
<1> HIDE DEF Row, RowPoints, PointFields, IntegerPoints, FloatGroups, DivNames, PointFits,
            Renumbered, DoublePoints, NoOperands, Points
<1> QED BY <1>1, <1>2, <1>3, <1>4, <1>5, <1>6, <1>7, <1>8, <1>9 DEF Rv32iControl

\* The points of multiplication and division, group by group of the table.
LEMMA Rv32mPoints == \A r \in Rv32mRows : RowPoints(r)
<1> USE DEF Row, RowPoints, PointFields, IntegerPoints, FloatGroups, DivNames, PointFits,
           Renumbered, DoublePoints, NoOperands, Points
<1>1. \A r \in Row("R_FORMAT", "ARITHMETIC", "RV32M", {"MUL", "MULH", "MULHU", "MULHSU", "DIV",
                 "DIVU", "REM", "REMU"}) : RowPoints(r)
  BY SMTT(30) DEF cg_instantiation, mul_cg, mulh_cg, mulhu_cg, mulhsu_cg, div_cg, divu_cg,
              rem_cg, remu_cg, r_instr_cg, SignCross, On, Signs, Hazard, Cross, At
<1> HIDE DEF Row, RowPoints, PointFields, IntegerPoints, FloatGroups, DivNames, PointFits,
            Renumbered, DoublePoints, NoOperands, Points
<1> QED BY <1>1 DEF Rv32mRows

\* The points of the compressed instructions, group by group of the table.
LEMMA Rv32cPoints == \A r \in Rv32cRows : RowPoints(r)
<1> USE DEF Row, RowPoints, PointFields, IntegerPoints, FloatGroups, DivNames, PointFits,
           Renumbered, DoublePoints, NoOperands, Points
<1>1. \A r \in Row("CL_FORMAT", "LOAD", "RV32C", {"C_LW"}) : RowPoints(r)
  BY SMTT(30) DEF cg_instantiation, c_lw_cg, CompressedLoad, Hazard, On, At
<1>2. \A r \in Row("CS_FORMAT", "STORE", "RV32C", {"C_SW"}) : RowPoints(r)
  BY SMTT(30) DEF cg_instantiation, c_sw_cg, CompressedStore, On, At
<1>3. \A r \in Row("CI_FORMAT", "LOAD", "RV32C", {"C_LWSP"}) : RowPoints(r)
  BY SMTT(30) DEF cg_instantiation, c_lwsp_cg, On, At
<1>4. \A r \in Row("CSS_FORMAT", "STORE", "RV32C", {"C_SWSP"}) : RowPoints(r)
  BY SMTT(30) DEF cg_instantiation, c_swsp_cg, On, At
<1>5. \A r \in Row("CIW_FORMAT", "ARITHMETIC", "RV32C", {"C_ADDI4SPN"}) : RowPoints(r)
  BY SMTT(30) DEF cg_instantiation, c_addi4spn_cg, On, At
<1>6. \A r \in Row("CI_FORMAT", "ARITHMETIC", "RV32C", {"C_ADDI", "C_ADDI16SP", "C_LI", "C_LUI",
                 "C_NOP"}) : RowPoints(r)
  BY SMTT(30) DEF cg_instantiation, c_addi_cg, c_addi16sp_cg, c_li_cg, c_lui_cg, CompressedImm,
              On, Signs, At
<1>7. \A r \in Row("CA_FORMAT", "ARITHMETIC", "RV32C", {"C_SUB"}) : RowPoints(r)
  BY SMTT(30) DEF cg_instantiation, c_sub_cg, CompressedRR, Hazard, On, At
<1>8. \A r \in Row("CR_FORMAT", "ARITHMETIC", "RV32C", {"C_ADD", "C_MV"}) : RowPoints(r)
  BY SMTT(30) DEF cg_instantiation, c_add_cg, c_mv_cg, On, Signs, Hazard, At
<1>9. \A r \in Row("CB_FORMAT", "LOGICAL", "RV32C", {"C_ANDI"}) : RowPoints(r)
  BY SMTT(30) DEF cg_instantiation, c_andi_cg, On, Signs, At
<1>10. \A r \in Row("CA_FORMAT", "LOGICAL", "RV32C", {"C_XOR", "C_OR", "C_AND"}) : RowPoints(r)
  BY SMTT(30) DEF cg_instantiation, c_xor_cg, c_or_cg, c_and_cg, CompressedRR, Hazard, On, At
<1>11. \A r \in Row("CB_FORMAT", "BRANCH", "RV32C", {"C_BEQZ", "C_BNEZ"}) : RowPoints(r)
  BY SMTT(30) DEF cg_instantiation, c_beqz_cg, c_bnez_cg, On, Signs, At
<1>12. \A r \in Row("CB_FORMAT", "SHIFT", "RV32C", {"C_SRLI", "C_SRAI"}) : RowPoints(r)
  BY SMTT(30) DEF cg_instantiation, c_srli_cg, c_srai_cg, On, At
<1>13. \A r \in Row("CI_FORMAT", "SHIFT", "RV32C", {"C_SLLI"}) : RowPoints(r)
  BY SMTT(30) DEF cg_instantiation, c_slli_cg, On, At
<1>14. \A r \in Row("CJ_FORMAT", "JUMP", "RV32C", {"C_J", "C_JAL"}) : RowPoints(r)
  BY SMTT(30) DEF cg_instantiation, c_j_cg, c_jal_cg, Signs, On, At
<1>15. \A r \in Row("CR_FORMAT", "JUMP", "RV32C", {"C_JR", "C_JALR"}) : RowPoints(r)
  BY SMTT(30) DEF cg_instantiation, c_jr_cg, c_jalr_cg, On, At
<1>16. \A r \in Row("CI_FORMAT", "SYSTEM", "RV32C", {"C_EBREAK"}) : RowPoints(r)
  BY SMTT(30) DEF cg_instantiation
<1> HIDE DEF Row, RowPoints, PointFields, IntegerPoints, FloatGroups, DivNames, PointFits,
            Renumbered, DoublePoints, NoOperands, Points
<1> QED BY <1>1, <1>2, <1>3, <1>4, <1>5, <1>6, <1>7, <1>8, <1>9, <1>10, <1>11, <1>12, <1>13, <1>14, <1>15, <1>16 DEF Rv32cRows

\* The points of single precision, group by group of the table.
LEMMA Rv32fPoints == \A r \in Rv32fRows : RowPoints(r)
<1> USE DEF Row, RowPoints, PointFields, FloatPoints, FloatGroups, ToInteger, FromInteger, PointFits,
           Renumbered, DoublePoints, NoOperands, Points
<1>1. \A r \in Row("I_FORMAT", "LOAD", "RV32F", {"FLW"}) : RowPoints(r)
  BY SMTT(30) DEF cg_instantiation, flw_cg, FpLoad, On, Hazard, Signs, FpValues, At, FpPoints,
              SinglePoints
<1>2. \A r \in Row("S_FORMAT", "STORE", "RV32F", {"FSW"}) : RowPoints(r)
  BY SMTT(30) DEF cg_instantiation, fsw_cg, FpStore, On, Hazard, Signs, FpValues, At, FpPoints,
              SinglePoints
<1>3. \A r \in Row("R4_FORMAT", "ARITHMETIC", "RV32F", {"FMADD_S", "FMSUB_S", "FNMSUB_S",
                 "FNMADD_S"}) : RowPoints(r)
  BY SMTT(30) DEF cg_instantiation, fmadd_s_cg, fmsub_s_cg, fnmsub_s_cg, fnmadd_s_cg, FpFused,
              On, Signs, Hazard, SignCross, FpValues, At, Cross, FpPoints, SinglePoints
<1>4. \A r \in Row("R_FORMAT", "ARITHMETIC", "RV32F", {"FADD_S", "FSUB_S", "FMUL_S", "FDIV_S",
                 "FSGNJ_S", "FSGNJN_S", "FSGNJX_S", "FMIN_S", "FMAX_S", "FCLASS_S"}) : RowPoints(r)
  BY SMTT(30) DEF cg_instantiation, fadd_s_cg, fsub_s_cg, fmul_s_cg, fdiv_s_cg, fsgnj_s_cg,
              fsgnjn_s_cg, fsgnjx_s_cg, fmin_s_cg, fmax_s_cg, fclass_s_cg, FpBinary, SignCross,
              On, Signs, Hazard, FpValues, Cross, At, FpPoints, SinglePoints
<1>5. \A r \in Row("I_FORMAT", "ARITHMETIC", "RV32F", {"FSQRT_S", "FCVT_W_S", "FCVT_WU_S",
                 "FMV_X_W", "FCVT_S_W", "FCVT_S_WU", "FMV_W_X"}) : RowPoints(r)
  BY SMTT(30) DEF cg_instantiation, fsqrt_s_cg, fcvt_w_s_cg, fcvt_wu_s_cg, fmv_x_w_cg,
              fcvt_s_w_cg, fcvt_s_wu_cg, fmv_w_x_cg, FpConvert, FpValues, FpToInt, IntToFp, On,
              Signs, Hazard, FpPoints, At, SinglePoints
<1>6. \A r \in Row("R_FORMAT", "COMPARE", "RV32F", {"FEQ_S", "FLT_S", "FLE_S"}) : RowPoints(r)
  BY SMTT(30) DEF cg_instantiation, feq_s_cg, flt_s_cg, fle_s_cg, FpCompare, On, Signs, Hazard,
              FpValues, At, FpPoints, SinglePoints
<1> HIDE DEF Row, RowPoints, PointFields, FloatPoints, FloatGroups, ToInteger, FromInteger, PointFits,
            Renumbered, DoublePoints, NoOperands, Points
<1> QED BY <1>1, <1>2, <1>3, <1>4, <1>5, <1>6 DEF Rv32fRows

\* The points of double precision, group by group of the table.
LEMMA Rv32dPoints == \A r \in Rv32dRows : RowPoints(r)
<1> USE DEF Row, RowPoints, PointFields, FloatPoints, FloatGroups, ToInteger, FromInteger, PointFits,
           Renumbered, DoublePoints, NoOperands, Points
<1>1. \A r \in Row("I_FORMAT", "LOAD", "RV32D", {"FLD", "FSD"}) : RowPoints(r)
  BY SMTT(30) DEF cg_instantiation, fld_cg, FpLoad, On, Hazard, Signs, FpValues, At, FpPoints,
              SinglePoints
<1>2. \A r \in Row("R4_FORMAT", "ARITHMETIC", "RV32D", {"FMADD_D", "FMSUB_D", "FNMSUB_D",
                 "FNMADD_D"}) : RowPoints(r)
  BY SMTT(30) DEF cg_instantiation, fmadd_d_cg, fmsub_d_cg, fnmsub_d_cg, fnmadd_d_cg, FpFused,
              On, Signs, Hazard, FpValues, SignCross, At, FpPoints, Cross, SinglePoints
<1>3. \A r \in Row("R_FORMAT", "ARITHMETIC", "RV32D", {"FADD_D", "FSUB_D", "FMUL_D", "FDIV_D",
                 "FSGNJ_D", "FSGNJN_D", "FSGNJX_D", "FMIN_D", "FMAX_D", "FCLASS_D"}) : RowPoints(r)
  BY SMTT(30) DEF cg_instantiation, fadd_d_cg, fsub_d_cg, fmul_d_cg, fdiv_d_cg, fsgnj_d_cg,
              fsgnjn_d_cg, fsgnjx_d_cg, fmin_d_cg, fmax_d_cg, fclass_d_cg, FpBinary, SignCross,
              On, Signs, Hazard, FpValues, Cross, At, FpPoints, SinglePoints
<1>4. \A r \in Row("I_FORMAT", "ARITHMETIC", "RV32D", {"FSQRT_D", "FCVT_S_D", "FCVT_D_S",
                 "FCVT_W_D", "FCVT_WU_D", "FCVT_D_W", "FCVT_D_WU"}) : RowPoints(r)
  BY SMTT(30) DEF cg_instantiation, fsqrt_d_cg, fcvt_s_d_cg, fcvt_d_s_cg, fcvt_w_d_cg,
              fcvt_wu_d_cg, fcvt_d_w_cg, fcvt_d_wu_cg, FpConvert, FpValues, FpValuesOfBoth,
              FpToInt, IntToFp, On, Signs, Hazard, FpPoints, At, SinglePoints
<1>5. \A r \in Row("R_FORMAT", "COMPARE", "RV32D", {"FEQ_D", "FLT_D", "FLE_D"}) : RowPoints(r)
  BY SMTT(30) DEF cg_instantiation, feq_d_cg, flt_d_cg, fle_d_cg, FpCompare, On, Signs, Hazard,
              FpValues, At, FpPoints, SinglePoints
<1> HIDE DEF Row, RowPoints, PointFields, FloatPoints, FloatGroups, ToInteger, FromInteger, PointFits,
            Renumbered, DoublePoints, NoOperands, Points
<1> QED BY <1>1, <1>2, <1>3, <1>4, <1>5 DEF Rv32dRows

\* The points of the 64-bit integer instructions, group by group of the table.
LEMMA Rv64iPoints == \A r \in Rv64iRows : RowPoints(r)
<1> USE DEF Row, RowPoints, PointFields, IntegerPoints, FloatGroups, DivNames, PointFits,
           Renumbered, DoublePoints, NoOperands, Points
<1>1. \A r \in Row("I_FORMAT", "LOAD", "RV64I", {"LWU", "LD"}) : RowPoints(r)
  BY SMTT(30) DEF cg_instantiation, lwu_cg, ld_cg, load_instr_cg, On, Signs, Hazard, At
<1>2. \A r \in Row("S_FORMAT", "STORE", "RV64I", {"SD"}) : RowPoints(r)
  BY SMTT(30) DEF cg_instantiation, sd_cg, store_instr_cg, On, Signs, At
<1>3. \A r \in Row("R_FORMAT", "SHIFT", "RV64I", {"SLLW", "SRLW", "SRAW"}) : RowPoints(r)
  BY SMTT(30) DEF cg_instantiation, sllw_cg, srlw_cg, sraw_cg, r_instr_cg, SignCross, On, Signs,
              Hazard, Cross, At
<1>4. \A r \in Row("I_FORMAT", "SHIFT", "RV64I", {"SLLIW", "SRLIW", "SRAIW"}) : RowPoints(r)
  BY SMTT(30) DEF cg_instantiation, slliw_cg, srliw_cg, sraiw_cg, ShiftImm, Hazard, On, Signs,
              At
<1>5. \A r \in Row("R_FORMAT", "ARITHMETIC", "RV64I", {"ADDW", "SUBW"}) : RowPoints(r)
  BY SMTT(30) DEF cg_instantiation, addw_cg, subw_cg, r_instr_cg, SignCross, On, Signs, Hazard,
              Cross, At
<1>6. \A r \in Row("I_FORMAT", "ARITHMETIC", "RV64I", {"ADDIW"}) : RowPoints(r)
  BY SMTT(30) DEF cg_instantiation, addiw_cg, i_instr_cg, At, SignCross, On, Signs, Hazard,
              Cross
<1> HIDE DEF Row, RowPoints, PointFields, IntegerPoints, FloatGroups, DivNames, PointFits,
            Renumbered, DoublePoints, NoOperands, Points
<1> QED BY <1>1, <1>2, <1>3, <1>4, <1>5, <1>6 DEF Rv64iRows

\* The points of the 64-bit multiplications and divisions, group by group of the table.
LEMMA Rv64mPoints == \A r \in Rv64mRows : RowPoints(r)
<1> USE DEF Row, RowPoints, PointFields, IntegerPoints, FloatGroups, DivNames, PointFits,
           Renumbered, DoublePoints, NoOperands, Points
<1>1. \A r \in Row("R_FORMAT", "ARITHMETIC", "RV64M", {"MULW", "DIVW", "DIVUW", "REMW", "REMUW"}) : RowPoints(r)
  BY SMTT(30) DEF cg_instantiation, mulw_cg, divw_cg, divuw_cg, remw_cg, remuw_cg, r_instr_cg,
              SignCross, On, Signs, Hazard, Cross, At
<1> HIDE DEF Row, RowPoints, PointFields, IntegerPoints, FloatGroups, DivNames, PointFits,
            Renumbered, DoublePoints, NoOperands, Points
<1> QED BY <1>1 DEF Rv64mRows

\* The points of the 64-bit compressed instructions, group by group of the table.
LEMMA Rv64cPoints == \A r \in Rv64cRows : RowPoints(r)
<1> USE DEF Row, RowPoints, PointFields, IntegerPoints, FloatGroups, DivNames, PointFits,
           Renumbered, DoublePoints, NoOperands, Points
<1>1. \A r \in Row("CI_FORMAT", "ARITHMETIC", "RV64C", {"C_ADDIW"}) : RowPoints(r)
  BY SMTT(30) DEF cg_instantiation, c_addiw_cg, CompressedImm, On, Signs, At
<1>2. \A r \in Row("CA_FORMAT", "ARITHMETIC", "RV64C", {"C_SUBW", "C_ADDW"}) : RowPoints(r)
  BY SMTT(30) DEF cg_instantiation, c_subw_cg, c_addw_cg, CompressedRR, Hazard, On, At
<1>3. \A r \in Row("CL_FORMAT", "LOAD", "RV64C", {"C_LD"}) : RowPoints(r)
  BY SMTT(30) DEF cg_instantiation, c_ld_cg, CompressedLoad, Hazard, On, At
<1>4. \A r \in Row("CS_FORMAT", "STORE", "RV64C", {"C_SD"}) : RowPoints(r)
  BY SMTT(30) DEF cg_instantiation, c_sd_cg, CompressedStore, On, At
<1>5. \A r \in Row("CI_FORMAT", "LOAD", "RV64C", {"C_LDSP"}) : RowPoints(r)
  BY SMTT(30) DEF cg_instantiation, c_ldsp_cg, On, At
<1>6. \A r \in Row("CSS_FORMAT", "STORE", "RV64C", {"C_SDSP"}) : RowPoints(r)
  BY SMTT(30) DEF cg_instantiation, c_sdsp_cg, On, At
<1> HIDE DEF Row, RowPoints, PointFields, IntegerPoints, FloatGroups, DivNames, PointFits,
            Renumbered, DoublePoints, NoOperands, Points
<1> QED BY <1>1, <1>2, <1>3, <1>4, <1>5, <1>6 DEF Rv64cRows

\* Together: the points of every instruction of the table.
LEMMA PointsTable ==
  ASSUME NEW n \in HasAttributes
  PROVE  \A p \in Points(n) : PointFits(get_attr_list[n], p)
<1>1. \A r \in AttrRows : RowPoints(r)
  BY Rv32iMemoryPoints, Rv32iComputePoints, Rv32iControlPoints, Rv32mPoints, Rv32cPoints, Rv32fPoints,
     Rv32dPoints, Rv64iPoints, Rv64mPoints, Rv64cPoints, Zenon DEF AttrRows
<1> QED BY <1>1, TableRow DEF RowPoints

-----------------------------------------------------------------------------
(***************************************************************************)
(* What is filled: whatever a point reads, the row has filled.             *)
(***************************************************************************)
\* What CoverpointsFed asks a point to read: a field that the row fills, or one of the
\* exceptions.
Filled(n, fields, gpr) ==
  Fed(n, fields) \cup {"cross"} \cup NeverFilled(n) \cup (IF gpr = <<>> THEN DestFields(n) ELSE {})

\* A field that is filled is filled with its value, and its sign.
LEMMA FieldFilled ==
  ASSUME NEW n, NEW fields, NEW gpr, NEW f \in fields
  PROVE  LET A == Filled(n, fields, gpr)
         IN  /\ f \in A
             /\ f \in RegFields => ValueOf[f] \in A
             /\ f \in (IF IsFloat(n) THEN {"fs1", "fs2", "fs3", "fd"} ELSE DOMAIN SignOf) => SignOf[f] \in A
BY DEF Filled, Fed

\* The destination is filled, or there is none.
LEMMA DestFilled ==
  ASSUME NEW n, NEW e, NEW gpr \in {<<>>, e.gpr}, n \notin NoOperands
  PROVE  LET A == Filled(n, Fields(n, e) \cup DestOf(n, e), gpr)
         IN  /\ {DestField(n), ValueOf[DestField(n)]} \subseteq A
             /\ (~IsFloat(n) \/ DestField(n) = "fd") => SignOf[DestField(n)] \in A
<1>1. CASE gpr = <<>>
  BY <1>1 DEF Filled, DestFields
<1>2. CASE gpr # <<>>
  <2>1. DestField(n) \in Fields(n, e) \cup DestOf(n, e)
    BY <1>2 DEF DestOf, Updates
  <2>2. DestField(n) \in {"rd", "fd"} /\ DestField(n) \in RegFields /\ DestField(n) \in DOMAIN SignOf
    BY DEF DestField, RegFields, SignOf
  <2> QED BY <2>1, <2>2, FieldFilled
<1> QED BY <1>1, <1>2

\* The names of the fields of values and signs.
LEMMA FieldNames ==
  /\ ValueOf["rs1"] = "rs1_value" /\ ValueOf["rd"] = "rd_value" /\ ValueOf["fd"] = "fd_value"
  /\ ValueOf["fs1"] = "fs1_value" /\ ValueOf["fs2"] = "fs2_value" /\ ValueOf["fs3"] = "fs3_value"
  /\ SignOf["rs1"] = "rs1_sign" /\ SignOf["rs2"] = "rs2_sign" /\ SignOf["rd"] = "rd_sign"
  /\ SignOf["imm"] = "imm_sign" /\ SignOf["fd"] = "fd_sign"
  /\ SignOf["fs1"] = "fs1_sign" /\ SignOf["fs2"] = "fs2_sign" /\ SignOf["fs3"] = "fs3_sign"
  /\ {"rs1", "rs2", "rd", "imm"} \subseteq DOMAIN SignOf
BY DEF ValueOf, SignOf

\* What the category of an instruction and the hazards fill.
LEMMA CategoryFilled ==
  ASSUME NEW n \in HasAttributes, NEW fields, NEW gpr
  PROVE  LET A == Filled(n, fields, gpr)
         IN  /\ {"cross", "gpr_hazard", "instr", "binary"} \subseteq A
             /\ Category(n) \in {"LOAD", "STORE"} => "lsu_hazard" \in A
             /\ Category(n) = "BRANCH" /\ ~IsFloat(n) => "branch_hit" \in A
             /\ (Category(n) = "LOGICAL" /\ ~IsFloat(n)) \/ n = "ADDIW" => "logical_similarity" \in A
             /\ n \in DivNames /\ ~IsFloat(n) => "div_result" \in A
BY DEF Filled, Fed, NeverFilled, DivNames

\* Every point of an integer instruction is filled.
LEMMA IntegerFilled ==
  ASSUME NEW n \in HasAttributes, ~IsFloat(n), NEW e, NEW gpr \in {<<>>, e.gpr}, n \notin NoOperands,
         Category(n) = "CSR" => Format(n) = "R_FORMAT",
         Format(n) = "CI_FORMAT" => n # "C_ADDI4SPN",
         Format(n) = "CR_FORMAT" => (Category(n) = "JUMP" <=> n \in {"C_JR", "C_JALR"}),
         NEW f \in IntegerPoints(get_attr_list[n])
  PROVE  f \in Filled(n, Fields(n, e) \cup DestOf(n, e), gpr)
<1> DEFINE F == Fields(n, e) \cup DestOf(n, e)
           A == Filled(n, F, gpr)
<1> SUFFICES f \in A
  OBVIOUS
<1>1. /\ "rs1" \in F => {"rs1", "rs1_value", "rs1_sign"} \subseteq A
      /\ "rs2" \in F => {"rs2", "rs2_sign"} \subseteq A
      /\ "imm" \in F => {"imm", "imm_sign"} \subseteq A
  <2> HIDE DEF F
  <2> QED BY FieldFilled, FieldNames DEF RegFields
<1>2. {"rd", "rd_value", "rd_sign"} \subseteq A
  <2>1. DestField(n) = "rd"
    BY HasOfInteger
  <2>2. {"rd", ValueOf["rd"]} \subseteq A /\ SignOf["rd"] \in A
    BY <2>1, DestFilled
  <2> HIDE DEF A
  <2> QED BY <2>2, FieldNames
<1>3. \A g, k : <<g, k>> \in Sources(n) => g \in F
  <2>1. SourcesOf(n, e.operand) = Sources(n)
    BY DEF SourcesOf
  <2> QED BY <2>1 DEF Fields
<1> HIDE DEF F, A
<1> DEFINE r == get_attr_list[n]
<1>4. r.format = Format(n) /\ r.category = Category(n)
  BY DEF Format, Category
<1>5. CASE Format(n) = "R_FORMAT" /\ Category(n) = "CSR"
  <2>1. <<"rs1", 3>> \in Sources(n)
    BY <1>5 DEF Sources
  <2> QED BY <1>1, <1>2, <1>3, <1>4, <1>5, <2>1 DEF IntegerPoints
<1>6. CASE Format(n) = "R_FORMAT" /\ Category(n) # "CSR"
  <2>1. <<"rs1", 2>> \in Sources(n) /\ <<"rs2", 3>> \in Sources(n)
    BY <1>6 DEF Sources
  <2> QED BY <1>1, <1>2, <1>3, <1>4, <1>6, <2>1 DEF IntegerPoints
<1>7. CASE Format(n) = "I_FORMAT"
  <2>1. CASE Category(n) = "LOAD"
    <3>1. <<"rs1", 3>> \in Sources(n) /\ <<"imm", 2>> \in Sources(n)
      BY <1>7, <2>1 DEF Sources
    <3> QED BY <1>1, <1>2, <1>3, <1>4, <1>7, <2>1, <3>1 DEF IntegerPoints
  <2>2. CASE Category(n) # "LOAD"
    <3>1. <<"rs1", 2>> \in Sources(n) /\ <<"imm", 3>> \in Sources(n)
      BY <1>7, <2>2 DEF Sources
    <3> QED BY <1>1, <1>2, <1>3, <1>4, <1>7, <2>2, <3>1 DEF IntegerPoints
  <2> QED BY <2>1, <2>2
<1>8. CASE Format(n) = "S_FORMAT"
  <2>1. <<"rs1", 3>> \in Sources(n) /\ <<"rs2", 1>> \in Sources(n) /\ <<"imm", 2>> \in Sources(n)
    BY <1>8 DEF Sources
  <2> QED BY <1>1, <1>2, <1>3, <1>4, <1>8, <2>1 DEF IntegerPoints
<1>9. CASE Format(n) = "B_FORMAT"
  <2>1. <<"rs1", 1>> \in Sources(n) /\ <<"rs2", 2>> \in Sources(n) /\ <<"imm", 3>> \in Sources(n)
    BY <1>9 DEF Sources
  <2> QED BY <1>1, <1>2, <1>3, <1>4, <1>9, <2>1 DEF IntegerPoints
<1>10. CASE Format(n) \in {"U_FORMAT", "J_FORMAT"}
  <2>1. <<"imm", 2>> \in Sources(n)
    BY <1>10 DEF Sources
  <2> QED BY <1>1, <1>2, <1>3, <1>4, <1>10, <2>1 DEF IntegerPoints
<1>11. CASE Format(n) = "CI_FORMAT"
  <2>1. <<"imm", 2>> \in Sources(n)
    BY <1>11 DEF Sources
  <2> QED BY <1>1, <1>2, <1>3, <1>4, <1>11, <2>1 DEF IntegerPoints
<1>12. CASE Format(n) = "CIW_FORMAT"
  BY <1>1, <1>2, <1>3, <1>4, <1>12 DEF IntegerPoints
<1>13. CASE Format(n) = "CL_FORMAT"
  <2>1. <<"rs1", 3>> \in Sources(n)
    BY <1>13 DEF Sources
  <2> QED BY <1>1, <1>2, <1>3, <1>4, <1>13, <2>1 DEF IntegerPoints
<1>14. CASE Format(n) = "CS_FORMAT"
  <2>1. <<"rs1", 3>> \in Sources(n) /\ <<"rs2", 1>> \in Sources(n)
    BY <1>14 DEF Sources
  <2> QED BY <1>1, <1>2, <1>3, <1>4, <1>14, <2>1 DEF IntegerPoints
<1>15. CASE Format(n) = "CA_FORMAT"
  <2>1. <<"rs2", 2>> \in Sources(n)
    BY <1>15 DEF Sources
  <2> QED BY <1>1, <1>2, <1>3, <1>4, <1>15, <2>1 DEF IntegerPoints
<1>16. CASE Format(n) = "CSS_FORMAT"
  <2>1. <<"rs2", 1>> \in Sources(n)
    BY <1>16 DEF Sources
  <2> QED BY <1>1, <1>2, <1>3, <1>4, <1>16, <2>1 DEF IntegerPoints
<1>17. CASE Format(n) = "CR_FORMAT"
  <2>1. IF Category(n) = "JUMP" THEN <<"rs1", 1>> \in Sources(n) ELSE <<"rs2", 2>> \in Sources(n)
    BY <1>17 DEF Sources
  <2> QED BY <1>1, <1>2, <1>3, <1>4, <1>17, <2>1 DEF IntegerPoints
<1>18. CASE Format(n) = "CB_FORMAT"
  <2>1. <<"rs1", 1>> \in Sources(n) /\ <<"imm", 2>> \in Sources(n)
    BY <1>18 DEF Sources
  <2> QED BY <1>1, <1>2, <1>3, <1>4, <1>18, <2>1 DEF IntegerPoints
<1>19. CASE Format(n) = "CJ_FORMAT"
  <2>1. <<"imm", 1>> \in Sources(n)
    BY <1>19 DEF Sources
  <2> QED BY <1>1, <1>2, <1>3, <1>4, <1>19, <2>1 DEF IntegerPoints
<1> HIDE DEF r
<1> QED BY Formats, <1>5, <1>6, <1>7, <1>8, <1>9, <1>10, <1>11, <1>12, <1>13, <1>14, <1>15, <1>16,
           <1>17, <1>18, <1>19

\* The destination that a floating-point instruction is said to have.
LEMMA FloatDest ==
  ASSUME NEW n \in HasAttributes, IsFloat(n)
  PROVE  /\ (n \in ToInteger \/ (Format(n) = "R_FORMAT"
               /\ (Category(n) = "COMPARE" \/ n \in {"FCLASS_S", "FCLASS_D"}))) => DestField(n) = "rd"
         /\ (Format(n) = "I_FORMAT" /\ n \notin ToInteger /\ Category(n) # "LOAD") => DestField(n) = "fd"
         /\ (Format(n) = "R_FORMAT" /\ Category(n) # "COMPARE" /\ n \notin {"FCLASS_S", "FCLASS_D"})
              => DestField(n) = "fd"
         /\ Format(n) = "R4_FORMAT" => DestField(n) = "fd"
         /\ (Format(n) = "I_FORMAT" /\ Category(n) # "LOAD") =>
              ("fs1" \in Has[n] <=> n \notin FromInteger)
<1>1. {"fd", "fs1"} \subseteq set_mode(n)
  BY DEF set_mode, HasDefault
<1>2. Has[n] = set_fd_mode(n, set_mode(n))
  BY DEF Has
<1>3. ToInteger \cap FromInteger = {}
  BY DEF ToInteger, FromInteger
<1>4. CASE Format(n) = "I_FORMAT"
  <2>1. n \in ToInteger \cup FromInteger => Category(n) # "LOAD"
    BY Formats
  <2>2. Category(n) # "LOAD" =>
          Has[n] = IF n \in ToInteger THEN (set_mode(n) \ {"fs2", "fd"}) \cup {"rd"}
                   ELSE IF n \in FromInteger THEN (set_mode(n) \ {"fs2", "fs1"}) \cup {"rs1"}
                   ELSE set_mode(n) \ {"fs2"}
    BY <1>2, <1>4 DEF set_fd_mode
  <2> QED BY <1>1, <1>3, <1>4, <2>1, <2>2 DEF DestField
<1>5. CASE Format(n) = "R_FORMAT"
  <2>1. Has[n] = IF Category(n) = "COMPARE" THEN (set_mode(n) \ {"fd"}) \cup {"rd"}
                 ELSE IF n \in {"FCLASS_S", "FCLASS_D"} THEN (set_mode(n) \ {"fd", "fs2"}) \cup {"rd"}
                 ELSE set_mode(n)
    BY <1>2, <1>5 DEF set_fd_mode
  <2>2. n \notin ToInteger
    BY <1>5, Formats
  <2> QED BY <1>1, <1>5, <2>1, <2>2 DEF DestField
<1>6. CASE Format(n) = "R4_FORMAT"
  <2>1. Has[n] = set_mode(n) \cup {"fs3"}
    BY <1>2, <1>6 DEF set_fd_mode
  <2>2. n \notin ToInteger
    BY <1>6, Formats
  <2> QED BY <1>1, <1>6, <2>1, <2>2 DEF DestField
<1>7. CASE Format(n) = "S_FORMAT"
  BY <1>7, Formats
<1> QED BY <1>4, <1>5, <1>6, <1>7, Formats

\* Every point of a floating-point instruction is filled, or one of those nothing fills;
\* a load is never sampled.
LEMMA FloatFilled ==
  ASSUME NEW n \in HasAttributes, IsFloat(n), NEW e, NEW gpr \in {<<>>, e.gpr}, Category(n) # "LOAD",
         NEW f \in FloatPoints(get_attr_list[n])
  PROVE  f \in Filled(n, Fields(n, e) \cup DestOf(n, e), gpr)
<1> DEFINE F == Fields(n, e) \cup DestOf(n, e)
           A == Filled(n, F, gpr)
           r == get_attr_list[n]
<1> SUFFICES f \in A
  OBVIOUS
<1>0. n \notin NoOperands
  BY Formats
<1>1. /\ "fs1" \in F => {"fs1", "fs1_value", "fs1_sign"} \subseteq A
      /\ "fs2" \in F => {"fs2", "fs2_value", "fs2_sign"} \subseteq A
      /\ "fs3" \in F => {"fs3", "fs3_value", "fs3_sign"} \subseteq A
      /\ "rs1" \in F => "rs1" \in A
  <2> HIDE DEF F
  <2> QED BY FieldFilled, FieldNames DEF RegFields
<1>2. /\ DestField(n) = "rd" => {"rd", "rd_value"} \subseteq A
      /\ DestField(n) = "fd" => {"fd", "fd_value", "fd_sign"} \subseteq A
  <2>1. /\ {DestField(n), ValueOf[DestField(n)]} \subseteq A
        /\ DestField(n) = "fd" => SignOf[DestField(n)] \in A
    BY <1>0, DestFilled
  <2> HIDE DEF A
  <2> QED BY <2>1, FieldNames
<1>3. \A g, k : <<g, k>> \in FloatSources(n, Len(e.operand)) => g \in F
  <2>1. SourcesOf(n, e.operand) = FloatSources(n, Len(e.operand))
    BY <1>0 DEF SourcesOf
  <2> QED BY <2>1 DEF Fields
<1>4. NeverFilled(n) \subseteq A
  BY DEF Filled
<1>5. r.format = Format(n) /\ r.category = Category(n) /\ r.name = n
  BY TableRow DEF Format, Category
<1> HIDE DEF F, A, r
<1>6. f \in FloatPoints(r)
  BY DEF r
<1>7. CASE Format(n) = "I_FORMAT"
  <2>1. <<"fs1", 2>> \in FloatSources(n, Len(e.operand)) \/ (n \in FromInteger /\ <<"rs1", 2>> \in FloatSources(n, Len(e.operand)))
    BY <1>7, FloatDest DEF FloatSources
  <2>2. n \notin FromInteger => "fs1" \in F
    BY <1>3, <2>1
  <2>3. n \in FromInteger => "rs1" \in F
    <3>1. n \in FromInteger => <<"rs1", 2>> \in FloatSources(n, Len(e.operand))
      BY <1>7, FloatDest DEF FloatSources
    <3> QED BY <1>3, <3>1
  <2>4. CASE n \in ToInteger
    <3>1. n \notin FromInteger /\ "rd_sign" \in NeverFilled(n)
      BY <2>4 DEF ToInteger, FromInteger, NeverFilled
    <3>2. f \in {"fs1", "fs1_sign", "fs1_value", "rd", "rd_sign"}
      BY <1>5, <1>6, <1>7, <2>4, <3>1 DEF FloatPoints
    <3> QED BY <1>1, <1>2, <1>4, <2>2, <2>4, <3>1, <3>2, FloatDest
  <2>5. CASE n \in FromInteger
    <3>1. n \notin ToInteger /\ "rs1_sign" \in NeverFilled(n)
      BY <2>5 DEF ToInteger, FromInteger, NeverFilled
    <3>2. f \in {"fd", "fd_sign", "rs1", "rs1_sign"}
      BY <1>5, <1>6, <1>7, <2>5, <3>1 DEF FloatPoints
    <3>3. DestField(n) = "fd"
      BY <1>7, <3>1, FloatDest
    <3> QED BY <1>1, <1>2, <1>4, <2>3, <2>5, <3>1, <3>2, <3>3
  <2>6. CASE n \notin ToInteger \cup FromInteger
    <3>1. f \in {"fd", "fd_sign", "fd_value", "fs1", "fs1_sign", "fs1_value"}
      BY <1>5, <1>6, <1>7, <2>6 DEF FloatPoints
    <3>2. DestField(n) = "fd"
      BY <1>7, <2>6, FloatDest
    <3> QED BY <1>1, <1>2, <2>2, <2>6, <3>1, <3>2
  <2> QED BY <2>4, <2>5, <2>6
<1>8. CASE Format(n) = "S_FORMAT"
  <2>1. <<"fs2", 1>> \in FloatSources(n, Len(e.operand)) /\ <<"rs1", 2>> \in FloatSources(n, Len(e.operand))
    BY <1>8 DEF FloatSources
  <2>2. n = "FSW"
    BY <1>8, WrittenTable DEF RowWritten, Format, IsFloat, FloatGroups
  <2>3. "imm_sign" \in NeverFilled(n)
    BY <2>2 DEF NeverFilled
  <2>4. f \in {"fs2", "fs2_value", "rs1", "imm_sign"}
    BY <1>5, <1>6, <1>8 DEF FloatPoints
  <2> QED BY <1>1, <1>3, <1>4, <2>1, <2>3, <2>4
<1>9. CASE Format(n) = "R_FORMAT"
  <2>1. {"fs1", "fs2", "fs1_value", "fs2_value", "fs1_sign", "fs2_sign"} \subseteq A
    BY <1>4, <1>9 DEF NeverFilled
  <2>2. CASE Category(n) = "COMPARE" \/ n \in {"FCLASS_S", "FCLASS_D"}
    <3>1. f \in {"fs1", "fs2", "fs1_value", "fs2_value", "fs1_sign", "fs2_sign", "rd", "rd_value"}
      BY <1>5, <1>6, <1>9, <2>2 DEF FloatPoints
    <3> QED BY <1>2, <1>9, <2>1, <2>2, <3>1, FloatDest
  <2>3. CASE ~(Category(n) = "COMPARE" \/ n \in {"FCLASS_S", "FCLASS_D"})
    <3>1. f \in {"fs1", "fs2", "fs1_value", "fs2_value", "fs1_sign", "fs2_sign", "fd", "fd_sign", "fd_value"}
      BY <1>5, <1>6, <1>9, <2>3 DEF FloatPoints
    <3> QED BY <1>2, <1>9, <2>1, <2>3, <3>1, FloatDest
  <2> QED BY <2>2, <2>3
<1>10. CASE Format(n) = "R4_FORMAT"
  <2>1. <<"fs1", 2>> \in FloatSources(n, Len(e.operand)) /\ <<"fs2", 3>> \in FloatSources(n, Len(e.operand))
        /\ <<"fs3", 4>> \in FloatSources(n, Len(e.operand))
    BY <1>10 DEF FloatSources
  <2>2. DestField(n) = "fd"
    BY <1>10, FloatDest
  <2>3. f \in {"fd", "fd_sign", "fd_value", "fs1", "fs1_sign", "fs1_value",
               "fs2", "fs2_sign", "fs2_value", "fs3", "fs3_sign", "fs3_value"}
    BY <1>5, <1>6, <1>10 DEF FloatPoints
  <2> QED BY <1>1, <1>2, <1>3, <2>1, <2>2, <2>3
<1> QED BY <1>7, <1>8, <1>9, <1>10, Formats

\* Categories of the rows, as the attribute table has them.
RowCategories(r) ==
  /\ r.group \in FloatGroups => r.category \notin {"BRANCH", "LOGICAL", "CSR"} /\ r.name \notin DivNames
  /\ r.name \in NoOperands => r.category # "CSR"
\* Floating point has no branch, logical or CSR instruction and no division of its own.
LEMMA Categories ==
  ASSUME NEW n \in HasAttributes
  PROVE  /\ IsFloat(n) => Category(n) \notin {"BRANCH", "LOGICAL", "CSR"} /\ n \notin DivNames
         /\ n \in NoOperands => Category(n) # "CSR"
<1> USE DEF Row, RowCategories, FloatGroups, NoOperands, DivNames
<1>1. \A r \in Rv32iMemory : RowCategories(r)
  BY DEF Rv32iMemory
<1>2. \A r \in Rv32iCompute : RowCategories(r)
  BY DEF Rv32iCompute
<1>3. \A r \in Rv32iControl : RowCategories(r)
  BY DEF Rv32iControl
<1>4. \A r \in Rv32mRows : RowCategories(r)
  BY DEF Rv32mRows
<1>5. \A r \in Rv64iRows : RowCategories(r)
  BY DEF Rv64iRows
<1>6. \A r \in Rv64mRows : RowCategories(r)
  BY DEF Rv64mRows
<1>7. \A r \in Rv32cRows : RowCategories(r)
  BY DEF Rv32cRows
<1>8. \A r \in Rv64cRows : RowCategories(r)
  BY DEF Rv64cRows
<1>9. \A r \in Rv32fRows : RowCategories(r)
  BY DEF Rv32fRows
<1>10. \A r \in Rv32dRows : RowCategories(r)
  BY DEF Rv32dRows
<1> HIDE DEF Row, RowCategories, FloatGroups, NoOperands, DivNames
<1>11. RowCategories(get_attr_list[n]) /\ get_attr_list[n].name = n
  BY TableRow, <1>1, <1>2, <1>3, <1>4, <1>5, <1>6, <1>7, <1>8, <1>9, <1>10 DEF AttrRows
<1> QED BY <1>11 DEF RowCategories, IsFloat, FloatGroups, Category

\* Every point of the covergroup of a row's instruction is filled.
LEMMA PointFilled ==
  ASSUME NEW e, AsWritten(e), NEW n \in HasAttributes, n = NameOf(e), Parses(n, e),
         NEW gpr \in {<<>>, e.gpr}, NEW p \in Points(n)
  PROVE  p.field \in Filled(n, Fields(n, e) \cup DestOf(n, e), gpr)
<1> DEFINE r == get_attr_list[n]
           A == Filled(n, Fields(n, e) \cup DestOf(n, e), gpr)
<1>1. /\ r.name = n /\ r.format = Format(n) /\ r.category = Category(n)
      /\ r.group \in FloatGroups <=> IsFloat(n)
  BY TableRow DEF Format, Category, IsFloat, FloatGroups
<1>2. PointFits(r, p)
  BY PointsTable
<1>3. p.field \in PointFields(r)
  BY <1>2 DEF PointFits
<1> SUFFICES p.field \in A
  OBVIOUS
<1>4. ~IsFloat(n) /\ p.field \in IntegerPoints(r) => p.field \in A
  <2>1. /\ n \notin NoOperands /\ (Category(n) = "CSR" => Format(n) = "R_FORMAT")
        /\ Format(n) = "CI_FORMAT" => n # "C_ADDI4SPN"
        /\ Format(n) = "CR_FORMAT" => (Category(n) = "JUMP" <=> n \in {"C_JR", "C_JALR"})
    BY <1>1, <1>2 DEF PointFits
  <2> QED BY <2>1, IntegerFilled
<1>5. IsFloat(n) /\ p.field \in FloatPoints(r) => p.field \in A
  <2>1. IsFloat(n) => Category(n) # "LOAD"
    BY FloatLoadUnparsed
  <2> QED BY <2>1, FloatFilled
<1>6. /\ {"cross", "gpr_hazard"} \subseteq A
      /\ Category(n) \in {"LOAD", "STORE"} => "lsu_hazard" \in A
      /\ Category(n) = "BRANCH" /\ ~IsFloat(n) => "branch_hit" \in A
      /\ (Category(n) = "LOGICAL" /\ ~IsFloat(n)) \/ n = "ADDIW" => "logical_similarity" \in A
      /\ n \in DivNames /\ ~IsFloat(n) => "div_result" \in A
  BY CategoryFilled
<1>7. IsFloat(n) => Category(n) \notin {"BRANCH", "LOGICAL"} /\ n \notin DivNames
  BY <1>1, Categories
<1> HIDE DEF A, r
<1> QED BY <1>1, <1>3, <1>4, <1>5, <1>6, <1>7 DEF PointFields

\* The covergroups that were sampled last are those of the row that pre_instr was made
\* from, which the program wrote; opening a file forgets the row but not the instruction.
CoveredRow(e) ==
  LET n == NameOf(e)
  IN  /\ n \in HasAttributes /\ AsWritten(e) /\ Parses(n, e)
      /\ pre_instr.instr = n /\ pre_instr.fed = Fed(n, Fields(n, e) \cup DestOf(n, e))
      /\ sampled.gpr \in {<<>>, e.gpr}
      /\ covered = CoverGroupsOf(pre_instr)
CoveredKept == covered # {} => \E e \in TraceRow : CoveredRow(e)
CoverInv == CovInv /\ CoveredKept

\* What an instruction is filled with, before and after its hazards are computed.
LEMMA InstructionFed ==
  ASSUME NEW n, NEW e, NEW pre
  PROVE  LET i == Instruction(n, e)
             cur == check_hazard_condition(i, pre)
         IN  /\ i.fed = Fed(n, Fields(n, e) \cup DestOf(n, e)) /\ i.instr = n
             /\ cur.fed = i.fed /\ cur.instr = n
<1> DEFINE i == Instruction(n, e)
<1>1. i.fed = Fed(n, Fields(n, e) \cup DestOf(n, e))
  BY Zenon DEF Instruction, Fields, DestOf
<1>2. /\ i.instr = n
      /\ i = [instr |-> i.instr, reg |-> i.reg, value |-> i.value, mem_addr |-> i.mem_addr,
              csr |-> i.csr, branch_hit |-> i.branch_hit, fed |-> i.fed,
              gpr_hazard |-> i.gpr_hazard, lsu_hazard |-> i.lsu_hazard]
  BY InstructionFields
<1> HIDE DEF i
<1> QED BY <1>1, <1>2 DEF check_hazard_condition, i

\* A step samples a row the program wrote, clears what is covered or leaves it alone.
LEMMA CoveredStep ==
  ASSUME CoverInv, [CovNext]_covvars
  PROVE  CoveredKept'
<1>0. CovInv
  BY DEF CoverInv
<1>1. CASE \E e \in RowsHere : Samples(e)
  <2>1. PICK e \in RowsHere : Samples(e)
    BY <1>1
  <2> DEFINE n == NameOf(e)
             i == Instruction(n, e)
  <2>2. /\ e \in TraceRow /\ n \in HasAttributes /\ Parses(n, e) /\ AsWritten(e)
        /\ covered' = CoverGroupsOf(pre_instr')
        /\ pre_instr' = IF instr_cnt > 0 THEN check_hazard_condition(i, pre_instr) ELSE i
        /\ sampled' = [e EXCEPT !.address = Address(e)]
    BY <1>0, <2>1, SampledStep
  <2>3. pre_instr'.instr = n /\ pre_instr'.fed = Fed(n, Fields(n, e) \cup DestOf(n, e))
    BY <2>2, InstructionFed
  <2>4. sampled'.gpr = e.gpr
    BY <2>2 DEF TraceRow
  <2>5. CoverGroupsOf(pre_instr)' = CoverGroupsOf(pre_instr')
    BY DEF CoverGroupsOf
  <2>6. CoveredRow(e)'
    BY <2>2, <2>3, <2>4, <2>5 DEF CoveredRow
  <2> QED BY <2>2, <2>6 DEF CoveredKept
<1>2. CASE \A e \in RowsHere : ~Samples(e)
  <2>1. covered' = {} \/ (UNCHANGED <<pre_instr, covered>> /\ sampled' \in {sampled, NoRow})
    <3>1. CASE OpenFile \/ CloseFile \/ get_coverage_report
      BY <3>1 DEF OpenFile, CloseFile, get_coverage_report
    <3>2. ASSUME NEW e \in RowsHere, Malformed(e) \/ Skip(e) \/ NoOpcode(e)
          PROVE  UNCHANGED <<pre_instr, covered, sampled>>
      BY <3>2 DEF Malformed, Skip, NoOpcode
    <3>3. ASSUME NEW e \in RowsHere, Sample(e)
          PROVE  UNCHANGED <<pre_instr, covered, sampled>>
      <4>1. ~Samples(e)
        BY <1>2
      <4> QED BY <3>3, <4>1 DEF Sample, CgSample, Samples
    <3>4. ASSUME NEW e \in RowsHere, Crash(e)
          PROVE  covered' = {}
      BY <3>4 DEF Crash
    <3>5. CASE UNCHANGED covvars
      BY <3>5 DEF covvars
    <3> QED BY <3>1, <3>2, <3>3, <3>4, <3>5 DEF CovNext
  <2>2. CASE covered' = {}
    BY <2>2 DEF CoveredKept
  <2>3. CASE UNCHANGED <<pre_instr, covered>> /\ sampled' \in {sampled, NoRow} /\ covered' # {}
    <3>1. PICK e \in TraceRow : CoveredRow(e)
      BY <2>3 DEF CoverInv, CoveredKept
    <3>2. sampled'.gpr \in {<<>>, e.gpr}
      BY <2>3, <3>1 DEF CoveredRow, NoRow
    <3>3. CoverGroupsOf(pre_instr)' = CoverGroupsOf(pre_instr)
      BY <2>3 DEF CoverGroupsOf
    <3>4. CoveredRow(e)'
      BY <2>3, <3>1, <3>2, <3>3 DEF CoveredRow
    <3> QED BY <3>4 DEF CoveredKept
  <2> QED BY <2>1, <2>2, <2>3
<1> QED BY <1>1, <1>2

\* So CoverInv is an invariant.
LEMMA CoverInvariant == CovSpec => []CoverInv
<1>1. CovInit => CoverInv
  BY CovStarts DEF CovInit, CoverInv, CoveredKept
<1>2. CoverInv /\ [CovNext]_covvars => CoverInv'
  BY CoveredStep, CovStepHolds DEF CoverInv
<1> QED BY <1>1, <1>2, PTL DEF CovSpec

\* The covergroups that are no instruction's own.
Shared == {"opcode_cg", "hint_cg", "illegal_compressed_instr_cg", "rv32i_misc_cg", "mepc_alignment_cg"}
\* Their points read the binary, the name, or the destination of a CSR access.
LEMMA SharedPoints ==
  ASSUME NEW cg \in Shared, NEW p \in Points(cg)
  PROVE  /\ p.field \in {"binary", "instr", "rd_value"} /\ p.point \notin DoublePoints
         /\ p.field = "rd_value" => cg = "mepc_alignment_cg"
<1> USE DEF DoublePoints, Points, At, Matching
<1>1. CASE cg = "opcode_cg"
  BY <1>1, SMTT(30) DEF cg_instantiation, opcode_cg
<1>2. CASE cg = "hint_cg"
  BY <1>2, SMTT(30) DEF cg_instantiation, hint_cg
<1>3. CASE cg = "illegal_compressed_instr_cg"
  BY <1>3, SMTT(30) DEF cg_instantiation, illegal_compressed_instr_cg
<1>4. CASE cg = "rv32i_misc_cg"
  BY <1>4, SMTT(30) DEF cg_instantiation, rv32i_misc_cg
<1>5. CASE cg = "mepc_alignment_cg"
  BY <1>5, SMTT(30) DEF cg_instantiation, mepc_alignment_cg
<1> HIDE DEF DoublePoints, Points, At, Matching
<1> QED BY <1>1, <1>2, <1>3, <1>4, <1>5 DEF Shared

\* The covergroups of a row are its instruction's own and shared ones.
LEMMA GroupsOfRow ==
  ASSUME NEW cg \in CoverGroupsOf(pre_instr)
  PROVE  cg = pre_instr.instr \/ (cg \in Shared /\ (cg = "mepc_alignment_cg" => Category(pre_instr.instr) = "CSR"))
BY DEF CoverGroupsOf, Shared

\* Every point of every covergroup that was sampled is filled.
LEMMA FilledEnough ==
  ASSUME CoverInv, NEW cg \in covered, NEW p \in Points(cg)
  PROVE  p.field \in pre_instr.fed \cup {"cross"} \cup NeverFilled(pre_instr.instr)
                       \cup (IF sampled.gpr = <<>> THEN DestFields(pre_instr.instr) ELSE {})
<1>1. PICK e \in TraceRow : CoveredRow(e)
  BY DEF CoverInv, CoveredKept
<1> DEFINE n == NameOf(e)
           F == Fields(n, e) \cup DestOf(n, e)
<1>2. /\ n \in HasAttributes /\ AsWritten(e) /\ Parses(n, e) /\ pre_instr.instr = n
      /\ pre_instr.fed = Fed(n, F) /\ sampled.gpr \in {<<>>, e.gpr} /\ cg \in CoverGroupsOf(pre_instr)
  BY <1>1 DEF CoveredRow
<1>3. n = NameOf(e)
  OBVIOUS
<1> HIDE DEF n
<1>4. p.field \in Filled(n, F, sampled.gpr)
  <2>1. CASE cg = n
    BY <1>2, <1>3, <2>1, PointFilled
  <2>2. CASE cg \in Shared /\ (cg = "mepc_alignment_cg" => Category(n) = "CSR")
    <3>1. p.field \in {"binary", "instr", "rd_value"} /\ (p.field = "rd_value" => Category(n) = "CSR")
      BY <2>2, SharedPoints
    <3>2. {"binary", "instr"} \subseteq Filled(n, F, sampled.gpr)
      BY <1>2, CategoryFilled
    <3>3. Category(n) = "CSR" => "rd_value" \in Filled(n, F, sampled.gpr)
      <4>1. Category(n) = "CSR" => ~IsFloat(n) /\ n \notin NoOperands
        BY <1>2, Categories
      <4>2. ~IsFloat(n) => DestField(n) = "rd"
        BY <1>2, HasOfInteger
      <4>3. n \notin NoOperands => ValueOf[DestField(n)] \in Filled(n, F, sampled.gpr)
        BY <1>2, DestFilled
      <4> HIDE DEF F
      <4> QED BY <4>1, <4>2, <4>3, FieldNames
    <3> HIDE DEF F
    <3> QED BY <3>1, <3>2, <3>3
  <2> QED BY <1>2, <2>1, <2>2, GroupsOfRow
<1> HIDE DEF F
<1> QED BY <1>2, <1>4 DEF Filled

-----------------------------------------------------------------------------
\* Whatever the trace files hold, the registers the instructions look up keep values, the
\* counters stay within the rows read and only covergroups with an instance are sampled.
THEOREM CovTypeCorrect == CovSpec => []CovTypeOK
<1>1. CovInv => CovTypeOK
  BY DEF CovInv
<1> QED BY <1>1, CovInvariant, PTL

\* gpr_state is shared by all instructions and files; still, once the rows of the file
\* that is read tell what a register holds, gpr_state holds that and nothing older.
THEOREM RegistersKnown == CovSpec => []Coherent
<1>1. CovInv => Coherent
  BY DEF CovInv
<1> QED BY <1>1, CovInvariant, PTL

\* The tables of update_src_regs and the assembler's notation agree, in either order of
\* the operands: an interpreted row either cannot be converted, or the registers taken
\* for sources are registers the instruction reads, of the instructions whose hazards are
\* exact all of them, and an access is computed from its own base and offset.
THEOREM TablesAgree == CovSpec => []RowsAsExecuted
<1>1. CovInv => RowsAsExecuted
  BY RowWrites DEF RowsAsExecuted
<1> QED BY <1>1, CovInvariant, PTL

\* Every instruction sampled has its sources among the registers the row reads, with the
\* values they have before the row, and the address the row accesses: for all trace files
\* of instructions as they are written, and all registers.
THEOREM OperandsAreThePrograms == CovSpec => OperandsAreArchitectural
<1>1. CovInv /\ [CovNext]_covvars =>
        [\A e \in RowsHere : Samples(e) =>
           LET i == pre_instr'
               sources == SourceFields(i.instr, e) \ {DestField(i.instr)}
               class(f) == IF f \in {"rs1", "rs2"} THEN DOMAIN riscv_reg_t ELSE DOMAIN riscv_fpr_t
           IN  /\ \A f \in sources : \E r \in Registers \cap class(f) :
                    /\ Number(r) = i.reg[f]
                    /\ r \in e.reads \/ (Len(e.operand) = 2 /\ f = "fs2")
                    /\ arch[r] # Unknown => i.value[f] = arch[r]
               /\ (e.base # "none" /\ Address(e) # Unknown) => i.mem_addr = Address(e)]_covvars
  BY OperandsOfRow
<1> QED BY <1>1, CovInvariant, PTL DEF CovSpec, OperandsAreArchitectural

\* check_hazard_condition, which compares numbers left over in pre_instr, counts the
\* hazards that the two rows have, as far as HazardsRecorded goes.
THEOREM HazardsAreThePrograms == CovSpec => HazardsRecorded
<1>1. HazardInv /\ [CovNext]_covvars =>
        [\A e \in RowsHere : Samples(e) =>
           IF sampled = NoRow
           THEN pre_instr'.gpr_hazard = hazard_e.NO_HAZARD /\ pre_instr'.lsu_hazard = hazard_e.NO_HAZARD
           ELSE RegisterHazardCounted(e) /\ MemoryHazardCounted(e)]_covvars
  BY HazardsOfRow
<1> QED BY <1>1, HazardInvariant, PTL DEF CovSpec, HazardsRecorded

\* Whatever the hazards before it were, a hazard is counted in the bin of its own name, and
\* a floating-point value with the precision of its instruction, but for the bins and the
\* instance that CountedAsItself names: for every instruction that may be sampled.
THEOREM HazardsCountedAsThemselves == CovSpec => []CountedAsItself
<1>1. CoverInv => CountedAsItself
  <2> SUFFICES ASSUME CoverInv, NEW cg \in covered, NEW p \in Points(cg)
               PROVE /\ (p.field \in {"gpr_hazard", "lsu_hazard"} /\ ~Renumbered(p)) =>
                          \A b \in DOMAIN p.bins : p.bins[b] = pre_instr[p.field] => hazard_e[b] = pre_instr[p.field]
                     /\ (p.point \in DoublePoints /\ p.weight = 1) =>
                          get_attr_list[pre_instr.instr].group = "RV32D" \/ pre_instr.instr = "FSW"
    BY DEF CountedAsItself
  <2>1. PICK e \in TraceRow : CoveredRow(e)
    BY DEF CoverInv, CoveredKept
  <2>2. pre_instr.instr \in HasAttributes /\ cg \in CoverGroupsOf(pre_instr)
    BY <2>1 DEF CoveredRow
  <2>3. CASE cg = pre_instr.instr
    <3>1. PointFits(get_attr_list[pre_instr.instr], p)
      BY <2>2, <2>3, PointsTable
    <3>2. get_attr_list[pre_instr.instr].name = pre_instr.instr
      BY <2>2, TableRow
    <3>3. \A b \in DOMAIN branch_hazard_e : branch_hazard_e[b] = hazard_e[b]
      BY DEF branch_hazard_e, hazard_e
    <3> QED BY <3>1, <3>2, <3>3 DEF PointFits
  <2>4. CASE cg \in Shared
    BY <2>4, SharedPoints
  <2> QED BY <2>2, <2>3, <2>4, GroupsOfRow
<1> QED BY <1>1, CoverInvariant, PTL

\* No covergroup counts a field left over from the default instruction: every point reads
\* what update_src_regs, the row's updates or pre_sample has filled of this row, but for
\* the gaps of NeverFilled and the destination of a row that updates no register.
THEOREM PointsAreFed == CovSpec => []CoverpointsFed
<1>1. CoverInv => CoverpointsFed
  BY FilledEnough DEF CoverpointsFed
<1> QED BY <1>1, CoverInvariant, PTL

\* A trace in the assembler's own order of operands ends the run before its report only at
\* a name without attributes, at dret or at an access of floating point, of which update_src_regs
\* expects other operands than convert2asm writes: for all trace files and registers.
THEOREM AssembledAccepted == CovSpec => []AssembledRowsAccepted
<1>1. CovInit => AssembledRowsAccepted
  BY DEF CovInit, AssembledRowsAccepted
<1>2. CovInv /\ AssembledRowsAccepted /\ [CovNext]_covvars => AssembledRowsAccepted'
  <2> SUFFICES ASSUME CovInv, AssembledRowsAccepted, [CovNext]_covvars PROVE AssembledRowsAccepted'
    OBVIOUS
  <2>1. CASE OpenFile \/ CloseFile \/ get_coverage_report
    BY <2>1 DEF OpenFile, CloseFile, get_coverage_report, AssembledRowsAccepted
  <2>2. ASSUME NEW e \in RowsHere, Malformed(e) \/ Skip(e) \/ NoOpcode(e) \/ Sample(e)
        PROVE  AssembledRowsAccepted'
    <3>1. stage' = stage /\ stage = "read"
      BY <2>2, RowRead DEF Malformed, Skip, NoOpcode, Sample
    <3> QED BY <3>1 DEF AssembledRowsAccepted
  <2>3. CASE UNCHANGED covvars
    BY <2>3 DEF covvars, AssembledRowsAccepted
  <2> QED BY <2>1, <2>2, <2>3, CrashExplained DEF CovNext
<1> QED BY <1>1, <1>2, CovInvariant, PTL DEF CovSpec
==============================================================================
