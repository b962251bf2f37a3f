---------------------------- MODULE AssembledRows ----------------------------
(***************************************************************************)
(* What the rows of the trace files are: the instructions of the generator *)
(* as convert2asm writes them (riscv_instr.py, riscv_compressed_instr.py,  *)
(* riscv_floating_point_instr.py), or with the operands in the order that  *)
(* the converters of the simulators' logs give those of an address.  What  *)
(* an instruction reads, writes and accesses follows from its operands.    *)
(* The coverage run takes the operands apart again by tables of its own    *)
(* (Sources and FloatSources of InstrCoverage).                            *)
(***************************************************************************)
EXTENDS InstrCoverage

\* convert2asm: the fields of the instruction, in the order in which they are written.
\* "sp" and "zero" stand for the register itself, "none" for no operand.
IntegerText(n) ==
  CASE Format(n) \in {"J_FORMAT", "U_FORMAT"} -> <<"rd", "imm">>
    [] Format(n) = "I_FORMAT" ->
         CASE Category(n) = "LOAD" -> <<"rd", "imm", "rs1">>
           [] Category(n) = "CSR" -> <<"rd", "csr", "imm">>
           [] OTHER -> <<"rd", "rs1", "imm">>
    [] Format(n) = "S_FORMAT" -> <<"rs2", "imm", "rs1">>
    [] Format(n) = "B_FORMAT" -> <<"rs1", "rs2", "imm">>
    [] Format(n) = "R_FORMAT" ->
         CASE Category(n) = "CSR" -> <<"rd", "csr", "rs1">>
           [] n = "SFENCE_VMA" -> <<"zero", "zero">>
           [] OTHER -> <<"rd", "rs1", "rs2">>
CompressedText(n) ==
  CASE Format(n) \in {"CI_FORMAT", "CIW_FORMAT"} ->
         CASE n = "C_ADDI16SP" -> <<"sp", "imm">>
           [] n = "C_ADDI4SPN" -> <<"rd", "sp", "imm">>
           [] n \in {"C_LDSP", "C_LWSP"} -> <<"rd", "imm", "sp">>
           [] OTHER -> <<"rd", "imm">>
    [] Format(n) = "CL_FORMAT" -> <<"rd", "imm", "rs1">>
    [] Format(n) = "CS_FORMAT" -> <<"rs2", "imm", "rs1">>
    [] Format(n) = "CA_FORMAT" -> <<"rd", "rs2">>
    [] Format(n) = "CB_FORMAT" -> <<"rs1", "imm">>
    [] Format(n) = "CSS_FORMAT" -> <<"rs2", "imm", "sp">>
    [] Format(n) = "CR_FORMAT" -> IF n \in {"C_JR", "C_JALR"} THEN <<"rs1">> ELSE <<"rd", "rs2">>
    [] Format(n) = "CJ_FORMAT" -> <<"imm">>
\* The attribute table makes fsd a load; the instruction itself is a store.
FloatText(n) ==
  CASE n = "FSD" \/ Format(n) = "S_FORMAT" -> <<"fs2", "imm", "rs1">>
    [] n # "FSD" /\ Format(n) = "I_FORMAT" ->
         CASE Category(n) = "LOAD" -> <<"fd", "imm", "rs1">>
           [] n \in ToInteger -> <<"rd", "fs1">>
           [] n \in FromInteger -> <<"fd", "rs1">>
           [] OTHER -> <<"fd", "fs1">>
    [] Format(n) = "R_FORMAT" ->
         CASE Category(n) = "COMPARE" -> <<"rd", "fs1", "fs2">>
           [] n \in {"FCLASS_S", "FCLASS_D"} -> <<"rd", "fs1">>
           [] OTHER -> <<"fd", "fs1", "fs2">>
    [] Format(n) = "R4_FORMAT" -> <<"fd", "fs1", "fs2", "fs3">>
convert2asm(n) ==
  CASE IsFloat(n) -> FloatText(n)
    [] ~IsFloat(n) /\ (Category(n) = "SYSTEM" \/ n \in {"NOP", "WFI", "FENCE", "FENCE_I", "C_NOP"}) ->
         <<"none">>
    [] OTHER -> IF Compressed(n) THEN CompressedText(n) ELSE IntegerText(n)

\* The pseudo instructions that update_instr_name renames name one source.
OneSourcePseudo == {"FMV_S", "FABS_S", "FNEG_S", "FMV_D", "FABS_D", "FNEG_D"}
\* process_instr: an address imm(rs1) becomes rs1, imm.
IsAddress(text) == Len(text) = 3 /\ text[2] = "imm"
process_instr(text) == IF IsAddress(text) THEN <<text[1], text[3], text[2]>> ELSE text
Text(e) ==
  IF e.instr \in OneSourcePseudo THEN <<"fd", "fs1">>
  ELSE LET text == convert2asm(update_instr_name(e.instr))
       IN  IF e.order = "converter" THEN process_instr(text) ELSE text

\* What may stand in the place of a field.
Spelling(f) ==
  CASE f \in {"rd", "rs1", "rs2"} -> DOMAIN riscv_reg_t
    [] f \in {"fd", "fs1", "fs2", "fs3"} -> DOMAIN riscv_fpr_t
    [] f = "imm" -> Immediates
    [] f = "csr" -> Csrs
    [] f = "sp" -> {"SP"}
    [] f = "zero" -> {"ZERO"}
    [] f = "none" -> {""}
\* The operands of e in the places of fields.
OperandsAt(e, fields) == {e.operand[k] : k \in {j \in DOMAIN Text(e) : Text(e)[j] \in fields}}

\* The instruction set: the fields an instruction reads and writes.  Of the
\* compressed instructions some read the register they write.
TwoAddress == {"C_ADD", "C_ADDI", "C_ADDIW", "C_SLLI", "C_SUB", "C_SUBW", "C_ADDW", "C_XOR",
               "C_OR", "C_AND"}
ReadFields(n) ==
  {"rs1", "rs2", "fs1", "fs2", "fs3", "sp"} \cup (IF n \in TwoAddress THEN {"rd"} ELSE {})
WrittenFields(n) ==
  {"rd", "fd"} \cup (IF Format(n) = "CB_FORMAT" /\ Category(n) # "BRANCH" THEN {"rs1"} ELSE {})
               \cup (IF n = "C_ADDI16SP" THEN {"sp"} ELSE {})

\* Row e tells what the instruction it names does.
AsWritten(e) ==
  LET n == update_instr_name(e.instr)
  IN  /\ Len(e.operand) = Len(Text(e))
      /\ \A k \in DOMAIN Text(e) : e.operand[k] \in Spelling(Text(e)[k])
      /\ {e.operand[k] : k \in DOMAIN e.operand} \cap (DOMAIN riscv_reg_t \cup DOMAIN riscv_fpr_t)
           \subseteq Registers
      /\ e.reads = OperandsAt(e, ReadFields(n))
      /\ WrittenBy(e) \subseteq OperandsAt(e, WrittenFields(n)) \cup (IF n = "C_JAL" THEN {"RA"} ELSE {})
      /\ IF IsMemory(n)
         THEN e.base \in OperandsAt(e, {"rs1", "sp"}) /\ e.offset \in {get_val(o) : o \in OperandsAt(e, {"imm"})}
         ELSE e.base = "none"
\* The logs are of instructions the generator can write.
ASSUME WrittenAssumption ==
  \A f \in DOMAIN TraceFiles : \A k \in DOMAIN TraceFiles[f] : \A e \in TraceFiles[f][k] :
    Interpreted(e) => AsWritten(e)
=============================================================================
