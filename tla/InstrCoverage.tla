---------------------------- MODULE InstrCoverage ----------------------------
(***************************************************************************)
(* The functional coverage run of the random instruction generator: the    *)
(* trace files of the simulators are read row by row, each row becomes an  *)
(* instruction with its operands, operand values and hazards, and is       *)
(* sampled into covergroups (riscv_instr_cov_test.py, riscv_cov_instr.py,  *)
(* riscv_floating_point_instr.py and riscv_instr_cover_group.py).          *)
(*                                                                         *)
(* A row is a record: instr, the mnemonic in the spelling of the           *)
(* enumeration; operand, a sequence of register names, immediates and CSR  *)
(* names; gpr, a sequence of <<register, value>> updates; shape, "whole"   *)
(* or "malformed"; illegal, whether a column holds the word.  Its fields   *)
(* reads (the registers the instruction reads), base and offset (of the    *)
(* address it accesses) and order (who ordered the operands) say what the  *)
(* program under test did: only the properties look at them.               *)
(***************************************************************************)
EXTENDS InstrAttributes, CoverGroups, FiniteSets

CONSTANTS TraceFiles,     \* per file, per row: the set of rows it may be
          Registers,      \* names of the registers the rows use
          supported_isa,  \* the groups of the target
          RegValues       \* the values a register takes

\* The rows as the header describes them.  No row updates x0, which cannot be written;
\* address is filled in when a row is sampled.
TraceRow ==
  [instr : STRING \ {"none"}, operand : Seq(STRING),
   gpr : Seq((Registers \ {"ZERO"}) \X RegValues),
   shape : {"whole", "malformed"}, illegal : BOOLEAN, order : {"assembler", "converter"},
   reads : SUBSET (DOMAIN riscv_reg_t \cup DOMAIN riscv_fpr_t), base : Registers \cup {"none"},
   offset : Int, address : Int]
ASSUME TraceAssumption ==
  /\ TraceFiles \in Seq(Seq(SUBSET TraceRow))
  /\ Registers \subseteq DOMAIN riscv_reg_t \cup DOMAIN riscv_fpr_t
  /\ RegValues \subseteq Nat /\ 0 \in RegValues

VARIABLES stage,               \* "open", "read", "report" or "crash"
          file, row,           \* the file that is read and its rows read so far
          gpr_state,           \* class attribute: shared by all instructions and files
          instr_cnt,           \* instructions sampled since reset
          pre_instr,           \* the last instruction sampled, in any file
          expect_illegal_instr, skipped_cnt, unexpected_illegal_instr_cnt,
          covered,             \* the covergroups the last sampled row went into
          \* What the properties need to know, none of it in the program:
          sampled,             \* the row pre_instr was made from
          arch                 \* register values since the start of the file, or Unknown
covvars == <<stage, file, row, gpr_state, instr_cnt, pre_instr, expect_illegal_instr,
             skipped_cnt, unexpected_illegal_instr_cnt, covered, sampled, arch>>
-----------------------------------------------------------------------------
RegFields == {"rs1", "rs2", "rs3", "rd", "fs1", "fs2", "fs3", "fd"}
Unknown == -1

Category(n) == get_attr_list[n].category
Format(n) == get_attr_list[n].format
IsFloat(n) == get_attr_list[n].group \in {"RV32F", "RV32D"}

\* set_mode and set_fd_mode: the operands an instruction is said to have.  The
\* floating-point operands of an integer instruction keep their initial value 1.
ToInteger == {"FMV_X_W", "FMV_X_D", "FCVT_W_S", "FCVT_WU_S", "FCVT_L_S", "FCVT_LU_S",
              "FCVT_L_D", "FCVT_LU_D", "FCVT_W_D", "FCVT_WU_D"}
FromInteger == {"FMV_W_X", "FMV_D_X", "FCVT_S_W", "FCVT_S_WU", "FCVT_S_L", "FCVT_D_L",
                "FCVT_S_LU", "FCVT_D_W", "FCVT_D_LU", "FCVT_D_WU"}
HasDefault == {"rs1", "rs2", "rd", "fs1", "fs2", "fd"}
set_mode(n) ==
  HasDefault \ ((IF Format(n) = "I_FORMAT" THEN {"rs2"} ELSE {})
                \cup (IF Format(n) \in {"S_FORMAT", "B_FORMAT"} THEN {"rd"} ELSE {})
                \cup (IF Format(n) \in {"U_FORMAT", "J_FORMAT"} THEN {"rs1", "rs2"} ELSE {})
                \cup (IF Category(n) = "CSR" THEN {"rs2"} ELSE {})
                \cup (IF Category(n) = "CSR" /\ Format(n) = "I_FORMAT" THEN {"rs1"} ELSE {}))
set_fd_mode(n, has) ==
  CASE Format(n) = "I_FORMAT" ->
         IF Category(n) = "LOAD" THEN has \ {"fs2"}
         ELSE IF n \in ToInteger THEN (has \ {"fs2", "fd"}) \cup {"rd"}
         ELSE IF n \in FromInteger THEN (has \ {"fs2", "fs1"}) \cup {"rs1"}
         ELSE has \ {"fs2"}
    [] Format(n) = "S_FORMAT" -> (has \ {"fs1"}) \cup {"rs1"}
    [] Format(n) = "R_FORMAT" ->
         IF Category(n) = "COMPARE" THEN (has \ {"fd"}) \cup {"rd"}
         ELSE IF n \in {"FCLASS_S", "FCLASS_D"} THEN (has \ {"fd", "fs2"}) \cup {"rd"}
         ELSE has
    [] Format(n) = "R4_FORMAT" -> has \cup {"fs3"}
Has == [n \in HasAttributes |->
          IF IsFloat(n) THEN set_fd_mode(n, set_mode(n)) ELSE set_mode(n)]

-----------------------------------------------------------------------------
\* update_src_regs: which operand position each source field is taken from.
\* Position 0 stands for the stack pointer, which is not an operand.
\* Mutant: the names that leave before their operands are parsed also hold the jumps.
NoOperands_Jumps == {"NOP", "WFI", "FENCE", "FENCE_I", "EBREAK", "C_EBREAK", "ECALL", "C_NOP",
                     "MRET", "SRET", "URET", "JAL", "C_J"}
NoOperands == {"NOP", "WFI", "FENCE", "FENCE_I", "EBREAK", "C_EBREAK", "SFENCE_VMA", "ECALL",
               "C_NOP", "MRET", "SRET", "URET"}
Sources(n) ==
  CASE Format(n) \in {"J_FORMAT", "U_FORMAT"} -> {<<"imm", 2>>}
    [] Format(n) = "I_FORMAT" ->
         CASE Category(n) = "LOAD" -> {<<"rs1", 3>>, <<"imm", 2>>}
           [] Category(n) = "CSR" -> {<<"csr", 2>>, <<"imm", 3>>}
           [] OTHER -> {<<"rs1", 2>>, <<"imm", 3>>}
    [] Format(n) = "S_FORMAT" -> {<<"rs2", 1>>, <<"imm", 2>>, <<"rs1", 3>>}
    [] Format(n) = "B_FORMAT" -> {<<"rs1", 1>>, <<"rs2", 2>>, <<"imm", 3>>}
    [] Format(n) = "R_FORMAT" ->
         IF Category(n) = "CSR" THEN {<<"csr", 2>>, <<"rs1", 3>>} ELSE {<<"rs1", 2>>, <<"rs2", 3>>}
    [] Format(n) \in {"CI_FORMAT", "CIW_FORMAT"} ->
         CASE n \in {"C_ADDI16SP", "C_LDSP", "C_LWSP"} -> {<<"imm", 2>>, <<"rs1", 0>>}
           [] n = "C_ADDI4SPN" -> {<<"rs1", 0>>}
           [] OTHER -> {<<"imm", 2>>}
    [] Format(n) = "CL_FORMAT" -> {<<"imm", 2>>, <<"rs1", 3>>}
    [] Format(n) = "CS_FORMAT" -> {<<"rs2", 1>>, <<"imm", 2>>, <<"rs1", 3>>}
    [] Format(n) = "CA_FORMAT" -> {<<"rs1", 1>>, <<"rs2", 2>>}
    [] Format(n) = "CB_FORMAT" -> {<<"rs1", 1>>, <<"imm", 2>>}
    [] Format(n) = "CSS_FORMAT" -> {<<"rs2", 1>>, <<"imm", 2>>, <<"rs1", 0>>}
    [] Format(n) = "CR_FORMAT" ->
         IF n \in {"C_JR", "C_JALR"} THEN {<<"rs1", 1>>} ELSE {<<"rs2", 2>>}
    [] Format(n) = "CJ_FORMAT" -> {<<"imm", 1>>}

\* riscv_floating_point_instr.update_src_regs.  The three-operand R format is
\* parsed by no branch; the two-operand pseudo instructions take fs2 from the
\* first operand.
FloatSources(n, operands) ==
  CASE Format(n) = "I_FORMAT" -> IF "fs1" \in Has[n] THEN {<<"fs1", 2>>} ELSE {<<"rs1", 2>>}
    [] Format(n) = "S_FORMAT" -> {<<"fs2", 1>>, <<"rs1", 2>>, <<"imm", 3>>}
    [] Format(n) = "R_FORMAT" ->
         IF operands = 2 /\ n \in {"FSGNJ_S", "FSGNJX_S", "FSGNJN_S", "FSGNJ_D", "FSGNJX_D",
                                   "FSGNJN_D"}
         THEN {<<"fs1", 2>>, <<"fs2", 1>>} ELSE {}
    [] Format(n) = "R4_FORMAT" -> {<<"fs1", 2>>, <<"fs2", 3>>, <<"fs3", 4>>}

\* The assertions on the number of operands.
\* Mutant: the floating-point R format takes three operands, as the integer one does.
Arity_Three(n) == IF Format(n) = "R_FORMAT" THEN {3} ELSE 1..4
Arity(n) ==
  CASE Format(n) \in {"J_FORMAT", "U_FORMAT"} -> {2}
    [] IsFloat(n) /\ Format(n) \in {"I_FORMAT", "R_FORMAT"} -> 1..4
    [] ~IsFloat(n) /\ Format(n) \in {"I_FORMAT", "B_FORMAT", "R_FORMAT"} -> {3}
    [] Format(n) = "S_FORMAT" -> {3}
    [] Format(n) = "R4_FORMAT" -> {4}
    [] OTHER -> 1..4

SourcesOf(n, operand) ==
  IF n \in NoOperands THEN {}
  ELSE IF IsFloat(n) THEN FloatSources(n, Len(operand)) ELSE Sources(n)

\* The operand at the position of a source.
\* Mutant: the compressed accesses to the stack leave their base register at its initial 0.
SourceName_NoStack(e, s) == IF s[2] = 0 THEN "ZERO" ELSE e.operand[s[2]]
SourceName(e, s) == IF s[2] = 0 THEN "SP" ELSE e.operand[s[2]]

\* get_gpr, get_fpr, get_val and the look-up of a CSR either convert an operand
\* or raise an exception, and nothing catches it.
Immediates == {"0", "1"}
get_val(o) == IF o = "0" THEN 0 ELSE 1
Csrs == {"MEPC", "MSCRATCH"}
Converts(f, o) ==
  CASE f = "imm" -> o \in Immediates
    [] f = "csr" -> o \in Csrs
    [] f \in {"rs1", "rs2", "rs3", "rd"} -> o \in DOMAIN riscv_reg_t
    [] OTHER -> o \in DOMAIN riscv_fpr_t
DestField(n) == IF IsFloat(n) /\ "fd" \in Has[n] THEN "fd" ELSE "rd"
Parses(n, e) ==
  n \notin NoOperands =>
    /\ Len(e.operand) \in Arity(n)
    /\ \A s \in SourcesOf(n, e.operand) :
         s[2] # 0 => (s[2] <= Len(e.operand) /\ Converts(s[1], e.operand[s[2]]))
    /\ \A i \in DOMAIN e.gpr : Converts(DestField(n), e.gpr[i][1])
-----------------------------------------------------------------------------
\* get_gpr_state: a register nobody wrote reads as 0, and so does x0.
\* Mutant: the updates of the row are applied before its sources are looked up.
get_gpr_state_After(r) == IF r = "ZERO" THEN 0 ELSE gpr_state'[r]
get_gpr_state(r) == IF r = "ZERO" THEN 0 ELSE gpr_state[r]
Number(r) == IF r \in DOMAIN riscv_reg_t THEN riscv_reg_t[r] ELSE riscv_fpr_t[r]
Updates(n, e) == IF n \in NoOperands THEN <<>> ELSE e.gpr
GprAfter(state, gpr) ==
  [r \in DOMAIN state |->
     LET at == {i \in DOMAIN gpr : gpr[i][1] = r}
     IN  IF at = {} THEN state[r] ELSE gpr[CHOOSE i \in at : \A j \in at : j <= i][2]]

\* The fields that hold the value and the sign of an operand.
ValueOf ==
  [rs1 |-> "rs1_value", rs2 |-> "rs2_value", rs3 |-> "rs3_value", rd |-> "rd_value",
   fs1 |-> "fs1_value", fs2 |-> "fs2_value", fs3 |-> "fs3_value", fd |-> "fd_value"]
SignOf ==
  [rs1 |-> "rs1_sign", rs2 |-> "rs2_sign", rs3 |-> "rs3_sign", rd |-> "rd_sign",
   fs1 |-> "fs1_sign", fs2 |-> "fs2_sign", fs3 |-> "fs3_sign", fd |-> "fd_sign",
   imm |-> "imm_sign"]

\* The fields of the instruction that the row and pre_sample set: registers with
\* their values and signs, the immediate, and what the category adds.
Fed(n, fields) ==
  fields
    \cup {ValueOf[f] : f \in fields \cap RegFields}
    \cup {SignOf[f] : f \in fields \cap (IF IsFloat(n) THEN {"fs1", "fs2", "fs3", "fd"}
                                         ELSE DOMAIN SignOf)}
    \cup {"instr", "binary", "gpr_hazard"}
    \cup (IF Category(n) \in {"LOAD", "STORE"} THEN {"lsu_hazard"} ELSE {})
    \cup (IF IsFloat(n) THEN {}
          ELSE (IF Category(n) \in {"LOAD", "STORE"} THEN {"unaligned_mem_access"} ELSE {})
               \cup (IF Category(n) = "LOGICAL" THEN {"logical_similarity"} ELSE {})
               \cup (IF Category(n) = "BRANCH" THEN {"branch_hit"} ELSE {})
               \cup (IF n \in {"DIV", "DIVU", "REM", "REMU", "DIVW", "DIVUW", "REMW", "REMUW"}
                     THEN {"div_result"} ELSE {}))

\* is_branch_hit: the operands are compared as unsigned numbers.
is_branch_hit(n, v1, v2) ==
  CASE n = "BEQ" -> v1 = v2
    [] n = "C_BEQZ" -> v1 = 0
    [] n = "BNE" -> v1 # v2
    [] n = "C_BNEZ" -> v1 # 0
    [] n \in {"BLT", "BLTU"} -> v1 < v2
    [] n \in {"BGE", "BGEU"} -> v1 >= v2
    [] OTHER -> FALSE

\* riscv_cov_instr() filled by assign_trace_info_to_instr and pre_sample: source
\* values are looked up before the row's register updates are applied.
Initially == [f \in RegFields |-> 0]
Instruction(n, e) ==
  LET sources == SourcesOf(n, e.operand)
      gpr == Updates(n, e)
      name(s) == SourceName(e, s)
      Source(f) == CHOOSE s \in sources : s[1] = f
      from == {s[1] : s \in sources}
      dest == IF gpr = <<>> THEN {} ELSE {DestField(n)}
      last == gpr[Len(gpr)]
      value == [f \in RegFields |->
                  IF f \in dest THEN last[2]
                  ELSE IF f \in from THEN get_gpr_state(name(Source(f))) ELSE 0]
      imm == IF "imm" \in from THEN get_val(name(Source("imm"))) ELSE 0
  IN  [instr |-> n,
       reg |-> [f \in RegFields |-> IF f \in dest THEN Number(last[1])
                                    ELSE IF f \in from THEN Number(name(Source(f))) ELSE 0],
       value |-> value,
       mem_addr |-> IF Category(n) \in {"LOAD", "STORE"} /\ ~IsFloat(n)
                    THEN value["rs1"] + imm ELSE 0,
       csr |-> IF "csr" \in from THEN name(Source("csr")) ELSE "none",
       branch_hit |-> is_branch_hit(n, value["rs1"], value["rs2"]),
       fed |-> Fed(n, from \cup dest),
       gpr_hazard |-> hazard_e.NO_HAZARD, lsu_hazard |-> hazard_e.NO_HAZARD]

\* check_hazard_condition: registers of one file are compared by number; the
\* comparison of the floating-point operands comes second and decides alone
\* whenever the previous instruction is said to have fd.
RegisterHazard(cur, pre, sources, dest, otherwise) ==
  LET Reads(i) == {i.reg[f] : f \in sources \cap Has[i.instr]}
  IN  IF dest \notin Has[pre.instr] THEN otherwise
      ELSE IF pre.reg[dest] \in Reads(cur) THEN hazard_e.RAW_HAZARD
      ELSE IF dest \notin Has[cur.instr] THEN hazard_e.NO_HAZARD
      ELSE IF cur.reg[dest] = pre.reg[dest] THEN hazard_e.WAW_HAZARD
      ELSE IF cur.reg[dest] \in Reads(pre) THEN hazard_e.WAR_HAZARD
      ELSE hazard_e.NO_HAZARD
MemoryHazard(cur, pre) ==
  LET same == cur.mem_addr = pre.mem_addr
      now == Category(cur.instr)
      before == Category(pre.instr)
  IN  IF same /\ now = "LOAD" /\ before = "STORE" THEN hazard_e.RAW_HAZARD
      ELSE IF same /\ now = "STORE" /\ before = "STORE" THEN hazard_e.WAW_HAZARD
      ELSE IF same /\ now = "STORE" /\ before = "LOAD" THEN hazard_e.WAR_HAZARD
      ELSE hazard_e.NO_HAZARD
\* Mutant: the integer operands are compared last and decide.
check_hazard_condition_IntegerLast(cur, pre) ==
  [cur EXCEPT
     !.gpr_hazard = RegisterHazard(cur, pre, {"rs1", "rs2"}, "rd",
                      RegisterHazard(cur, pre, {"fs1", "fs2", "fs3"}, "fd", hazard_e.NO_HAZARD)),
     !.lsu_hazard = MemoryHazard(cur, pre)]
check_hazard_condition(cur, pre) ==
  [cur EXCEPT
     !.gpr_hazard = RegisterHazard(cur, pre, {"fs1", "fs2", "fs3"}, "fd",
                      RegisterHazard(cur, pre, {"rs1", "rs2"}, "rd", hazard_e.NO_HAZARD)),
     !.lsu_hazard = MemoryHazard(cur, pre)]
-----------------------------------------------------------------------------
\* The names a row is skipped for: li, ret and la, and every mnemonic that has
\* amo, lr or sc in it, which jalr and c.jalr have too.
Pseudo == {"LI", "RET", "LA"}
HasAtomicLetters ==
  {"JALR", "C_JALR", "SBCLR", "SBCLRI", "CLMULR", "SBCLRW", "SBCLRIW", "CLMULRW",
   "VAMOSWAPE_V", "VAMOADDE_V", "VAMOXORE_V", "VAMOANDE_V", "VAMOORE_V", "VAMOMINE_V",
   "VAMOMAXE_V", "VAMOMINUE_V", "VAMOMAXUE_V"} \cup AtomicNames
update_instr_name(n) ==
  CASE n = "FMV_S_X" -> "FMV_W_X" [] n = "FMV_X_S" -> "FMV_X_W"
    [] n = "FMV_S" -> "FSGNJ_S" [] n = "FABS_S" -> "FSGNJX_S" [] n = "FNEG_S" -> "FSGNJN_S"
    [] n = "FMV_D" -> "FSGNJ_D" [] n = "FABS_D" -> "FSGNJX_D" [] n = "FNEG_D" -> "FSGNJN_D"
    [] OTHER -> n

\* The covergroups an instruction is sampled into.
Compressed(n) == get_attr_list[n].group \in {"RV32C", "RV64C"}
CoverGroupsOf(i) ==
  ({i.instr} \cap DOMAIN cg_instantiation)
    \cup (IF ~Compressed(i.instr) THEN {"opcode_cg"}
          ELSE IF "RV32C" \in supported_isa THEN {"hint_cg", "illegal_compressed_instr_cg"} ELSE {})
    \cup (IF get_attr_list[i.instr].group = "RV32I" THEN {"rv32i_misc_cg"} ELSE {})
    \cup (IF Category(i.instr) = "CSR" /\ i.csr = "MEPC" THEN {"mepc_alignment_cg"} ELSE {})

\* The address a row accesses, where the values read so far tell it.
Address(e) ==
  IF e.base = "none" \/ arch[e.base] = Unknown THEN Unknown ELSE arch[e.base] + e.offset

\* riscv_instr_cover_group.sample.
CgSample(i, e) ==
  LET cur == IF instr_cnt > 0 THEN check_hazard_condition(i, pre_instr) ELSE i
  IN  /\ instr_cnt' = instr_cnt + 1
      /\ pre_instr' = cur
      /\ covered' = CoverGroupsOf(cur)
      /\ sampled' = [e EXCEPT !.address = Address(e)]

\* What the architecture knows after a row: a register that is written by a row
\* the run does not parse has a value the run cannot know.
ArchAfter(e, parsed) ==
  IF parsed THEN GprAfter(arch, e.gpr)
  ELSE [r \in Registers |-> IF \E i \in DOMAIN e.gpr : e.gpr[i][1] = r THEN Unknown ELSE arch[r]]
-----------------------------------------------------------------------------
\* A file tells of no register at first; x0 is known without it.
KnownAtStart == [r \in Registers |-> IF r = "ZERO" THEN 0 ELSE Unknown]
NoInstr == [instr |-> "none", reg |-> Initially, value |-> Initially, mem_addr |-> 0,
            csr |-> "none", branch_hit |-> FALSE, fed |-> {}, gpr_hazard |-> hazard_e.NO_HAZARD,
            lsu_hazard |-> hazard_e.NO_HAZARD]
NoRow == [instr |-> "none", order |-> "none", reads |-> {}, gpr |-> <<>>, address |-> Unknown]
CovInit ==
  /\ stage = "open" /\ file = 0 /\ row = 0
  /\ gpr_state = [r \in Registers |-> 0]
  /\ instr_cnt = 0 /\ pre_instr = NoInstr
  /\ expect_illegal_instr = FALSE
  /\ skipped_cnt = 0 /\ unexpected_illegal_instr_cnt = 0
  /\ covered = {} /\ sampled = NoRow
  /\ arch = KnownAtStart

\* reset: only the counters; the last instruction and the registers stay.
Reset_Kept == UNCHANGED instr_cnt   \* mutant: the counter runs on
Reset == instr_cnt' = 0

OpenFile ==
  /\ stage = "open" /\ file < Len(TraceFiles)
  /\ stage' = "read" /\ file' = file + 1 /\ row' = 0
  /\ Reset
  /\ sampled' = NoRow /\ arch' = KnownAtStart
  /\ UNCHANGED <<gpr_state, pre_instr, expect_illegal_instr, skipped_cnt,
                 unexpected_illegal_instr_cnt, covered>>

RowsHere ==
  IF stage = "read" /\ row < Len(TraceFiles[file]) THEN TraceFiles[file][row + 1] ELSE {}
Reading(e) ==
  /\ e \in RowsHere
  /\ row' = row + 1 /\ file' = file

Malformed(e) ==
  /\ Reading(e) /\ e.shape = "malformed"
  /\ skipped_cnt' = skipped_cnt + 1
  /\ arch' = ArchAfter(e, FALSE)
  /\ UNCHANGED <<stage, gpr_state, instr_cnt, pre_instr, expect_illegal_instr,
                 unexpected_illegal_instr_cnt, covered, sampled>>

\* The word "illegal" in any column is remembered for the rest of the run.
WellFormed(e) ==
  /\ Reading(e) /\ e.shape = "whole"
  /\ expect_illegal_instr' = (expect_illegal_instr \/ e.illegal)
  /\ skipped_cnt' = skipped_cnt

Skip(e) ==
  /\ WellFormed(e) /\ e.instr \in Pseudo \cup HasAtomicLetters
  /\ arch' = ArchAfter(e, FALSE)
  /\ UNCHANGED <<stage, gpr_state, instr_cnt, pre_instr, unexpected_illegal_instr_cnt, covered,
                 sampled>>

NoOpcode(e) ==
  /\ WellFormed(e) /\ e.instr \notin Pseudo \cup HasAtomicLetters
  /\ update_instr_name(e.instr) \notin riscv_instr_name_t
  /\ unexpected_illegal_instr_cnt' =
       unexpected_illegal_instr_cnt + (IF expect_illegal_instr' THEN 0 ELSE 1)
  /\ arch' = ArchAfter(e, FALSE)
  /\ UNCHANGED <<stage, gpr_state, instr_cnt, pre_instr, covered, sampled>>

\* An instruction of a group the target lacks is not sampled and not an error.
Sample(e) ==
  LET n == update_instr_name(e.instr)
  IN  /\ WellFormed(e) /\ e.instr \notin Pseudo \cup HasAtomicLetters
      /\ n \in HasAttributes
      /\ IF get_attr_list[n].group \in supported_isa
         THEN /\ Parses(n, e)
              /\ gpr_state' = GprAfter(gpr_state, Updates(n, e))
              /\ CgSample(Instruction(n, e), e)
              /\ arch' = ArchAfter(e, n \notin NoOperands)
         ELSE /\ arch' = ArchAfter(e, FALSE)
              /\ UNCHANGED <<gpr_state, instr_cnt, pre_instr, covered, sampled>>
      /\ UNCHANGED <<stage, unexpected_illegal_instr_cnt>>

\* An exception no handler catches: a name without attributes, or an operand that
\* does not convert.  No report is written.
Crash(e) ==
  LET n == update_instr_name(e.instr)
  IN  /\ WellFormed(e) /\ e.instr \notin Pseudo \cup HasAtomicLetters
      /\ n \in riscv_instr_name_t
      /\ n \in HasAttributes => (get_attr_list[n].group \in supported_isa /\ ~Parses(n, e))
      /\ stage' = "crash" /\ sampled' = e /\ covered' = {}
      /\ UNCHANGED <<gpr_state, instr_cnt, pre_instr, unexpected_illegal_instr_cnt, arch>>

CloseFile ==
  /\ stage = "read"
  /\ stage' = "open"
  /\ UNCHANGED <<file, row, gpr_state, instr_cnt, pre_instr, expect_illegal_instr, skipped_cnt,
                 unexpected_illegal_instr_cnt, covered, sampled, arch>>

get_coverage_report ==
  /\ stage = "open" /\ file = Len(TraceFiles)
  /\ stage' = "report"
  /\ UNCHANGED <<file, row, gpr_state, instr_cnt, pre_instr, expect_illegal_instr, skipped_cnt,
                 unexpected_illegal_instr_cnt, covered, sampled, arch>>

CovNext ==
  \/ OpenFile \/ CloseFile \/ get_coverage_report
  \/ \E e \in RowsHere :
       Malformed(e) \/ Skip(e) \/ NoOpcode(e) \/ Sample(e) \/ Crash(e)
CovSpec == CovInit /\ [][CovNext]_covvars
-----------------------------------------------------------------------------
\* The registers, counters and the last instruction are of the shapes above.
CovTypeOK ==
  /\ stage \in {"open", "read", "report", "crash"}
  /\ file \in 0..Len(TraceFiles) /\ row \in Nat /\ (file > 0 => row <= Len(TraceFiles[file]))
  /\ gpr_state \in [Registers -> RegValues] /\ arch \in [Registers -> RegValues \cup {Unknown}]
  /\ instr_cnt \in 0..row /\ skipped_cnt \in Nat /\ unexpected_illegal_instr_cnt \in Nat
  /\ expect_illegal_instr \in BOOLEAN
  /\ covered \subseteq DOMAIN cg_instantiation
  /\ pre_instr.instr \in HasAttributes \cup {"none"}
  /\ {pre_instr.gpr_hazard, pre_instr.lsu_hazard} \subseteq 0..3

\* A row is sampled by this step, and it is row e.
Samples(e) == instr_cnt' = instr_cnt + 1 /\ sampled' = [e EXCEPT !.address = Address(e)]

\* Nothing fills these points: the three-operand floating-point format has no
\* branch in update_src_regs, and the pre_sample of floating point takes no sign of
\* an immediate or an integer register.
NeverFilled(n) ==
  (IF IsFloat(n) /\ Format(n) = "R_FORMAT"
   THEN {"fs1", "fs2", "fs1_value", "fs2_value", "fs1_sign", "fs2_sign"} ELSE {})
    \cup (IF n \in ToInteger THEN {"rd_sign"} ELSE {})
    \cup (IF n \in FromInteger THEN {"rs1_sign"} ELSE {})
    \cup (IF n = "FSW" THEN {"imm_sign"} ELSE {})
    \cup (IF n = "ADDIW" THEN {"logical_similarity"} ELSE {})
DestFields(n) == {DestField(n), ValueOf[DestField(n)], SignOf[DestField(n)]}

\* No covergroup counts a field left over from the default instruction: every point
\* of the groups a row is sampled into reads a field that this row, or the pass that
\* follows, has filled.  A row without a register update has no destination, and the
\* gaps of NeverFilled remain.
CoverpointsFed ==
  \A cg \in covered : \A p \in Points(cg) :
    p.field \in pre_instr.fed \cup {"cross"} \cup NeverFilled(pre_instr.instr)
                  \cup (IF sampled.gpr = <<>> THEN DestFields(pre_instr.instr) ELSE {})

SourceFields(n, e) == {s[1] : s \in SourcesOf(n, e.operand)} \cap RegFields

\* The operand values that are counted are those the program saw: each source is a
\* register the row reads, with the value it has before the row where an earlier row
\* of the file tells it, and the address is the address accessed.  The registers are
\* a class attribute that the previous files have written too.  The pseudo
\* instructions of two operands take their destination for a source.
OperandsAreArchitectural ==
  [][\A e \in RowsHere : Samples(e) =>
       LET i == pre_instr'
           sources == SourceFields(i.instr, e) \ {DestField(i.instr)}
           class(f) == IF f \in {"rs1", "rs2"} THEN DOMAIN riscv_reg_t ELSE DOMAIN riscv_fpr_t
       IN  /\ \A f \in sources : \E r \in Registers \cap class(f) :
                /\ Number(r) = i.reg[f]
                /\ r \in e.reads \/ (Len(e.operand) = 2 /\ f = "fs2")
                /\ arch[r] # Unknown => i.value[f] = arch[r]
           /\ (e.base # "none" /\ Address(e) # Unknown) => i.mem_addr = Address(e)]_covvars
\* Registers that row e writes, and the hazard of two rows: of several, the first.
WrittenBy(e) == {e.gpr[i][1] : i \in DOMAIN e.gpr}
ReadAfterWrite(d, e) == WrittenBy(d) \cap e.reads # {}
HazardOf(d, e) ==
  IF ReadAfterWrite(d, e) THEN hazard_e.RAW_HAZARD
  ELSE IF WrittenBy(d) \cap WrittenBy(e) # {} THEN hazard_e.WAW_HAZARD
  ELSE IF ReadAfterWrite(e, d) THEN hazard_e.WAR_HAZARD
  ELSE hazard_e.NO_HAZARD
IsMemory(n) == Category(n) \in {"LOAD", "STORE"} /\ ~IsFloat(n)
\* Floating-point arithmetic all of whose registers are filled.
Fused(n) == IsFloat(n) /\ Category(n) = "ARITHMETIC" /\ Format(n) # "R_FORMAT" /\ "fd" \in Has[n]

\* Uncompressed instructions of the integer file.
WholeInteger(n) == ~IsFloat(n) /\ ~Compressed(n)

\* Between two integer instructions no RAW hazard is missed (each pair is counted as
\* one, because fd, fs1 and fs2 keep their initial values); between two floating-point
\* instructions that write fd the hazard is exact; after one that writes rd an
\* uncompressed instruction has a RAW hazard exactly when it reads rd.  The last two
\* only where the rows show the register that is written: without an update, as for
\* x0, the destination is taken for register 0.
RegisterHazardCounted(e) ==
  LET before == pre_instr.instr
      now == pre_instr'.instr
      gpr == pre_instr'.gpr_hazard
  IN  /\ (~IsFloat(before) /\ ~IsFloat(now) /\ ReadAfterWrite(sampled, e))
           => gpr = hazard_e.RAW_HAZARD
      /\ (Fused(before) /\ Fused(now) /\ Len(sampled.gpr) = 1 /\ Len(e.gpr) = 1)
           => gpr = HazardOf(sampled, e)
      /\ (before \in ToInteger /\ (now \in FromInteger \/ WholeInteger(now))
           /\ Len(sampled.gpr) = 1)
           => (gpr = hazard_e.RAW_HAZARD <=> ReadAfterWrite(sampled, e))

\* A load has a RAW hazard exactly with a store to its address, and a store a WAW hazard.
MemoryHazardCounted(e) ==
  LET before == pre_instr.instr
      now == pre_instr'.instr
      lsu == pre_instr'.lsu_hazard
      same == sampled.address = Address(e)
  IN  (IsMemory(before) /\ IsMemory(now) /\ Unknown \notin {sampled.address, Address(e)})
        => /\ lsu = hazard_e.RAW_HAZARD <=>
                (same /\ Category(before) = "STORE" /\ Category(now) = "LOAD")
           /\ lsu = hazard_e.WAW_HAZARD <=>
                (same /\ Category(before) = "STORE" /\ Category(now) = "STORE")

\* The hazard counted with an instruction is the one it has with the instruction
\* sampled before it in the file.  The first instruction of a file has none.
HazardsRecorded ==
  [][\A e \in RowsHere : Samples(e) =>
       IF sampled = NoRow
       THEN pre_instr'.gpr_hazard = hazard_e.NO_HAZARD /\ pre_instr'.lsu_hazard = hazard_e.NO_HAZARD
       ELSE RegisterHazardCounted(e) /\ MemoryHazardCounted(e)]_covvars

\* The rows whose operands the run looks at.
Interpreted(e) ==
  /\ e.shape = "whole" /\ e.instr \notin Pseudo \cup HasAtomicLetters
  /\ update_instr_name(e.instr) \in HasAttributes

\* Where the operands of a row can be converted, in whatever order the log has them,
\* the registers taken for sources are registers the row reads, and of the
\* instructions whose hazards are exact all that it reads; the first source and the
\* immediate of an access are its base and offset.
AsExecuted(e) ==
  LET n == update_instr_name(e.instr)
      sources == SourcesOf(n, e.operand)
      named == {SourceName(e, s) : s \in {t \in sources : t[1] \in RegFields}}
  IN  Parses(n, e) =>
        /\ \A s \in sources : s[1] \in RegFields \ {DestField(n)} =>
             /\ SourceName(e, s) \in Registers
             /\ SourceName(e, s) \in e.reads \/ (Len(e.operand) = 2 /\ s[1] = "fs2")
        /\ (Fused(n) \/ n \in FromInteger \/ WholeInteger(n)) => e.reads \subseteq named
        /\ e.base # "none" =>
             /\ IsMemory(n) /\ {"rs1", "imm"} \subseteq {s[1] : s \in sources}
             /\ \A s \in sources : /\ s[1] = "rs1" => SourceName(e, s) = e.base
                                   /\ s[1] = "imm" => get_val(SourceName(e, s)) = e.offset
RowsAsExecuted == \A e \in RowsHere : Interpreted(e) => AsExecuted(e)

\* Bins that number their members otherwise than hazard_e: the store hazards, which
\* eight immediate and shift groups of the compressed set use for registers too, and
\* the memory hazard of lwu and ld, which reads the hazard of the registers.
Renumbered(p) == p.bins = store_lsu_hazard_e \/ (p.point = "lsu_hazard" /\ p.field = "gpr_hazard")

\* A hazard is counted in the bin of its own name or not at all, but for the bins of
\* Renumbered; a floating-point value is counted with the precision of the
\* instruction it belongs to, but for fsw, whose instance was replaced by that of fsd.
CountedAsItself ==
  \A cg \in covered : \A p \in Points(cg) :
    /\ (p.field \in {"gpr_hazard", "lsu_hazard"} /\ ~Renumbered(p)) =>
         \A b \in DOMAIN p.bins : p.bins[b] = pre_instr[p.field] => hazard_e[b] = pre_instr[p.field]
    /\ (p.point \in DoublePoints /\ p.weight = 1) =>
         get_attr_list[pre_instr.instr].group = "RV32D" \/ pre_instr.instr = "FSW"

\* A trace in the assembler's own order of operands never ends the run before its
\* report, whatever the file before it held: only a name without attributes, dret or an
\* access of floating point does, or operands in another order.
AssembledRowsAccepted ==
  (stage = "crash" /\ update_instr_name(sampled.instr) \in HasAttributes) =>
    sampled.order # "assembler" \/ sampled.instr \in {"DRET", "FLW", "FLD", "FSW", "FSD"}
=============================================================================
