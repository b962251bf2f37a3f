--------------------------- MODULE InstrAttributes ---------------------------
(***************************************************************************)
(* What riscv_instr_pkg.py knows of an instruction: its name, and in       *)
(* get_attr_list the format, category and group of some of the names.  The *)
(* immediate type, the fourth attribute, only bounds special values of     *)
(* immediates and is left out.                                             *)
(***************************************************************************)
EXTENDS Integers

\* riscv_instr_name_t: the names get_attr_list does not know, by the sections of
\* the enumeration.  The names it knows are those of the rows further down.
Rv32bNames == {"ANDN", "ORN", "XNOR", "GORC", "SLO", "SRO", "ROL", "ROR", "SBCLR", "SBSET",
  "SBINV", "SBEXT", "GREV", "SLOI", "SROI", "RORI", "SBCLRI", "SBSETI", "SBINVI", "SBEXTI",
  "GORCI", "GREVI", "CMIX", "CMOV", "FSL", "FSR", "FSRI", "CLZ", "CTZ", "PCNT", "SEXT_B",
  "SEXT_H", "CRC32_B", "CRC32_H", "CRC32_W", "CRC32C_B", "CRC32C_H", "CRC32C_W", "CLMUL",
  "CLMULR", "CLMULH", "MIN", "MAX", "MINU", "MAXU", "SHFL", "UNSHFL", "BDEP", "BEXT", "PACK",
  "PACKU", "BMATOR", "BMATXOR", "PACKH", "BFP", "SHFLI", "UNSHFLI"}
Rv64bNames == {"ADDIWU", "SLLIU_W", "ADDWU", "SUBWU", "BMATFLIP", "CRC32_D", "CRC32C_D", "ADDU_W",
  "SUBU_W", "SLOW", "SROW", "ROLW", "RORW", "SBCLRW", "SBSETW", "SBINVW", "SBEXTW", "GORCW",
  "GREVW", "SLOIW", "SROIW", "RORIW", "SBCLRIW", "SBSETIW", "SBINVIW", "GORCIW", "GREVIW", "FSLW",
  "FSRW", "FSRIW", "CLZW", "CTZW", "PCNTW", "CLMULW", "CLMULRW", "CLMULHW", "SHFLW", "UNSHFLW",
  "BDEPW", "BEXTW", "PACKW", "PACKUW", "BFPW"}
Rv64FloatNames == {"FCVT_L_S", "FCVT_LU_S", "FCVT_S_L", "FCVT_S_LU", "FCVT_L_D", "FCVT_LU_D",
  "FMV_X_D", "FCVT_D_L", "FCVT_D_LU", "FMV_D_X"}
Rv128cNames == {"C_SRLI64", "C_SRAI64", "C_SLLI64", "C_LQ", "C_SQ", "C_LQSP", "C_SQSP"}
CompressedFloatNames == {"C_FLW", "C_FSW", "C_FLWSP", "C_FSWSP", "C_FLD", "C_FSD", "C_FLDSP",
  "C_FSDSP"}
AtomicNames == {"LR_W", "SC_W", "AMOSWAP_W", "AMOADD_W", "AMOAND_W", "AMOOR_W", "AMOXOR_W",
  "AMOMIN_W", "AMOMAX_W", "AMOMINU_W", "AMOMAXU_W", "LR_D", "SC_D", "AMOSWAP_D", "AMOADD_D",
  "AMOAND_D", "AMOOR_D", "AMOXOR_D", "AMOMIN_D", "AMOMAX_D", "AMOMINU_D", "AMOMAXU_D"}
VectorIntegerNames == {"VSETVL", "VSETVLI", "VADD", "VSUB", "VRSUB", "VWADDU", "VWSUBU", "VWADD",
  "VWSUB", "VADC", "VMADC", "VSBC", "VMSBC", "VAND", "VOR", "VXOR", "VSLL", "VSRL", "VSRA",
  "VNSRL", "VNSRA", "VMSEQ", "VMSNE", "VMSLTU", "VMSLT", "VMSLEU", "VMSLE", "VMSGTU", "VMSGT",
  "VMINU", "VMIN", "VMAXU", "VMAX", "VMUL", "VMULH", "VMULHU", "VMULHSU", "VDIVU", "VDIV",
  "VREMU", "VREM", "VWMUL", "VWMULU", "VWMULSU", "VMACC", "VNMSAC", "VMADD", "VNMSUB", "VWMACCU",
  "VWMACC", "VWMACCSU", "VWMACCUS", "VMERGE", "VMV", "VSADDU", "VSADD", "VSSUBU", "VSSUB",
  "VAADDU", "VAADD", "VASUBU", "VASUB", "VSSRL", "VSSRA", "VNCLIPU", "VNCLIP"}
VectorFloatNames == {"VFADD", "VFSUB", "VFRSUB", "VFMUL", "VFDIV", "VFRDIV", "VFWMUL", "VFMACC",
  "VFNMACC", "VFMSAC", "VFNMSAC", "VFMADD", "VFNMADD", "VFMSUB", "VFNMSUB", "VFWMACC", "VFWNMACC",
  "VFWMSAC", "VFWNMSAC", "VFSQRT_V", "VFMIN", "VFMAX", "VFSGNJ", "VFSGNJN", "VFSGNJX", "VMFEQ",
  "VMFNE", "VMFLT", "VMFLE", "VMFGT", "VMFGE", "VFCLASS_V", "VFMERGE", "VFMV", "VFCVT_XU_F_V",
  "VFCVT_X_F_V", "VFCVT_F_XU_V", "VFCVT_F_X_V", "VFWCVT_XU_F_V", "VFWCVT_X_F_V", "VFWCVT_F_XU_V",
  "VFWCVT_F_X_V", "VFWCVT_F_F_V", "VFNCVT_XU_F_W", "VFNCVT_X_F_W", "VFNCVT_F_XU_W",
  "VFNCVT_F_X_W", "VFNCVT_F_F_W", "VFNCVT_ROD_F_F_W"}
VectorReductionNames == {"VREDSUM_VS", "VREDMAXU_VS", "VREDMAX_VS", "VREDMINU_VS", "VREDMIN_VS",
  "VREDAND_VS", "VREDOR_VS", "VREDXOR_VS", "VWREDSUMU_VS", "VWREDSUM_VS", "VFREDOSUM_VS",
  "VFREDSUM_VS", "VFREDMAX_VS", "VFWREDOSUM_VS", "VFWREDSUM_VS"}
VectorMaskNames == {"VMAND_MM", "VMNAND_MM", "VMANDNOT_MM", "VMXOR_MM", "VMOR_MM", "VMNOR_MM",
  "VMORNOT_MM", "VMXNOR_MM", "VPOPC_M", "VFIRST_M", "VMSBF_M", "VMSIF_M", "VMSOF_M", "VIOTA_M",
  "VID_V"}
VectorPermuteNames == {"VMV_X_S", "VMV_S_X", "VFMV_F_S", "VFMV_S_F", "VSLIDEUP", "VSLIDEDOWN",
  "VSLIDE1UP", "VSLIDE1DOWN", "VRGATHER", "VCOMPRESS", "VMV1R_V", "VMV2R_V", "VMV4R_V", "VMV8R_V"}
VectorMemoryNames == {"VLE_V", "VSE_V", "VLSE_V", "VSSE_V", "VLXEI_V", "VSXEI_V", "VSUXEI_V",
  "VLEFF_V", "VLSEGE_V", "VSSEGE_V", "VLSEGEFF_V", "VLSSEGE_V", "VSSSEGE_V", "VLXSEGEI_V",
  "VSXSEGEI_V", "VSUXSEGEI_V", "VAMOSWAPE_V", "VAMOADDE_V", "VAMOXORE_V", "VAMOANDE_V",
  "VAMOORE_V", "VAMOMINE_V", "VAMOMAXE_V", "VAMOMINUE_V", "VAMOMAXUE_V"}
LastNames == {"INVALID_INSTR"}
NamesOnly == UNION {Rv32bNames, Rv64bNames, Rv64FloatNames, Rv128cNames, CompressedFloatNames,
  AtomicNames, VectorIntegerNames, VectorFloatNames, VectorReductionNames,
  VectorMaskNames, VectorPermuteNames, VectorMemoryNames, LastNames}
-----------------------------------------------------------------------------
\* Rows of the switcher of get_attr_list.
Row(format, category, group, names) ==
  {[name |-> n, format |-> format, category |-> category, group |-> group] : n \in names}

Rv32iMemory ==
  Row("I_FORMAT", "LOAD", "RV32I", {"LB", "LH", "LW", "LBU", "LHU"})
    \cup Row("S_FORMAT", "STORE", "RV32I", {"SB", "SH", "SW"})
Rv32iCompute ==
  Row("R_FORMAT", "SHIFT", "RV32I", {"SLL", "SRL", "SRA"})
    \cup Row("I_FORMAT", "SHIFT", "RV32I", {"SLLI", "SRLI", "SRAI"})
    \cup Row("R_FORMAT", "ARITHMETIC", "RV32I", {"ADD", "SUB"})
    \cup Row("I_FORMAT", "ARITHMETIC", "RV32I", {"ADDI", "NOP"})
    \cup Row("U_FORMAT", "ARITHMETIC", "RV32I", {"LUI", "AUIPC"})
    \cup Row("R_FORMAT", "LOGICAL", "RV32I", {"XOR", "OR", "AND"})
    \cup Row("I_FORMAT", "LOGICAL", "RV32I", {"XORI", "ORI", "ANDI"})
    \cup Row("R_FORMAT", "COMPARE", "RV32I", {"SLT", "SLTU"})
    \cup Row("I_FORMAT", "COMPARE", "RV32I", {"SLTI", "SLTIU"})
Rv32iControl ==
  Row("B_FORMAT", "BRANCH", "RV32I", {"BEQ", "BNE", "BLT", "BGE", "BLTU", "BGEU"})
    \cup Row("J_FORMAT", "JUMP", "RV32I", {"JAL"})
    \cup Row("I_FORMAT", "JUMP", "RV32I", {"JALR"})
    \cup Row("I_FORMAT", "SYNCH", "RV32I", {"FENCE", "FENCE_I"})
    \cup Row("R_FORMAT", "SYNCH", "RV32I", {"SFENCE_VMA"})
    \cup Row("I_FORMAT", "SYSTEM", "RV32I", {"ECALL", "EBREAK", "URET", "SRET", "MRET", "DRET"})
    \cup Row("I_FORMAT", "INTERRUPT", "RV32I", {"WFI"})
    \cup Row("R_FORMAT", "CSR", "RV32I", {"CSRRW", "CSRRS", "CSRRC"})
    \cup Row("I_FORMAT", "CSR", "RV32I", {"CSRRWI", "CSRRSI", "CSRRCI"})
Rv32mRows ==
  Row("R_FORMAT", "ARITHMETIC", "RV32M", {"MUL", "MULH", "MULHU", "MULHSU", "DIV", "DIVU", "REM",
        "REMU"})
Rv32cRows ==
  Row("CL_FORMAT", "LOAD", "RV32C", {"C_LW"})
    \cup Row("CS_FORMAT", "STORE", "RV32C", {"C_SW"})
    \cup Row("CI_FORMAT", "LOAD", "RV32C", {"C_LWSP"})
    \cup Row("CSS_FORMAT", "STORE", "RV32C", {"C_SWSP"})
    \cup Row("CIW_FORMAT", "ARITHMETIC", "RV32C", {"C_ADDI4SPN"})
    \cup Row("CI_FORMAT", "ARITHMETIC", "RV32C", {"C_ADDI", "C_ADDI16SP", "C_LI", "C_LUI",
        "C_NOP"})
    \cup Row("CA_FORMAT", "ARITHMETIC", "RV32C", {"C_SUB"})
    \cup Row("CR_FORMAT", "ARITHMETIC", "RV32C", {"C_ADD", "C_MV"})
    \cup Row("CB_FORMAT", "LOGICAL", "RV32C", {"C_ANDI"})
    \cup Row("CA_FORMAT", "LOGICAL", "RV32C", {"C_XOR", "C_OR", "C_AND"})
    \cup Row("CB_FORMAT", "BRANCH", "RV32C", {"C_BEQZ", "C_BNEZ"})
    \cup Row("CB_FORMAT", "SHIFT", "RV32C", {"C_SRLI", "C_SRAI"})
    \cup Row("CI_FORMAT", "SHIFT", "RV32C", {"C_SLLI"})
    \cup Row("CJ_FORMAT", "JUMP", "RV32C", {"C_J", "C_JAL"})
    \cup Row("CR_FORMAT", "JUMP", "RV32C", {"C_JR", "C_JALR"})
    \cup Row("CI_FORMAT", "SYSTEM", "RV32C", {"C_EBREAK"})
Rv32fRows ==
  Row("I_FORMAT", "LOAD", "RV32F", {"FLW"})
    \cup Row("S_FORMAT", "STORE", "RV32F", {"FSW"})
    \cup Row("R4_FORMAT", "ARITHMETIC", "RV32F", {"FMADD_S", "FMSUB_S", "FNMSUB_S", "FNMADD_S"})
    \cup Row("R_FORMAT", "ARITHMETIC", "RV32F", {"FADD_S", "FSUB_S", "FMUL_S", "FDIV_S",
        "FSGNJ_S", "FSGNJN_S", "FSGNJX_S", "FMIN_S", "FMAX_S", "FCLASS_S"})
    \cup Row("I_FORMAT", "ARITHMETIC", "RV32F", {"FSQRT_S", "FCVT_W_S", "FCVT_WU_S", "FMV_X_W",
        "FCVT_S_W", "FCVT_S_WU", "FMV_W_X"})
    \cup Row("R_FORMAT", "COMPARE", "RV32F", {"FEQ_S", "FLT_S", "FLE_S"})
Rv32dRows ==
  Row("I_FORMAT", "LOAD", "RV32D", {"FLD", "FSD"})
    \cup Row("R4_FORMAT", "ARITHMETIC", "RV32D", {"FMADD_D", "FMSUB_D", "FNMSUB_D", "FNMADD_D"})
    \cup Row("R_FORMAT", "ARITHMETIC", "RV32D", {"FADD_D", "FSUB_D", "FMUL_D", "FDIV_D",
        "FSGNJ_D", "FSGNJN_D", "FSGNJX_D", "FMIN_D", "FMAX_D", "FCLASS_D"})
    \cup Row("I_FORMAT", "ARITHMETIC", "RV32D", {"FSQRT_D", "FCVT_S_D", "FCVT_D_S", "FCVT_W_D",
        "FCVT_WU_D", "FCVT_D_W", "FCVT_D_WU"})
    \cup Row("R_FORMAT", "COMPARE", "RV32D", {"FEQ_D", "FLT_D", "FLE_D"})
Rv64iRows ==
  Row("I_FORMAT", "LOAD", "RV64I", {"LWU", "LD"})
    \cup Row("S_FORMAT", "STORE", "RV64I", {"SD"})
    \cup Row("R_FORMAT", "SHIFT", "RV64I", {"SLLW", "SRLW", "SRAW"})
    \cup Row("I_FORMAT", "SHIFT", "RV64I", {"SLLIW", "SRLIW", "SRAIW"})
    \cup Row("R_FORMAT", "ARITHMETIC", "RV64I", {"ADDW", "SUBW"})
    \cup Row("I_FORMAT", "ARITHMETIC", "RV64I", {"ADDIW"})
Rv64mRows ==
  Row("R_FORMAT", "ARITHMETIC", "RV64M", {"MULW", "DIVW", "DIVUW", "REMW", "REMUW"})
Rv64cRows ==
  Row("CI_FORMAT", "ARITHMETIC", "RV64C", {"C_ADDIW"})
    \cup Row("CA_FORMAT", "ARITHMETIC", "RV64C", {"C_SUBW", "C_ADDW"})
    \cup Row("CL_FORMAT", "LOAD", "RV64C", {"C_LD"})
    \cup Row("CS_FORMAT", "STORE", "RV64C", {"C_SD"})
    \cup Row("CI_FORMAT", "LOAD", "RV64C", {"C_LDSP"})
    \cup Row("CSS_FORMAT", "STORE", "RV64C", {"C_SDSP"})
AttrRows ==
  Rv32iMemory \cup Rv32iCompute \cup Rv32iControl \cup Rv32mRows \cup Rv32cRows
    \cup Rv32fRows \cup Rv32dRows \cup Rv64iRows \cup Rv64mRows \cup Rv64cRows
HasAttributes == {r.name : r \in AttrRows}
riscv_instr_name_t == NamesOnly \cup HasAttributes
get_attr_list == [n \in HasAttributes |-> CHOOSE r \in AttrRows : r.name = n]
=============================================================================
