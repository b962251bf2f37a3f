--------------------------- MODULE MCInstrCoverage ---------------------------
(***************************************************************************)
(* Traces for TLC.  Each instruction the attribute table knows may be the  *)
(* first row of the first file, with the operands in the assembler's order *)
(* and, for loads and stores, also in the order in which the converters of *)
(* the simulators' logs write them.  The rows that follow are chosen to    *)
(* read, overwrite, store and reload what the row before wrote, and to be  *)
(* skipped in each of the ways a row can be.  WrittenAssumption compares   *)
(* the operands with the assembler's.                                      *)
(***************************************************************************)
EXTENDS AssembledRows

Trace(n, operand, gpr, reads) ==
  [instr |-> n, operand |-> operand, gpr |-> gpr, shape |-> "whole", illegal |-> FALSE,
   order |-> "assembler", reads |-> reads, base |-> "none", offset |-> 0, address |-> Unknown]
Access(e, base, i) == [e EXCEPT !.base = base, !.offset = get_val(i)]
Writes(r, v) == <<<<r, v>>>>

\* An integer instruction, a row of the attribute table, in the assembler's order:
\* destination d, sources s and t, immediate i, and the value v that is written.
IntRow(a, d, s, t, i, v) ==
  LET W == Writes(d, v)
      n == a.name
      f == a.format
      c == a.category
  IN  CASE n = "SFENCE_VMA" -> Trace(n, <<"ZERO", "ZERO">>, <<>>, {})
        [] c = "SYSTEM" \/ n \in {"NOP", "WFI", "FENCE", "FENCE_I", "C_NOP"} -> Trace(n, <<"">>, <<>>, {})
        [] n \in {"C_LWSP", "C_LDSP"} -> Access(Trace(n, <<d, i, "SP">>, W, {"SP"}), "SP", i)
        [] n = "C_ADDI4SPN" -> Trace(n, <<d, "SP", i>>, W, {"SP"})
        [] n = "C_ADDI16SP" -> Trace(n, <<"SP", i>>, Writes("SP", v), {"SP"})
        [] n \in {"C_LI", "C_LUI"} -> Trace(n, <<d, i>>, W, {})
        [] n = "C_MV" -> Trace(n, <<d, s>>, W, {s})
        [] n \in {"C_JR", "C_JALR"} -> Trace(n, <<s>>, <<>>, {s})
        [] f \in {"J_FORMAT", "U_FORMAT"} -> Trace(n, <<d, i>>, W, {})
        [] f \in {"I_FORMAT", "CL_FORMAT"} /\ c = "LOAD" -> Access(Trace(n, <<d, i, s>>, W, {s}), s, i)
        [] f = "I_FORMAT" /\ c = "CSR" -> Trace(n, <<d, "MEPC", i>>, W, {})
        [] f = "R_FORMAT" /\ c = "CSR" -> Trace(n, <<d, "MSCRATCH", s>>, W, {s})
        [] f \in {"S_FORMAT", "CS_FORMAT"} -> Access(Trace(n, <<t, i, s>>, <<>>, {s, t}), s, i)
        [] f = "CSS_FORMAT" -> Access(Trace(n, <<t, i, "SP">>, <<>>, {t, "SP"}), "SP", i)
        [] f = "B_FORMAT" -> Trace(n, <<s, t, i>>, <<>>, {s, t})
        [] f = "CB_FORMAT" /\ c = "BRANCH" -> Trace(n, <<s, i>>, <<>>, {s})
        [] f = "CJ_FORMAT" -> Trace(n, <<i>>, <<>>, {})
        [] f \in {"CA_FORMAT", "CR_FORMAT"} -> Trace(n, <<d, s>>, W, {d, s})
        [] f = "R_FORMAT" -> Trace(n, <<d, s, t>>, W, {s, t})
        [] f = "I_FORMAT" -> Trace(n, <<d, s, i>>, W, {s})
        [] OTHER -> Trace(n, <<d, i>>, W, {d})

\* A floating-point instruction: integer register x, destination d, sources s and t.
FpRow(a, x, d, s, t, v) ==
  LET n == a.name
      f == a.format
      c == a.category
  IN  CASE c = "STORE" \/ n = "FSD" -> Trace(n, <<s, "0", x>>, <<>>, {x, s})
        [] c = "LOAD" /\ n # "FSD" -> Trace(n, <<d, "0", x>>, Writes(d, v), {x})
        [] n \in ToInteger \cup {"FCLASS_S", "FCLASS_D"} -> Trace(n, <<x, s>>, Writes(x, v), {s})
        [] n \in FromInteger -> Trace(n, <<d, x>>, Writes(d, v), {x})
        [] c = "COMPARE" -> Trace(n, <<x, s, t>>, Writes(x, v), {s, t})
        [] f = "I_FORMAT" -> Trace(n, <<d, s>>, Writes(d, v), {s})
        [] f = "R4_FORMAT" -> Trace(n, <<d, s, t, s>>, Writes(d, v), {s, t})
        [] OTHER -> Trace(n, <<d, s, t>>, Writes(d, v), {s, t})
Assembled(a) ==
  IF a.group \in {"RV32F", "RV32D"} THEN FpRow(a, "A0", "FA0", "FA1", "FA0", 1)
  ELSE IntRow(a, "A0", "A1", "SP", "1", 1)
Named(names) == {a \in AttrRows : a.name \in names}

\* Loads and stores in the order of the converters too: both operands of an address,
\* the immediate last.
ByConverter(e) == [e EXCEPT !.order = "converter", !.operand = <<@[1], @[3], @[2]>>]
NamesAnAddress(e) == Len(e.operand) = 3 /\ e.operand[2] \in Immediates
Orders(e) == {e} \cup (IF NamesAnAddress(e) THEN {ByConverter(e)} ELSE {})
Broken == [Trace("LW", <<>>, <<>>, {}) EXCEPT !.shape = "malformed"]
mcSkipped ==
  {Broken, Trace("LI", <<"A1", "1">>, Writes("A1", 2), {}), Trace("RET", <<"">>, <<>>, {"RA"}),
   Trace("AMOADD_W", <<"A0", "A1", "SP">>, Writes("A0", 2), {"A1", "SP"}),
   Trace("UNIMP", <<"">>, <<>>, {}), [Trace("UNIMP", <<"">>, <<>>, {}) EXCEPT !.illegal = TRUE]}
mcAny == UNION {Orders(Assembled(a)) : a \in AttrRows}
           \cup {Trace(n, <<"A0">>, Writes("A0", 1), {}) : n \in {"CLZ", "FCVT_L_S", "VADD", "C_FLW"}}
           \cup {Trace("FCVT_W_S", <<"ZERO", "FA0">>, <<>>, {"FA0"})} \cup mcSkipped
mcCore ==
  mcSkipped
    \cup {IntRow(a, d, s, "A1", "1", 2) : a \in Named({"ADD", "SW", "LW"}), d \in {"A0", "A1"}, s \in {"A0", "A1"}}
    \cup {IntRow(a, "A0", "SP", "A0", "0", 0) :
            a \in Named({"C_LWSP", "BLT", "ADDIW", "LWU", "C_ADDI", "CSRRWI", "NOP"})}
    \cup UNION {Orders(FpRow(a, "A0", "FA1", "FA0", "FA0", 2)) :
            a \in Named({"FMADD_S", "FSQRT_D", "FCVT_W_S", "FCVT_S_W", "FSW", "FADD_S"})}
    \cup {FpRow(a, "ZERO", "FT0", f, "FA1", 1) : a \in Named({"FMADD_S", "FCVT_S_W"}), f \in {"FT0", "FA0"}}
    \cup {Trace("FMV_S", <<"FA0", "FA1">>, Writes("FA0", 2), {"FA1"}), Trace("ADD", <<"ZERO", "A0", "A1">>, <<>>, {"A0", "A1"})}
mcFew ==
  {Assembled(a) : a \in Named({"LW", "SW", "ADD", "FMADD_S", "FCVT_W_S"})}
    \cup {Trace("ADDI", <<"SP", "A1", "1">>, Writes("SP", 1), {"A1"})}

mcTraceFiles == <<<<mcAny, mcCore, mcFew>>, <<mcFew, mcFew>>>>
mcRegisters == {"ZERO", "SP", "A0", "A1", "FT0", "FA0", "FA1"}
mcIsa == {"RV32I", "RV32M", "RV32C", "RV32F", "RV32D", "RV64I", "RV64M", "RV64C"}
=============================================================================
