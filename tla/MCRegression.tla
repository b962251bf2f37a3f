---------------------------- MODULE MCRegression -----------------------------
EXTENDS Regression

\* Two batches of one test, a test on which the simulators differ, and a test
\* that is not simulated.
MCTests ==
  [arith |-> [iterations |-> 3, gen_test |-> "riscv_instr_base_test", no_gcc |-> FALSE, no_iss |-> FALSE],
   jump  |-> [iterations |-> 1, gen_test |-> "riscv_rand_instr_test", no_gcc |-> FALSE, no_iss |-> FALSE],
   riscv_csr_test |->
     [iterations |-> 1, gen_test |-> "gen_csr_test", no_gcc |-> FALSE, no_iss |-> TRUE]]

MCDirected == <<[name |-> "boot", dir |-> TRUE]>>
MCIssList == <<"spike", "ovpsim">>

\* A program shows which one it is, passes an instruction without a write and
\* ends; the simulators differ on the jump test.
MCExecution(iss, p) ==
  <<<<<<"a0", p.seed>>>>, <<>>,
    <<<<"a1", p.index + (IF p.test = "jump" /\ iss = "ovpsim" THEN 2 ELSE 1)>>>>, <<>>>>

All == {"gen", "gcc", "sim", "cmp"}

Option(steps, simulator, lsf, seeds, tests) ==
  [steps |-> steps, simulator |-> simulator, lsf |-> lsf, seeds |-> seeds, tests |-> tests]

MCOptions ==
  {Option(All, "vcs", FALSE, "random", <<"arith", "jump">>),
   Option(All, "vcs", TRUE, "start", <<"arith", "jump">>),
   Option({"gen"}, "vcs", TRUE, "random", <<"jump", "arith">>),
   Option({"gcc", "sim", "cmp"}, "vcs", FALSE, "random", <<"arith">>),
   Option({"sim", "cmp"}, "vcs", FALSE, "random", <<"arith", "jump">>),
   Option(All, "vcs", FALSE, "yaml", <<"arith">>),
   Option(All, "ius", FALSE, "fixed", <<"arith", "riscv_csr_test">>),
   Option({"gen", "gcc"}, "pyflow", FALSE, "random", <<"arith", "jump">>),
   Option(All, "pyflow", FALSE, "random", <<"jump", "arith">>)}

MCValues == Nat
==============================================================================
