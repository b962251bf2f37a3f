----------------------------- MODULE Regression ------------------------------
(* run.py, the driver of the random instruction tests: it generates programs, *)
(* compiles them, runs them on two instruction set simulators and compares    *)
(* the traces.  The steps of an invocation are options; what they hand on to  *)
(* each other, and to the next invocation, are files of one output directory  *)
(* that is never cleaned.                                                     *)
EXTENDS TraceRows, Integers, SequencesExt

CONSTANTS Tests,            \* testlist: name -> [iterations, gen_test, no_gcc, no_iss]
          Directed,         \* its directed tests: sequence of [name, dir]
          BatchSize,        \* -bz; 0: one batch
          IssList,          \* --iss
          Execution(_, _),  \* the rows of a program on a simulator, the ecall last
          Options,          \* option sets an invocation may have
          StartSeed, MaxInvocations, MaxFaults, None

VARIABLES inv, opts,        \* the invocation and its options
          phase, todo,      \* the step and the commands it has left
          asm, elf, log,    \* files, by job (a test and an iteration) and simulator
          sim_seed, seed_yaml, report,
          exit, faults,
          children          \* commands that outlived an interrupted invocation

\* History: what was done since.
VARIABLES sown, kept,       \* jobs whose program the drawn, the saved seeds gave
          built,            \* jobs compiled since their program was written
          ran,              \* logs made since the binary was
          clean             \* this invocation met no fault and no leftover command

files == <<asm, elf, log, sim_seed, seed_yaml, report>>
hist  == <<sown, kept, built, ran>>
tally == <<faults, clean>>
vars  == <<inv, opts, phase, todo, files, exit, children, hist, tally>>

ASSUME TestsAssumption ==
  \A t \in DOMAIN Tests :
    /\ Tests[t].iterations \in Nat \ {0}   \* process_regression_list drops the others
    /\ Tests[t].gen_test # None

ASSUME OptionsAssumption ==
  /\ IssList \in Seq(STRING) /\ BatchSize \in Nat /\ StartSeed \in Nat
  /\ \A o \in Options : o.tests \in Seq(DOMAIN Tests)

ASSUME BoundsAssumption == MaxInvocations \in Nat /\ MaxFaults \in Nat

Jobs == UNION {{<<t, i>> : i \in 0..(Tests[t].iterations - 1)} : t \in DOMAIN Tests}
Sims == Range(IssList)
Comparing == Len(IssList) = 2

-----------------------------------------------------------------------------
(* Jobs, batches and commands of an invocation with options o.                *)

\* --seed implies one iteration.
Iterations(o, t) == IF o.seeds = "fixed" THEN 1 ELSE Tests[t].iterations

IsCsr(t) == t = "riscv_csr_test"

batch_cnt(o, t) ==
  IF BatchSize = 0 \/ IsCsr(t) THEN 1
  ELSE (Iterations(o, t) + BatchSize - 1) \div BatchSize

test_cnt(o, t, b) ==
  IF b < batch_cnt(o, t) - 1 THEN BatchSize ELSE Iterations(o, t) - b * BatchSize

start_idx(b) == b * BatchSize

\* n[t] commands for each test t, counted from 0.
Listing(o, n) ==
  FlattenSeq([k \in DOMAIN o.tests |-> [m \in 1..n[o.tests[k]] |-> <<o.tests[k], m - 1>>]])

BatchesOf(o) == Listing(o, [t \in DOMAIN Tests |-> batch_cnt(o, t)])
JobsOf(o) == Listing(o, [t \in DOMAIN Tests |-> Iterations(o, t)])
GccJobsOf(o) ==
  Listing(o, [t \in DOMAIN Tests |-> IF Tests[t].no_gcc THEN 0 ELSE Iterations(o, t)])
SimsOf(o) ==
  LET jobs == Listing(o, [t \in DOMAIN Tests |-> IF Tests[t].no_iss THEN 0 ELSE Iterations(o, t)])
  IN  FlattenSeq([k \in DOMAIN IssList |-> [m \in DOMAIN jobs |-> <<IssList[k], jobs[m]>>]])

\* A number no other draw gives.
Drawn(t, b, k) ==
  1000 * inv + 100 * (CHOOSE n \in DOMAIN opts.tests : opts.tests[n] = t) + 10 * b + k

\* SeedGen: a seed file, else --seed, else --start_seed, else a random number.
SeedFor(t, b) ==
  IF opts.seeds = "yaml" /\ <<t, b>> \in DOMAIN seed_yaml THEN seed_yaml[<<t, b>>]
  ELSE CASE opts.seeds = "fixed" -> StartSeed
         [] opts.seeds = "start" -> StartSeed + b * batch_cnt(opts, t)
         [] OTHER -> Drawn(t, b, 0)

Seeded == {e \in Range(BatchesOf(opts)) : ~IsCsr(e[1])}
Seeds == [e \in Seeded |-> SeedFor(e[1], e[2])]

(* The Python generator is a script per test, but the first test's name is    *)
(* substituted in the command of every later one.  The base script makes      *)
(* nothing for another test's name; the random one ignores the name.          *)
Maker(t) ==
  IF opts.simulator # "pyflow" \/ IsCsr(t) THEN Tests[t].gen_test
  ELSE LET first == Min({n \in DOMAIN opts.tests : ~IsCsr(opts.tests[n])})
           script == Tests[opts.tests[first]].gen_test
       IN  IF script = "riscv_rand_instr_test" \/ script = Tests[t].gen_test
           THEN script ELSE None

\* ... and seeds only the first program of a batch from the command line.
Program(t, b, k) ==
  [test |-> t, gen |-> Maker(t), index |-> k,
   seed |-> IF <<t, b>> \in Seeded /\ (opts.simulator = "pyflow" => k = 0)
            THEN sim_seed[<<t, b>>] ELSE Drawn(t, b, k)]

BatchOf(j) == IF BatchSize = 0 THEN 0 ELSE j[2] \div BatchSize

\* What a rerun of the test with the seeds y generates.
RecordedAs(y, j) ==
  [test |-> j[1], gen |-> Tests[j[1]].gen_test, seed |-> y[<<j[1], BatchOf(j)>>],
   index |-> j[2] - start_idx(BatchOf(j))]

-----------------------------------------------------------------------------
(* Logs and verdicts.  A log holds the first rows of an execution, all of     *)
(* them unless the simulator was stopped, and none if there was no program.   *)
(* What two simulators wrote into one log can be anything.                    *)

Log(prog, n) == [prog |-> prog, rows |-> n, mixed |-> FALSE]
Mixed == [prog |-> None, rows |-> 0, mixed |-> TRUE]

Executed(iss, prog) == IF prog = None THEN <<>> ELSE Execution(iss, prog)
Complete(iss, prog) == Len(Executed(iss, prog))

\* The rows that write a register.
Written(rows) == FlattenSeq([n \in DOMAIN rows |-> IF rows[n] = <<>> THEN <<>> ELSE <<rows[n]>>])

\* Mutant: the ecall is cut from OVPsim's log, so the row before it is never written.
Converted_NoEcall(iss, l) ==
  LET rows == SubSeq(Executed(iss, l.prog), 1, l.rows)
      whole == l.rows > 0 /\ l.rows = Complete(iss, l.prog)
  IN  IF iss = "ovpsim" THEN SubSeq(rows, 1, l.rows - (IF whole THEN 2 ELSE 1))
      ELSE Written(rows) \o IF whole THEN <<<<>>>> ELSE <<>>

\* Spike's converter keeps the rows that write a register and the final ecall;
\* OVPsim's writes a row when it meets the next one, so never the last.
Converted(iss, l) ==
  LET rows == SubSeq(Executed(iss, l.prog), 1, l.rows)
      whole == l.rows > 0 /\ l.rows = Complete(iss, l.prog)
  IN  IF iss = "ovpsim" THEN SubSeq(rows, 1, l.rows - 1)
      ELSE Written(rows) \o IF whole THEN <<<<>>>> ELSE <<>>

\* The converter of OVPsim exits on a log without instructions.
Unusable(iss, l) == iss = "ovpsim" /\ l.rows < 2

Compared(l1, l2) == Passes(Converted(IssList[1], l1), Converted(IssList[2], l2))

\* save_regr_report counts every line of the report with the word in it, its
\* own earlier summaries too.
Lines(r, verdict) == Cardinality({n \in DOMAIN r : r[n].kind \in {"summary", verdict}})

save_regr_report(r) ==
  Append(r, [kind |-> "summary", passed |-> Lines(r, "PASSED"), failed |-> Lines(r, "FAILED")])

Verdict(name, passed) == [kind |-> IF passed THEN "PASSED" ELSE "FAILED", of |-> name]

-----------------------------------------------------------------------------
(* The steps of main, in order.  "seeds" and "save" stand around the          *)
(* generation, "clear" and "summary" around the comparison.                   *)

Order == <<"directed", "compile", "seeds", "gen", "save", "gcc", "sim", "clear", "cmp",
           "summary", "end">>

Asked(p) ==
  CASE p \in {"directed", "compile", "seeds", "gen", "save"} -> "gen" \in opts.steps
    [] p \in {"clear", "cmp", "summary"} -> "cmp" \in opts.steps /\ Comparing
    [] p \in {"gcc", "sim"} -> p \in opts.steps
    [] p = "end" -> TRUE

CommandsOf(p) ==
  CASE p = "directed" -> Directed
    [] p = "gen" -> BatchesOf(opts)
    [] p = "gcc" -> GccJobsOf(opts)
    [] p = "sim" -> SimsOf(opts)
    [] p = "cmp" -> JobsOf(opts)
    [] OTHER -> <<>>

Proceed ==
  LET from == IF phase = "start" THEN 0 ELSE CHOOSE n \in DOMAIN Order : Order[n] = phase
      to == Order[Min({n \in DOMAIN Order : n > from /\ Asked(Order[n])})]
  IN  phase' = to /\ todo' = CommandsOf(to)

Stop(code) == phase' = "idle" /\ todo' = <<>> /\ exit' = code

Fault == faults < MaxFaults /\ faults' = faults + 1 /\ clean' = FALSE

Init ==
  /\ inv = 0 /\ opts \in Options
  /\ phase = "idle" /\ todo = <<>>
  /\ asm = [j \in Jobs |-> None]
  /\ elf = [j \in Jobs |-> None]
  /\ log = [x \in Sims \X Jobs |-> None]
  /\ sim_seed = <<>> /\ seed_yaml = None /\ report = <<>>
  /\ exit = "none" /\ faults = 0 /\ children = {}
  /\ sown = {} /\ kept = {} /\ built = {} /\ ran = {} /\ clean = TRUE

\* The output directory keeps what earlier invocations left.
Invoke ==
  /\ phase = "idle"
  /\ inv < MaxInvocations
  /\ inv' = inv + 1
  /\ opts' \in Options
  /\ phase' = "start"
  /\ exit' = "none"
  /\ clean' = (children = {})
  /\ UNCHANGED <<todo, files, faults, children, hist>>

NextStep ==
  /\ phase \in {"start", "directed", "gen", "gcc", "sim", "cmp"}
  /\ todo = <<>>
  /\ Proceed
  /\ UNCHANGED <<inv, opts, files, exit, children, hist, tally>>

\* run_assembly, run_c: a directed test is compiled, run and compared at once.
RunDirected ==
  /\ phase = "directed" /\ todo # <<>>
  /\ LET d == Head(todo)
         prog == [test |-> d.name, gen |-> "directed", index |-> 0, seed |-> 0]
         Logs(iss) == {Log(prog, n) : n \in 0..Complete(iss, prog)}
         whole == <<Complete(IssList[1], prog), Complete(IssList[2], prog)>>
     IN  \/ /\ Fault
            /\ Stop("failure")
            /\ UNCHANGED report
         \/ \E l1 \in Logs(IssList[1]), l2 \in Logs(IssList[2]) :
              /\ IF <<l1.rows, l2.rows>> = whole THEN UNCHANGED tally ELSE Fault
              /\ IF Unusable(IssList[1], l1) \/ Unusable(IssList[2], l2)
                 THEN Stop("fatal") /\ UNCHANGED report
                 ELSE /\ LET r == Append(report, Verdict(d.name, Compared(l1, l2)))
                         IN  report' = IF d.dir THEN save_regr_report(r) ELSE r
                      /\ todo' = Tail(todo)
                      /\ UNCHANGED <<phase, exit>>
  /\ UNCHANGED <<inv, opts, asm, elf, log, sim_seed, seed_yaml, children, hist>>

\* do_compile: in parallel mode nobody looks at the outcome.
Compile ==
  /\ phase = "compile"
  /\ \/ Proceed /\ UNCHANGED <<exit, tally>>
     \/ /\ opts.simulator # "pyflow" /\ \E t \in Range(opts.tests) : ~IsCsr(t)
        /\ ~opts.lsf
        /\ Fault
        /\ Stop("failure")
  /\ UNCHANGED <<inv, opts, files, children, hist>>

\* The seeds are drawn; in parallel mode they are saved before the commands run.
DrawSeeds ==
  /\ phase = "seeds"
  /\ IF opts.seeds = "yaml" /\ seed_yaml = None
     THEN Stop("failure") /\ UNCHANGED <<sim_seed, seed_yaml, sown, kept>>
     ELSE /\ sim_seed' = Seeds
          /\ sown' = {}
          /\ IF opts.lsf /\ Seeded # {} THEN seed_yaml' = Seeds /\ kept' = {}
                                        ELSE UNCHANGED <<seed_yaml, kept>>
          /\ Proceed
          /\ UNCHANGED exit
  /\ UNCHANGED <<inv, opts, asm, elf, log, report, children, built, ran, tally>>

\* Mutant: the file name lacks the test's.
Batch_Unnamed(e) == {j \in Jobs : j[2] - start_idx(e[2]) \in 0..(test_cnt(opts, e[1], e[2]) - 1)}

Batch(e) == {j \in Jobs : j[1] = e[1] /\ j[2] - start_idx(e[2]) \in 0..(test_cnt(opts, e[1], e[2]) - 1)}

\* The programs of one command of do_simulate.
Making(e) ==
  [j \in {i \in Batch(e) : Maker(i[1]) # None} |-> Program(e[1], e[2], j[2] - start_idx(e[2]))]

\* A generator with these seeds writes of what it makes the programs of these jobs;
\* some of them the seeds promise to make again.
Generated(made, jobs, seeds, promised) ==
  LET Since(old, y) == (old \ jobs) \cup (IF y = seeds THEN promised \cap jobs ELSE {})
  IN  /\ asm' = [j \in Jobs |-> IF j \in jobs THEN made[j] ELSE asm[j]]
      /\ sown' = Since(sown, sim_seed)
      /\ kept' = Since(kept, seed_yaml)
      /\ built' = built \ jobs

\* The recorded seed promises nothing for the programs the Python generator
\* seeds itself or makes with another test's script, nor for CSR tests.
Promised(j) ==
  /\ ~IsCsr(j[1])
  /\ opts.simulator = "pyflow" =>
       j[2] \in {start_idx(e[2]) : e \in Seeded} /\ Maker(j[1]) = Tests[j[1]].gen_test

PromisedJobs == {j \in Jobs : Promised(j)}

\* One command of do_simulate.  Sequential commands run in order, parallel ones
\* end in any order; one that fails or is stopped leaves some of its files.
GenerateBatch ==
  /\ phase = "gen"
  /\ \E n \in DOMAIN todo :
       LET e == todo[n]
           Writes(jobs) == Generated(Making(e), jobs, sim_seed, PromisedJobs)
       IN  /\ opts.lsf \/ n = 1
           /\ \/ /\ Writes(DOMAIN Making(e))
                 /\ todo' = RemoveAt(todo, n)
                 /\ UNCHANGED <<phase, exit, tally>>
              \/ /\ Fault
                 /\ \E jobs \in SUBSET DOMAIN Making(e) : Writes(jobs)
                 /\ \/ todo' = RemoveAt(todo, n) /\ UNCHANGED <<phase, exit>>
                    \/ ~opts.lsf /\ (opts.simulator # "ius" \/ IsCsr(e[1])) /\ Stop("failure")
  /\ UNCHANGED <<inv, opts, elf, log, sim_seed, seed_yaml, report, children, ran>>

\* Mutant: a seed file that is there is kept.
SaveSeeds_Once ==
  /\ phase = "save"
  /\ IF Seeded # {}
     THEN seed_yaml' = (IF seed_yaml = None THEN sim_seed ELSE seed_yaml) /\ kept' = sown
     ELSE UNCHANGED <<seed_yaml, kept>>
  /\ Proceed
  /\ UNCHANGED <<inv, opts, asm, elf, log, sim_seed, report, exit, children, sown, built, ran, tally>>

SaveSeeds ==
  /\ phase = "save"
  /\ IF Seeded # {} THEN seed_yaml' = sim_seed /\ kept' = sown
                    ELSE UNCHANGED <<seed_yaml, kept>>
  /\ Proceed
  /\ UNCHANGED <<inv, opts, asm, elf, log, sim_seed, report, exit, children, sown, built, ran, tally>>

\* A binary is written; logs made before are of another one.
Binary(j, prog) ==
  /\ elf' = [elf EXCEPT ![j] = prog]
  /\ ran' = ran \ (Sims \X {j})

\* A compiler that fails or is stopped may leave any binary.
GccStopped(j) ==
  /\ \E left \in {elf[j], asm[j], None} : Binary(j, left)
  /\ built' = built \ {j}

\* gcc_compile takes whatever program lies there; none ends the run.
GccCompile ==
  /\ phase = "gcc" /\ todo # <<>>
  /\ LET j == Head(todo)
     IN  \/ /\ asm[j] # None
            /\ Binary(j, asm[j])
            /\ built' = built \cup {j}
            /\ todo' = Tail(todo)
            /\ UNCHANGED <<phase, exit, tally>>
         \/ /\ asm[j] = None
            /\ Stop("failure")
            /\ UNCHANGED <<elf, built, ran, tally>>
         \/ /\ asm[j] # None
            /\ Fault
            /\ GccStopped(j)
            /\ Stop("failure")
  /\ UNCHANGED <<inv, opts, asm, log, sim_seed, seed_yaml, report, children, sown, kept>>

\* A simulator opens its log anew and writes n rows.
Logged(x, n) ==
  /\ log' = [log EXCEPT ![x] = Log(elf[x[2]], n)]
  /\ ran' = ran \cup {x}

\* iss_sim: a simulator that runs too long is stopped and its log kept.
IssSim ==
  /\ phase = "sim" /\ todo # <<>>
  /\ LET x == Head(todo)
         prog == elf[x[2]]
     IN  \/ /\ prog # None
            /\ Logged(x, Complete(x[1], prog))
            /\ todo' = Tail(todo)
            /\ UNCHANGED <<phase, exit, tally>>
         \/ /\ prog # None
            /\ Fault
            /\ \E n \in 0..(Complete(x[1], prog) - 1) : Logged(x, n)
            /\ \/ todo' = Tail(todo) /\ UNCHANGED <<phase, exit>>
               \/ Stop("failure")
         \/ /\ prog = None
            /\ Logged(x, 0)
            /\ Stop("failure")
            /\ UNCHANGED tally
  /\ UNCHANGED <<inv, opts, asm, elf, sim_seed, seed_yaml, report, children, sown, kept, built>>

\* Mutant: the report of earlier steps and runs stays.
ClearReport_Kept ==
  /\ phase = "clear"
  /\ report' = report
  /\ Proceed
  /\ UNCHANGED <<inv, opts, asm, elf, log, sim_seed, seed_yaml, exit, children, hist, tally>>

ClearReport ==
  /\ phase = "clear"
  /\ report' = <<>>
  /\ Proceed
  /\ UNCHANGED <<inv, opts, asm, elf, log, sim_seed, seed_yaml, exit, children, hist, tally>>

\* iss_cmp walks the jobs of every test, also of those never simulated.
LogsOf(j) == <<log[<<IssList[1], j>>], log[<<IssList[2], j>>]>>
Readable(j) ==
  \A n \in 1..2 : LogsOf(j)[n] # None /\ (LogsOf(j)[n].mixed \/ ~Unusable(IssList[n], LogsOf(j)[n]))
Unsure(j) == \E n \in 1..2 : LogsOf(j)[n] # None /\ LogsOf(j)[n].mixed

IssCmp ==
  /\ phase = "cmp" /\ todo # <<>>
  /\ LET j == Head(todo)
     IN  \/ /\ Readable(j)
            /\ \E passed \in BOOLEAN :
                 /\ Unsure(j) \/ passed = Compared(LogsOf(j)[1], LogsOf(j)[2])
                 /\ report' = Append(report, Verdict(j, passed))
            /\ todo' = Tail(todo)
            /\ UNCHANGED <<phase, exit>>
         \/ /\ ~Readable(j) \/ Unsure(j)
            /\ Stop("failure")
            /\ UNCHANGED report
  /\ UNCHANGED <<inv, opts, asm, elf, log, sim_seed, seed_yaml, children, hist, tally>>

Summarise ==
  /\ phase = "summary"
  /\ report' = save_regr_report(report)
  /\ Proceed
  /\ UNCHANGED <<inv, opts, asm, elf, log, sim_seed, seed_yaml, exit, children, hist, tally>>

\* sys.exit(RET_SUCCESS), whatever the verdicts.
Finish ==
  /\ phase = "end"
  /\ Stop("success")
  /\ UNCHANGED <<inv, opts, files, children, hist, tally>>

-----------------------------------------------------------------------------
(* Ctrl-C.  Generators and simulators are started in sessions of their own:   *)
(* the signal does not reach them, and nobody stops them.  The compilers are  *)
(* not, and die with the run.                                                 *)

Generator(e) ==
  [step |-> "gen", made |-> Making(e), seeds |-> sim_seed, promised |-> PromisedJobs]

Simulator(x) == [step |-> "sim", at |-> x, prog |-> elf[x[2]], rows |-> 0]

\* In parallel mode all commands were started.
Interrupt ==
  /\ phase # "idle"
  /\ Fault
  /\ Stop("interrupted")
  /\ \/ UNCHANGED <<elf, log, children, built, ran>>
     \/ /\ phase = "gen"
        /\ children' = children \cup {Generator(todo[n]) : n \in {m \in DOMAIN todo : opts.lsf \/ m = 1}}
        /\ UNCHANGED <<elf, log, built, ran>>
     \/ /\ phase = "gcc" /\ todo # <<>>
        /\ GccStopped(Head(todo))
        /\ UNCHANGED <<log, children>>
     \/ /\ phase = "sim" /\ todo # <<>> /\ elf[Head(todo)[2]] # None
        /\ Logged(Head(todo), 0)
        /\ children' = children \cup {Simulator(Head(todo))}
        /\ UNCHANGED <<elf, built>>
  /\ UNCHANGED <<inv, opts, asm, sim_seed, seed_yaml, report, sown, kept>>

\* A generator left running writes its next program.
ChildGenerates ==
  /\ \E c \in children :
       /\ c.step = "gen"
       /\ \E j \in DOMAIN c.made :
            /\ \A i \in DOMAIN c.made : j[2] =< i[2]
            /\ Generated(c.made, {j}, c.seeds, c.promised)
            /\ children' = (children \ {c}) \cup
                 {[c EXCEPT !.made = [i \in DOMAIN c.made \ {j} |-> c.made[i]]]}
  /\ UNCHANGED <<inv, opts, phase, todo, elf, log, sim_seed, seed_yaml, report, exit, ran, tally>>

\* A simulator left running writes its next row, where it stands in the file: on
\* the log of a later one it leaves the same rows, other rows or a gap.
ChildSimulates ==
  /\ \E c \in children :
       /\ c.step = "sim"
       /\ c.rows < Complete(c.at[1], c.prog)
       /\ LET l == log[c.at]
              same == ~l.mixed /\ l.prog = c.prog /\ c.rows =< l.rows
          IN  /\ log' = [log EXCEPT ![c.at] =
                           IF same THEN Log(c.prog, Max({l.rows, c.rows + 1})) ELSE Mixed]
              /\ ran' = IF same THEN ran ELSE ran \ {c.at}
       /\ children' = (children \ {c}) \cup {[c EXCEPT !.rows = @ + 1]}
  /\ UNCHANGED <<inv, opts, phase, todo, asm, elf, sim_seed, seed_yaml, report, exit,
                 sown, kept, built, tally>>

\* It ends, done or not: nobody reads what it prints.
ChildEnds ==
  /\ \E c \in children : children' = children \ {c}
  /\ UNCHANGED <<inv, opts, phase, todo, files, exit, hist, tally>>

Next ==
  \/ Invoke \/ NextStep \/ RunDirected \/ Compile \/ DrawSeeds \/ GenerateBatch
  \/ SaveSeeds \/ GccCompile \/ IssSim \/ ClearReport \/ IssCmp \/ Summarise
  \/ Finish \/ Interrupt \/ ChildGenerates \/ ChildSimulates \/ ChildEnds

Spec == Init /\ [][Next]_vars

-----------------------------------------------------------------------------
Programs ==
  [test : DOMAIN Tests, gen : {Tests[t].gen_test : t \in DOMAIN Tests}, index : Nat, seed : Nat]

IsProgram(p, j) == p \in Programs /\ p.test = j[1]

TypeOK ==
  /\ inv \in 0..MaxInvocations /\ opts \in Options
  /\ phase \in {"idle", "start"} \cup Range(Order)
  /\ todo # <<>> => phase \in {"directed", "gen", "gcc", "sim", "cmp"}
  /\ \A j \in Jobs : \A p \in {asm[j], elf[j]} : p # None => IsProgram(p, j)
  /\ \A x \in Sims \X Jobs : log[x] # None => log[x].rows \in 0..Complete(x[1], log[x].prog)
  /\ \A c \in children :
       \/ c.step = "gen" /\ \A j \in DOMAIN c.made : j \in Jobs /\ IsProgram(c.made[j], j)
       \/ c.step = "sim" /\ c.at \in Sims \X Jobs /\ c.rows \in 0..Complete(c.at[1], c.prog)
  /\ sown \cup kept \cup built \subseteq Jobs /\ ran \subseteq Sims \X Jobs
  /\ faults \in 0..MaxFaults

\* The job iss_cmp gives a verdict on in this step.
Judged(j) == phase = "cmp" /\ todo # <<>> /\ j = Head(todo) /\ Len(report') > Len(report)

\* This invocation did every step of the job, and nothing went wrong.
Whole(j) ==
  /\ clean /\ {"gen", "gcc", "sim"} \subseteq opts.steps
  /\ ~Tests[j[1]].no_gcc /\ ~Tests[j[1]].no_iss /\ Promised(j)

(* A verdict of a whole, clean run is about the program the seed file makes   *)
(* again, whatever files interrupted and failed runs left before it.  Other   *)
(* verdicts are as good as the steps before them, in whichever invocation:    *)
(* logs made since the binary was are of that binary, a binary made since the *)
(* program was is of that program, and it comes from the drawn seeds if they  *)
(* wrote it last, and from the seed file once they are saved.                 *)
VerdictsReproducible ==
  [][\A j \in Jobs :
       Judged(j) /\ (Whole(j) \/ \A s \in Sims : <<s, j>> \in ran) =>
         \A n \in 1..2 :
           LET p == LogsOf(j)[n].prog
           IN  /\ p = elf[j]
               /\ Whole(j) \/ j \in built => p = asm[j]
               /\ Whole(j) \/ j \in built \cap sown => p = RecordedAs(sim_seed, j)
               /\ Whole(j) \/ j \in built \cap kept => p = RecordedAs(seed_yaml, j)]_vars

(* On complete logs of one program the verdict is about the executions: equal *)
(* ones pass, and where the simulators change the registers differently the   *)
(* job fails.  What the converters leave out of the logs does not matter.     *)
VerdictOfExecutions ==
  [][\A j \in Jobs :
       LET l1 == LogsOf(j)[1]
           l2 == LogsOf(j)[2]
           e1 == Executed(IssList[1], l1.prog)
           e2 == Executed(IssList[2], l2.prog)
           passed == report'[Len(report')].kind = "PASSED"
       IN  Judged(j) /\ ~Unsure(j) /\ l1.prog = l2.prog
             /\ l1.rows = Len(e1) /\ l2.rows = Len(e2) =>
             /\ e1 = e2 => passed
             /\ ~SameChanges(e1, e2) => ~passed]_vars

FullReport ==
  LET jobs == JobsOf(opts)
      n == Len(jobs)
      Of(verdict) == {k \in 1..n : report[k] = [kind |-> verdict, of |-> jobs[k]]}
  IN  /\ Len(report) = n + 1
      /\ Of("PASSED") \cup Of("FAILED") = 1..n
      /\ report[n + 1] = [kind |-> "summary", passed |-> Cardinality(Of("PASSED")),
                          failed |-> Cardinality(Of("FAILED"))]

(* A run that compared and ended well has reported every iteration of every   *)
(* test once, in the order of the list, and its summary counts the verdicts,  *)
(* whatever reports earlier steps and invocations left in the file.           *)
ReportComplete == exit = "success" /\ Asked("cmp") => FullReport
==============================================================================
