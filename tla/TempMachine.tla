------------------------------ MODULE TempMachine ------------------------------
(***************************************************************************)
(* What the program means before registers are allocated: a machine with   *)
(* one register per temporary.  It is the specification that the code      *)
(* emitted by SpillCode implements.                                        *)
(*                                                                         *)
(* A value is told apart by the instruction that wrote it and the parity   *)
(* of how often that instruction has run.  Only the temporaries that some  *)
(* path still reads have a value.                                          *)
(***************************************************************************)
EXTENDS Ir

VARIABLES
  prog,    \* the program
  needed,  \* the temporaries live before each instruction
  vpc,     \* the next instruction
  temps,   \* the values of the temporaries that are live there
  runs,    \* parity of the executions of each instruction
  seen     \* what the last instruction read

tempVars == <<prog, needed, vpc, temps, runs, seen>>

NeededAt(k) == IF k = End(prog) THEN {} ELSE needed[k]

TempInit ==
  /\ needed = LiveTable(prog)
  /\ vpc = 1
  /\ temps = [t \in {} |-> 0]
  /\ runs = [k \in DOMAIN prog |-> 0]
  /\ seen = <<>>

Step ==
  /\ vpc # End(prog)
  /\ seen' = [a \in Sources(prog[vpc]) |-> temps[Args(prog[vpc])[a].ID]]
  /\ runs' = [runs EXCEPT ![vpc] = 1 - @]
  /\ \E k \in Flow(prog, vpc) :
       /\ vpc' = k
       /\ temps' = [t \in NeededAt(k) |->
                      IF t \in Defs(prog[vpc]) THEN <<vpc, runs[vpc]>> ELSE temps[t]]
  /\ UNCHANGED <<prog, needed>>

TempSpec == TempInit /\ [][Step]_tempVars /\ WF_tempVars(Step)
===============================================================================
