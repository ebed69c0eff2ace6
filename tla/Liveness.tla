------------------------------- MODULE Liveness -------------------------------
(***************************************************************************)
(* The control flow graph of a program and the liveness of its temporaries *)
(* (acse/cfg.c).                                                           *)
(*                                                                         *)
(* First programToCFG and cfgComputeTransitions build the graph from the   *)
(* list of instructions.  A basic block is the range of positions of its   *)
(* instructions.  Its edges are kept as the set of its successors; 0 is    *)
(* the ending block, which is not in the list of blocks.                   *)
(*                                                                         *)
(* Then cfgComputeLiveness sweeps over the blocks from the last to the     *)
(* first, each from its last instruction to its first, until a sweep       *)
(* modifies nothing.  One step is the update of one instruction.           *)
(***************************************************************************)
EXTENDS Ir, FiniteSets

CONSTANT Programs   \* the programs the graph may be built from

ASSUME ProgramsAssumption ==
  \A p \in Programs : p \in Seq(Instructions) /\ p # <<>> /\ LabelsPlaced(p)

VARIABLES
  prog,     \* program->instructions
  stage,    \* which of the loops is running
  cursor,   \* curNode of that loop
  blocks,   \* graph->blocks
  open,     \* bblock # NULL: instructions are being added to the last block
  succ      \* the succ list of each block

cfgVars == <<prog, stage, cursor, blocks, open, succ>>

endingBlock == 0

\* The passes of newRegAllocator and regallocRun, in the order they run.
Stages == {"blocks", "edges", "sweep", "intervals", "constraints", "calls", "scan"}

instrIsStartingNode(i) == i.label # NoLabel
instrIsEndingNode(i)   == isExitInstruction(i) \/ isJumpInstruction(i)

\* cfgSearchLabel: the first block whose first instruction has the label; when
\* there is none the search has run through the list and yields the last block.
cfgSearchLabel(label) ==
  LET found == {b \in DOMAIN blocks : prog[blocks[b].first].label = label}
  IN IF found = {} THEN Len(blocks) ELSE CHOOSE b \in found : \A c \in found : b <= c

-----------------------------------------------------------------------------

CfgInit ==
  /\ prog \in Programs
  /\ stage = "blocks"
  /\ cursor = 1
  /\ blocks = <<>>
  /\ open = FALSE
  /\ succ = <<>>

\* One iteration of the loop of programToCFG.
AddInstruction ==
  /\ stage = "blocks"
  /\ cursor <= Len(prog)
  /\ IF instrIsStartingNode(prog[cursor]) \/ ~open
       THEN blocks' = Append(blocks, [first |-> cursor, last |-> cursor])
       ELSE blocks' = [blocks EXCEPT ![Len(blocks)].last = cursor]
  /\ open' = ~instrIsEndingNode(prog[cursor])
  /\ cursor' = cursor + 1
  /\ UNCHANGED <<prog, stage, succ>>

BlocksDone ==
  /\ stage = "blocks"
  /\ cursor > Len(prog)
  /\ stage' = "edges"
  /\ cursor' = 1
  /\ succ' = [b \in DOMAIN blocks |-> {}]
  /\ UNCHANGED <<prog, blocks, open>>

\* node->parent
BlockOf(k) == CHOOSE b \in DOMAIN blocks : k \in blocks[b].first..blocks[b].last

LastInstr(b) == prog[blocks[b].last]

\* Fault: a branch is taken to end its block for good.
TransitionsWithoutFallThrough(b) ==
  IF isJumpInstruction(LastInstr(b))
    THEN {cfgSearchLabel(LastInstr(b).addressParam)}
    ELSE IF b < Len(blocks) THEN {b + 1} ELSE {endingBlock}

\* The edges out of a block that does not end in an exit.
Transitions(b) ==
  (IF isJumpInstruction(LastInstr(b))
     THEN {cfgSearchLabel(LastInstr(b).addressParam)} ELSE {})
  \union
  (IF isUnconditionalJump(LastInstr(b)) THEN {}
   ELSE IF b < Len(blocks) THEN {b + 1} ELSE {endingBlock})

\* One iteration of the loop of cfgComputeTransitions.  For a block that ends in
\* an exit the loop continues without moving to the next block.
AddTransitions ==
  /\ stage = "edges"
  /\ cursor <= Len(blocks)
  /\ IF isExitInstruction(LastInstr(cursor))
       THEN /\ succ' = [succ EXCEPT ![cursor] = @ \union {endingBlock}]
            /\ UNCHANGED cursor
       ELSE /\ succ' = [succ EXCEPT ![cursor] = @ \union Transitions(cursor)]
            /\ cursor' = cursor + 1
  /\ UNCHANGED <<prog, stage, blocks, open>>

CfgReady == stage = "edges" /\ cursor > Len(blocks)

GraphBuilt == CfgReady \/ stage \notin {"blocks", "edges"}

CfgNext == AddInstruction \/ BlocksDone \/ AddTransitions

-----------------------------------------------------------------------------
(* What makes the graph correct *)

CfgTypeOK ==
  /\ stage \in Stages
  /\ cursor \in Nat
  /\ \A b \in DOMAIN blocks : blocks[b].first \in DOMAIN prog /\ blocks[b].last \in DOMAIN prog
  /\ \A b \in DOMAIN succ : succ[b] \subseteq (DOMAIN blocks \union {endingBlock})

FirstOf(b) == IF b = endingBlock THEN End(prog) ELSE blocks[b].first

\* Following the graph is following the program: inside a block control can only
\* go to the next instruction, and the edges of a block lead exactly where its
\* last instruction can go.
GraphMatchesFlow ==
  GraphBuilt =>
    \A b \in DOMAIN blocks :
      /\ \A k \in blocks[b].first..(blocks[b].last - 1) : Flow(prog, k) = {k + 1}
      /\ {FirstOf(c) : c \in succ[b]} = Flow(prog, blocks[b].last)

-----------------------------------------------------------------------------
(* Liveness *)

VARIABLES
  in, out,           \* the live in and live out sets of each instruction
  successorsLiveIn,  \* live in set of the instruction updated before this one
  modified           \* whether the current sweep changed any set

liveVars == <<in, out, successorsLiveIn, modified>>

LivenessInit ==
  /\ CfgInit
  /\ in = [k \in DOMAIN prog |-> {}]
  /\ out = [k \in DOMAIN prog |-> {}]
  /\ successorsLiveIn = {}
  /\ modified = FALSE

\* Fault: a temporary the instruction overwrites dies even if it reads it too.
LiveInDroppingUsed(k, liveOut) ==
  (liveOut \union (Uses(prog[k]) \ {REG_0})) \ (Defs(prog[k]) \ {REG_0})

\* Fault: what the instruction overwrites is not removed.
LiveInKeepingDefs(k, liveOut) == liveOut \union (Uses(prog[k]) \ {REG_0})

\* Fault: the constant register counts as a temporary that is read.
LiveInOfZero(k, liveOut) ==
  (liveOut \union Uses(prog[k])) \ (Defs(prog[k]) \ (Uses(prog[k]) \union {REG_0}))

computeLiveInSetEquation(k, liveOut) ==
  (liveOut \union (Uses(prog[k]) \ {REG_0})) \ (Defs(prog[k]) \ (Uses(prog[k]) \union {REG_0}))

cfgComputeLiveOutOfBlock(b) ==
  UNION {in[blocks[c].first] : c \in succ[b] \ {endingBlock}}

StartSweeps ==
  /\ CfgReady
  /\ stage' = "sweep"
  /\ cursor' = Len(prog)
  /\ UNCHANGED <<prog, blocks, open, succ, liveVars>>

\* Fault: a sweep that added nothing still counts as having modified something.
UpdateAlwaysModifies ==
  /\ stage = "sweep"
  /\ cursor >= 1
  /\ modified' = TRUE
  /\ cursor' = cursor - 1
  /\ UNCHANGED <<prog, stage, blocks, open, succ, in, out, successorsLiveIn>>

\* One iteration of the loop of cfgUpdateLivenessOfNodesInBlock.
UpdateLiveness ==
  /\ stage = "sweep"
  /\ cursor >= 1
  /\ LET b       == BlockOf(cursor)
         liveOut == out[cursor] \union (IF cursor = blocks[b].last
                                          THEN cfgComputeLiveOutOfBlock(b)
                                          ELSE successorsLiveIn)
         liveIn  == computeLiveInSetEquation(cursor, liveOut)
     IN /\ out' = [out EXCEPT ![cursor] = liveOut]
        /\ in'  = [in EXCEPT ![cursor] = @ \union liveIn]
        /\ successorsLiveIn' = liveIn
        /\ modified' = (modified \/ in' # in \/ out' # out)
  /\ cursor' = cursor - 1
  /\ UNCHANGED <<prog, stage, blocks, open, succ>>

\* cfgPerformLivenessIteration returned true: the loop runs again.
SweepAgain ==
  /\ stage = "sweep"
  /\ cursor = 0
  /\ modified
  /\ cursor' = Len(prog)
  /\ modified' = FALSE
  /\ UNCHANGED <<prog, stage, blocks, open, succ, in, out, successorsLiveIn>>

LivenessReady == stage = "sweep" /\ cursor = 0 /\ ~modified

LivenessNext ==
  \/ CfgNext /\ UNCHANGED liveVars
  \/ StartSweeps
  \/ UpdateLiveness
  \/ SweepAgain

LivenessFinished == LivenessReady /\ UNCHANGED <<cfgVars, liveVars>>

LivenessSpec ==
  /\ LivenessInit
  /\ [][LivenessNext \/ LivenessFinished]_<<cfgVars, liveVars>>
  /\ WF_<<cfgVars, liveVars>>(LivenessNext)

-----------------------------------------------------------------------------
(* What makes the analysis correct *)

LivenessTypeOK ==
  /\ CfgTypeOK
  /\ in \in [DOMAIN prog -> SUBSET (TempsOf(prog) \ {REG_0})]
  /\ out \in [DOMAIN prog -> SUBSET (TempsOf(prog) \ {REG_0})]
  /\ successorsLiveIn \subseteq TempsOf(prog) \ {REG_0}
  /\ modified \in BOOLEAN

\* When the sweeps stop, no temporary that a path still reads is missing from a
\* set: stopping one sweep early, or visiting a loop once, would lose some.
NothingForgotten ==
  LivenessReady =>
    LET table == LiveTable(prog)
    IN \A k \in DOMAIN prog : table[k] \subseteq in[k] /\ LiveAfter(prog, table, k) \subseteq out[k]

\* The sets never hold a temporary that no path reads, at no moment of a sweep:
\* each would take a register from one that needs it.
NeverInvented ==
  LET table == LiveTable(prog)
  IN \A k \in DOMAIN prog : in[k] \subseteq table[k] /\ out[k] \subseteq LiveAfter(prog, table, k)

\* The graph is built and the sweeps come to an end.
AnalysisTerminates == <>LivenessReady
===============================================================================
