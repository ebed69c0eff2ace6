-------------------------------- MODULE Program --------------------------------
(***************************************************************************)
(* The program that acse builds (acse/program.c): symbols, labels and a    *)
(* list of instructions.  A label is assigned before the instruction it    *)
(* names exists: it is pending until one is added, and further labels      *)
(* assigned meanwhile become its aliases.                                  *)
(*                                                                         *)
(* A pointer to a label is its position in labels, 0 the null pointer.     *)
(***************************************************************************)
EXTENDS TargetTransform

\* getLabelName, of a label without a name
getLabelName(l) == IF l.name = NoLabel THEN <<"l", l.labelID>> ELSE l.name

createLabel(p) ==
  [p EXCEPT !.labels = Append(@, [labelID |-> p.firstUnusedLblID, name |-> NoLabel,
                                  global |-> FALSE, isAlias |-> FALSE]),
            !.firstUnusedLblID = @ + 1]
LastLabel(p) == Len(p.labels)

setRawLabelName(p, label, finalName) ==
  [p EXCEPT !.labels = [k \in DOMAIN @ |-> IF @[k].labelID = @[label].labelID
                                             THEN [@[k] EXCEPT !.name = finalName] ELSE @[k]]]

\* A name in use gets the least serial number that makes it new.
setLabelName(p, label, name) ==
  LET others == {k \in DOMAIN p.labels : p.labels[k].labelID # p.labels[label].labelID}
      taken  == {getLabelName(p.labels[k]) : k \in others}
      serial == Min({n \in 0..Len(p.labels) : Append(name, n) \notin taken})
  IN setRawLabelName(p, label, IF name \in taken THEN Append(name, serial) ELSE name)

IsAssigned(p, label) ==
  \E k \in DOMAIN p.instructions :
    LET l == p.instructions[k].label IN l # 0 /\ p.labels[l].labelID = p.labels[label].labelID

\* Fault: the last label assigned is the pending one.
AssignedLast(p, label) == [p EXCEPT !.pendingLabel = label]
\* Labels of one place get the name of the pending one if it has any, or of an older one.
assignLabel(p, label) ==
  LET pending == p.labels[p.pendingLabel]
      new     == p.labels[label]
      older   == new.labelID # 0 /\ new.labelID < pending.labelID
      name    == IF pending.name = NoLabel \/ older THEN new.name ELSE pending.name
      aliased == [p EXCEPT !.labels[label].labelID = pending.labelID,
                           !.labels[label].isAlias = TRUE,
                           !.labels[label].global = new.global \/ pending.global,
                           !.labels[p.pendingLabel].global = new.global \/ pending.global]
  IN CASE IsAssigned(p, label) -> [p EXCEPT !.fatal = TRUE]
       [] ~IsAssigned(p, label) /\ p.pendingLabel = 0 -> [p EXCEPT !.pendingLabel = label]
       [] ~IsAssigned(p, label) /\ p.pendingLabel # 0 -> setRawLabelName(aliased, label, name)

\* fatal stands for a fatalError.
newProgram ==
  LET empty == [symbols |-> <<>>, instructions |-> <<>>, firstUnusedReg |-> 1, labels |-> <<>>,
                firstUnusedLblID |-> 0, pendingLabel |-> 0, fatal |-> FALSE]
      start == setLabelName(createLabel(empty), 1, <<"_start">>)
  IN assignLabel([start EXCEPT !.labels[1].global = TRUE], 1)

\* Fault: the label stays pending.
AddKeepingLabel(p, instr) ==
  [p EXCEPT !.instructions = Append(@, [instr EXCEPT !.label = p.pendingLabel])]
addInstruction(p, instr) ==
  [p EXCEPT !.instructions = Append(@, [instr EXCEPT !.label = p.pendingLabel]), !.pendingLabel = 0]

\* The register that getNewRegister returns, and the program after n calls of it
NewRegister(p) == p.firstUnusedReg
getNewRegister(p, n) == [p EXCEPT !.firstUnusedReg = @ + n]

HasSymbol(p, ID) == \E k \in DOMAIN p.symbols : p.symbols[k].ID = ID
getSymbol(p, ID) == p.symbols[SelectInSeq(p.symbols, LAMBDA s : s.ID = ID)]
isArray(symbol) == symbol.type = "INT_ARRAY"

\* Whether createSymbol reports an error
CannotCreate(p, ID, type, arraySize) == (type = "INT_ARRAY" /\ arraySize <= 0) \/ HasSymbol(p, ID)
createSymbol(p, ID, type, arraySize) ==
  LET q == createLabel(p)
  IN IF CannotCreate(p, ID, type, arraySize) THEN p
     ELSE [setLabelName(q, LastLabel(q), <<"l_", ID>>) EXCEPT
             !.symbols = Append(@, [ID |-> ID, type |-> type, arraySize |-> arraySize, label |-> LastLabel(q)])]

\* An exit at the end, if nothing jumps there and the last instruction is one already, is left out.
genEpilog(p) ==
  IF p.pendingLabel = 0 /\ p.instructions # <<>> /\ Last(p.instructions).opcode = "CALL_EXIT_0"
    THEN p ELSE addInstruction(p, Gen("CALL_EXIT_0", 0, 0, 0, 0))
===============================================================================
