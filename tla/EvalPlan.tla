------------------------------ MODULE EvalPlan ------------------------------
(***************************************************************************)
(* The deferred evaluation of MetaNN.  Asked for its value, an expression  *)
(* registers an evaluation unit for itself after those of its operands;    *)
(* the plan puts a unit one level deeper than its deepest operand, groups  *)
(* the units of a level by type, and Eval runs level after level.  A unit  *)
(* may register further units while it runs: they go to a new layer on the *)
(* plan's list, which is evaluated before the next level.  A handle is set *)
(* once, and reading one that is not set throws; what a throw leaves       *)
(* registered stays on the list.                                           *)
(*                                                                         *)
(* The plan is one thread's.  An expression is                             *)
(*   "Data"     a matrix, scalar or batch, evaluated from the beginning    *)
(*   "Oper"     an operator, or a trivial, zero or one-hot matrix          *)
(*   "Late"     the derivative of a softmax, whose unit registers a Dot    *)
(*   "Void"     a softmax of no columns, whose unit returns early          *)
(*   "Array"    a batch that may be pushed back to                         *)
(*   "Dynamic"  a DynamicData around another expression                    *)
(***************************************************************************)
EXTENDS Integers, Sequences, Functions

CONSTANTS Exprs,        \* the expressions, numbered, each after its operands
          Kind, Group,  \* the kind, and the type of its unit's group
          Operands,     \* at first
          Asked,        \* the expressions a caller registers or pushes back
          MaxElems,     \* bound on the elements of an array
          MaxLayers     \* bound on the layers that throws leave

PlanAssumption ==
    /\ Exprs = DOMAIN Operands /\ Operands \in Seq(Seq(Exprs))
    /\ Asked \subseteq Exprs
    /\ DOMAIN Kind = Exprs /\ DOMAIN Group = Exprs
    /\ \A e \in Exprs : \A i \in DOMAIN Operands[e] : Operands[e][i] < e
    /\ \A e \in Exprs : Kind[e] \in {"Dynamic", "Late"} => Operands[e] # << >>

VARIABLES elems,        \* the operands now
          evaluated,    \* m_eval of the expression's handle
          m_evalLayers, \* the list; a layer is [seq, outputs]
          calls,        \* of DoLayerEval, the innermost last: [layer, level, group]
          returned,     \* of the last Eval: "no" while it runs, "ok", or what it threw
          registered    \* since the last Eval that returned or threw

vars == <<elems, evaluated, m_evalLayers, calls, returned, registered>>

\* DynamicData forwards EvalRegister to the data it is about.
Behind[e \in Exprs] == IF Kind[e] = "Dynamic" THEN Behind[Operands[e][1]] ELSE e

NoLayer == [seq |-> << >>, outputs |-> << >>]
Back == m_evalLayers[Len(m_evalLayers)]
Empty(layer) == layer.seq = << >>
pop_back(q) == SubSeq(q, 1, Len(q) - 1)

Init == /\ elems = Operands
        /\ evaluated = [e \in Exprs |-> Kind[e] = "Data"]
        /\ m_evalLayers = <<NoLayer>>
        /\ calls = << >> /\ returned = "no" /\ registered = {}

-----------------------------------------------------------------------------
\* Mutant of OperandDepth: only the first operand counts.
FirstDepth(outputs, ops) ==
    IF ops # << >> /\ ops[1] \in DOMAIN outputs THEN outputs[ops[1]] ELSE -1

\* Operands that the layer does not put out count as none: -1.
OperandDepth(outputs, ops) ==
    LET depths == {outputs[o] : o \in Range(ops) \cap DOMAIN outputs} \cup {-1}
    IN  CHOOSE d \in depths : \A c \in depths : c <= d

\* The group of its type gets the unit; a group that is not there is empty.
More(cluster, group, unit) ==
    [g \in DOMAIN cluster \cup {group} |->
        IF g = group THEN Append(IF g \in DOMAIN cluster THEN cluster[g] ELSE << >>, unit)
        ELSE cluster[g]]

Padded(seq, n) == seq \o [i \in 1 .. (n - Len(seq)) |-> << >>]

\* The level below the operands' gets the unit, unless the layer has a unit
\* for this output.  (Levels count from 0 in outputs.)
LayerRegister(layer, group, unit) ==
    LET depth == OperandDepth(layer.outputs, unit.ops) + 1
    IN  IF unit.out \in DOMAIN layer.outputs THEN layer
        ELSE [seq |-> [Padded(layer.seq, depth + 1) EXCEPT ![depth + 1] = More(@, group, unit)],
              outputs |-> [o \in DOMAIN layer.outputs \cup {unit.out} |->
                              IF o = unit.out THEN depth ELSE layer.outputs[o]]]

\* The parts, one after the other.
Joined(parts) ==
    LET upto[i \in 0 .. Len(parts)] == IF i = 0 THEN << >> ELSE upto[i - 1] \o parts[i]
    IN  upto[Len(parts)]

Unit(n) == [out |-> n, ops |-> [i \in DOMAIN elems[n] |-> Behind[elems[n][i]]],
            late |-> Kind[n] = "Late"]

\* EvalRegister of an expression: nothing when it is evaluated, or else that
\* of every operand, in order, and then its own.
EvalRegister(e, layer) ==
    LET walk[x \in Exprs] ==
            LET n == Behind[x]
            IN  IF evaluated[n] THEN << >>
                ELSE Joined([i \in DOMAIN elems[n] |-> walk[elems[n][i]]]) \o <<n>>
        met == walk[e]
        after[i \in 0 .. Len(met)] ==
            IF i = 0 THEN layer ELSE LayerRegister(after[i - 1], Group[met[i]], Unit(met[i]))
    IN  after[Len(met)]

Register(e) ==
    /\ calls = << >>
    /\ ~evaluated[Behind[e]]
    /\ m_evalLayers' = [m_evalLayers EXCEPT ![Len(m_evalLayers)] = EvalRegister(e, @)]
    /\ registered' = registered \cup {Behind[e]}
    /\ UNCHANGED <<elems, evaluated, calls, returned>>

\* Asserts that the array is not evaluated and that no copy shares its buffer.
PushBack(a, e) ==
    /\ calls = << >>
    /\ Kind[a] = "Array" /\ ~evaluated[a] /\ a \notin UNION {Range(elems[x]) : x \in Exprs}
    /\ Len(elems[a]) < MaxElems /\ e < a
    /\ elems' = [elems EXCEPT ![a] = Append(@, e)]
    /\ UNCHANGED <<evaluated, m_evalLayers, calls, returned, registered>>

-----------------------------------------------------------------------------
Enter(l) == [layer |-> l, level |-> 1, group |-> "none"]

\* Eval returns at once when nothing is registered, or else adds a layer for
\* what the units will register.
Eval ==
    /\ calls = << >>
    /\ IF Empty(Back)
       THEN /\ returned' = "ok" /\ registered' = {}
            /\ UNCHANGED <<m_evalLayers, calls>>
       ELSE /\ Len(m_evalLayers) < MaxLayers
            /\ calls' = <<Enter(Len(m_evalLayers))>>
            /\ m_evalLayers' = Append(m_evalLayers, NoLayer)
            /\ returned' = "no" /\ UNCHANGED registered
    /\ UNCHANGED <<elems, evaluated>>

Call == calls[Len(calls)]
Cluster == m_evalLayers[Call.layer].seq[Call.level]
InLevel == calls # << >> /\ Call.level <= Len(m_evalLayers[Call.layer].seq)

Throw(what) == /\ returned' = what
               /\ calls' = << >> /\ registered' = {}
               /\ UNCHANGED evaluated

\* GetEvalUnit takes a unit from the group at hand, or from any other once
\* that is empty; Process runs it.
IsNext(g) ==
    /\ InLevel
    /\ g \in DOMAIN Cluster /\ Cluster[g] # << >>
    /\ Call.group \in DOMAIN Cluster /\ Cluster[Call.group] # << >> => g = Call.group
RunUnit(g) ==
    /\ IsNext(g)
    /\ LET unit == Head(Cluster[g])
           taken == [m_evalLayers EXCEPT ![Call.layer].seq[Call.level][g] = Tail(@)]
           dot == [out |-> unit.out, ops |-> <<unit.ops[1]>>, late |-> FALSE]
       IN  IF \E i \in DOMAIN unit.ops : ~evaluated[unit.ops[i]]
           THEN Throw("not evaluated") /\ m_evalLayers' = taken
           ELSE IF Kind[unit.out] # "Void" /\ ~unit.late /\ evaluated[unit.out]
           THEN Throw("already evaluated") /\ m_evalLayers' = taken
           ELSE /\ m_evalLayers' =
                       IF unit.late
                       THEN [taken EXCEPT ![Len(taken)] = LayerRegister(@, "Dot", dot)]
                       ELSE taken
                /\ evaluated' = [evaluated EXCEPT ![unit.out] =
                                    @ \/ (~unit.late /\ Kind[unit.out] # "Void")]
                /\ calls' = [calls EXCEPT ![Len(calls)].group = g]
                /\ UNCHANGED <<returned, registered>>
    /\ UNCHANGED elems

\* Mutant of LevelDone: what the level's units registered is not entered.
NextLevel ==
    /\ InLevel /\ \A g \in DOMAIN Cluster : Cluster[g] = << >>
    /\ calls' = [calls EXCEPT ![Len(calls)].level = @ + 1, ![Len(calls)].group = "none"]
    /\ UNCHANGED <<elems, evaluated, m_evalLayers, returned, registered>>

\* The level is done: what its units registered comes next, and then the
\* next level.
LevelDone ==
    /\ InLevel /\ \A g \in DOMAIN Cluster : Cluster[g] = << >>
    /\ LET on == [calls EXCEPT ![Len(calls)].level = @ + 1, ![Len(calls)].group = "none"]
       IN  IF Empty(Back)
           THEN calls' = on /\ UNCHANGED m_evalLayers
           ELSE /\ calls' = Append(on, Enter(Len(m_evalLayers)))
                /\ m_evalLayers' = Append(m_evalLayers, NoLayer)
    /\ UNCHANGED <<elems, evaluated, returned, registered>>

\* Mutant of LayerDone: a nested layer is not cleared and starts over.
LayerAgain ==
    /\ calls # << >> /\ ~InLevel
    /\ IF Len(calls) = 1
       THEN /\ m_evalLayers' = [pop_back(m_evalLayers) EXCEPT ![Call.layer] = NoLayer]
            /\ calls' = << >> /\ returned' = "ok" /\ registered' = {}
       ELSE /\ calls' = [calls EXCEPT ![Len(calls)].level = 1]
            /\ UNCHANGED <<m_evalLayers, returned, registered>>
    /\ UNCHANGED <<elems, evaluated>>

\* The layer is done: the one added for it goes, and it is cleared.
LayerDone ==
    /\ calls # << >> /\ ~InLevel
    /\ m_evalLayers' = [pop_back(m_evalLayers) EXCEPT ![Call.layer] = NoLayer]
    /\ calls' = pop_back(calls)
    /\ IF Len(calls) = 1 THEN returned' = "ok" /\ registered' = {}
                         ELSE UNCHANGED <<returned, registered>>
    /\ UNCHANGED <<elems, evaluated>>

Next == \/ \E e \in Asked : Register(e)
        \/ \E a, e \in Asked : PushBack(a, e)
        \/ Eval
        \/ (\E e \in Exprs : RunUnit(Group[e])) \/ RunUnit("Dot")
        \/ LevelDone
        \/ LayerDone

Running == (\E e \in Exprs : RunUnit(Group[e])) \/ RunUnit("Dot") \/ LevelDone \/ LayerDone

\* A thread in Eval goes on.
Spec == Init /\ [][Next]_vars /\ WF_vars(Running)

-----------------------------------------------------------------------------
\* A softmax of no columns is never evaluated.
Ready(o) == evaluated[o] \/ Kind[o] = "Void"

(* Every unit finds its operands evaluated and its own result not: whatever  *)
(* was registered in what order, shared between expressions, left over by a  *)
(* throw or registered by units that run.  Only what reads a softmax of no   *)
(* columns throws, for that was never set.                                   *)
EvaluatedInOrder ==
    /\ returned # "already evaluated"
    /\ \A g \in {Group[e] : e \in Exprs} \cup {"Dot"} : IsNext(g) =>
          \A o \in Range(Head(Cluster[g]).ops) : Ready(o)

(* When Eval returns, every handle it was asked for is set.                  *)
Evaluating == calls # << >>
Handed == Evaluating /\ ~Evaluating' /\ returned' = "ok"
             => \A e \in registered : Ready(e)'
=============================================================================
