--------------------------- MODULE MCStructures ---------------------------
(***************************************************************************)
(* The data structures that threads share without a lock, the programs     *)
(* about memory orders, and the layers of MetaNN: composed ones that pass  *)
(* data forward and gradients back, and a recurrent one over a sequence.   *)
(* Each is checked on its own: subject says which one a behaviour is       *)
(* about, and keeps its first value.  They share the variables: v1, v2,    *)
(* ... are those of the subject, and what it has no use for stays None.    *)
(***************************************************************************)
EXTENDS ComposeTopology, TLC

CONSTANTS None,
          p, q, r, Both,        \* threads of the queues, and of the stacks
          Nodes, NoNode

Symmetry == Permutations(Both) \cup Permutations(Nodes)

M(rows) == Matrix([i \in DOMAIN rows |-> [j \in DOMAIN rows[i] |-> Const(rows[i][j])]])
Batch(s) == MakeArray([b \in DOMAIN s |-> M(s[b])])

-----------------------------------------------------------------------------
\* Kernels.  A classifier: a weight, a softmax and the cost of a label; with
\* something between the two, the gradient of the cost does not reach the
\* softmax as it is.
Classifier(between) ==
    [sub |-> <<Sub("Cost", "NLL"), Sub("Softmax", "Softmax"), Sub("Weight", "Weight")>> \o
             (IF between THEN <<Sub("Between", "Add")>> ELSE << >>),
     ins |-> <<From("io", "Weight", "io"), From("label", "Cost", "label")>> \o
             (IF between THEN <<From("more", "Between", "in2")>> ELSE << >>),
     inter |-> IF between
               THEN <<Connect("Weight", "Softmax", "io"), Connect("Softmax", "Between", "in1"),
                      Connect("Between", "Cost", "in")>>
               ELSE <<Connect("Weight", "Softmax", "io"), Connect("Softmax", "Cost", "in")>>,
     outs |-> Out("Cost")]

\* One output goes to two layers and one input to two; the order given is
\* not the one to run in.  (Over a batch AbsLayer cannot feed back.)  Two of the weights have one name.
Diamond(first) ==
           [sub |-> <<Sub("Mix", "Interpolate"), Sub("First", first), Sub("Tanh", "Tanh"),
                      Sub("Mul", "ElementMul"),
                      [tag |-> "W1", kind |-> "Weight", name |-> "W"],
                      [tag |-> "W2", kind |-> "Weight", name |-> "W"]>>,
            ins |-> <<From("io", "W1", "io"), From("more", "Mul", "in2"), From("more", "Mix", "weight2")>>,
            inter |-> <<Connect("W2", "Mix", "lambda"), Connect("Mul", "Mix", "weight1"),
                        Connect("W1", "First", "io"), Connect("First", "Tanh", "io"),
                        Connect("Tanh", "Mul", "in1"), Connect("Tanh", "W2", "io")>>,
            outs |-> Out("Mix")]

Plain(policy) == [plain |-> policy, sub |-> << >>]
Update == [isUpdate |-> TRUE]
Full == [isUpdate |-> TRUE, isFeedbackOutput |-> TRUE]

x1 == M(<<<<1, -1>>>>)
x2 == M(<<<<2, 1>>>>)
Two == [Weight |-> <<2, 2>>, Bias |-> <<1, 2>>, W1 |-> <<2, 2>>, W2 |-> <<2, 2>>]
Net(topo, policy) ==
    [topo |-> topo, policy |-> policy, shapes |-> Two,
     inputs |-> {[io |-> x1, more |-> x2], [io |-> x2, more |-> x1]},
     grads |-> {[io |-> M(<<<<1, 3>>>>)], [io |-> M(<<<<-2, 1>>>>)]},
     given |-> [Weight |-> M(<<<<1, 2>>, <<-1, 1>>>>), W |-> M(<<<<1, 2>>, <<-1, 1>>>>)],
     filler |-> Plain([Overall |-> Scalar(Const(2))])]
Batched(net) ==
    [net EXCEPT !.inputs = {[io |-> Batch(<<<<<<1, -1>>>>, <<<<2, 1>>>>>>), more |-> MakeDuplicate(2, x2)]},
                !.grads = {[io |-> Batch(<<<<<<1, 3>>>>, <<<<-2, 1>>>>>>)]}]
Cost(net) == [net EXCEPT !.grads = {[io |-> Scalar(Const(1))], [io |-> Scalar(Const(3))]}]

Kernels == {
    Net(Linear, Plain(Full)),
    Net(Linear, [plain |-> << >>, sub |-> [Weight |-> Update]]),
    [Net(Linear, Plain(Update)) EXCEPT !.given = << >>,
        !.filler = [plain |-> [Overall |-> Scalar(Const(2)), Bias |-> Scalar(Const(1))],
                    sub |-> [Weight |-> [Weight |-> Scalar(Const(3))]]]],
    [Net(Linear, Plain(Full)) EXCEPT !.shapes = LinearShapes(2, 1)],
    [Net(Linear, Plain(Full)) EXCEPT !.filler = Plain(<< >>)],
    Batched(Net(Single(TRUE, "Sigmoid"), Plain(Full))),
    [Net(Single(FALSE, "Tanh"), Plain(Update)) EXCEPT !.inputs = {[io |-> x1], [io |-> ZeroMatrix(1, 2)]}],
    Net(Diamond("Abs"), Plain(Full)),
    Net(Diamond("Abs"), [plain |-> << >>, sub |-> [W1 |-> Update]]),
    Batched(Net(Diamond("Sigmoid"), Plain(Full))),
    Cost([Net(Classifier(FALSE), Plain(Full)) EXCEPT
        !.inputs = {[io |-> x1, label |-> M(<<<<1, 2>>>>)], [io |-> x2, label |-> OneHotVector(2, 2)]}]),
    Cost([Net(Classifier(TRUE), Plain(Update)) EXCEPT
        !.inputs = {[io |-> x1, label |-> M(<<<<1, 2>>>>), more |-> M(<<<<4, 9>>>>)]}]),
    [Net(Classifier(FALSE), Plain(Full)) EXCEPT
        !.inputs = {[io |-> Batch(<<<<<<1, -1>>>>, <<<<2, 1>>>>>>),
                     label |-> Batch(<<<<<<1, 2>>>>, <<<<0, 1>>>>>>)]},
        !.grads = {[io |-> MakeArray(<<Scalar(Const(2)), Scalar(Const(-1))>>)]}]}

\* A GRU over sequences of two inputs and of the batch, one number each.
Recurrents == {
    [topo |-> Gru, policy |-> Plain(policy), shapes |-> GruShapes(1, 1),
     inputs |-> {[io |-> M(<<<<2>>>>), hidden |-> M(<<<<1>>>>)],
                 [io |-> M(<<<<-1>>>>), hidden |-> Null]},
     grads |-> {[io |-> M(<<<<2>>>>)]},
     given |-> [Wz |-> M(<<<<1>>>>), Uz |-> M(<<<<2>>>>), Wr |-> M(<<<<2>>>>),
                Ur |-> M(<<<<-1>>>>), W |-> M(<<<<-1>>>>), U |-> M(<<<<1>>>>)],
     filler |-> Plain(<< >>)] : policy \in {Update}}

-----------------------------------------------------------------------------
\* The sublayers of any kernel come after those that feed them, and a cycle
\* is found: checked of every set of connections between four tags.
Four == {"a", "b", "c", "d"}
Edges == <<<<"c", "b">>, <<"a", "b">>, <<"b", "a">>, <<"d", "c">>, <<"a", "c">>, <<"c", "a">>,
           <<"a", "d">>, <<"d", "a">>, <<"b", "c">>, <<"b", "d">>, <<"d", "b">>, <<"c", "d">>>>
Closure(E) ==
    LET up[n \in 0 .. 2] == IF n = 0 THEN E
                            ELSE LET reach == up[n - 1]
                                 IN  reach \cup {e \in Four \X Four :
                                                \E x \in Four : <<e[1], x>> \in reach /\ <<x, e[2]>> \in reach}
    IN  up[2]
Joined(E) == LET e == SelectSeq(Edges, LAMBDA x : x \in E)
             IN  [sub |-> [i \in 1 .. 4 |-> Sub(<<"c", "a", "d", "b">>[i], "Add")],
                  inter |-> [i \in DOMAIN e |-> Connect(e[i][1], e[i][2], "in1")]]
Before(s, x, y) == \E i, j \in DOMAIN s : i < j /\ s[i].tag = x /\ s[j].tag = y
ASSUME OrderingRight ==
    \A arrows \in SUBSET ToSet(Edges) :
        LET t == Joined(arrows)
            s == TopologicalOrdering(t)
        IN  /\ Acyclic(t) <=> \A x \in Four : <<x, x>> \notin Closure(arrows)
            /\ ToSet(s) = ToSet(t.sub) /\ Len(s) = 4
            /\ Acyclic(t) => \A e \in arrows : Before(s, e[1], e[2])
-----------------------------------------------------------------------------
VARIABLES subject, v1, v2, v3, v4, v5, v6, v7, v8, v9, v10, v11, v12, v13, v14, v15,
          v16, v17

vars == <<subject, v1, v2, v3, v4, v5, v6, v7, v8, v9, v10, v11, v12, v13, v14, v15,
          v16, v17>>

Stack == INSTANCE LockFreeStack WITH scheme <- v1, head <- v2, next <- v3, data <- v4,
           internal_count <- v5, live <- v6, pc <- v7, old_head <- v8,
           nxt <- v9, threads_in_pop <- v10, to_be_deleted <- v11,
           list <- v12, hazard <- v13, scan <- v14, got <- v15, calls <- v16,
           pushed <- v17,
           Null <- NoNode, Threads <- Both, MaxCalls <- 6, MaxCount <- 5,
           Schemes <- {"leaky", "counted", "hazard", "shared", "split"}
Queue == INSTANCE LockFreeQueue WITH cast <- v1, head <- v2, tail <- v3, data <- v4, next <- v5,
           internal_count <- v6, external_counters <- v7, live <- v8,
           pc <- v9, old <- v10, new_next <- v11, target <- v12, item <- v13,
           got <- v14, res <- v15, calls <- v16, pushed <- v17,
           Null <- NoNode, Threads <- {p, q, r}, MaxCalls <- 5, MaxCount <- 4,
           Casts <- {<<"single", {p}, {q}>>} \cup
                    {"counted", "helped"} \X {{p}} \X {{q, r}} \cup {"counted", "helped"} \X {{p, q}} \X {{}}
Orders == INSTANCE MemoryOrders WITH program <- v1, memory <- v2, view <- v3, acquired <- v4,
           released <- v5, carried <- v6, pc <- v7, z <- v8, failed <- v9,
           Programs <- {"seq_cst", "relaxed", "acq_rel_opposite", "acq_rel", "transitive",
                        "consume", "fences", "non_atomic"}

Kernel == INSTANCE ComposeKernel WITH net <- v1, layers <- v2, loadBuffer <- v3, stack <- v4, grad <- v5,
           status <- v6, shown <- v7, tape <- v8, owed <- v9, passes <- v10,
           Nets <- Kernels, MaxDeep <- 2, MaxPasses <- 2
Recurrent == INSTANCE RecurrentLayer WITH net <- v1, layers <- v2, loadBuffer <- v3, stack <- v4, grad <- v5,
           status <- v6, shown <- v7, tape <- v8, owed <- v9, passes <- v10,
           m_hiddens <- v11, m_inForward <- v12, fed <- v13, gs <- v14,
           orderly <- v15, sequence <- v16,
           Nets <- Recurrents, MaxDeep <- 3, MaxPasses <- 3

InitStack == /\ subject = "stack" /\ Stack!Init
InitQueue == /\ subject = "queue" /\ Queue!Init
InitOrders == /\ subject = "orders" /\ Orders!Init /\ v10 = None /\ v11 = None
              /\ v12 = None /\ v13 = None /\ v14 = None /\ v15 = None /\ v16 = None
              /\ v17 = None
InitKernel == /\ subject = "kernel" /\ Kernel!Init /\ v11 = None /\ v12 = None
              /\ v13 = None /\ v14 = None /\ v15 = None /\ v16 = None /\ v17 = None
InitRecurrent == /\ subject = "recurrent" /\ Recurrent!Init /\ v17 = None
Init == InitStack \/ InitQueue \/ InitOrders \/ InitKernel \/ InitRecurrent

RestStack == <<subject>>
RestQueue == <<subject>>
RestOrders == <<subject, v10, v11, v12, v13, v14, v15, v16, v17>>
RestKernel == <<subject, v11, v12, v13, v14, v15, v16, v17>>
RestRecurrent == <<subject, v17>>

Next == \/ subject = "stack" /\ Stack!Next /\ UNCHANGED RestStack
        \/ subject = "queue" /\ Queue!Next /\ UNCHANGED RestQueue
        \/ subject = "orders" /\ Orders!Next /\ UNCHANGED RestOrders
        \/ subject = "kernel" /\ Kernel!Next /\ UNCHANGED RestKernel
        \/ subject = "recurrent" /\ Recurrent!Next /\ UNCHANGED RestRecurrent

Spec == Init /\ [][Next]_vars
-----------------------------------------------------------------------------
(* Each of the lock-free stacks is a stack; the lock-free queues, with the   *)
(* threads they are made for, are queues.                                    *)
AreSequential ==
    /\ subject = "stack" => Stack!Stack!Init
    /\ [][subject = "stack" => [Stack!Stack!Next]_(Stack!Stack!vars)]_vars
    /\ subject = "queue" => Queue!Queue!Init
    /\ [][subject = "queue" => [Queue!Queue!Next]_(Queue!Queue!vars)]_vars

(* No node of a stack or a queue is used after its deletion and none is      *)
(* lost, and a pop returns what its node held when it won the head.          *)
NodesSafe == /\ subject = "stack" => Stack!NoUseAfterDelete /\ Stack!NothingLeaks
             /\ subject = "queue" => Queue!WinnerTakesItem /\ Queue!NodesLive

(* The assertions of the programs about memory orders hold where the orders  *)
(* promise it, and what they read of plain objects is not raced for.         *)
AssertionsHold == subject = "orders" => Orders!AssertionsHold /\ Orders!NoRace

(* What a kernel puts out is what its connections mean; what it passes back  *)
(* and collects is the derivative of that, for every input and parameter;    *)
(* and over a sequence, through every hidden value.                          *)
GradientsRight ==
    /\ subject = "kernel" => Kernel!OutputRight /\ Kernel!InputGradients /\ Kernel!ParameterGradients
    /\ subject = "recurrent" => Recurrent!SequenceGradients

(* NeutralInvariant tells exactly whether every pass was matched.            *)
StacksPair == /\ subject = "kernel" => Kernel!StacksPair
              /\ subject = "recurrent" => Recurrent!Step!StacksPair
=============================================================================
