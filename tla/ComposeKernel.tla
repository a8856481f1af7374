--------------------------- MODULE ComposeKernel ---------------------------
(***************************************************************************)
(* ComposeKernel of layers/compose/compose_kernel.h: a layer made of       *)
(* sublayers, which feeds data forward through them in topological order   *)
(* and gradients backward in the opposite one.  Sublayers that need what   *)
(* they saw keep it on stacks, so that several forward passes may precede  *)
(* as many backward passes; the gradients of parameters pile up until      *)
(* GradCollect takes them.                                                 *)
(***************************************************************************)
EXTENDS ComposeTopology

CONSTANTS Nets,       \* [topo, shapes, policy, inputs, grads, given, filler]: a
                      \* topology, its parameters' sizes, its policy, what it may
                      \* be fed, and what its initializer holds
          MaxDeep,    \* bound on the forward passes not yet matched
          MaxPasses   \* bound on the forward passes

VARIABLES net, layers,    \* the kernel: the sublayers in order, with their flags
          loadBuffer,     \* the parameters by name: layers of one name share one
          stack, grad,    \* of each sublayer: what it kept, its parameter's gradients
          status,
          shown,          \* what the last step put out
          tape,           \* the inputs not yet gone back over
          owed,           \* the passes back since the last GradCollect
          passes

vars == <<net, layers, loadBuffer, stack, grad, status, shown, tape, owed, passes>>

\* The result of FeedForward, the input, gradient and result of FeedBackward,
\* what GradCollect handed over with the passes it is for, and whether
\* NeutralInvariant returned.
Nothing == [output |-> Null, back |-> Null, collected |-> << >>, settled |-> << >>,
            verdict |-> "none"]

ParameterOf(l) == IF HasParameter(l) THEN loadBuffer[l.name] ELSE Null

Build(nets) ==
    /\ net \in nets
    /\ Asserted(net.topo) /\ Acyclic(net.topo) /\ PolicyAsserted(net.topo, net.policy)
    /\ layers = SublayerInstantiation(net.topo, net.policy)
    /\ loadBuffer = << >>
    /\ stack = [tag \in Tags(net.topo) |-> << >>]
    /\ grad = [tag \in Tags(net.topo) |-> << >>]
    /\ status = "built"
    /\ shown = Nothing
    /\ tape = << >> /\ owed = << >> /\ passes = 0

Init == Build(Nets)

-----------------------------------------------------------------------------
Shape(m) == <<Len(m.of), Len(m.of[1])>>

\* The initializer's policies: the filler of the parameters of a kind, or else
\* the one of all; ConstantFiller fills in one value.
PickInitializer(policy, kind) ==
    CASE kind \in DOMAIN policy -> policy[kind]
      [] kind \notin DOMAIN policy /\ "Overall" \in DOMAIN policy -> policy["Overall"]
      [] OTHER -> Null
Filled(shape, value) == Matrix([i \in 1 .. shape[1] |-> [j \in 1 .. shape[2] |-> value.of]])
IsMatrixExist(name) == name \in DOMAIN net.given

\* A layer's Init: a parameter loaded before under the name is shared, then
\* comes a copy of the initializer's matrix, then its filler.
LayerInit(s, l) ==
    LET filler == PickInitializer(SubPolicyPicker(net.filler, l.tag), l.kind)
        m == CASE l.name \in DOMAIN s.buffer -> s.buffer[l.name]
               [] l.name \notin DOMAIN s.buffer /\ IsMatrixExist(l.name) -> net.given[l.name]
               [] OTHER -> IF filler = Null THEN Null ELSE Filled(net.shapes[l.tag], filler)
    IN  IF s.thrown \/ ~HasParameter(l) THEN s
        ELSE IF m = Null THEN [s EXCEPT !.thrown = TRUE]
        ELSE IF Shape(m) # net.shapes[l.tag] THEN [s EXCEPT !.thrown = TRUE]
        ELSE [s EXCEPT !.buffer = (l.name :> m) @@ @]

InitLayers == /\ status = "built"
              /\ LET end == FoldLeft(LayerInit, [buffer |-> loadBuffer, thrown |-> FALSE], layers)
                 IN  /\ loadBuffer' = end.buffer
                     /\ status' = IF end.thrown THEN "thrown" ELSE "ready"
              /\ UNCHANGED <<net, layers, stack, grad, shown, tape, owed, passes>>

-----------------------------------------------------------------------------
InputFromInConnect(tag, input, res) ==
    [n \in DOMAIN res |->
        IF \E c \in ToSet(net.topo.ins) : c.to = tag /\ c.in = n
        THEN input[(CHOOSE c \in ToSet(net.topo.ins) : c.to = tag /\ c.in = n).name]
        ELSE res[n]]
InputFromInternalConnect(tag, internal, res) ==
    [n \in DOMAIN res |->
        IF \E c \in ToSet(net.topo.inter) : c.to = tag /\ c.in = n
        THEN internal[(CHOOSE c \in ToSet(net.topo.inter) : c.to = tag /\ c.in = n).from]
        ELSE res[n]]
FillOutput(tag, res, out) ==
    [n \in {c.name : c \in {d \in ToSet(net.topo.outs) : d.from = tag}} |-> res] @@ out

\* One sublayer after the other, in order.
FeedForwardFun(input) ==
    LET run[n \in 0 .. Len(layers)] ==
            IF n = 0 THEN [internal |-> << >>, kept |-> << >>, out |-> << >>]
            ELSE LET before == run[n - 1]
                     l == layers[n]
                     in == InputFromInternalConnect(l.tag, before.internal,
                               InputFromInConnect(l.tag, input, [m \in InputNames(l.kind) |-> Null]))
                     res == LayerFeedForward(l, ParameterOf(l), in)
                 IN  [internal |-> (l.tag :> res[1]) @@ before.internal,
                      kept |-> (l.tag :> res[2]) @@ before.kept,
                      out |-> FillOutput(l.tag, res[1], before.out)]
    IN  run[Len(layers)]

FeedForward(input) ==
    /\ status = "ready"
    /\ Len(tape) < MaxDeep /\ passes < MaxPasses
    /\ LET end == FeedForwardFun(input)
       IN  /\ shown' = [Nothing EXCEPT !.output = end.out]
           /\ stack' = [tag \in DOMAIN stack |->
                           IF \E l \in ToSet(layers) : l.tag = tag /\ Keeps(l)
                           THEN Append(stack[tag], end.kept[tag]) ELSE stack[tag]]
    /\ tape' = Append(tape, input) /\ passes' = passes + 1
    /\ UNCHANGED <<net, layers, loadBuffer, grad, status, owed>>

-----------------------------------------------------------------------------
\* Mutant of Accumulate: the last gradient replaces the others.
LastOnly(res, g) == g

\* The first gradient that is not NullParameter is set, the others are added.
Accumulate(res, g) == IF res = Null THEN g ELSE Add(res, g)

CreateGradFromOutside(tag, outGrad) ==
    LET own == SelectSeq(net.topo.outs, LAMBDA c : c.from = tag)
    IN  FoldLeft(LAMBDA res, c : Accumulate(res, outGrad[c.name]), Null, own)
CreateGradFromInternal(tag, internal, res) ==
    LET own == SelectSeq(net.topo.inter, LAMBDA c : c.from = tag)
    IN  FoldLeft(LAMBDA r, c : Accumulate(r, internal[c.to][c.in]), res, own)
FillResult(tag, layerRes, res) ==
    LET own == SelectSeq(net.topo.ins, LAMBDA c : c.to = tag)
    IN  FoldLeft(LAMBDA r, c : [r EXCEPT ![c.name] = Accumulate(r[c.name], layerRes[c.in])],
                 res, own)

\* One sublayer after the other, from the last to the first.  A sublayer that
\* needs what it kept and kept nothing throws, with the later ones done.
FeedBackwardFun(outGrad) ==
    LET start == [internal |-> << >>, stack |-> stack, grad |-> grad, thrown |-> FALSE,
                  res |-> [n \in {c.name : c \in ToSet(net.topo.ins)} |-> Null]]
        run[n \in 0 .. Len(layers)] ==
            IF n = 0 THEN start
            ELSE LET before == run[n - 1]
                     l == layers[Len(layers) + 1 - n]
                     kept == before.stack[l.tag]
                     top == IF Keeps(l) THEN Last(kept) ELSE Null
                     g == CreateGradFromInternal(l.tag, before.internal,
                                                 CreateGradFromOutside(l.tag, outGrad))
                     in == LayerFeedBackward(l, ParameterOf(l), top, g)
                 IN  IF before.thrown THEN before
                     ELSE IF Keeps(l) /\ kept = << >> THEN [before EXCEPT !.thrown = TRUE]
                     ELSE [internal |-> (l.tag :> in) @@ before.internal,
                           stack |-> IF Keeps(l) THEN [before.stack EXCEPT ![l.tag] = Front(kept)]
                                                 ELSE before.stack,
                           grad |-> IF l.isUpdate
                                    THEN [before.grad EXCEPT ![l.tag] =
                                              Append(@, ParameterGrad(l, top, g))]
                                    ELSE before.grad,
                           thrown |-> FALSE,
                           res |-> FillResult(l.tag, in, before.res)]
    IN  run[Len(layers)]

FeedBackward(outGrad) ==
    /\ status = "ready"
    /\ tape # << >> \/ \E l \in ToSet(layers) : Keeps(l)
    /\ LET end == FeedBackwardFun(outGrad)
       IN  /\ stack' = end.stack /\ grad' = end.grad
           /\ IF end.thrown
              THEN /\ status' = "thrown" /\ shown' = Nothing
                   /\ UNCHANGED <<tape, owed>>
              ELSE /\ shown' = [Nothing EXCEPT !.back =
                                   [in |-> Last(tape), grad |-> outGrad, res |-> end.res]]
                   /\ owed' = Append(owed, <<Last(tape), outGrad>>)
                   /\ tape' = Front(tape)
                   /\ UNCHANGED status
    /\ UNCHANGED <<net, layers, loadBuffer, passes>>

-----------------------------------------------------------------------------
\* Mutant of Left: only the top is popped.
AllButTop(grads) == IF grads = << >> THEN grads ELSE Front(grads)
\* MatrixGradCollect pops until the stack is empty.
Left(grads) == << >>

\* The gradients of each updating sublayer go, the top first, into the entry
\* of the collector for its parameter.
GradCollect ==
    /\ status = "ready"
    /\ LET Taken(l) == [i \in DOMAIN grad[l.tag] |-> Collected(Reverse(grad[l.tag])[i])]
           Collect(col, l) ==
               IF grad[l.tag] = << >> THEN col
               ELSE (l.name :> (IF l.name \in DOMAIN col THEN col[l.name] \o Taken(l)
                                                         ELSE Taken(l))) @@ col
       IN  shown' = [Nothing EXCEPT !.collected = FoldLeft(Collect, << >>, layers),
                                    !.settled = owed]
    /\ grad' = [tag \in DOMAIN grad |-> Left(grad[tag])]
    /\ owed' = << >>
    /\ UNCHANGED <<net, layers, loadBuffer, stack, status, tape, passes>>

\* Throws when a sublayer still keeps something it would need.
NeutralInvariant ==
    /\ status = "ready"
    /\ shown' = [Nothing EXCEPT !.verdict =
                    IF \A tag \in DOMAIN stack : stack[tag] = << >> /\ grad[tag] = << >>
                    THEN "neutral" ELSE "fails"]
    /\ UNCHANGED <<net, layers, loadBuffer, stack, grad, status, tape, owed, passes>>

Next == \/ InitLayers
        \/ \E input \in net.inputs : FeedForward(input)
        \/ \E g \in net.grads : FeedBackward(g)
        \/ GradCollect
        \/ NeutralInvariant

Spec == Init /\ [][Next]_vars

-----------------------------------------------------------------------------
\* What the connections mean, whatever the order: every sublayer's output, of
\* an input and of parameters given by tag.
Meaning(par, input) ==
    LET value[tag \in Tags(net.topo)] ==
            LET l == CHOOSE s \in ToSet(net.topo.sub) : s.tag = tag
                Source(n) ==
                    IF \E c \in ToSet(net.topo.inter) : c.to = tag /\ c.in = n
                    THEN value[(CHOOSE c \in ToSet(net.topo.inter) : c.to = tag /\ c.in = n).from]
                    ELSE input[(CHOOSE c \in ToSet(net.topo.ins) : c.to = tag /\ c.in = n).name]
            IN  LayerFeedForward(l, par[tag], [n \in InputNames(l.kind) |-> Source(n)])[1]
    IN  [n \in {c.name : c \in ToSet(net.topo.outs)} |->
            value[(CHOOSE c \in ToSet(net.topo.outs) : c.name = n).from]]

Parameters == [tag \in Tags(net.topo) |->
                  ParameterOf(CHOOSE l \in ToSet(net.topo.sub) : l.tag = tag)]

\* The entries of a matrix or of a batch of matrices, and the datum with the
\* derivative 1 in the direction of one entry.
Entries(d) ==
    IF d.cat = "Matrix" THEN {<<1, i, j>> : i \in DOMAIN d.of, j \in DOMAIN d.of[1]}
    ELSE {<<b, i, j>> : b \in DOMAIN d.of, i \in DOMAIN d.of[1], j \in DOMAIN d.of[1][1]}
Entry(d, e) == IF d.cat = "Matrix" THEN d.of[e[2]][e[3]] ELSE d.of[e[1]][e[2]][e[3]]
Along(d, e) ==
    IF d.cat = "Matrix" THEN [d EXCEPT !.of[e[2]][e[3]] = <<@[1], 1>>]
    ELSE [d EXCEPT !.of[e[1]][e[2]][e[3]] = <<@[1], 1>>]

\* The derivative of the sum of the outputs, weighted by a gradient.
Derivative(outs, outGrad) ==
    LET Of(o, g) ==
            CASE o.cat = "Scalar" -> g.of[1] * o.of[2]
              [] o.cat = "BatchScalar" -> SumOf([b \in DOMAIN o.of |-> <<g.of[b][1] * o.of[b][2], 0>>])[1]
              [] OTHER -> FoldSet(LAMBDA e, sum : sum + Entry(g, e)[1] * Entry(o, e)[2], 0, Entries(o))
    IN  Norm(FoldSet(LAMBDA n, sum : sum + Of(outs[n], outGrad[n]), 0, DOMAIN outs))

(* A pass forward puts out what the connections mean, whatever order the     *)
(* sublayers were put in.                                                    *)
OutputRight == shown.output # Null =>
    \A n \in DOMAIN shown.output : shown.output[n] = Meaning(Parameters, Last(tape))[n]

(* A pass backward puts out the derivative by every input of what the        *)
(* matching pass forward computed, when the kernel's policy asks for it: the *)
(* chain rule holds over the connections and the stacks are in step.         *)
InputGradients ==
    LET back == shown.back
    IN  back # Null /\ Select(net.policy.plain, "isFeedbackOutput") =>
    \A n \in {m \in DOMAIN back.res : back.res[m] # Null} : \A e \in Entries(back.in[n]) :
        Entry(back.res[n], e)[1] =
            Derivative(Meaning(Parameters, [back.in EXCEPT ![n] = Along(@, e)]), back.grad)

(* GradCollect hands over, for each parameter, the derivative of all the     *)
(* passes back since the last one, by the uses of its updating sublayers:    *)
(* FeedbackOutSet makes every layer on the way feed back.                    *)
ParameterGradients ==
    \A l \in ToSet(layers) : l.isUpdate /\ shown.settled # << >> =>
        LET same == {k.tag : k \in {m \in ToSet(layers) : m.isUpdate /\ m.name = l.name}}
            By(pass, e) == Derivative(Meaning([tag \in Tags(net.topo) |->
                               IF tag \in same THEN Along(Parameters[tag], e) ELSE Parameters[tag]],
                               pass[1]), pass[2])
        IN  /\ l.name \in DOMAIN shown.collected
            /\ \A e \in Entries(ParameterOf(l)) :
                  Norm(FoldSeq(LAMBDA g, sum : sum + Entry(g, e)[1], 0, shown.collected[l.name])) =
                  Norm(FoldSeq(LAMBDA pass, sum : sum + By(pass, e), 0, shown.settled))

(* NeutralInvariant finds the stacks empty when every pass forward was       *)
(* matched by one backward and the gradients were collected, and only then.  *)
StacksPair ==
    LET waits == \/ tape # << >> /\ \E l \in ToSet(layers) : Keeps(l)
                 \/ owed # << >> /\ IsComposeLayerUpdate(layers)
    IN  (shown.verdict = "neutral" => ~waits) /\ (shown.verdict = "fails" => waits)
=============================================================================
