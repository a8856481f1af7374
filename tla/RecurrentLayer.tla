--------------------------- MODULE RecurrentLayer ---------------------------
(***************************************************************************)
(* RecurrentLayer of layers/recurrent/recurrent_layer.h: a step, which is  *)
(* a ComposeKernel with an input "hidden", and the hidden value of the     *)
(* last step.  A pass backward adds to the gradient it is given that of    *)
(* the hidden value, which the pass backward over the step after it left   *)
(* in m_hiddens: one member holds the hidden value on the way forward and  *)
(* its gradient on the way back, and m_inForward tells which.              *)
(* (UseBptt is set, as by default: without it FeedBackward does not        *)
(* compile, for it forwards a constant.)                                   *)
(***************************************************************************)
EXTENDS ComposeTopology

CONSTANTS Nets, MaxDeep, MaxPasses     \* of the steps: see ComposeKernel

VARIABLES net, layers, loadBuffer, stack, grad, status, shown, tape, owed, passes,
          m_hiddens, m_inForward,
          fed, gs,        \* the inputs and gradients since the last GradCollect
          orderly,        \* they are those of one sequence, all forward then all back
          sequence        \* those of the last GradCollect, if orderly and complete

Step == INSTANCE ComposeKernel

members == <<m_hiddens, m_inForward>>
given == <<fed, gs, orderly, sequence>>
vars == <<Step!vars, members, given>>

\* A step that is to update is compiled to feed back as well.
StepPolicy(policy) ==
    IF ~Select(policy.plain, "isFeedbackOutput") /\ Select(policy.plain, "isUpdate")
    THEN [policy EXCEPT !.plain = ("isFeedbackOutput" :> TRUE) @@ @] ELSE policy

Init == /\ Step!Build({[n EXCEPT !.policy = StepPolicy(@)] : n \in Nets})
        /\ m_hiddens = Null /\ m_inForward = TRUE
        /\ fed = << >> /\ gs = << >> /\ orderly = TRUE /\ sequence = << >>

InitLayers == Step!InitLayers /\ UNCHANGED <<members, given>>

\* With a hidden value of the caller, or else the one of the last step; which
\* must not be empty, by an assertion.
FeedForward(input) ==
    /\ input.hidden = Null => m_hiddens # Null
    /\ Step!FeedForward(IF input.hidden = Null THEN [input EXCEPT !.hidden = m_hiddens] ELSE input)
    /\ m_inForward' = TRUE
    /\ m_hiddens' = shown'.output.io
    /\ fed' = Append(fed, input)
    /\ orderly' = (orderly /\ gs = << >> /\ (input.hidden = Null <=> fed # << >>))
    /\ sequence' = << >> /\ UNCHANGED gs

StepGrad(g) == IF m_inForward THEN g ELSE [io |-> Add(g.io, m_hiddens)]

FeedBackward(g) ==
    /\ Step!FeedBackward(StepGrad(g))
    /\ m_inForward' = FALSE
    /\ m_hiddens' = IF status' = "ready" THEN shown'.back.res.hidden ELSE m_hiddens
    /\ gs' = Append(gs, g)
    /\ sequence' = << >> /\ UNCHANGED <<fed, orderly>>

GradCollect ==
    /\ Step!GradCollect
    /\ sequence' = IF orderly /\ Len(gs) = Len(fed) THEN <<fed, gs>> ELSE << >>
    /\ fed' = << >> /\ gs' = << >> /\ orderly' = (tape = << >>)
    /\ UNCHANGED members

NeutralInvariant == Step!NeutralInvariant /\ sequence' = << >> /\ UNCHANGED <<members, fed, gs, orderly>>

Next == \/ InitLayers
        \/ \E input \in net.inputs : FeedForward(input)
        \/ \E g \in net.grads : FeedBackward(g)
        \/ GradCollect
        \/ NeutralInvariant

Spec == Init /\ [][Next]_vars

-----------------------------------------------------------------------------
\* The hidden values of a sequence, from the first step on.
Unrolled(par, inputs) ==
    LET h[k \in DOMAIN inputs] ==
            Step!Meaning(par, [io |-> inputs[k].io,
                          hidden |-> IF k = 1 THEN inputs[1].hidden ELSE h[k - 1]]).io
    IN  h

\* The derivative of the sum of all steps' outputs, each weighted by its
\* gradient; the passes back came in the opposite order.
SequenceDerivative(par, inputs, grads) ==
    LET h == Unrolled(par, inputs)
    IN  Norm(FoldSet(LAMBDA k, sum : sum +
                         Step!Derivative([io |-> h[k]], grads[Len(grads) + 1 - k]), 0, DOMAIN inputs))

(* Back-propagation through time: over a sequence fed forward and then back, *)
(* the collected gradients add up to the derivative of the whole sequence,   *)
(* through every hidden value, by each parameter.                            *)
SequenceGradients == sequence # << >> =>
    \A l \in ToSet(layers) : l.isUpdate /\ sequence[1] # << >> =>
        \A e \in Step!Entries(Step!ParameterOf(l)) :
            Norm(FoldSeq(LAMBDA g, sum : sum + Step!Entry(g, e)[1], 0, shown.collected[l.name])) =
            SequenceDerivative([tag \in Tags(net.topo) |->
                IF tag = l.tag THEN Step!Along(Step!Parameters[tag], e) ELSE Step!Parameters[tag]],
                sequence[1], sequence[2])
=============================================================================
