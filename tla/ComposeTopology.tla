-------------------------- MODULE ComposeTopology --------------------------
(***************************************************************************)
(* The compile-time half of layers/compose/compose_kernel.h: what is       *)
(* asserted of a ComposeTopology, the order its sublayers are put in, and  *)
(* the policies each of them is compiled with.                             *)
(*                                                                         *)
(* A topology is a record of sequences:                                    *)
(*   sub    sublayers  [tag, kind, name]  (name is that of the parameter)  *)
(*   inter  InternalConnect [from, to, in]: the output of from is the      *)
(*          input in of to (a layer has one output)                        *)
(*   ins    InConnect [name, to, in]                                       *)
(*   outs   OutConnect [from, name]                                        *)
(***************************************************************************)
EXTENDS Operators, SequencesExt

Distinct(s) == \A i, j \in DOMAIN s : s[i] = s[j] => i = j
Tags(t) == {l.tag : l \in ToSet(t.sub)}
Froms(s) == {c.from : c \in ToSet(s)}
Tos(s) == {c.to : c \in ToSet(s)}

UniqueTags(t) == Distinct([i \in DOMAIN t.sub |-> t.sub[i].tag])
NoSelfCycle(t) == \A c \in ToSet(t.inter) : c.from # c.to
UniqueInternal(t) == Distinct([i \in DOMAIN t.inter |-> <<t.inter[i].to, t.inter[i].in>>])
UniqueInput(t) == Distinct([i \in DOMAIN t.ins |-> <<t.ins[i].to, t.ins[i].in>>])
UniqueOutput(t) == Distinct([i \in DOMAIN t.outs |-> t.outs[i].name])
InternalTagInSublayer(t) == Froms(t.inter) \cup Tos(t.inter) \subseteq Tags(t)
InputTagInSubLayer(t) == Tos(t.ins) \subseteq Tags(t)
OutputTagInSubLayer(t) == Froms(t.outs) \subseteq Tags(t)
SublayerTagInOtherArrays(t) ==
    Tags(t) \subseteq Froms(t.inter) \cup Tos(t.inter) \cup Tos(t.ins) \cup Froms(t.outs)
UsefulInternalPostLayer(t) == Tos(t.inter) \subseteq Froms(t.inter) \cup Froms(t.outs)
UsefulInputLayer(t) == Tos(t.ins) \subseteq Froms(t.inter) \cup Froms(t.outs)

\* the static_asserts of ComposeTopology, before the ordering
Asserted(t) ==
    /\ t.sub # << >>
    /\ UniqueTags(t)
    /\ NoSelfCycle(t) /\ UniqueInternal(t) /\ UniqueInput(t) /\ UniqueOutput(t)
    /\ InternalTagInSublayer(t) /\ InputTagInSubLayer(t) /\ OutputTagInSubLayer(t)
    /\ SublayerTagInOtherArrays(t) /\ UsefulInternalPostLayer(t) /\ UsefulInputLayer(t)

-----------------------------------------------------------------------------
\* The tags whose layers wait for no other: the sources of connections that
\* are nobody's target.
PostTags(inter) == Froms(inter) \ Tos(inter)

\* One round of the main loop moves those layers to the ordered ones and
\* prunes their connections.
InternalLayerPrune(inter) == SelectSeq(inter, LAMBDA c : c.from \in Tos(inter))
MainStep(s) ==
    LET post == PostTags(s.inter)
    IN  [ordered |-> s.ordered \o SelectSeq(s.rest, LAMBDA l : l.tag \in post),
         rest |-> SelectSeq(s.rest, LAMBDA l : l.tag \notin post),
         inter |-> InternalLayerPrune(s.inter)]

\* The rounds end when no connection is left, or on a cycle, when one
\* prunes nothing.
MainLoop(start) ==
    LET after[n \in Nat] == IF n = 0 THEN start ELSE MainStep(after[n - 1])
    IN  after[Len(start.inter)]

SublayerPreprocess(t) ==
    LET inInter(l) == l.tag \in Froms(t.inter) \cup Tos(t.inter)
    IN  [ordered |-> SelectSeq(t.sub, LAMBDA l : ~inInter(l)),
         rest |-> SelectSeq(t.sub, inInter),
         inter |-> t.inter]

\* "Cycle exist in the compose layer" is asserted not to be
Acyclic(t) == MainLoop(SublayerPreprocess(t)).inter = << >>
TopologicalOrdering(t) ==
    LET end == MainLoop(SublayerPreprocess(t)) IN end.ordered \o end.rest

-----------------------------------------------------------------------------
\* A policy: the members of FeedbackPolicy that a container sets, and under
\* sub those that it sets for the sublayer of a tag.
Select(policy, member) == member \in DOMAIN policy /\ policy[member]

\* The sublayer's own members come first, then the plain ones of the parent.
SubPolicyPicker(policy, tag) ==
    (IF tag \in DOMAIN policy.sub THEN policy.sub[tag] ELSE << >>) @@ policy.plain

GetSublayerPolicy(policy, ordered) ==
    [i \in DOMAIN ordered |->
        LET picked == SubPolicyPicker(policy, ordered[i].tag)
        IN  [tag |-> ordered[i].tag, kind |-> ordered[i].kind, name |-> ordered[i].name,
             isUpdate |-> HasParameter(ordered[i]) /\ Select(picked, "isUpdate"),
             isFeedbackOutput |-> Select(picked, "isFeedbackOutput"),
             asksUpdate |-> Select(picked, "isUpdate")]]

FeedbackOutCheck(layers) == \A l \in ToSet(layers) : l.isFeedbackOutput

\* A layer fed by the source is compiled to feed back.
UpdateBySourceLayer(source, inter, layers) ==
    [i \in DOMAIN layers |->
        IF \E c \in ToSet(inter) : c.from = source /\ c.to = layers[i].tag
        THEN [layers[i] EXCEPT !.isFeedbackOutput = TRUE] ELSE layers[i]]

\* One layer after the other, as ordered: one that updates or feeds back has
\* those it feeds feed back.
FeedbackOutSet(layers, inter) ==
    LET after[n \in 0 .. Len(layers)] ==
            IF n = 0 THEN layers
            ELSE LET before == after[n - 1]
                     cur == before[n]
                 IN  IF cur.isFeedbackOutput \/ cur.asksUpdate
                     THEN SubSeq(before, 1, n) \o
                          UpdateBySourceLayer(cur.tag, inter, SubSeq(before, n + 1, Len(before)))
                     ELSE before
    IN  after[Len(layers)]

\* "Sublayer not set feedback output, logic error!"
PolicyAsserted(t, policy) ==
    Select(policy.plain, "isFeedbackOutput")
        => FeedbackOutCheck(GetSublayerPolicy(policy, TopologicalOrdering(t)))

SublayerInstantiation(t, policy) ==
    LET picked == GetSublayerPolicy(policy, TopologicalOrdering(t))
    IN  IF Select(policy.plain, "isFeedbackOutput") THEN picked
        ELSE FeedbackOutSet(picked, t.inter)

IsComposeLayerUpdate(layers) == \E l \in ToSet(layers) : l.isUpdate

-----------------------------------------------------------------------------
(* The topologies that the library composes itself, LinearLayer, SingleLayer *)
(* with and without a bias, and GruStep, and the sizes that their            *)
(* constructors give to the parameters of the sublayers.                     *)

Sub(tag, kind) == [tag |-> tag, kind |-> kind, name |-> tag]
Connect(from, to, in) == [from |-> from, to |-> to, in |-> in]
From(name, to, in) == [name |-> name, to |-> to, in |-> in]
Out(from) == <<[from |-> from, name |-> "io"]>>

\* linear_layer.h
Linear == [sub |-> <<Sub("Weight", "Weight"), Sub("Bias", "Bias")>>,
           ins |-> <<From("io", "Weight", "io")>>,
           inter |-> <<Connect("Weight", "Bias", "io")>>,
           outs |-> Out("Bias")]
LinearShapes(inputLen, outputLen) == [Weight |-> <<inputLen, outputLen>>, Bias |-> <<1, outputLen>>]

\* single_layer.h
Single(hasBias, action) ==
    IF hasBias
    THEN [sub |-> <<Sub("Weight", "Weight"), Sub("Bias", "Bias"), Sub("Action", action)>>,
          ins |-> <<From("io", "Weight", "io")>>,
          inter |-> <<Connect("Weight", "Bias", "io"), Connect("Bias", "Action", "io")>>,
          outs |-> Out("Action")]
    ELSE [sub |-> <<Sub("Weight", "Weight"), Sub("Action", action)>>,
          ins |-> <<From("io", "Weight", "io")>>,
          inter |-> <<Connect("Weight", "Action", "io")>>,
          outs |-> Out("Action")]

\* gru_step.h
Gru == [sub |-> <<Sub("Wz", "Weight"), Sub("Uz", "Weight"), Sub("Add_z", "Add"), Sub("Act_z", "Sigmoid"),
                  Sub("Wr", "Weight"), Sub("Ur", "Weight"), Sub("Add_r", "Add"), Sub("Act_r", "Sigmoid"),
                  Sub("Elem", "ElementMul"), Sub("U", "Weight"), Sub("W", "Weight"), Sub("Add", "Add"),
                  Sub("Act_Hat", "Tanh"), Sub("Interpolate", "Interpolate")>>,
        ins |-> <<From("io", "Wz", "io"), From("hidden", "Uz", "io"), From("io", "Wr", "io"),
                  From("hidden", "Ur", "io"), From("hidden", "Elem", "in1"), From("io", "W", "io"),
                  From("hidden", "Interpolate", "weight2")>>,
        inter |-> <<Connect("Wz", "Add_z", "in1"), Connect("Uz", "Add_z", "in2"),
                    Connect("Add_z", "Act_z", "io"), Connect("Wr", "Add_r", "in1"),
                    Connect("Ur", "Add_r", "in2"), Connect("Add_r", "Act_r", "io"),
                    Connect("Act_r", "Elem", "in2"), Connect("Elem", "U", "io"),
                    Connect("U", "Add", "in1"), Connect("W", "Add", "in2"),
                    Connect("Add", "Act_Hat", "io"), Connect("Act_Hat", "Interpolate", "weight1"),
                    Connect("Act_z", "Interpolate", "lambda")>>,
        outs |-> Out("Interpolate")]
GruShapes(inLen, outLen) ==
    [Wz |-> <<inLen, outLen>>, Uz |-> <<outLen, outLen>>,
     Wr |-> <<inLen, outLen>>, Ur |-> <<outLen, outLen>>,
     W |-> <<inLen, outLen>>, U |-> <<outLen, outLen>>]
=============================================================================
