----------------------------- MODULE Operators -----------------------------
(***************************************************************************)
(* The operators of MetaNN on scalars, matrices and batches: what each     *)
(* evaluation unit computes (...Eval) and how the operator's dispatch      *)
(* brings its operands to one category before (Add, Dot, ...).             *)
(*                                                                         *)
(* A float is abstracted to an element of the field of P elements, with P  *)
(* prime, so that sums, products and quotients are exact, and it carries   *)
(* its derivative in one direction (a dual number): the derivative of      *)
(* whatever is computed comes with the value, by the rules of calculus and *)
(* not by the code that the layers use for it.  G generates the field:     *)
(* the exponential of the small integer x is the power x of G.             *)
(***************************************************************************)
EXTENDS Integers, Sequences, FiniteSets

P == 31    \* a prime, and
G == 3     \* a generator of the field of P elements

Half == P \div 2
Norm(x) == ((x + Half) % P) - Half
Field == -Half .. Half

Inverse1 == [v \in Field |-> IF v = 0 THEN 0 ELSE CHOOSE w \in Field : Norm(v * w) = 1]
Power == [x \in Field |->
            IF x >= 0 THEN Norm(G ^ x) ELSE Inverse1[Norm(G ^ (-x))]]

\* An element is its value and its derivative.
Const(c) == <<Norm(c), 0>>
Plus(a, b) == <<Norm(a[1] + b[1]), Norm(a[2] + b[2])>>
Minus(a, b) == <<Norm(a[1] - b[1]), Norm(a[2] - b[2])>>
Times(a, b) == <<Norm(a[1] * b[1]), Norm(a[1] * b[2] + a[2] * b[1])>>
Neg(a) == Minus(Const(0), a)
Over(a, b) ==
    LET v == Norm(a[1] * Inverse1[b[1]])
    IN  <<v, Norm(Norm(a[2] - v * b[2]) * Inverse1[b[1]])>>
Exp(a) == <<Power[a[1]], Norm(Power[a[1]] * a[2])>>
TanhOf(a) == Over(Minus(Exp(a), Exp(Neg(a))), Plus(Exp(a), Exp(Neg(a))))
\* The logarithm counts by its derivative only.
LogOf(a) == <<0, Norm(a[2] * Inverse1[a[1]])>>

\* sum of f[i] over the indices of the sequence f
SumOf(f) ==
    LET s[n \in 0 .. Len(f)] == IF n = 0 THEN Const(0) ELSE Plus(s[n - 1], f[n])
    IN  s[Len(f)]

Scalar(x) == [cat |-> "Scalar", of |-> x]
Matrix(m) == [cat |-> "Matrix", of |-> m]
BatchScalar(s) == [cat |-> "BatchScalar", of |-> s]
BatchMatrix(s) == [cat |-> "BatchMatrix", of |-> s]

ZeroMatrix(rowNum, colNum) ==
    Matrix([i \in 1 .. rowNum |-> [j \in 1 .. colNum |-> Const(0)]])
OneHotVector(colNum, hotPos) ==
    [cat |-> "Matrix", hot |-> hotPos,
     of |-> <<[j \in 1 .. colNum |-> Const(IF j = hotPos THEN 1 ELSE 0)]>>]
MakeArray(s) ==
    IF s[1].cat = "Matrix" THEN BatchMatrix([i \in DOMAIN s |-> s[i].of])
    ELSE BatchScalar([i \in DOMAIN s |-> s[i].of])
MakeDuplicate(n, m) == BatchMatrix([i \in 1 .. n |-> m.of])
TrivalMatrix(like, s) ==
    Matrix([i \in DOMAIN like |-> [j \in DOMAIN like[1] |-> s.of]])

\* OperAdd_ and the like: a in the category of b, when it is the smaller.
Expand(a, b) ==
    CASE a.cat = "Scalar" /\ b.cat = "Matrix" -> TrivalMatrix(b.of, a)
      [] a.cat = "Scalar" /\ b.cat = "BatchMatrix" ->
             MakeDuplicate(Len(b.of), TrivalMatrix(b.of[1], a))
      [] a.cat = "Matrix" /\ b.cat = "BatchMatrix" -> MakeDuplicate(Len(b.of), a)
      [] OTHER -> a

\* An evaluation unit of the category Matrix, and of BatchMatrix for each
\* matrix of the batch.
Unary(F(_), a) ==
    IF a.cat = "Matrix" THEN Matrix(F(a.of))
    ELSE BatchMatrix([n \in DOMAIN a.of |-> F(a.of[n])])
Binary(F(_, _), a, b) ==
    IF a.cat = "Matrix" THEN Matrix(F(a.of, b.of))
    ELSE BatchMatrix([n \in DOMAIN a.of |-> F(a.of[n], b.of[n])])

Elementwise(F(_), m) == [i \in DOMAIN m |-> [j \in DOMAIN m[i] |-> F(m[i][j])]]
Elementwise2(F(_, _), m, k) ==
    [i \in DOMAIN m |-> [j \in DOMAIN m[i] |-> F(m[i][j], k[i][j])]]

AddEval(a, b) == Binary(LAMBDA m, k : Elementwise2(Plus, m, k), a, b)
Add(a, b) == AddEval(Expand(a, b), Expand(b, a))

SubstractEval(a, b) == Binary(LAMBDA m, k : Elementwise2(Minus, m, k), a, b)
Substract(a, b) == SubstractEval(Expand(a, b), Expand(b, a))

ElementMulEval(a, b) == Binary(LAMBDA m, k : Elementwise2(Times, m, k), a, b)
ElementMul(a, b) == ElementMulEval(Expand(a, b), Expand(b, a))

DivideEval(a, b) == Binary(LAMBDA m, k : Elementwise2(Over, m, k), a, b)
Divide(a, b) == DivideEval(Expand(a, b), Expand(b, a))

DotEval(a, b) ==
    Binary(LAMBDA m, k : [i \in DOMAIN m |-> [j \in DOMAIN k[1] |->
               SumOf([h \in DOMAIN k |-> Times(m[i][h], k[h][j])])]], a, b)
Dot(a, b) == DotEval(Expand(a, b), Expand(b, a))

Transposed(m) == [j \in DOMAIN m[1] |-> [i \in DOMAIN m |-> m[i][j]]]
Transpose(a) == Unary(Transposed, a)

SignOf(x) == IF x[1] = 0 THEN Const(0) ELSE Const(IF x[1] > 0 THEN 1 ELSE -1)
Sign(a) == Unary(LAMBDA m : Elementwise(SignOf, m), a)

AbsOf(x) == IF x[1] > 0 THEN x ELSE Neg(x)
Abs(a) == Unary(LAMBDA m : Elementwise(AbsOf, m), a)

SigmoidOf(x) == Over(Const(1), Plus(Const(1), Exp(Neg(x))))
Sigmoid(a) == Unary(LAMBDA m : Elementwise(SigmoidOf, m), a)
SigmoidDerivativeOf(g, y) == Times(Times(g, y), Minus(Const(1), y))
SigmoidDerivative(grad, out) ==
    Binary(LAMBDA g, o : Elementwise2(SigmoidDerivativeOf, g, o), grad, out)

Tanh(a) == Unary(LAMBDA m : Elementwise(TanhOf, m), a)
TanhDerivativeOf(g, y) == Times(g, Minus(Const(1), Times(y, y)))
TanhDerivative(grad, out) ==
    Binary(LAMBDA g, o : Elementwise2(TanhDerivativeOf, g, o), grad, out)

\* a * lambda + b * (1 - lambda), the three of one category
InterpolateOf(m, k, l) ==
    [i \in DOMAIN m |-> [j \in DOMAIN m[i] |->
        Plus(Times(m[i][j], l[i][j]), Times(k[i][j], Minus(Const(1), l[i][j])))]]
Interpolate(a, b, lambda) ==
    IF a.cat = "Matrix" THEN Matrix(InterpolateOf(a.of, b.of, lambda.of))
    ELSE BatchMatrix([n \in DOMAIN a.of |-> InterpolateOf(a.of[n], b.of[n], lambda.of[n])])

\* exp(x - max) over their sum, of a matrix of one row
SoftmaxRow(m) ==
    LET maxElem == CHOOSE x \in {m[1][i] : i \in DOMAIN m[1]} :
                       \A i \in DOMAIN m[1] : m[1][i][1] <= x[1]
        e == [i \in DOMAIN m[1] |-> Exp(Minus(m[1][i], maxElem))]
    IN  <<[i \in DOMAIN e |-> Over(e[i], SumOf(e))]>>
VecSoftmax(a) == Unary(SoftmaxRow, a)

\* CaseGen: the gradient times diag(s) - s^T s, by a Dot registered when the
\* unit runs
Jacobian(s) == [i \in DOMAIN s[1] |-> [j \in DOMAIN s[1] |->
                  Plus(Neg(Times(s[1][i], s[1][j])), IF i = j THEN s[1][i] ELSE Const(0))]]
SoftmaxDerivativeGen(grad, sout) == DotEval(grad, Unary(Jacobian, sout))

\* CaseNLL, general: the gradient is that of the negative log-likelihood of
\* the very softmax, for any target
SoftmaxNLLRow(g, tar, pre) ==
    <<[i \in DOMAIN pre[1] |->
         Times(Minus(Times(pre[1][i], SumOf(tar[1])), tar[1][i]), g)]>>
SoftmaxDerivativeNLL(grad, tar, pre) ==
    IF tar.cat = "Matrix" THEN Matrix(SoftmaxNLLRow(grad.of, tar.of, pre.of))
    ELSE BatchMatrix([n \in DOMAIN tar.of |->
                        SoftmaxNLLRow(grad.of[n], tar.of[n], pre.of[n])])

\* CaseNLL of a OneHotVector
SoftmaxDerivativeHot(grad, hotPos, pre) ==
    Matrix(<<[i \in DOMAIN pre.of[1] |->
                Minus(Times(pre.of[1][i], grad.of),
                      IF i = hotPos THEN grad.of ELSE Const(0))]>>)

NLLOf(tar, pre) ==
    SumOf([i \in DOMAIN tar |->
             SumOf([j \in DOMAIN tar[i] |-> Neg(Times(tar[i][j], LogOf(pre[i][j])))])])
NegativeLogLikelihood(tar, pre) ==
    IF tar.cat = "Matrix" THEN Scalar(NLLOf(tar.of, pre.of))
    ELSE BatchScalar([n \in DOMAIN tar.of |-> NLLOf(tar.of[n], pre.of[n])])

NLLGrad(g, tar, pre) ==
    Elementwise2(LAMBDA t, p : Times(g, Over(Neg(t), p)), tar, pre)
NegativeLogLikelihoodDerivative(grad, tar, pre) ==
    IF tar.cat = "Matrix" THEN Matrix(NLLGrad(grad.of, tar.of, pre.of))
    ELSE BatchMatrix([n \in DOMAIN tar.of |-> NLLGrad(grad.of[n], tar.of[n], pre.of[n])])

\* the sum of the matrices of a batch
Collapse(a) ==
    Matrix([i \in DOMAIN a.of[1] |-> [j \in DOMAIN a.of[1][1] |->
              SumOf([n \in DOMAIN a.of |-> a.of[n][i][j]])]])
-----------------------------------------------------------------------------
(***************************************************************************)
(* The elementary layers of MetaNN.  Going forward, a layer turns its      *)
(* inputs into its output and, when the compiled policies ask for it,      *)
(* keeps something on a stack of its own; going backward, it turns the     *)
(* gradient of its output and the top of that stack into the gradients of  *)
(* its inputs and of its parameter.  A forward operator gives <<what is    *)
(* put out, what is kept>>, a backward operator the inputs' gradients.     *)
(***************************************************************************)

\* NullParameter: a value that no Set put into a VarTypeDict
Null == [cat |-> "Null"]

\* AbsLayer's stack is one of matrices: what it keeps is never a batch.
AbsForward(in) == <<Abs(in.io), IF in.io.cat = "Matrix" THEN in.io ELSE Null>>
AbsBackward(top, g) == [io |-> ElementMul(Sign(top), g)]

AddForward(in) == <<Add(in.in1, in.in2), Null>>
AddBackward(g) == [in1 |-> g, in2 |-> g]

BiasForward(bias, in) == <<Add(in.io, bias), Null>>
BiasBackward(g) == [io |-> g]

ElementMulForward(in) == <<ElementMul(in.in1, in.in2), in>>
ElementMulBackward(top, g) == [in1 |-> ElementMul(g, top.in2), in2 |-> ElementMul(g, top.in1)]

InterpolateForward(in) == <<Interpolate(in.weight1, in.weight2, in.lambda), in>>
InterpolateBackward(top, g) ==
    [weight1 |-> ElementMul(top.lambda, g),
     weight2 |-> ElementMul(Substract(Scalar(Const(1)), top.lambda), g),
     lambda |-> ElementMul(Substract(top.weight1, top.weight2), g)]

SigmoidForward(in) == <<Sigmoid(in.io), Sigmoid(in.io)>>
SigmoidBackward(top, g) == [io |-> SigmoidDerivative(g, top)]

TanhForward(in) == <<Tanh(in.io), Tanh(in.io)>>
TanhBackward(top, g) == [io |-> TanhDerivative(g, top)]

SoftmaxForward(in) == <<VecSoftmax(in.io), VecSoftmax(in.io)>>

\* VecSoftmaxDerivative: when the gradient turns out to be that of a negative
\* log-likelihood of this very softmax, the two are taken together and the
\* gradient itself is never evaluated; hot is the place of a OneHotVector.
SoftmaxBackward(top, g) ==
    [io |-> IF "nll" \notin DOMAIN g \/ g.nll.pred # top THEN SoftmaxDerivativeGen(g, top)
            ELSE IF "hot" \in DOMAIN g.nll.label
            THEN SoftmaxDerivativeHot(g.nll.grad, g.nll.label.hot, top)
            ELSE SoftmaxDerivativeNLL(g.nll.grad, g.nll.label, top)]

WeightForward(weight, in) == <<Dot(in.io, weight), in.io>>
WeightBackward(weight, g) == [io |-> Dot(g, Transpose(weight))]
WeightGrad(top, g) == Dot(Transpose(top), g)

NLLForward(in) == <<NegativeLogLikelihood(in.label, in.in), in>>
NLLBackward(top, g) ==
    LET d == NegativeLogLikelihoodDerivative(g, top.label, top.in)
    IN  [in |-> [cat |-> d.cat, of |-> d.of,
                 nll |-> [grad |-> g, label |-> top.label, pred |-> top.in]],
         label |-> Null]

-----------------------------------------------------------------------------
\* A layer: tag, kind, name (of its parameter) and the two FeedbackPolicy
\* members isUpdate and isFeedbackOutput that it was compiled with.

HasParameter(l) == l.kind \in {"Bias", "Weight"}

InputNames(kind) ==
    CASE kind \in {"Add", "ElementMul"} -> {"in1", "in2"}
      [] kind = "Interpolate" -> {"weight1", "weight2", "lambda"}
      [] kind = "NLL" -> {"in", "label"}
      [] OTHER -> {"io"}

\* Whether FeedForward pushes on the layer's stack.
Keeps(l) ==
    CASE l.kind = "Weight" -> l.isUpdate
      [] l.kind \in {"Add", "Bias"} -> FALSE
      [] OTHER -> l.isFeedbackOutput

LayerFeedForward(l, par, in) ==
    CASE l.kind = "Abs" -> AbsForward(in)
      [] l.kind = "Add" -> AddForward(in)
      [] l.kind = "Bias" -> BiasForward(par, in)
      [] l.kind = "ElementMul" -> ElementMulForward(in)
      [] l.kind = "Interpolate" -> InterpolateForward(in)
      [] l.kind = "Sigmoid" -> SigmoidForward(in)
      [] l.kind = "Tanh" -> TanhForward(in)
      [] l.kind = "Softmax" -> SoftmaxForward(in)
      [] l.kind = "Weight" -> WeightForward(par, in)
      [] l.kind = "NLL" -> NLLForward(in)

\* The gradients of the inputs; a layer that does not feed back has none.
LayerFeedBackward(l, par, top, g) ==
    IF ~l.isFeedbackOutput THEN [n \in InputNames(l.kind) |-> Null]
    ELSE CASE l.kind = "Abs" -> AbsBackward(top, g)
           [] l.kind = "Add" -> AddBackward(g)
           [] l.kind = "Bias" -> BiasBackward(g)
           [] l.kind = "ElementMul" -> ElementMulBackward(top, g)
           [] l.kind = "Interpolate" -> InterpolateBackward(top, g)
           [] l.kind = "Sigmoid" -> SigmoidBackward(top, g)
           [] l.kind = "Tanh" -> TanhBackward(top, g)
           [] l.kind = "Softmax" -> SoftmaxBackward(top, g)
           [] l.kind = "Weight" -> WeightBackward(par, g)
           [] l.kind = "NLL" -> NLLBackward(top, g)

\* What FeedBackward pushes for GradCollect.
ParameterGrad(l, top, g) == IF l.kind = "Bias" THEN g ELSE WeightGrad(top, g)

\* GradCollector::Collect adds up the gradients of a batch.
Collected(g) == IF g.cat = "BatchMatrix" THEN Collapse(g) ELSE g
=============================================================================
