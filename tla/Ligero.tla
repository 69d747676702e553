-------------------------------- MODULE Ligero --------------------------------
(***************************************************************************)
(* The Ligero argument of runtime/ligero: the layout of the tableau, its   *)
(* commitment, the three responses, the openings, and the verifier.        *)
(*                                                                         *)
(* The field is the integers modulo the prime q, and the points of a row   *)
(* are 0 .. block_enc - 1.  The commitment shows the committed columns     *)
(* themselves (module Merkle is about the tree), and a challenge is a      *)
(* tape that belongs to what was absorbed before (module Transcript):      *)
(* prover and verifier see the same tape if and only if they absorbed the  *)
(* same messages.  Masks come from the field; masks from a subfield and    *)
(* the assertions of debug builds are left out.                            *)
(***************************************************************************)
EXTENDS Integers, FiniteSets, Sequences, Functions

CONSTANTS
  q,                        \* the modulus
  nw, nq, nl,               \* witnesses, quadratic and linear constraints
  block_enc, rateinv, nreq, \* LigeroConfig
  llterm,                   \* sequence of [c, w, k]: k * W[w] in equation c
  lqc,                      \* function 0 .. nq - 1 -> [x, y, z]
  Witnesses,                \* witnesses tried, functions 0 .. nw - 1 -> F
  Evals,                    \* right-hand sides tried, 0 .. nl - 1 -> F
  Lossy,                    \* bound: instances whose proof may be changed on its way
  Coins,                    \* the prover's random tapes, 0 .. NCoins - 1 -> F
  Tapes                     \* challenge tapes, 0 .. NChallenges - 1 -> F

F == 0 .. q - 1

-----------------------------------------------------------------------------
(***************************************************************************)
(* LigeroParam::try_new.                                                   *)
(***************************************************************************)
Ceil(x, y) == (x + y - 1) \div y

block == (block_enc + 1) \div (2 + rateinv)
r == nreq
w == block - nreq
dblock == 2 * block - 1
ext == block_enc - dblock        \* committed columns
nwrow == Ceil(nw, w)
nqtriples == Ceil(nq, w)
nwqrow == nwrow + 3 * nqtriples
ildt == 0
idot == 1
iquad == 2
iw == 3
iq == iw + nwrow
nrow == iw + nwqrow
iqx == iq
iqy == iqx + nqtriples
iqz == iq + 2 * nqtriples

MaxSize == 2 ^ 28

Admitted ==
  /\ block_enc <= MaxSize /\ rateinv <= MaxSize
  /\ block_enc + 1 >= 2 + rateinv
  /\ block_enc <= q                 \* can_interpolate: distinct points
  /\ block >= nreq /\ w >= nreq
  /\ block_enc >= dblock /\ ext >= nreq

NCoins == block + 2 * dblock + nwqrow * r
NChallenges == nwqrow + nl + 3 * nq + nqtriples

\* validate, second half: a condition on the statement alone.
StatementInBounds ==
  /\ \A t \in 1 .. Len(llterm) : llterm[t].c < nl /\ llterm[t].w < nw
  /\ \A e \in 0 .. nq - 1 : {lqc[e].x, lqc[e].y, lqc[e].z} \subseteq 0 .. nw - 1

ASSUME LigeroAssumption ==
  /\ q \in Nat /\ \A x, y \in 1 .. q - 1 : (x * y) % q # 0
  /\ {nw, nq, nl, block_enc, rateinv, nreq} \subseteq Nat
  /\ Admitted /\ nreq > 0
  /\ llterm \in Seq([c : Nat, w : Nat, k : F])
  /\ lqc \in [0 .. nq - 1 -> [x : Nat, y : Nat, z : Nat]]
  /\ StatementInBounds
  /\ Witnesses \subseteq [0 .. nw - 1 -> F] /\ Evals \subseteq [0 .. nl - 1 -> F]
  /\ Coins \subseteq [0 .. NCoins - 1 -> F] /\ Tapes \subseteq [0 .. NChallenges - 1 -> F]

-----------------------------------------------------------------------------
(***************************************************************************)
(* Arithmetic, and interpolation between ranges of points.                 *)
(***************************************************************************)
Sum(f) == SumFunction(f) % q
Prod(f) == FoldFunction(LAMBDA x, y : (x * y) % q, 1, f)
Inv(x) == CHOOSE y \in F : (x * y) % q = 1

\* Weights of the samples at 0 .. len - 1 for the value at x.
Weights(len, x) ==
  [p \in 0 .. len - 1 |->
     Prod([o \in (0 .. len - 1) \ {p} |-> ((x - o) * Inv((p - o) % q)) % q])]

WeightTable == [len \in {block, dblock} |-> [x \in 0 .. block_enc - 1 |-> Weights(len, x)]]

\* Mutant of Interpolate: the last sample is not used.
Interpolate_ButLast(y, x) ==
  LET len == Cardinality(DOMAIN y) - 1
  IN Sum([p \in 0 .. len - 1 |-> y[p] * Weights(len, x)[p]])

\* Value at x of the polynomial through the samples y at 0, 1, 2, ...
Interpolate(y, x) ==
  LET wt == WeightTable[Cardinality(DOMAIN y)][x]
  IN Sum([p \in DOMAIN y |-> y[p] * wt[p]])

\* extend_row
Extend(y) == [x \in 0 .. block_enc - 1 |-> IF x \in DOMAIN y THEN y[x] ELSE Interpolate(y, x)]

-----------------------------------------------------------------------------
VARIABLES
  pc,
  witness, evals,  \* the witness, and the constant terms b of A w + b = 0
  rng,             \* the prover's coins
  tableau,
  root,            \* committed columns
  asked,           \* challenge tape after commitment and statement
  idx,             \* positions the prover opens
  proof,
  tampered,        \* what a third party changed in the proof, if anything
  vidx             \* positions the verifier draws

vars == <<pc, witness, evals, rng, tableau, root, asked, idx, proof, tampered, vidx>>

-----------------------------------------------------------------------------
(***************************************************************************)
(* layout: the coins are drawn in the order of the calls.                  *)
(***************************************************************************)
Draw(from, len) == [p \in 0 .. len - 1 |-> rng[from + p]]
Slots == r .. r + w - 1

\* Mutant of DotMask: the sum is not taken off.
DotMask_Unbalanced(d) == d

DotMask(d) == [d EXCEPT ![r] = (@ - Sum([s \in Slots |-> d[s]])) % q]
QuadMask(d) == [x \in DOMAIN d |-> IF x \in Slots THEN 0 ELSE d[x]]

LayoutBlindingRows ==
  /\ pc = "layout"
  /\ tableau' = [row \in 0 .. iw - 1 |->
                   Extend(IF row = ildt THEN Draw(0, block)
                          ELSE IF row = idot THEN DotMask(Draw(block, dblock))
                          ELSE QuadMask(Draw(block + dblock, dblock)))]
  /\ pc' = "layout_witness"
  /\ UNCHANGED <<witness, evals, rng, root, asked, idx, proof, tampered, vidx>>

\* Witness row i: coins, then its part of the witness, then zeros.
WitnessRow(i) ==
  Extend([x \in 0 .. block - 1 |->
            IF x < r THEN rng[block + 2 * dblock + i * r + x]
            ELSE IF i * w + x - r < nw THEN witness[i * w + x - r]
            ELSE 0])

LayoutWitnessRows ==
  /\ pc = "layout_witness"
  /\ tableau' = [row \in 0 .. iq - 1 |->
                   IF row < iw THEN tableau[row] ELSE WitnessRow(row - iw)]
  /\ pc' = "layout_quadratic"
  /\ UNCHANGED <<witness, evals, rng, root, asked, idx, proof, tampered, vidx>>

\* Row i of the copies of one operand; operands are x, y and z, part 0, 1 and 2.
Operand(e, part) == witness[<<lqc[e].x, lqc[e].y, lqc[e].z>>[part + 1]]

QuadraticRow(i, part) ==
  Extend([x \in 0 .. block - 1 |->
            IF x < r THEN rng[block + 2 * dblock + nwrow * r + (3 * i + part) * r + x]
            ELSE IF i * w + x - r < nq THEN Operand(i * w + x - r, part)
            ELSE 0])

LayoutQuadraticRows ==
  /\ pc = "layout_quadratic"
  /\ tableau' = [row \in 0 .. nrow - 1 |->
                   IF row < iq THEN tableau[row]
                   ELSE QuadraticRow((row - iq) % nqtriples, (row - iq) \div nqtriples)]
  /\ pc' = "commit"
  /\ UNCHANGED <<witness, evals, rng, root, asked, idx, proof, tampered, vidx>>

\* The values of all rows at a point.
Column(x) == [i \in 0 .. nrow - 1 |-> tableau[i][x]]

Commit ==
  /\ pc = "commit"
  /\ root' = [c \in 0 .. ext - 1 |-> Column(dblock + c)]
  /\ pc' = "respond"
  /\ UNCHANGED <<witness, evals, rng, tableau, asked, idx, proof, tampered, vidx>>

-----------------------------------------------------------------------------
(***************************************************************************)
(* The challenges, in the order in which they are drawn.                   *)
(***************************************************************************)
uldt(i) == asked[i]
alphal(c) == asked[nwqrow + c]
alphaq(e, part) == asked[nwqrow + nl + 3 * e + part]
uquad(i) == asked[nwqrow + nl + 3 * nq + i]

\* inner_product_vector: coefficient of tableau element v.
ax_offset == nwrow * w
If1(b) == IF b THEN 1 ELSE 0

\* Mutant of CopyOffset: the z copies are looked for where the y copies are.
CopyOffset_Short(part) == ax_offset + (IF part = 0 THEN 0 ELSE 1) * nqtriples * w

CopyOffset(part) == ax_offset + part * nqtriples * w

InnerProductVector(v) ==
  ( Sum([t \in 1 .. Len(llterm) |->
           If1(llterm[t].w = v) * llterm[t].k * alphal(llterm[t].c)])
  + Sum([e \in 0 .. nq - 1 |->
           Sum([part \in 0 .. 2 |->
                  alphaq(e, part) * (If1(v = CopyOffset(part) + e)
                                   - If1(v = <<lqc[e].x, lqc[e].y, lqc[e].z>>[part + 1]))])])
  ) % q

\* layout_aext_into, extended.
CoefficientRow(i) ==
  Extend([x \in 0 .. block - 1 |->
            IF x \in Slots THEN InnerProductVector(i * w + x - r) ELSE 0])

CoefficientRows == [i \in 0 .. nwqrow - 1 |-> CoefficientRow(i)]

\* The three combinations of the rows at one point, from the values val of the
\* rows there and the values coef of the coefficient rows.
LowDegreeAt(val) == (val[ildt] + Sum([i \in 0 .. nwqrow - 1 |-> uldt(i) * val[iw + i]])) % q

DotAt(val, coef) ==
  (val[idot] + Sum([i \in 0 .. nwqrow - 1 |-> coef[i] * val[iw + i]])) % q

QuadraticAt(val) ==
  (val[iquad] + Sum([i \in 0 .. nqtriples - 1 |->
                       uquad(i) * (val[iqz + i] - val[iqx + i] * val[iqy + i])])) % q

-----------------------------------------------------------------------------
(***************************************************************************)
(* prove.                                                                  *)
(***************************************************************************)
\* The statement is absorbed, the weights are drawn.
Ask ==
  /\ pc = "respond"
  /\ asked' \in Tapes
  /\ pc' = "combine"
  /\ UNCHANGED <<witness, evals, rng, tableau, root, idx, proof, tampered, vidx>>

\* low_degree_proof, dot_proof, quadratic_proof.
YQuad == [x \in 0 .. dblock - 1 |-> QuadraticAt(Column(x))]

Combine ==
  LET coefs == CoefficientRows IN
  /\ pc = "combine"
  /\ \A s \in Slots : YQuad[s] = 0
  /\ proof' = [y_ldt |-> [x \in 0 .. block - 1 |-> LowDegreeAt(Column(x))],
               y_dot |-> [x \in 0 .. dblock - 1 |->
                            DotAt(Column(x), [i \in 0 .. nwqrow - 1 |-> coefs[i][x]])],
               y_quad_0 |-> [x \in 0 .. r - 1 |-> YQuad[x]],
               y_quad_2 |-> [x \in 0 .. dblock - block - 1 |-> YQuad[block + x]],
               req |-> <<>>]
  /\ pc' = "open"
  /\ UNCHANGED <<witness, evals, rng, tableau, root, asked, idx, tampered, vidx>>

\* assert!(ok, "W part is nonzero")
CombinePanics ==
  /\ pc = "combine"
  /\ \E s \in Slots : YQuad[s] # 0
  /\ pc' = "panicked"
  /\ UNCHANGED <<witness, evals, rng, tableau, root, asked, idx, proof, tampered, vidx>>

\* gen_idx, as module Sampler shows it.
Positions == {p \in [0 .. nreq - 1 -> 0 .. ext - 1] : IsInjective(p)}

\* The responses are absorbed, the positions drawn and the columns gathered,
\* row by row.
Open ==
  /\ pc = "open"
  /\ idx' \in Positions
  /\ proof' = [proof EXCEPT !.req = [k \in 0 .. nrow * nreq - 1 |->
                                       tableau[k \div nreq][dblock + idx'[k % nreq]]]]
  /\ pc' = "sent"
  /\ UNCHANGED <<witness, evals, rng, tableau, root, asked, tampered, vidx>>

-----------------------------------------------------------------------------
(***************************************************************************)
(* The way to the verifier.                                                *)
(***************************************************************************)
Responses == {"y_ldt", "y_dot", "y_quad_0", "y_quad_2"}

Deliver ==
  /\ pc = "sent"
  /\ pc' = "validate"
  /\ UNCHANGED <<witness, evals, rng, tableau, root, asked, idx, proof, tampered, vidx>>

\* One element of a response arrives with another value.
CorruptElement ==
  /\ pc = "sent" /\ <<witness, evals, rng>> \in Lossy
  /\ \E y \in Responses : \E x \in DOMAIN proof[y], d \in 1 .. q - 1 :
       /\ proof' = [proof EXCEPT ![y][x] = (@ + d) % q]
       /\ tampered' = y
  /\ pc' = "validate"
  /\ UNCHANGED <<witness, evals, rng, tableau, root, asked, idx, vidx>>

\* An opened value arrives with another value.
CorruptOpening ==
  /\ pc = "sent" /\ <<witness, evals, rng>> \in Lossy
  /\ \E k \in DOMAIN proof.req : proof' = [proof EXCEPT !.req[k] = (@ + 1) % q]
  /\ tampered' = "req"
  /\ pc' = "validate"
  /\ UNCHANGED <<witness, evals, rng, tableau, root, asked, idx, vidx>>

\* A part arrives one element short.
CorruptLength ==
  /\ pc = "sent" /\ <<witness, evals, rng>> \in Lossy
  /\ \E y \in Responses \cup {"req"} :
       /\ DOMAIN proof[y] # {}
       /\ proof' = [proof EXCEPT ![y] = [x \in 0 .. Cardinality(DOMAIN @) - 2 |-> @[x]]]
  /\ tampered' = "length"
  /\ pc' = "validate"
  /\ UNCHANGED <<witness, evals, rng, tableau, root, asked, idx, vidx>>

-----------------------------------------------------------------------------
(***************************************************************************)
(* verify.                                                                 *)
(***************************************************************************)
Shaped ==
  /\ DOMAIN proof.y_ldt = 0 .. block - 1
  /\ DOMAIN proof.y_dot = 0 .. dblock - 1
  /\ DOMAIN proof.y_quad_0 = 0 .. r - 1
  /\ DOMAIN proof.y_quad_2 = 0 .. dblock - block - 1
  /\ DOMAIN proof.req = 0 .. nrow * nreq - 1
  /\ StatementInBounds

Go(from, ok, next, error) ==
  /\ pc = from
  /\ pc' = IF ok THEN next ELSE error
  /\ UNCHANGED <<witness, evals, rng, tableau, root, asked, idx, proof, tampered, vidx>>

Validate == Go("validate", Shaped, "draw", "InvalidProof")

\* The weights are those of the prover, for the commitment and the statement
\* are; the positions are, if the responses are.
VerifierDraws ==
  /\ pc = "draw"
  /\ IF tampered \in Responses THEN vidx' \in Positions ELSE vidx' = idx
  /\ pc' = "merkle"
  /\ UNCHANGED <<witness, evals, rng, tableau, root, asked, idx, proof, tampered>>

\* Values the proof shows for all rows at the c-th position.
Opened(c) == [i \in 0 .. nrow - 1 |-> proof.req[i * nreq + c]]

MerkleCheck ==
  Go("merkle", \A c \in 0 .. nreq - 1 : Opened(c) = root[vidx[c]], "low_degree", "MerkleCheckFailed")

LowDegreeCheck ==
  Go("low_degree",
     \A c \in 0 .. nreq - 1 :
       Interpolate(proof.y_ldt, dblock + vidx[c]) = LowDegreeAt(Opened(c)),
     "dot", "LowDegreeCheckFailed")

DotCheck ==
  LET coefs == CoefficientRows IN
  Go("dot",
     \A c \in 0 .. nreq - 1 :
       Interpolate(proof.y_dot, dblock + vidx[c])
         = DotAt(Opened(c), [i \in 0 .. nwqrow - 1 |-> coefs[i][dblock + vidx[c]]]),
     "inner", "DotCheckFailed")

\* Mutant of InnerProductOk: the constant terms are forgotten.
InnerProductOk_NoEvals == Sum([s \in Slots |-> proof.y_dot[s]]) = 0

InnerProductOk ==
  (Sum([s \in Slots |-> proof.y_dot[s]])
    + Sum([c \in 0 .. nl - 1 |-> evals[c] * alphal(c)])) % q = 0

InnerProductCheck == Go("inner", InnerProductOk, "quadratic", "LinearInnerProductMismatch")

\* y_quad with the zeros of the witness slots put back.
ReceivedYQuad ==
  [x \in 0 .. dblock - 1 |->
     IF x < r THEN proof.y_quad_0[x] ELSE IF x < block THEN 0 ELSE proof.y_quad_2[x - block]]

QuadraticCheck ==
  Go("quadratic",
     \A c \in 0 .. nreq - 1 :
       Interpolate(ReceivedYQuad, dblock + vidx[c]) = QuadraticAt(Opened(c)),
     "accepted", "QuadraticCheckFailed")

-----------------------------------------------------------------------------
Init ==
  /\ pc = "layout"
  /\ witness \in Witnesses /\ evals \in Evals /\ rng \in Coins
  /\ tableau = <<>> /\ root = <<>> /\ asked = <<>> /\ idx = <<>> /\ vidx = <<>>
  /\ proof = <<>> /\ tampered = "nothing"

Next ==
  \/ LayoutBlindingRows \/ LayoutWitnessRows \/ LayoutQuadraticRows \/ Commit
  \/ Ask \/ Combine \/ CombinePanics \/ Open
  \/ Deliver \/ CorruptElement \/ CorruptOpening \/ CorruptLength
  \/ Validate \/ VerifierDraws \/ MerkleCheck \/ LowDegreeCheck \/ DotCheck
  \/ InnerProductCheck \/ QuadraticCheck

Spec == Init /\ [][Next]_vars

-----------------------------------------------------------------------------
(***************************************************************************)
(* Properties.                                                             *)
(***************************************************************************)
Errors == {"InvalidProof", "MerkleCheckFailed", "LowDegreeCheckFailed", "DotCheckFailed",
           "LinearInnerProductMismatch", "QuadraticCheckFailed"}

\* Residuals of the constraints on the witness.
LinearResidual(c) ==
  (evals[c] + Sum([t \in 1 .. Len(llterm) |->
                     If1(llterm[t].c = c) * llterm[t].k * witness[llterm[t].w]])) % q
QuadraticResidual(e) == (Operand(e, 2) - Operand(e, 0) * Operand(e, 1)) % q

Satisfied ==
  /\ \A c \in 0 .. nl - 1 : LinearResidual(c) = 0
  /\ \A e \in 0 .. nq - 1 : QuadraticResidual(e) = 0

\* Completeness: if the witness satisfies the constraints the prover does not
\* panic and the verifier accepts what it sent.
Complete ==
  Satisfied => pc # "panicked" /\ (tampered = "nothing" => pc \notin Errors)

\* What an accepted proof of prove shows about the witness, whatever the
\* witness is: the linear constraints, and in each witness slot the quadratic
\* ones, hold in the random combination drawn.  A wrong witness is accepted
\* only for the weights that cancel its residuals.
AcceptedCombination ==
  pc = "accepted" /\ tampered = "nothing" =>
    /\ Sum([c \in 0 .. nl - 1 |-> alphal(c) * LinearResidual(c)]) = 0
    /\ \A s \in 0 .. w - 1 :
         Sum([i \in {t \in 0 .. nqtriples - 1 : t * w + s < nq} |->
                uquad(i) * QuadraticResidual(i * w + s)]) = 0

\* The committed columns at which a response agrees with the commitment.
Agreeing(y) ==
  LET coefs == CoefficientRows IN
  {c \in 0 .. ext - 1 :
     LET x == dblock + c IN
     CASE y = "y_ldt" -> Interpolate(proof.y_ldt, x) = LowDegreeAt(root[c])
       [] y = "y_dot" -> Interpolate(proof.y_dot, x)
                           = DotAt(root[c], [i \in 0 .. nwqrow - 1 |-> coefs[i][x]])
       [] OTHER -> Interpolate(ReceivedYQuad, x) = QuadraticAt(root[c])}

\* A proof that arrives with one element of a response or of an opening
\* changed, or with a part cut short, is never accepted, wherever the change
\* is and whatever positions the verifier then draws: a changed response
\* disagrees with the commitment at every column, so that one position is
\* enough to see it.
ChangesCaught ==
  /\ pc = "draw" /\ tampered \in Responses => Agreeing(tampered) = {}
  /\ pc = "accepted" => tampered = "nothing"
=============================================================================
