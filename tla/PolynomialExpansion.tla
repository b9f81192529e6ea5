------------------------ MODULE PolynomialExpansion ------------------------
(***************************************************************************)
(* ImgBasis/polybasis.hpp: around each pixel an image is approximated by a *)
(* polynomial of degree two, c1 + c2 y + c3 x + c4 y^2 + c5 x^2 + c6 xy.   *)
(* SeperableSConvolution projects the image on the weighted monomials, by  *)
(* a vertical and a horizontal pass that fold a kernel on its middle, and  *)
(* channelFilter multiplies the projections with the inverse of the        *)
(* monomials' Gram matrix.                                                 *)
(*                                                                         *)
(* Numbers are integers: the weights of the Gaussian are any symmetric     *)
(* ones, and the product with the inverse is the vector the matrix itself  *)
(* maps to the projections.                                                *)
(***************************************************************************)
EXTENDS Integers, Sequences, FiniteSetsExt

CONSTANTS
  PolyCols, PolyRows,   \* the size of every image
  PolyImages,           \* the images tried
  FilterSizes,          \* the sizes computeFilters is called with
  Weight,               \* the Gaussian, by distance from its middle
  Fits,                 \* the polynomials a pixel may be found to have
  MaxExpansions         \* bound on the calls of computeFilters that return

ASSUME PolynomialAssumption ==
  /\ PolyCols \in Nat \ {0} /\ PolyRows \in Nat \ {0}
  /\ FilterSizes \subseteq Nat \ {0}
  /\ \A size \in FilterSizes : \A d \in 0 .. size \div 2 : Weight[d] \in Nat
  /\ MaxExpansions \in Nat

VARIABLES
  rowk, colk,               \* the vertical and the horizontal kernel of each channel
  rsymmetric, csymmetric,   \* whether its halves are alike or of opposite sign
  klength,                  \* N, the length of the kernel set last
  basis,                    \* cfilter.kernel before its inversion, or <<>>
  source,                   \* the image filtered last
  projections,              \* filter.apply's result, <<>> before
  coefficients,             \* cfilter.apply's result, <<>> before
  failed                    \* whether the last call raised

kernels  == <<rowk, colk, rsymmetric, csymmetric, klength>>
polyVars == <<kernels, basis, source, projections, coefficients, failed>>

Pixels == (0 .. PolyCols - 1) \X (0 .. PolyRows - 1)
SumOver(S, term(_)) == MapThenSumSet(term, S)
Clamped(i, length) == IF i < 0 THEN 0 ELSE IF i > length - 1 THEN length - 1 ELSE i

-----------------------------------------------------------------------------
(* The kernels and the matrix.                                             *)

Offsets(size) == [i \in 1 .. size |-> i - 1 - size \div 2]
Gaussian(size) ==
  [i \in 1 .. size |-> LET d == Offsets(size)[i] IN Weight[IF d < 0 THEN -d ELSE d]]
Times(a, b) == [i \in DOMAIN a |-> a[i] * b[i]]

\* What computeSeparableFilters hands to setKernel, in order.
Separable(size) ==
  LET k  == Gaussian(size)
      x  == Times(Offsets(size), k)
      xx == Times(Times(Offsets(size), Offsets(size)), k)
      kernel(row, col, rsymm, csymm) ==
        [row |-> row, col |-> col, rsymm |-> rsymm, csymm |-> csymm]
  IN <<kernel(k, k, TRUE, TRUE), kernel(k, x, TRUE, FALSE), kernel(x, k, FALSE, TRUE),
       kernel(k, xx, TRUE, TRUE), kernel(xx, k, TRUE, TRUE), kernel(x, x, FALSE, FALSE)>>

\* setKernel, for each of a list: the row is what the horizontal pass uses, the column what the
\* vertical one uses, and so are their symmetries.
\* Mutant: the symmetries are not crossed.
setKernelsStraight(list, size) ==
  /\ rowk' = rowk \o [l \in DOMAIN list |-> list[l].col]
  /\ colk' = colk \o [l \in DOMAIN list |-> list[l].row]
  /\ csymmetric' = csymmetric \o [l \in DOMAIN list |-> list[l].csymm]
  /\ rsymmetric' = rsymmetric \o [l \in DOMAIN list |-> list[l].rsymm]
  /\ klength' = size
setKernels(list, size) ==
  /\ rowk' = rowk \o [l \in DOMAIN list |-> list[l].col]
  /\ colk' = colk \o [l \in DOMAIN list |-> list[l].row]
  /\ csymmetric' = csymmetric \o [l \in DOMAIN list |-> list[l].rsymm]
  /\ rsymmetric' = rsymmetric \o [l \in DOMAIN list |-> list[l].csymm]
  /\ klength' = size

\* The matrix, of the four sums that symmetry leaves different from 0 and from each other. The
\* Gaussian is that of size 7, whatever the size.
Gram(size) ==
  LET sum(term(_, _)) ==
        SumOver((1 .. size) \X (1 .. size), LAMBDA p :
          term(Offsets(size)[p[1]], Offsets(size)[p[2]])
            * Gaussian(size)[p[1]] * Gaussian(size)[p[2]])
      one == sum(LAMBDA x, y : 1)
      xx == sum(LAMBDA x, y : x * x)
      xxxx == sum(LAMBDA x, y : x * x * x * x)
      xxyy == sum(LAMBDA x, y : x * x * y * y)
  IN <<<<one, 0, 0, xx, xx, 0>>, <<0, xx, 0, 0, 0, 0>>, <<0, 0, xx, 0, 0, 0>>,
       <<xx, 0, 0, xxxx, xxyy, 0>>, <<xx, 0, 0, xxyy, xxxx, 0>>, <<0, 0, 0, 0, 0, xxyy>>>>

-----------------------------------------------------------------------------
(* The passes.                                                             *)

Sign(symmetric) == IF symmetric THEN 1 ELSE -1

\* One channel of the vertical pass: the rows above and below are taken together, those outside
\* are the first and the last one.
Vertical(src, l, n) ==
  [p \in Pixels |->
     src[p] * rowk[l][n + 1]
       + SumOver(1 .. n, LAMBDA k :
           rowk[l][n - k + 1] *
             (src[<<p[1], Clamped(p[2] - k, PolyRows)>>]
                + Sign(rsymmetric[l]) * src[<<p[1], Clamped(p[2] + k, PolyRows)>>]))]

Horizontal(row, l, n) ==
  [p \in Pixels |->
     row[p] * colk[l][n + 1]
       + SumOver(1 .. n, LAMBDA k :
           colk[l][n - k + 1] *
             (row[<<Clamped(p[1] - k, PolyCols), p[2]>>]
                + Sign(csymmetric[l]) * row[<<Clamped(p[1] + k, PolyCols), p[2]>>]))]

\* The channels of a filtered image.
Filtered(src) ==
  LET n == klength \div 2
  IN [l \in DOMAIN rowk |-> Horizontal(Vertical(src, l, n), l, n)]

\* kernel * row: the vector that the matrix maps to the row, of those that may be found.
Solutions(row) ==
  {v \in Fits : \A i \in 1 .. 6 : SumOver(1 .. 6, LAMBDA j : basis[i][j] * v[j]) = row[i]}

-----------------------------------------------------------------------------
PolyInit ==
  /\ rowk = <<>> /\ colk = <<>> /\ rsymmetric = <<>> /\ csymmetric = <<>> /\ klength = 0
  /\ basis = <<>> /\ source = <<>> /\ projections = <<>> /\ coefficients = <<>>
  /\ failed = FALSE

\* computeFilters: a product of matrices of two sizes raises; otherwise the kernels are added to
\* those the filter has.
computeFilters(size) ==
  /\ IF size # 7
     THEN failed' = TRUE /\ UNCHANGED <<kernels, basis>>
     ELSE /\ Len(rowk) < 6 * MaxExpansions
          /\ setKernels(Separable(size), size)
          /\ basis' = Gram(size)
          /\ failed' = FALSE
  /\ UNCHANGED <<source, projections, coefficients>>

clearKernel ==
  /\ rowk # <<>>
  /\ rowk' = <<>> /\ colk' = <<>> /\ rsymmetric' = <<>> /\ csymmetric' = <<>>
  /\ failed' = FALSE
  /\ UNCHANGED <<klength, basis, source, projections, coefficients>>

filterApply(src) ==
  /\ rowk # <<>>
  /\ source' = src
  /\ projections' = Filtered(src)
  /\ coefficients' = <<>> /\ failed' = FALSE
  /\ UNCHANGED <<kernels, basis>>

\* As many channels as the matrix has columns, or the product raises.
cfilterApply ==
  /\ projections # <<>>
  /\ IF Len(projections) # 6
     THEN failed' = TRUE /\ UNCHANGED coefficients
     ELSE /\ coefficients' = [p \in Pixels |->
                                Solutions([l \in 1 .. 6 |-> projections[l][p]])]
          /\ failed' = FALSE
  /\ UNCHANGED <<kernels, basis, source, projections>>

PolyNext ==
  \/ \E size \in FilterSizes : computeFilters(size)
  \/ clearKernel
  \/ \E src \in PolyImages : filterApply(src)
  \/ cfilterApply

-----------------------------------------------------------------------------
\* The monomials of a polynomial, and its value, d beside the pixel.
Monomials(d) == <<1, d[2], d[1], d[2] * d[2], d[1] * d[1], d[1] * d[2]>>
Value(v, d) == SumOver(1 .. 6, LAMBDA l : v[l] * Monomials(d)[l])
Window == (-3 .. 3) \X (-3 .. 3)

\* What the two folded passes of each kernel find is the sum over the whole window of the image,
\* continued by its border, times the weights, times the monomial of the channel; and where the
\* image is a polynomial the two filters find that one and no other. So it is also with the
\* kernels of a second call of computeFilters, which are appended to those of the first.
ExpansionHolds ==
  /\ \A l \in DOMAIN projections, p \in Pixels :
       projections[l][p] =
         SumOver(Window, LAMBDA d :
           LET at(i) == IF i < 0 THEN -i ELSE i
           IN source[<<Clamped(p[1] + d[1], PolyCols), Clamped(p[2] + d[2], PolyRows)>>]
                * Weight[at(d[1])] * Weight[at(d[2])] * Monomials(d)[((l - 1) % 6) + 1])
  /\ coefficients # <<>> =>
       \A p \in (3 .. PolyCols - 4) \X (3 .. PolyRows - 4), v \in Fits :
         (\A d \in Window : source[<<p[1] + d[1], p[2] + d[2]>>] = Value(v, d))
           => coefficients[p] = {v}
=============================================================================
