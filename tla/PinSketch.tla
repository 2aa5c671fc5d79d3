----------------------------- MODULE PinSketch -----------------------------
(***************************************************************************)
(* PinSketch decoding (rezzy-recon/src/pinsketch.rs) and the sketch around *)
(* it (SyndromeSketch, algebraic.rs).  A sketch of capacity k holds the    *)
(* odd power sums s1, s3, .. s(2k-1) of a set of field elements.  Decoding *)
(* finds the polynomial whose roots they are (Berlekamp-Massey) and splits *)
(* it into linear factors with the trace of a multiple of X, all under a   *)
(* budget of work.  A polynomial is the sequence of its coefficients, the  *)
(* constant one first; a value that may be absent is a set of at most one. *)
(***************************************************************************)
EXTENDS Integers, FiniteSets, SequencesExt

(***************************************************************************)
(* The binary field of rezzy-recon (gf64.rs, gf64_simd.rs).  A word is the *)
(* set of the positions of its one bits, so that XOR is the symmetric      *)
(* difference; an element of the field has FieldBits of them.              *)
(* Multiplication is the product of polynomials over GF(2), modulo         *)
(* x^FieldBits + the terms of Reduction.  The code multiplies in three     *)
(* ways: bit by bit, with a carry-less multiply whose high half is folded  *)
(* back, and with the same fold on 64-bit vector lanes, which lose the     *)
(* bits shifted out of them.                                               *)
(***************************************************************************)

CONSTANTS
    FieldBits,      \* 64 in the code
    Reduction       \* REDUCTION: the terms below x^FieldBits

Field == SUBSET (0 .. (FieldBits - 1))

(* f itself, which TLC then evaluates once and not at every use.           *)
tuple(f) == <<>> \o f

zero == {}

one == {0}

xor(a, b) == (a \ b) \cup (b \ a)

(* a << n and a >> n.                                                      *)
left_shift(a, n) == {i + n : i \in a}

right_shift(a, n) == {i - n : i \in {j \in a : j >= n}}

lane(a) == {i \in a : i < FieldBits}            \* what a 64-bit lane keeps

(* The XOR of f[e] for e in S, a set of shift counts.                      *)
xor_over(S, f) ==
    UNION {f[e] : e \in S} \ {i \in UNION {f[e] : e \in S} :
                                Cardinality({e \in S : i \in f[e]}) % 2 = 0}

shifted(a, S) == xor_over(S, [e \in S |-> left_shift(a, e)])

(* The carry-less product of two words, and its two halves.                *)
clmul(a, b) == shifted(b, a)

high_half(wide) == right_shift(wide, FieldBits)

(* mul_bitwise: left doubles, wrapping around through Reduction, while     *)
(* right is shifted out and selects what is added to the product.          *)
doubled(left) ==
    xor(lane(left_shift(left, 1)), IF FieldBits - 1 \in left THEN Reduction ELSE zero)

mul_bitwise(left, right) ==
    LET lefts[i \in 0 .. (FieldBits - 1)] == IF i = 0 THEN left ELSE doubled(lefts[i - 1])
    IN  xor_over(right, [i \in right |-> lefts[i]])

(* mul_pclmul: the high half is folded into the low one; the bits that     *)
(* still stick out above it are reduced one by one, the top one first.     *)
mul_pclmul(left, right) ==
    LET wide == clmul(left, right)
        top == 2 * FieldBits
        reduced[b \in FieldBits .. top] ==
            IF b = top
            THEN xor(lane(wide), shifted(high_half(wide), Reduction))
            ELSE LET above == reduced[b + 1]
                 IN  IF b \in above
                     THEN xor(above \ {b}, left_shift(Reduction, b - FieldBits))
                     ELSE above
    IN  reduced[FieldBits]

(* gf64_mul_x4_avx512: the shifts truncate to a lane, so the bits they     *)
(* lose are collected in overflow and folded once more.                    *)
mul_lanes(left, right) ==
    LET wide == clmul(left, right)
        high == high_half(wide)
        folded == xor_over(Reduction, [e \in Reduction |-> lane(left_shift(high, e))])
        overflow == xor_over(Reduction, [e \in Reduction |-> right_shift(high, FieldBits - e)])
    IN  xor(xor(lane(wide), folded), lane(shifted(overflow, Reduction)))

(* mul: whichever of the three the processor offers.                       *)
products == [a \in Field |-> [b \in Field |-> mul_bitwise(a, b)]]

mul(a, b) == products[a][b]

square(a) == mul(a, a)

(* gf64_inv: a^(2^FieldBits - 2) by squaring and multiplying, from the top *)
(* bit of the exponent, whose bits are all one but the last.               *)
inverses ==
    [a \in Field \ {zero} |->
        LET power[i \in 0 .. FieldBits] ==
                IF i = 0 THEN one
                ELSE IF i = FieldBits THEN square(power[i - 1])
                ELSE mul(square(power[i - 1]), a)
        IN  power[FieldBits]]

gf64_inv(a) == inverses[a]

-----------------------------------------------------------------------------
CONSTANT
    Mixed           \* the first MIXED_FACTOR_TRIALS parameters of the ladder

----------------------------------------------------------------------------
(* Sketches.                                                               *)

(* The odd powers v, v^3, .. of an element.                                *)
odd_powers(v, k) ==
    LET power[i \in 1 .. k] == IF i = 1 THEN v ELSE mul(power[i - 1], square(v))
    IN  tuple(power)

(* subtract: two sketches of one capacity, coordinate by coordinate.       *)
subtract(s, t) == tuple([i \in 1 .. Len(s) |-> xor(s[i], t[i])])

no_sketch(k) == tuple([i \in 1 .. k |-> zero])

(* toggle: adds an element, or removes it; zero is refused by the caller.  *)
toggle(sketch, v) == subtract(sketch, odd_powers(v, Len(sketch)))

RECURSIVE sketch_of(_, _)

sketch_of(elements, k) ==
    IF elements = <<>> THEN no_sketch(k) ELSE toggle(sketch_of(Tail(elements), k), Head(elements))

----------------------------------------------------------------------------
(* The locator polynomial.                                                 *)

(* reconstruct_syndromes: the even power sums are squares of earlier ones. *)
reconstruct_syndromes(odd) ==
    LET all[n \in 1 .. 2 * Len(odd)] ==
            IF n % 2 = 1 THEN odd[(n + 1) \div 2] ELSE square(all[n \div 2])
    IN  tuple(all)

(* The n-th discrepancy (counted from 0, as in the code) of a connection   *)
(* polynomial.                                                             *)
discrepancy(syndromes, current, n) ==
    LET used == {i \in 0 .. (Len(current) - 1) : i <= n}
        term == [i \in used |-> mul(syndromes[n - i + 1], current[i + 1])]
    IN  xor_over(used, term)

padded(p, len) == p \o [i \in 1 .. (len - Len(p)) |-> zero]

(* One round of berlekamp_massey on [current, previous, scale], where      *)
(* scale is previous_discrepancy; {} when the degree exceeds max.          *)
massey_round(s, d, n, max) ==
    LET degree == Len(s.current) - 1
        shift == n + 1 - degree - (Len(s.previous) - 1)
        swap == 2 * degree <= n
        len == IF swap THEN Len(s.previous) + shift ELSE Len(s.current)
        scale == mul(d, gf64_inv(s.scale))
        added(i) == IF i > shift /\ i - shift <= Len(s.previous)
                    THEN mul(scale, s.previous[i - shift]) ELSE zero
    IN  IF d = zero THEN {s}
        ELSE IF swap /\ len - 1 > max THEN {}
        ELSE {[current |-> tuple([i \in 1 .. len |-> xor(padded(s.current, len)[i], added(i))]),
               previous |-> IF swap THEN s.current ELSE s.previous,
               scale |-> IF swap THEN d ELSE s.scale]}

RECURSIVE massey_from(_, _, _, _)

massey_from(syndromes, max, n, s) ==
    IF n = Len(syndromes)
    THEN {s.current}
    ELSE UNION {massey_from(syndromes, max, n + 1, t) :
                    t \in massey_round(s, discrepancy(syndromes, s.current, n), n, max)}

berlekamp_massey(syndromes, max) ==
    {c \in massey_from(syndromes, max, 0,
                       [current |-> <<one>>, previous |-> <<one>>, scale |-> one]) :
        Last(c) # zero}

(* prepare_locator: the locator reversed, so that its roots are the        *)
(* elements.                                                               *)
prepare_locator(odd, max) ==
    {Reverse(c) : c \in berlekamp_massey(reconstruct_syndromes(odd), max)}

----------------------------------------------------------------------------
(* Polynomials.                                                            *)

trim(p) ==
    LET live == {i \in 1 .. Len(p) : p[i] # zero}
    IN  SubSeq(p, 1, IF live = {} THEN 0 ELSE CHOOSE i \in live : \A j \in live : j <= i)

make_monic(p) == tuple([i \in 1 .. Len(p) |-> mul(p[i], gf64_inv(Last(p)))])

(* poly_mac: term times source, added to the coefficients from offset on.  *)
poly_mac(term, source, target, offset) ==
    tuple([i \in 1 .. Len(target) |->
        IF i > offset /\ i - offset <= Len(source)
        THEN xor(target[i], mul(term, source[i - offset])) ELSE target[i]])

(* poly_mod and poly_div by a monic divisor: the leading terms of the      *)
(* dividend are cancelled, each of them being a term of the quotient.      *)
RECURSIVE poly_divide(_, _, _)

poly_divide(dividend, divisor, quotient) ==
    IF Len(dividend) < Len(divisor)
    THEN [quotient |-> quotient, rest |-> trim(dividend)]
    ELSE poly_divide(poly_mac(Last(dividend), Front(divisor), Front(dividend),
                              Len(dividend) - Len(divisor)),
                     divisor, <<Last(dividend)>> \o quotient)

poly_mod(modulus, value) == poly_divide(value, modulus, <<>>).rest

poly_div(dividend, divisor) == trim(poly_divide(dividend, divisor, <<>>).quotient)

(* poly_gcd: Euclid's algorithm, larger operand first.                     *)
RECURSIVE euclid(_, _)

euclid(left, right) ==
    IF right = <<>> THEN make_monic(left)
    ELSE euclid(make_monic(right), poly_mod(make_monic(right), left))

poly_gcd(left, right) == IF Len(left) < Len(right) THEN euclid(right, left) ELSE euclid(left, right)

poly_square(p) ==
    IF p = <<>> THEN p ELSE tuple([i \in 1 .. (2 * Len(p) - 1) |->
            IF i % 2 = 1 THEN square(p[(i + 1) \div 2]) ELSE zero])

(* build_frobenius_basis: X^(2^i) modulo the polynomial, for every i.      *)
RECURSIVE frobenius_from(_, _)

frobenius_from(modulus, basis) ==
    IF Len(basis) = FieldBits THEN basis
    ELSE frobenius_from(modulus, Append(basis, poly_mod(modulus, poly_square(Last(basis)))))

build_frobenius_basis(modulus) == frobenius_from(modulus, <<poly_mod(modulus, <<zero, one>>)>>)

(* trace_from_basis: the trace of parameter * X, by its linearity.         *)
trace_from_basis(basis, parameter, width) ==
    LET power[i \in 1 .. FieldBits] == IF i = 1 THEN parameter ELSE square(power[i - 1])
        coefficient(i, j) == IF j <= Len(basis[i]) THEN mul(power[i], basis[i][j]) ELSE zero
    IN  trim([j \in 1 .. width |->
                xor_over(DOMAIN basis, [i \in DOMAIN basis |-> coefficient(i, j)])])

(* solve_quadratic_form: z with z^2 + z = target.  The map is linear over   *)
(* GF(2); row r holds the columns of bit r - 1 of the image, and that bit  *)
(* of the target.                                                          *)
quadratic_rows(target) ==
    [r \in 1 .. FieldBits |->
        [coefficients |-> {c \in 0 .. (FieldBits - 1) : r - 1 \in xor(square({c}), {c})},
         rhs |-> r - 1 \in target]]

(* The pivot row is swapped into place and added to every other row that   *)
(* has the column.                                                         *)
pivoted(rows, rank, pivot, column) ==
    LET swapped == [rows EXCEPT ![rank] = rows[pivot], ![pivot] = rows[rank]]
    IN  [r \in DOMAIN rows |->
            IF r # rank /\ column \in swapped[r].coefficients
            THEN [coefficients |-> xor(swapped[r].coefficients, swapped[rank].coefficients),
                  rhs |-> swapped[r].rhs # swapped[rank].rhs]
            ELSE swapped[r]]

RECURSIVE eliminate(_, _, _)

eliminate(rows, rank, column) ==
    IF column = FieldBits THEN [rows |-> rows, rank |-> rank]
    ELSE LET pivots == {r \in (rank + 1) .. FieldBits : column \in rows[r].coefficients}
         IN  IF pivots = {} THEN eliminate(rows, rank, column + 1)
             ELSE eliminate(pivoted(rows, rank + 1, Min(pivots), column), rank + 1, column + 1)

(* The solution read off the reduced rows; a column without a pivot is 0.  *)
read_off(reduced, target) ==
    LET solution == {Min(reduced.rows[r].coefficients) :
                        r \in {q \in 1 .. reduced.rank : reduced.rows[q].rhs}}
    IN  IF \E r \in DOMAIN reduced.rows :
              reduced.rows[r].coefficients = {} /\ reduced.rows[r].rhs
        THEN {} ELSE {z \in {solution} : xor(square(z), z) = target}

quadratic_solutions ==
    [target \in Field |-> read_off(eliminate(quadratic_rows(target), 0, 0), target)]

solve_quadratic_form(target) == quadratic_solutions[target]

----------------------------------------------------------------------------
(* Root finding.                                                           *)

frobenius_basis_cost(degree) == degree * degree * (FieldBits - 1)

factor_trial_cost(degree) == FieldBits * degree + degree * degree

split_cost(degree) == degree * degree

(* As factor_parameters, without the bits that make the ladder complete.   *)
factor_parameters_mixed == Mixed

(* The parameters tried on one polynomial: the mixed ones, then every bit. *)
factor_parameters == Mixed \o [i \in 1 .. FieldBits |-> {i - 1}]

single_call_work_ceiling(degree) ==
    frobenius_basis_cost(degree) + Len(factor_parameters) * factor_trial_cost(degree)
      + split_cost(degree)

(* The ladder on one polynomial: the first trial that splits it, and how   *)
(* many were made; the factor is <<>> when none does.                      *)
RECURSIVE ladder(_, _, _)

ladder(poly, basis, trial) ==
    IF trial > Len(factor_parameters)
    THEN [factor |-> <<>>, trials |-> Len(factor_parameters)]
    ELSE LET factor == poly_gcd(poly, trace_from_basis(basis, factor_parameters[trial],
                                                       Len(poly) - 1))
         IN  IF Len(factor) > 1 /\ Len(factor) < Len(poly)
             THEN [factor |-> factor, trials |-> trial]
             ELSE ladder(poly, basis, trial + 1)

(* Work is charged before it is done; the first charge that the budget     *)
(* does not cover is not taken and ends the decoding.                      *)
RECURSIVE charge(_, _)

charge(work, charges) ==
    IF charges = <<>> THEN [work |-> work, paid |-> TRUE]
    ELSE IF work < Head(charges) THEN [work |-> work, paid |-> FALSE]
    ELSE charge(work - Head(charges), Tail(charges))

(* The charges of the ladder that made these trials on one polynomial.     *)
charges_of(degree, climbed) ==
    <<frobenius_basis_cost(degree)>>
      \o [i \in 1 .. climbed.trials |-> factor_trial_cost(degree)]
      \o (IF climbed.factor = <<>> THEN <<>> ELSE <<split_cost(degree)>>)

with_status(s, status) == [s EXCEPT !.status = status]

(* find_roots_with_budget, for a polynomial of degree two: linear * z for  *)
(* the two z with z^2 + z = constant / linear^2.                           *)
quadratic(s, poly) ==
    LET linear == poly[2]
        normalized == mul(poly[1], square(gf64_inv(linear)))
        roots == {mul(z, linear) : z \in solve_quadratic_form(normalized)}
    IN  IF linear = zero THEN with_status(s, "DecodeFailure")
        ELSE IF roots = {} THEN with_status(s, "DecodeFailure")
        ELSE [s EXCEPT !.roots = @ \o SetToSeq(roots)
                                   \o SetToSeq({xor(r, linear) : r \in roots})]

(* .. and of a higher degree: the factor found by the ladder and its       *)
(* cofactor go back on the stack.                                          *)
split(s, poly, climbed, paid) ==
    IF ~paid.paid THEN [s EXCEPT !.work = paid.work, !.status = "BudgetExhausted"]
    ELSE IF climbed.factor = <<>>
    THEN [s EXCEPT !.work = paid.work, !.status = "DecodeFailure"]
    ELSE [s EXCEPT !.work = paid.work,
                   !.pending = @ \o <<poly_div(poly, climbed.factor), climbed.factor>>]

split_by(s, poly, climbed) ==
    split(s, poly, climbed, charge(s.work, charges_of(Len(poly) - 1, climbed)))

(* One turn of the loop: the polynomial on top of the stack, already       *)
(* taken off s.                                                            *)
find_roots_turn(s, poly) ==
    CASE Len(poly) = 1 -> s
      [] Len(poly) = 2 -> [s EXCEPT !.roots = Append(@, poly[1])]
      [] Len(poly) = 3 -> quadratic(s, poly)
      [] OTHER -> split_by(s, poly, ladder(poly, build_frobenius_basis(poly), 1))

find_roots_step(s) == find_roots_turn([s EXCEPT !.pending = Front(@)], Last(s.pending))

(* finalize_roots: as many roots as the degree of the locator, and none    *)
(* of them zero.                                                           *)
finalize_roots(s, expected) ==
    IF Len(s.roots) # expected \/ \E i \in 1 .. Len(s.roots) : s.roots[i] = zero
    THEN with_status(s, "DecodeFailure") ELSE s

(* require_reencode (and, for the coordinates beyond those decoded,        *)
(* validate_decoded): the roots reproduce the sketch.                      *)
require_reencode(s, odd) ==
    IF sketch_of(s.roots, Len(odd)) = odd THEN with_status(s, "ok")
    ELSE with_status(s, "DecodeFailure")

(* The decoding of the first max coordinates of a sketch, as it begins.    *)
start_decode(sketch, max, work) ==
    LET s == [pending |-> <<>>, roots |-> <<>>, work |-> work, status |-> "running"]
        locator == prepare_locator(SubSeq(sketch, 1, max), max)
    IN  IF \A i \in DOMAIN sketch : sketch[i] = zero THEN with_status(s, "ok")
        ELSE IF locator = {} THEN with_status(s, "DecodeFailure")
        ELSE [s EXCEPT !.pending = SetToSeq(locator)]

(* .. and as it ends, once no polynomial is left.                          *)
finish_decode(s, sketch, expected) ==
    LET checked == finalize_roots(s, expected)
    IN  IF checked.status = "running" THEN require_reencode(checked, sketch) ELSE checked

RECURSIVE decode_from(_, _, _)

decode_from(s, sketch, expected) ==
    IF s.status # "running" THEN s
    ELSE IF s.pending = <<>> THEN finish_decode(s, sketch, expected)
    ELSE decode_from(find_roots_step(s), sketch, expected)

degree_of(s) == IF s.pending = <<>> THEN 0 ELSE Len(s.pending[1]) - 1

begun(s, sketch) == decode_from(s, sketch, degree_of(s))

(* decode_with_shared_budget.                                              *)
decode(sketch, max, work) == begun(start_decode(sketch, max, work), sketch)
=============================================================================
