---------------------------- MODULE SketchDecode ----------------------------
(***************************************************************************)
(* The decoding of one sketch, turn by turn, from any coordinates at all:  *)
(* those of a set that fits, of one that does not, and damaged ones.       *)
(***************************************************************************)
EXTENDS PinSketch

CONSTANTS
    Capacity,       \* coordinates of the sketch
    Budgets         \* the work budgets to explore

VARIABLES
    sketch,         \* the coordinates
    decoding,       \* the state of the decoding, with what is left of the budget
    expected,       \* the degree of the locator
    budget          \* the budget it began with

decodeVars == <<sketch, decoding, expected, budget>>

DecodeInit ==
    /\ sketch \in [1 .. Capacity -> Field]
    /\ budget \in Budgets
    /\ decoding = start_decode(sketch, Capacity, budget)
    /\ expected = degree_of(decoding)

Turn ==
    /\ decoding.status = "running" /\ decoding.pending # <<>>
    /\ decoding' = find_roots_step(decoding)
    /\ UNCHANGED <<sketch, expected, budget>>

Finish ==
    /\ decoding.status = "running" /\ decoding.pending = <<>>
    /\ decoding' = finish_decode(decoding, sketch, expected)
    /\ UNCHANGED <<sketch, expected, budget>>

Decoded == decoding.status # "running" /\ UNCHANGED decodeVars

DecodeNext == Turn \/ Finish \/ Decoded

----------------------------------------------------------------------------
poly_mul(p, q) ==
    [k \in 1 .. (Len(p) + Len(q) - 1) |->
        LET used == {i \in 1 .. Len(p) : k - i + 1 \in 1 .. Len(q)}
        IN  xor_over(used, [i \in used |-> mul(p[i], q[k - i + 1])])]

product_of(polys) == FoldSeq(poly_mul, <<one>>, polys)

linear_factors(roots) == [i \in DOMAIN roots |-> <<roots[i], one>>]

\* pinsketch.rs, find_roots_with_budget: nothing is lost or added while the
\* locator is taken apart.  The polynomials still on the stack and the linear
\* factors of the roots found multiply back to the locator.
FactorsMultiplyBack ==
    decoding.status = "running" =>
        {product_of(decoding.pending \o linear_factors(decoding.roots))}
            = prepare_locator(sketch, Capacity)

elements_of(s) == {s[i] : i \in DOMAIN s}

(* The sets of at most Capacity elements, with their sketches.             *)
small_sets == {T \in SUBSET (Field \ {zero}) : Cardinality(T) <= Capacity}

sketches == [T \in small_sets |-> sketch_of(SetToSeq(T), Capacity)]

explanations == {T \in small_sets : sketches[T] = sketch}

\* pinsketch.rs decode_with_budget: decoding is exact.  A success is the one set
\* of at most Capacity elements that has this sketch, each of them listed
\* once, although finalize_roots does not compare the roots with each other; and
\* while the budget lasts, a sketch that such a set explains is decoded.
DecodingIsExact ==
    /\ decoding.status = "ok" =>
          /\ Cardinality(elements_of(decoding.roots)) = Len(decoding.roots)
          /\ explanations = {elements_of(decoding.roots)}
    /\ decoding.status = "DecodeFailure" => explanations = {}

=============================================================================
