-------------------------------- MODULE Quant --------------------------------
(***************************************************************************)
(* Packed weights (quant): the block formats, the decoders that expand a   *)
(* row to f32, and the integer kernels that multiply a packed row without  *)
(* expanding it.  A packed number is the sequence of the bits it is put    *)
(* together from, lowest first; a bit is a byte of the row and its place   *)
(* in it.  What a product is a sum of is kept; the sum itself is not.      *)
(***************************************************************************)
EXTENDS Integers, Sequences, FiniteSets, SequencesExt, FiniteSetsExt, Functions

QK == 32      \* elements of a linear block, and of an activation block
QK_K == 256   \* elements of a super-block

(* block_layout: elements and bytes of one block of each supported type.   *)
BlockLayout ==
  [F32  |-> [elems |-> 1, bytes |-> 4],
   F16  |-> [elems |-> 1, bytes |-> 2],
   Q4_0 |-> [elems |-> QK, bytes |-> 2 + QK \div 2],
   Q8_0 |-> [elems |-> QK, bytes |-> 2 + QK],
   Q2_K |-> [elems |-> QK_K, bytes |-> QK_K \div 16 + QK_K \div 4 + 4],
   Q3_K |-> [elems |-> QK_K, bytes |-> QK_K \div 8 + QK_K \div 4 + 14],
   Q4_K |-> [elems |-> QK_K, bytes |-> 16 + QK_K \div 2],
   Q5_K |-> [elems |-> QK_K, bytes |-> 16 + QK_K \div 8 + QK_K \div 2],
   Q6_K |-> [elems |-> QK_K, bytes |-> QK_K \div 2 + QK_K \div 4 + QK_K \div 16 + 2]]

QTypes == DOMAIN BlockLayout

(* byte_size, and whether it has an answer: whole blocks of a known type.  *)
Sized(type, n) == type \in QTypes /\ n % BlockLayout[type].elems = 0

ByteSize(type, n) == (n \div BlockLayout[type].elems) * BlockLayout[type].bytes

-----------------------------------------------------------------------------
(* Bits and what is made of them.                                          *)

Bits(byte, from, n) == [i \in 1..n |-> <<byte, from + i - 1>>]
Low(byte) == Bits(byte, 0, 4)
High(byte) == Bits(byte, 4, 4)
Word(byte) == Bits(byte, 0, 8) \o Bits(byte + 1, 0, 8)

\* An unsigned number, one with a constant taken off, and a signed byte.
U(bits) == [bits |-> bits, less |-> 0, signed |-> FALSE]
Less(bits, k) == [bits |-> bits, less |-> k, signed |-> FALSE]
I8(byte) == [bits |-> Bits(byte, 0, 8), less |-> 0, signed |-> TRUE]

\* The factor 1 and the term 0 of a type that has no sub-scale or no min.
One == U(<<>>)
Nil == <<>>

\* d * scale * q - dmin * min.
Affine(d, scale, dmin, min, q) ==
  [d |-> d, scale |-> scale, dmin |-> dmin, min |-> min, q |-> q]

\* The outputs of a loop of n rounds, in order.
Loop(n, Round(_)) == FoldLeft(LAMBDA out, i : out \o Round(i), <<>>, [i \in 1..n |-> i - 1])

(* get_scale_min_k4, the sub-scale or the sub-min of sub-block j.          *)
ScaleK4(j, s) == IF j < 4 THEN Bits(s + j, 0, 6) ELSE Low(s + j + 4) \o Bits(s + j - 4, 6, 2)
MinK4(j, s) == IF j < 4 THEN Bits(s + j + 4, 0, 6) ELSE High(s + j + 4) \o Bits(s + j, 6, 2)

(* unpack_q3_k_scales: word k of aux, byte b of the word.                  *)
UnpackQ3KScales(s) ==
  LET Scale(k, b) ==
        (IF k < 2 THEN Low(s + 4 * k + b) ELSE High(s + 4 * (k - 2) + b))
          \o Bits(s + 8 + b, 2 * k, 2)
  IN [is \in 0..15 |-> Scale(is \div 4, is % 4)]

-----------------------------------------------------------------------------
(* The decoders: the elements of the block that begins at byte o.          *)

DequantQ8_0(o) == [i \in 1..QK |-> Affine(Word(o), One, Nil, Nil, I8(o + 1 + i))]

DequantQ4_0(o) ==
  LET Half(nibble(_)) ==
        [i \in 1..16 |-> Affine(Word(o), One, Nil, Nil, Less(nibble(o + 1 + i), 8))]
  IN Half(Low) \o Half(High)

DequantQ4K(o) ==
  Loop(4, LAMBDA chunk :
    LET Sub(is, nibble(_)) ==
          [l \in 1..32 |-> Affine(Word(o), U(ScaleK4(is, o + 4)), Word(o + 2),
             MinK4(is, o + 4), U(nibble(o + 16 + 32 * chunk + l - 1)))]
    IN Sub(2 * chunk, Low) \o Sub(2 * chunk + 1, High))

DequantQ5K(o) ==
  Loop(4, LAMBDA group :
    LET Sub(is, nibble(_), u) ==
          [l \in 1..32 |-> Affine(Word(o), U(ScaleK4(is, o + 4)), Word(o + 2),
             MinK4(is, o + 4),
             U(nibble(o + 48 + 32 * group + l - 1) \o Bits(o + 16 + l - 1, u, 1)))]
    IN Sub(2 * group, Low, 2 * group) \o Sub(2 * group + 1, High, 2 * group + 1))

(* q1 to q4 of a half go to runs 32 apart.                                 *)
DequantQ6K(o) ==
  LET Q(half, run, l) ==
        LET ql == o + 64 * half + 32 * (run % 2) + l
            qh == o + 128 + 32 * half + l
        IN (IF run < 2 THEN Low(ql) ELSE High(ql)) \o Bits(qh, 2 * run, 2)
      Sc(half, run, l) == o + 192 + 8 * half + l \div 16 + 2 * run
  IN Loop(2, LAMBDA half : Loop(4, LAMBDA run :
       [l \in 1..32 |-> Affine(Word(o + 208), I8(Sc(half, run, l - 1)), Nil, Nil,
          Less(Q(half, run, l - 1), 32))]))

DequantQ2K(o) ==
  LET Run(half, step, side) ==
        LET sc == o + 8 * half + 2 * step + side
            q == o + 16 + 32 * half + 16 * side
        IN [l \in 1..16 |-> Affine(Word(o + 80), U(Low(sc)), Word(o + 82), High(sc),
              U(Bits(q + l - 1, 2 * step, 2)))]
  IN Loop(2, LAMBDA half : Loop(4, LAMBDA step : Run(half, step, 0) \o Run(half, step, 1)))

(* A set mask bit spares the quant the 4 that is taken off.                *)
DequantQ3K(o) ==
  LET scales == UnpackQ3KScales(o + 96)
      Run(half, step, side) ==
        [l \in 1..16 |->
           Affine(Word(o + 108), Less(scales[8 * half + 2 * step + side], 32), Nil, Nil,
             Less(Bits(o + 32 + 32 * half + 16 * side + l - 1, 2 * step, 2)
                    \o Bits(o + 16 * side + l - 1, 4 * half + step, 1), 4))]
  IN Loop(2, LAMBDA half : Loop(4, LAMBDA step : Run(half, step, 0) \o Run(half, step, 1)))

DecodeBlock(type, o) ==
  CASE type = "F32" -> <<Affine(Nil, One, Nil, Nil, U(Word(o) \o Word(o + 2)))>>
    [] type = "F16" -> <<Affine(Nil, One, Nil, Nil, U(Word(o)))>>
    [] type = "Q8_0" -> DequantQ8_0(o)
    [] type = "Q4_0" -> DequantQ4_0(o)
    [] type = "Q2_K" -> DequantQ2K(o)
    [] type = "Q3_K" -> DequantQ3K(o)
    [] type = "Q4_K" -> DequantQ4K(o)
    [] type = "Q5_K" -> DequantQ5K(o)
    [] type = "Q6_K" -> DequantQ6K(o)

(* dequant_into, n elements of a row.                                      *)
DequantInto(type, n) ==
  Loop(n \div BlockLayout[type].elems,
       LAMBDA bi : DecodeBlock(type, bi * BlockLayout[type].bytes))

-----------------------------------------------------------------------------
(* The activations of a product.  xs holds the elements, by name.          *)

\* elements first to first + n - 1, as a slice
Slice(s, first, n) == SubSeq(s, first + 1, first + n)

Chunks(x, width) == Loop(Len(x) \div width, LAMBDA b : <<Slice(x, width * b, width)>>)

(* quantize_activation: an int8 is its element over the largest magnitude  *)
(* of its block, and the block keeps that for its scale.                   *)
QuantizeActivation(x) ==
  LET blocks == Chunks(x, QK)
  IN [xq |-> [j \in 1..Len(x) |-> [of |-> x[j], over |-> blocks[(j - 1) \div QK + 1]]],
      xs |-> blocks]

(* quantize_activations: n vectors, one after the other.                   *)
QuantizeActivations(x, n, cols) ==
  LET each == Loop(n, LAMBDA b : <<QuantizeActivation(Slice(x, b * cols, cols))>>)
  IN [xq |-> Loop(n, LAMBDA b : each[b + 1].xq), xs |-> Loop(n, LAMBDA b : each[b + 1].xs)]

BlockSums(xq, width) == Chunks([j \in DOMAIN xq |-> xq[j].of], width)

(* sum_width: the runs an affine type sums the activation over, or 0.      *)
SumWidth(type) ==
  CASE type \in {"Q4_K", "Q5_K"} -> 32
    [] type = "Q2_K" -> 16
    [] OTHER -> 0

HasInt8Kernel(type) == type \in {"Q8_0", "Q2_K", "Q3_K", "Q4_K", "Q5_K", "Q6_K"}

-----------------------------------------------------------------------------
(* The kernels: for the block at byte o, number bi of its row, the dots    *)
(* it adds up.  A dot multiplies qs by the activations from off on, and    *)
(* the result by a scale of the weights and by xs[x]; min * sums[sum] is   *)
(* taken off where there is a min.                                         *)

Dot(d, scale, qs, off, x) ==
  [d |-> d, scale |-> scale, dmin |-> Nil, min |-> Nil, qs |-> qs, off |-> off, x |-> x, sum |-> 0]

AffineDot(d, scale, dmin, min, qs, off, x, sum) ==
  [d |-> d, scale |-> scale, dmin |-> dmin, min |-> min, qs |-> qs, off |-> off, x |-> x, sum |-> sum]

Q8_0Dot(bi, o) ==
  <<Dot(Word(o), One, [i \in 1..QK |-> I8(o + 2 + i - 1)], bi * QK, bi)>>

Q6KDot(bi, o) ==
  LET q == Loop(2, LAMBDA half : Loop(4, LAMBDA run : [l \in 1..32 |->
             LET ql == o + 64 * half + (l - 1) + 32 * (run % 2)
                 qh == o + 128 + 32 * half + (l - 1)
             IN Less((IF run \in {0, 1} THEN Low(ql) ELSE High(ql)) \o Bits(qh, 2 * run, 2), 32)]))
  IN [s \in 1..16 |->
        LET off == bi * QK_K + 16 * (s - 1)
        IN Dot(Word(o + 208), I8(o + 192 + s - 1), Slice(q, 16 * (s - 1), 16), off, off \div QK)]

Q5KDot(bi, o) ==
  LET Sub(is, quant(_)) ==
        LET sb == 8 * bi + is
        IN <<AffineDot(Word(o), U(ScaleK4(is, o + 4)), Word(o + 2), MinK4(is, o + 4),
               [l \in 1..32 |-> U(quant(l - 1))], sb * QK, sb, sb)>>
  IN Loop(4, LAMBDA group :
       LET ql == o + 48 + 32 * group
           u1 == 2 * group
       IN Sub(2 * group, LAMBDA l : Low(ql + l) \o Bits(o + 16 + l, u1, 1))
            \o Sub(2 * group + 1, LAMBDA l : High(ql + l) \o Bits(o + 16 + l, u1 + 1, 1)))

Q4KDot(bi, o) ==
  LET Sub(is, quant(_)) ==
        LET sb == 8 * bi + is
        IN <<AffineDot(Word(o), U(ScaleK4(is, o + 4)), Word(o + 2), MinK4(is, o + 4),
               [i \in 1..QK |-> U(quant(i - 1))], sb * QK, sb, sb)>>
  IN Loop(4, LAMBDA chunk :
       Sub(2 * chunk, LAMBDA i : Low(o + 16 + 32 * chunk + i))
         \o Sub(2 * chunk + 1, LAMBDA i : High(o + 16 + 32 * chunk + i)))

(* The scale of the pair's first run is used for both.                     *)
BugQ3KDot(bi, o) ==
  LET scales == UnpackQ3KScales(o + 96)
  IN Loop(2, LAMBDA half : Loop(4, LAMBDA step : [side \in 1..2 |->
       LET is == 8 * half + 2 * step + side - 1
           off == 16 * (16 * bi + is)
       IN Dot(Word(o + 108), Less(scales[is - side + 1], 32),
            [l \in 1..16 |->
               Less(Bits(o + 32 + 32 * half + 16 * (side - 1) + l - 1, 2 * step, 2)
                      \o Bits(o + 16 * (side - 1) + l - 1, 4 * half + step, 1), 4)],
            off, off \div QK)]))

Q3KDot(bi, o) ==
  LET scales == UnpackQ3KScales(o + 96)
  IN Loop(2, LAMBDA half : Loop(4, LAMBDA step : [side \in 1..2 |->
       LET is == 8 * half + 2 * step + side - 1
           off == 16 * (16 * bi + is)
       IN Dot(Word(o + 108), Less(scales[is], 32),
            [l \in 1..16 |->
               Less(Bits(o + 32 + 32 * half + 16 * (side - 1) + l - 1, 2 * step, 2)
                      \o Bits(o + 16 * (side - 1) + l - 1, 4 * half + step, 1), 4)],
            off, off \div QK)]))

Q2KDot(bi, o) ==
  Loop(2, LAMBDA half : Loop(4, LAMBDA step : [side \in 1..2 |->
    LET is == 8 * half + 2 * step + side - 1
        sb == 16 * bi + is
    IN AffineDot(Word(o + 80), U(Low(o + is)), Word(o + 82), High(o + is),
         [l \in 1..16 |-> U(Bits(o + 16 + 32 * half + 16 * (side - 1) + l - 1, 2 * step, 2))],
         16 * sb, (16 * sb) \div QK, sb)]))

(* int8_dot over a row of n elements.                                      *)
Int8Dot(type, n) ==
  Loop(n \div BlockLayout[type].elems, LAMBDA bi :
    LET o == bi * BlockLayout[type].bytes
    IN CASE type = "Q8_0" -> Q8_0Dot(bi, o)
         [] type = "Q2_K" -> Q2KDot(bi, o)
         [] type = "Q3_K" -> Q3KDot(bi, o)
         [] type = "Q4_K" -> Q4KDot(bi, o)
         [] type = "Q5_K" -> Q5KDot(bi, o)
         [] type = "Q6_K" -> Q6KDot(bi, o))

-----------------------------------------------------------------------------
(* Products.  A result is the sequence of the terms its sum adds up: a     *)
(* weight, the activation it multiplies, and what scales the two.  The     *)
(* bits of a row are named from the byte it begins at.                     *)

\* The terms of the dots of one row; a min stands by what it multiplies.
Terms(dots, xq, xs, sums) ==
  Loop(Len(dots), LAMBDA k :
    LET dot == dots[k + 1]
    IN [l \in 1..Len(dot.qs) |->
          [weight |-> Affine(dot.d, dot.scale, dot.dmin, dot.min, dot.qs[l]),
           act |-> xq[dot.off + l], by |-> xs[dot.x + 1],
           less |-> IF dot.min = Nil THEN Nil ELSE sums[dot.sum + 1]]])

Sums(type, xq) == IF SumWidth(type) = 0 THEN <<>> ELSE BlockSums(xq, SumWidth(type))

\* matvec_int8, of a quantised vector.
Quantised(type, cols, v) ==
  Terms(Int8Dot(type, cols), v.xq, v.xs, Sums(type, v.xq))

\* simd::dot of an expanded row.
Expanded(row, x) ==
  [e \in DOMAIN x |-> [weight |-> row[e], act |-> x[e], by |-> Nil, less |-> Nil]]

\* Every row has the terms of the first, with its own bits.
RowsOf(type, rows, cols, terms) ==
  [r \in 1..rows |-> [row |-> (r - 1) * ByteSize(type, cols), terms |-> terms]]

(* matvec: the row each result is of, and its terms.                       *)
MatVec(type, rows, cols, x) ==
  RowsOf(type, rows, cols,
         IF HasInt8Kernel(type) THEN Quantised(type, cols, QuantizeActivation(x))
         ELSE Expanded(DequantInto(type, cols), x))

(* Row-major to vector-major.                                              *)
Flipped(byRow, rows, n) ==
  [i \in 1..(rows * n) |-> byRow[((i - 1) % rows) * n + (i - 1) \div rows + 1]]

\* The terms of vector b, of several quantised and summed as one.
VectorOf(type, cols, all, sums, b) ==
  Terms(Int8Dot(type, cols),
        Slice(all.xq, b * cols, cols),
        Slice(all.xs, b * (cols \div QK), cols \div QK),
        IF sums = <<>> THEN <<>>
        ELSE Slice(sums, b * (cols \div SumWidth(type)), cols \div SumWidth(type)))

QuantisedVectors(type, cols, all, n) ==
  Loop(n, LAMBDA b : <<VectorOf(type, cols, all, Sums(type, all.xq), b)>>)

ByRow(type, rows, cols, vectors, n) ==
  [i \in 1..(rows * n) |->
     [row |-> ((i - 1) \div n) * ByteSize(type, cols), terms |-> vectors[((i - 1) % n) + 1]]]

(* matmul: n vectors at once.                                              *)
MatMul(type, rows, cols, xs, n) ==
  IF n = 1 THEN MatVec(type, rows, cols, xs)
  ELSE Flipped(ByRow(type, rows, cols,
                 IF HasInt8Kernel(type)
                 THEN QuantisedVectors(type, cols, QuantizeActivations(xs, n, cols), n)
                 ELSE Loop(n, LAMBDA b :
                        <<Expanded(DequantInto(type, cols), Slice(xs, b * cols, cols))>>),
                 n), rows, n)

-----------------------------------------------------------------------------
(* What the formats promise.                                               *)

\* A row of two blocks, at least one of activations.
Cols(type) == 2 * (IF BlockLayout[type].elems = 1 THEN 2 ELSE BlockLayout[type].elems)

\* The fields a block is made of, each the set of its bits.
Parts(block) ==
  UNION {{ToSet(w.d), ToSet(w.scale.bits), ToSet(w.dmin), ToSet(w.min)} : w \in ToSet(block)} \ {{}}
Quants(block) == {ToSet(w.q.bits) : w \in ToSet(block)}

\* The fields are apart, and together they are all there is.
Tile(fields, all) ==
  UNION fields = all /\ FoldSet(LAMBDA f, n : Cardinality(f) + n, 0, fields) = Cardinality(all)

(* Every bit of a block is read, and into one field of it only; no two     *)
(* elements share a quant.                                                 *)
Partitions(type, block) ==
  /\ Len(block) = BlockLayout[type].elems
  /\ Cardinality(Quants(block)) = Len(block)
  /\ Parts(block) \cap Quants(block) = {}
  /\ Tile(Parts(block) \cup Quants(block),
          {<<byte, bit>> : byte \in 0..(BlockLayout[type].bytes - 1), bit \in 0..7})

(* A packed row times an activation has, for every element, the term the   *)
(* decoder would give: its own weight, its own activation, the scale that  *)
(* one was quantised by, and a min times the sum over the run it covers.   *)
SameTerms(terms, row, n) ==
  /\ Len(terms) = n
  /\ LET covered == [min \in {t.weight.min : t \in ToSet(terms)} |->
                       {e \in 1..n : terms[e].weight.min = min}]
     IN \A e \in 1..n :
          /\ terms[e].weight = row[e]
          /\ terms[e].act.of = e /\ terms[e].by = terms[e].act.over
          /\ terms[e].less # Nil => ToSet(terms[e].less) = covered[terms[e].weight.min]

KernelExact(type, cols) ==
  HasInt8Kernel(type) =>
    SameTerms(MatVec(type, 1, cols, [e \in 1..cols |-> e])[1].terms, DequantInto(type, cols), cols)

\* Vector b of all is what it is alone.
SameAlone(all, b, alone) == \A r \in DOMAIN alone : all[b * Len(alone) + r] = alone[r]

(* Three vectors at once are three vectors one by one.                     *)
BatchIs(type, cols, xs, all) ==
  \A b \in 0..2 : SameAlone(all, b, MatVec(type, 2, cols, Slice(xs, b * cols, cols)))

BatchExact(type, cols, xs) == BatchIs(type, cols, xs, MatMul(type, 2, cols, xs, 3))

\* Whether a type is what it promises, once for all.
ExactTypes ==
  {type \in QTypes :
     /\ Partitions(type, DecodeBlock(type, 0))
     /\ KernelExact(type, Cols(type))
     /\ BatchExact(type, Cols(type), [e \in 1..(3 * Cols(type)) |-> e])}
=============================================================================
