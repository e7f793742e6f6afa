------------------------------ MODULE RangeCoder ------------------------------
(***************************************************************************)
(* ENet's packet compressor (src/proxy/enet/compress.c): an adaptive       *)
(* order-2 PPM model with a carry-less range coder.                        *)
(*                                                                         *)
(* enet_range_coder_compress and enet_range_coder_decompress run one step  *)
(* per input byte.  The numbers of the code are CONSTANTS: a byte of       *)
(* output is a digit below Base (256), so the 32-bit registers have four   *)
(* digits and the 16-bit fields two; Alphabet is the number of byte values *)
(* (256), CountMax the largest enet_uint8 (0xFF), TotalMargin the 0x100 of *)
(* the rescaling tests (more than a total grows between two of them) and   *)
(* NumSymbols the 4096 entries of the symbol pool.                         *)
(***************************************************************************)
EXTENDS Integers, Sequences, SequencesExt

CONSTANTS
    Alphabet, Base, CountMax, TotalMargin, NumSymbols,
    Values,         \* the byte values that occur in the input
    OutLimits,      \* the outLimit callers of compress pass
    MaxInput,       \* bound: bytes of a packet
    MaxOutput,      \* the outLimit the host passes to decompress
    Noise           \* digits a damaged datagram may show instead of its own

ASSUME CoderAssumption ==
    /\ {Alphabet, Base, CountMax, NumSymbols, MaxInput, MaxOutput} \subseteq Nat \ {0}
    /\ TotalMargin \in 0 .. Base * Base
    /\ Values \subseteq 0 .. Alphabet - 1
    /\ Noise \subseteq 0 .. Base - 1
    /\ OutLimits \subseteq Nat

TOP    == Base * Base * Base
BOTTOM == Base * Base
WORD   == TOP * Base                  \* the registers are counted modulo WORD

CONTEXT_SYMBOL_DELTA    == 3
CONTEXT_SYMBOL_MINIMUM  == 1
CONTEXT_ESCAPE_MINIMUM  == 1
SUBCONTEXT_ORDER        == 2
SUBCONTEXT_SYMBOL_DELTA == 2
SUBCONTEXT_ESCAPE_DELTA == 5

-----------------------------------------------------------------------------
(* The model.  The pool of symbols is a sequence whose length is           *)
(* nextSymbol; entry 1 is the root context.  A reference is an index, 0    *)
(* for none (the code keeps the distance from the referring entry; its     *)
(* parent and predicted are indices, 0 being the root).  An                *)
(* entry is a node of the binary indexed tree of the context it occurs in, *)
(* and itself the context of what follows it.                              *)

Root == 1

\* ENET_SYMBOL_CREATE
NewSymbol(value, count) ==
    [value |-> value, count |-> count, under |-> count, left |-> 0, right |-> 0,
     symbols |-> 0, escapes |-> 0, total |-> 0, parent |-> Root]

\* ENET_CONTEXT_CREATE of the root
NewModel ==
    [sym |-> << [NewSymbol(0, 0) EXCEPT
                    !.escapes = CONTEXT_ESCAPE_MINIMUM,
                    !.total   = CONTEXT_ESCAPE_MINIMUM + Alphabet * CONTEXT_SYMBOL_MINIMUM] >>,
     predicted |-> Root, order |-> 0, peak |-> 1]

\* The nodes of the tree below node n.
RECURSIVE Tree(_, _)
Tree(sym, n) ==
    IF n = 0 THEN {} ELSE {n} \cup Tree(sym, sym[n].left) \cup Tree(sym, sym[n].right)

SumOver(S, Op(_)) == FoldSet(LAMBDA n, acc : Op(n) + acc, 0, S)

\* ENET_CONTEXT_RESCALE with enet_symbol_rescale: the counts are halved, the
\* smaller halves dropped, and the sums of the tree computed anew.
Rescale(sym, ctx, minimum) ==
    LET nodes   == Tree(sym, sym[ctx].symbols)
        half(n) == sym[n].count - sym[n].count \div 2
        escapes == sym[ctx].escapes - sym[ctx].escapes \div 2
    IN  [n \in DOMAIN sym |->
            IF n \in nodes
            THEN [sym[n] EXCEPT !.count = half(n),
                                !.under = half(n) + SumOver(Tree(sym, sym[n].left), half)]
            ELSE IF n = ctx
            THEN [sym[n] EXCEPT !.escapes = escapes,
                                !.total = SumOver(nodes, half) + escapes + Alphabet * minimum]
            ELSE sym[n]]

\* A search of a tree is the sequence of the nodes it visits with the turn it
\* takes at each.  Walk looks for a value, as ENET_CONTEXT_ENCODE does.
RECURSIVE Walk(_, _, _)
Walk(sym, n, value) ==
    IF n = 0 THEN << >>
    ELSE IF value < sym[n].value
         THEN << [node |-> n, turn |-> "left"] >> \o Walk(sym, sym[n].left, value)
    ELSE IF value > sym[n].value
         THEN << [node |-> n, turn |-> "right"] >> \o Walk(sym, sym[n].right, value)
    ELSE << [node |-> n, turn |-> "hit"] >>

\* Search looks for a code, as ENET_CONTEXT_DECODE does.
After(sym, n, under, minimum)  == (under + sym[n].under + (sym[n].value + 1) * minimum) % BOTTOM
Before(sym, n, minimum)        == sym[n].count + minimum

RECURSIVE Search(_, _, _, _, _)
Search(sym, n, code, under, minimum) ==
    IF n = 0 THEN << >>
    ELSE LET after == After(sym, n, under, minimum)
         IN  IF code >= after
             THEN << [node |-> n, turn |-> "right"] >>
                    \o Search(sym, sym[n].right, code, under + sym[n].under, minimum)
             ELSE IF code < after - Before(sym, n, minimum)
             THEN << [node |-> n, turn |-> "left"] >>
                    \o Search(sym, sym[n].left, code, under, minimum)
             ELSE << [node |-> n, turn |-> "hit"] >>

Hits(steps) == steps # << >> /\ Last(steps).turn = "hit"

\* What the nodes passed to the right have under them.
Passed(sym, steps) ==
    SumOver({i \in DOMAIN steps : steps[i].turn = "right"},
            LAMBDA i : sym[steps[i].node].under)

\* The updates both searches make: the sums on the path, the count of the node
\* that was hit, or a new symbol where the search ended.
Grow(sym, ctx, steps, value, update) ==
    LET onPath(n, turns) == \E i \in DOMAIN steps : steps[i].node = n /\ steps[i].turn \in turns
        summed == [n \in DOMAIN sym |->
                     [sym[n] EXCEPT
                        !.under = IF onPath(n, {"left", "hit"}) THEN (@ + update) % BOTTOM ELSE @,
                        !.count = IF onPath(n, {"hit"}) THEN (@ + update) % (CountMax + 1) ELSE @]]
        new    == Len(sym) + 1
        larger == Append(summed, NewSymbol(value, update))
        linked == IF steps = << >> THEN [larger EXCEPT ![ctx].symbols = new]
                  ELSE IF Last(steps).turn = "left"
                       THEN [larger EXCEPT ![Last(steps).node].left = new]
                       ELSE [larger EXCEPT ![Last(steps).node].right = new]
    IN  IF Hits(steps)
        THEN [sym |-> summed, node |-> Last(steps).node]
        ELSE [sym |-> linked, node |-> new]

\* Faulty variant: the counts are not kept from wrapping.
Settle_CountWraps(sym, ctx, count, update, minimum, escapes) ==
    LET grown == [sym EXCEPT ![ctx].escapes = (@ + escapes) % BOTTOM,
                             ![ctx].total = (@ + escapes + update) % BOTTOM]
    IN  IF grown[ctx].total > BOTTOM - TotalMargin THEN Rescale(grown, ctx, minimum) ELSE grown

\* What follows an update of a context in compress and in decompress: its total
\* grows and it is rescaled when a count or the total comes near its width.
Settle(sym, ctx, count, update, minimum, escapes) ==
    LET grown == [sym EXCEPT ![ctx].escapes = (@ + escapes) % BOTTOM,
                             ![ctx].total = (@ + escapes + update) % BOTTOM]
    IN  IF \/ count > CountMax - 2 * update + minimum
           \/ grown[ctx].total > BOTTOM - TotalMargin
        THEN Rescale(grown, ctx, minimum)
        ELSE grown

\* "* parent = symbol - rangeCoder -> symbols": parent points to predicted or
\* to the parent field of the symbol of the context before.
Point(m, child, symbol) ==
    IF child = 0 THEN [m EXCEPT !.predicted = symbol]
                 ELSE [m EXCEPT !.sym[child].parent = symbol]

\* One context of the chain learns a value: the body of the loop of compress
\* and of the loop at patchContexts in decompress.
Learn(m, ctx, value, child, update, minimum) ==
    LET steps == Walk(m.sym, m.sym[ctx].symbols, value)
        last  == Last(steps).node
        count == minimum + (IF Hits(steps) THEN m.sym[last].count ELSE 0)
        grown == Grow(m.sym, ctx, steps, value, update)
        fresh == IF count = 0 THEN SUBCONTEXT_ESCAPE_DELTA ELSE 0
    IN  [model   |-> Point([m EXCEPT !.sym = Settle(grown.sym, ctx, count, update, minimum, fresh)],
                           child, grown.node),
         node    |-> grown.node,
         under   |-> value * minimum + Passed(m.sym, steps)
                       + (IF Hits(steps) THEN m.sym[last].under - m.sym[last].count ELSE 0),
         count   |-> count]

\* Faulty variant: the pool is reset only when it is full.
Advance_NoRoom(m) ==
    LET used  == Len(m.sym)
        moved == IF m.order >= SUBCONTEXT_ORDER
                 THEN [m EXCEPT !.predicted = m.sym[m.predicted].parent]
                 ELSE [m EXCEPT !.order = @ + 1]
    IN  [IF used >= NumSymbols THEN NewModel ELSE moved
            EXCEPT !.peak = IF used > m.peak THEN used ELSE m.peak]

\* nextInput: the next context, and ENET_RANGE_CODER_FREE_SYMBOLS.
Advance(m) ==
    LET used  == Len(m.sym)
        moved == IF m.order >= SUBCONTEXT_ORDER
                 THEN [m EXCEPT !.predicted = m.sym[m.predicted].parent]
                 ELSE [m EXCEPT !.order = @ + 1]
    IN  [IF used >= NumSymbols - SUBCONTEXT_ORDER THEN NewModel ELSE moved
            EXCEPT !.peak = IF used > m.peak THEN used ELSE m.peak]

-----------------------------------------------------------------------------
(* The range coder: [low, low + range) is the interval still open.         *)

\* Faulty variant: the loop ends when the digits differ, however small the range is.
RECURSIVE Normalize_AnyRange(_)
Normalize_AnyRange(c) ==
    IF c.low \div TOP # ((c.low + c.range) % WORD) \div TOP \/ c.range = 0
    THEN c
    ELSE Normalize_AnyRange([low |-> (c.low * Base) % WORD, range |-> (c.range * Base) % WORD,
                             shifted |-> Append(c.shifted, c.low \div TOP)])

\* The loop of ENET_RANGE_CODER_ENCODE and of ENET_RANGE_CODER_DECODE: digits
\* that are settled are shifted out.  With an empty range the code's loop never
\* ends; the operator stops there, and RangeSuffices says that it does not occur.
RECURSIVE Normalize(_)
Normalize(c) ==
    LET split == c.low \div TOP # ((c.low + c.range) % WORD) \div TOP
        range == IF split THEN (0 - c.low) % BOTTOM ELSE c.range
    IN  IF (split /\ c.range >= BOTTOM) \/ c.range = 0
        THEN c
        ELSE Normalize([low |-> (c.low * Base) % WORD, range |-> (range * Base) % WORD,
                        shifted |-> Append(c.shifted, c.low \div TOP)])

Narrow(c, under, count, total) ==
    LET unit == c.range \div total
    IN  Normalize([c EXCEPT !.low = (@ + under * unit) % WORD, !.range = unit * count])

NewCoder == [low |-> 0, range |-> WORD - 1, shifted |-> << >>]

\* Faulty variant: only the first digit of low is written.
Flush_OneDigit(low, digits) == IF low = 0 THEN digits ELSE Append(digits, low \div TOP)

\* ENET_RANGE_CODER_FLUSH
RECURSIVE Flush(_, _)
Flush(low, digits) ==
    IF low = 0 THEN digits ELSE Flush((low * Base) % WORD, Append(digits, low \div TOP))

\* One byte of compress: the contexts from ctx up to the root learn the value;
\* the first that knew it, or the root, codes it, those before it an escape.
RECURSIVE EncodeIn(_, _, _, _)
EncodeIn(e, ctx, value, child) ==
    LET c == e.model.sym[ctx]
    IN  IF ctx = Root
        THEN LET l == Learn(e.model, Root, value, child,
                            CONTEXT_SYMBOL_DELTA, CONTEXT_SYMBOL_MINIMUM)
             IN  [model |-> l.model, coder |-> Narrow(e.coder, c.escapes + l.under, l.count, c.total)]
        ELSE LET l == Learn(e.model, ctx, value, child, SUBCONTEXT_SYMBOL_DELTA, 0)
             IN  IF l.count > 0
                 THEN [model |-> l.model,
                       coder |-> Narrow(e.coder, c.escapes + l.under, l.count, c.total)]
                 ELSE EncodeIn([model |-> l.model,
                                coder |-> IF c.escapes > 0 /\ c.escapes < c.total
                                          THEN Narrow(e.coder, 0, c.escapes, c.total)
                                          ELSE e.coder],
                               l.model.sym[ctx].parent, value, l.node)

\* The four digits in decodeCode after as many shifts, zeros beyond the end.
Window(digits, shifts) ==
    LET digit(i) == IF i <= Len(digits) THEN digits[i] ELSE 0
    IN  digit(shifts + 1) * TOP + digit(shifts + 2) * BOTTOM + digit(shifts + 3) * Base
          + digit(shifts + 4)

\* ENET_RANGE_CODER_READ
Read(c, digits, total) ==
    (((Window(digits, Len(c.shifted)) - c.low) % WORD) \div (c.range \div total)) % BOTTOM

\* ENET_CONTEXT_ROOT_DECODE: the value and interval a code stands for where the
\* search ended without a symbol.  (The minimum of the root is 1, so the code
\* is the start of its interval.)
NewValue(sym, steps, code) ==
    LET last  == Last(steps).node
        under == Passed(sym, SubSeq(steps, 1, Len(steps) - 1))
        after == After(sym, last, under, CONTEXT_SYMBOL_MINIMUM)
        before == Before(sym, last, CONTEXT_SYMBOL_MINIMUM)
    IN  (IF steps = << >> THEN code
         ELSE IF Last(steps).turn = "right" THEN sym[last].value + 1 + (code - after)
         ELSE sym[last].value - 1 - (after - before - code - 1)) % Alphabet

\* One byte of decompress, up to patchContexts: from ctx up to the root, the
\* context whose code is not an escape has the value.
RECURSIVE DecodeIn(_, _, _)
DecodeIn(d, ctx, digits) ==
    LET sym == d.model.sym
        c   == sym[ctx]
        minimum == IF ctx = Root THEN CONTEXT_SYMBOL_MINIMUM ELSE 0
        update  == IF ctx = Root THEN CONTEXT_SYMBOL_DELTA ELSE SUBCONTEXT_SYMBOL_DELTA
    IN  IF ctx # Root /\ (c.escapes = 0 \/ c.escapes >= c.total)
        THEN DecodeIn(d, c.parent, digits)
        ELSE LET read   == Read(d.coder, digits, c.total)
                 code   == read - c.escapes
                 steps  == Search(sym, c.symbols, code, 0, minimum)
                 last   == Last(steps).node
                 hit    == Hits(steps)
                 value  == IF hit THEN sym[last].value ELSE NewValue(sym, steps, code)
                 count  == minimum + (IF hit THEN sym[last].count ELSE 0)
                 under  == IF hit
                           THEN After(sym, last, Passed(sym, steps), minimum) - Before(sym, last, minimum)
                           ELSE code
                 grown  == Grow(sym, ctx, steps, value, update)
                 escaped == [d EXCEPT !.coder = Narrow(@, 0, c.escapes, c.total)]
             IN  CASE read < c.escapes /\ ctx = Root  -> [escaped EXCEPT !.what = "end"]
                   [] read < c.escapes /\ ctx # Root  -> DecodeIn(escaped, c.parent, digits)
                   [] read >= c.escapes /\ ctx # Root /\ ~hit -> [d EXCEPT !.what = "fail"]
                   [] OTHER ->
                        [what   |-> "value", value |-> value, ctx |-> ctx, bottom |-> grown.node,
                         coder  |-> Narrow(d.coder, c.escapes + under, count, c.total),
                         model  |-> [d.model EXCEPT !.sym =
                                        Settle(grown.sym, ctx, count, update, minimum, 0)]]

\* Faulty variant: the contexts that escaped learn nothing.
Patch_LearnsNothing(m, ctx, stop, value, child, bottom) == Point(m, child, bottom)

\* patchContexts: the contexts that escaped learn the value as in compress.
RECURSIVE Patch(_, _, _, _, _, _)
Patch(m, ctx, stop, value, child, bottom) ==
    IF ctx = stop THEN Point(m, child, bottom)
    ELSE LET l == Learn(m, ctx, value, child, SUBCONTEXT_SYMBOL_DELTA, 0)
         IN  Patch(l.model, l.model.sym[ctx].parent, stop, value, l.node, bottom)

-----------------------------------------------------------------------------
(* A packet is compressed, travels, possibly damaged, and is decompressed: *)
(* the receiving host verifies the checksum only after it decompressed.    *)

VARIABLES
    phase,      \* "compress", "raw" (compress returned 0), "decompress",
                \* "done", "failed" (decompress returned 0)
    outLimit,   \* of compress
    input,      \* the bytes compress has read
    enc,        \* its model and coder
    digits,     \* the compressed packet
    damaged,    \* the packet was damaged on its way
    dec,        \* the model and coder of decompress
    output,     \* the bytes decompress has written
    trail       \* history: the contexts of compress after each byte

vars == <<phase, outLimit, input, enc, digits, damaged, dec, output, trail>>

NewDec == [what |-> "value", value |-> 0, ctx |-> Root, bottom |-> 0,
           coder |-> NewCoder, model |-> NewModel]

\* The contexts as the coding depends on them, without their places in the pool
\* (decompress creates the symbols of a byte in another order).
RECURSIVE Contents(_, _)
Contents(sym, ctx) ==
    [escapes |-> sym[ctx].escapes, total |-> sym[ctx].total,
     symbols |-> {[value |-> sym[n].value, count |-> sym[n].count, under |-> sym[n].under,
                   next  |-> Contents(sym, n)] : n \in Tree(sym, sym[ctx].symbols)}]

Init ==
    /\ phase = "compress"
    /\ outLimit \in OutLimits
    /\ input = << >> /\ output = << >> /\ digits = << >> /\ trail = << >>
    /\ enc = [model |-> NewModel, coder |-> NewCoder]
    /\ dec = NewDec
    /\ damaged = FALSE

\* The loop of enet_range_coder_compress, for one byte.
CompressByte(value) ==
    /\ phase = "compress"
    /\ Len(input) < MaxInput
    /\ \E e \in {EncodeIn(enc, enc.model.predicted, value, 0)} :
         LET model == Advance(e.model)
         IN  /\ phase' = IF Len(e.coder.shifted) > outLimit THEN "raw" ELSE phase
             /\ enc' = [model |-> model, coder |-> e.coder]
             /\ trail' = Append(trail, Contents(model.sym, Root))
    /\ input' = Append(input, value)
    /\ UNCHANGED <<outLimit, digits, damaged, dec, output>>

\* The end of enet_range_coder_compress; a result of 0 is sent as it is.
CompressEnd ==
    /\ phase = "compress"
    /\ input # << >>
    /\ digits' = Flush(enc.coder.low, enc.coder.shifted)
    /\ phase' = IF Len(digits') \in 1 .. outLimit THEN "decompress" ELSE "raw"
    /\ UNCHANGED <<outLimit, input, enc, damaged, dec, output, trail>>

\* external: the network changes a digit of the packet.
Damage ==
    /\ phase = "decompress"
    /\ output = << >> /\ ~damaged
    /\ \E i \in DOMAIN digits, d \in Noise :
         d # digits[i] /\ digits' = [digits EXCEPT ![i] = d]
    /\ damaged' = TRUE
    /\ UNCHANGED <<phase, outLimit, input, enc, dec, output, trail>>

\* ENET_RANGE_CODER_OUTPUT in decompress: outData has reached outEnd.
OutputFull(bytes) == Len(bytes) >= MaxOutput

\* The loop of enet_range_coder_decompress, for one byte.
DecompressByte ==
    /\ phase = "decompress"
    /\ \E d \in {DecodeIn(dec, dec.model.predicted, digits)} :
         CASE d.what = "end" ->
                /\ phase' = "done" /\ dec' = d
                /\ UNCHANGED output
           [] d.what = "fail" \/ OutputFull(output) ->
                /\ phase' = "failed"
                /\ UNCHANGED <<dec, output>>
           [] OTHER ->
                /\ dec' = [d EXCEPT !.model = Advance(Patch(d.model, d.model.predicted, d.ctx,
                                                            d.value, 0, d.bottom))]
                /\ output' = Append(output, d.value)
                /\ UNCHANGED phase
    /\ UNCHANGED <<outLimit, input, enc, digits, damaged, trail>>

Next ==
    \/ \E value \in Values : CompressByte(value)
    \/ CompressEnd
    \/ Damage
    \/ DecompressByte

Spec == Init /\ [][Next]_vars

-----------------------------------------------------------------------------
(* Properties *)

\* Types of the coder; decompress writes no byte past the end of its buffer.
TypeOK ==
    /\ phase \in {"compress", "raw", "decompress", "done", "failed"}
    /\ outLimit \in OutLimits
    /\ input \in BoundedSeq(Values, MaxInput)
    /\ Len(output) <= MaxOutput /\ ToSet(output) \subseteq 0 .. Alphabet - 1
    /\ ToSet(digits) \subseteq 0 .. Base - 1
    /\ damaged \in BOOLEAN

\* Decompression returns the packet that was compressed, however the contexts
\* were rescaled and the pool of symbols reset on the way: compress writes no end
\* mark, it is the missing digits, read as zeros, that make the root escape.
RoundTrip ==
    ~damaged => /\ phase # "failed"
                /\ phase = "done" => output = input
                /\ IsPrefix(output, input)

\* After each byte decompress has the contexts compress had: the counts, sums,
\* escapes and totals that the next interval is computed from.
ContextsAgree ==
    (~damaged /\ output # << >>) => Contents(dec.model.sym, Root) = trail[Len(output)]

\* In every context of either side the intervals tile the total: each node's sum
\* is its count and those of its left subtree, no count has wrapped to 0, and the
\* total is the escapes, the minima and the counts; also for a damaged packet.
Tiled(sym, ctx) ==
    LET nodes == Tree(sym, sym[ctx].symbols)
        count(n) == sym[n].count
        minimum == IF ctx = Root THEN CONTEXT_SYMBOL_MINIMUM ELSE 0
    IN  /\ \A n \in nodes : /\ count(n) \in 1 .. CountMax
                            /\ sym[n].under = count(n) + SumOver(Tree(sym, sym[n].left), count)
        /\ sym[ctx].total = sym[ctx].escapes + Alphabet * minimum + SumOver(nodes, count)

IntervalsTile ==
    \A sym \in {enc.model.sym, dec.model.sym} : \A ctx \in DOMAIN sym : Tiled(sym, ctx)

\* The range never falls below the largest total, so that no interval is empty
\* (an empty one would keep the normalising loop shifting for ever) and no code
\* is read by a division by zero; also for a damaged packet.
RangeSuffices ==
    \A s \in {enc, dec} :
        /\ s.coder.range >= BOTTOM
        /\ \A ctx \in DOMAIN s.model.sym : s.model.sym[ctx].total <= BOTTOM

\* No byte takes the pool of symbols past its end, since the reset leaves room for
\* one symbol in each context of the chain, and decompress stays within its output
\* (TypeOK); also for a damaged packet.
BuffersSuffice ==
    /\ TypeOK
    /\ enc.model.peak <= NumSymbols /\ dec.model.peak <= NumSymbols

=============================================================================
