--------------------------- MODULE SegmentFormat ---------------------------
(***************************************************************************)
(* A segment as it is stored (storage_lite/format.rs) and its lossless     *)
(* column codecs (codec.rs, alp.rs): what an eviction and the next fault   *)
(* put a segment's rows through.                                           *)
(*                                                                         *)
(* The program's machine words are scaled to the numbers of Predicates: an *)
(* i64 is one of Numbers, a u64 one of Words.  A stream is a sequence of   *)
(* elements; a field of fixed width (a word, a count, a tag) is one of     *)
(* them, and so is a byte of ByteBits bits of a varint or a packed column. *)
(***************************************************************************)
EXTENDS Predicates

CONSTANTS
    ByteBits,    \* bits of a byte
    Chunk,       \* values of a codec's vector
    DictLimit    \* left parts an RD dictionary may hold

ASSUME ScaleAssumption == {ByteBits - 1, Chunk, DictLimit} \subseteq Nat \ {0}

Modulus == 2 * (MaxNumber + 1)
Words == 0..(Modulus - 1)

\* `as u64', `as i64', and the wrapping operations between them.
Unsigned(v) == v % Modulus
Signed(u) == LET word == Unsigned(u) IN IF word > MaxNumber THEN word - Modulus ELSE word
Wrapped(v) == Signed(Unsigned(v))

\* What a decoder has: the stream's rest, the values so far, or an error.
Reading(stream) == [ok |-> TRUE, rest |-> stream, values |-> << >>]
Bad(r) == [r EXCEPT !.ok = FALSE]

\* Takes the next element; a stream that ends here is truncated.
Taken(r) == IF r.rest = << >> THEN Bad(r) ELSE [r EXCEPT !.rest = Tail(@)]

SumOf(f) == FoldFunctionOnSet(+, 0, f, DOMAIN f)

----------------------------------------------------------------------------
\* Delta-of-delta, zigzag, varints.

ZigZag(v) == IF v >= 0 THEN 2 * v ELSE -2 * v - 1
UnZigZag(u) == IF u % 2 = 0 THEN u \div 2 ELSE -((u + 1) \div 2)

\* A varint's byte holds ByteBits - 1 bits and says whether more follow.
More == 2^(ByteBits - 1)
MaxVarint == Min({d \in 1..Modulus : More^d >= Modulus})

Varint(u) ==
    LET length == Min({d \in 1..MaxVarint : u < More^d})
    IN  [d \in 1..length |-> ((u \div More^(d - 1)) % More) + (IF d < length THEN More ELSE 0)]

\* read_varint: bits past the word are shifted out of it.
TakeVarint(r) ==
    LET ends == {d \in DOMAIN r.rest : d <= MaxVarint /\ r.rest[d] < More}
        length == Min(ends)
        value == SumOf([d \in 1..length |-> (r.rest[d] % More) * More^(d - 1)]) % Modulus
    IN  IF ~r.ok \/ ends = {} THEN Bad(r)
        ELSE [r EXCEPT !.rest = SubSeq(@, length + 1, Len(@)), !.values = Append(@, UnZigZag(value))]

\* The differences of a sequence, its first value kept; wrapping.
Differences(values) ==
    [i \in DOMAIN values |-> IF i = 1 THEN values[1] ELSE Wrapped(values[i] - values[i - 1])]

\* The first value, the first delta, then second differences.
EncodeDeltas(values) ==
    LET deltas == Differences(values)
        steps == [i \in DOMAIN values |->
                     IF i <= 2 THEN deltas[i] ELSE Wrapped(deltas[i] - deltas[i - 1])]
    IN  FlattenSeq([i \in DOMAIN steps |-> Varint(ZigZag(steps[i]))])

\* Running sums, wrapping.
Accumulated(steps) ==
    FoldLeft(LAMBDA sums, step :
                 Append(sums, IF sums = << >> THEN step ELSE Wrapped(Last(sums) + step)),
             << >>, steps)

DecodeDeltas(r, count) ==
    LET read == FoldLeft(LAMBDA s, i : TakeVarint(s), r, [i \in 1..count |-> i])
        steps == read.values
    IN  IF ~read.ok \/ count = 0 THEN read
        ELSE [read EXCEPT !.values = Accumulated(<<Head(steps)>> \o Accumulated(Tail(steps)))]

----------------------------------------------------------------------------
\* Frame of reference and bit packing.

WidthOf(u) == Min({w \in 0..Modulus : u < 2^w})
WordBits == WidthOf(Modulus - 1)

\* pack_bits: the values' bits in a row, cut into bytes.
Packed(values, width) ==
    LET bits == Len(values) * width
        Bit(k) == (values[k \div width + 1] \div 2^(k % width)) % 2
    IN  [b \in 1..((bits + ByteBits - 1) \div ByteBits) |->
            SumOf([k \in {j \in ((b - 1) * ByteBits)..(b * ByteBits - 1) : j < bits} |->
                      Bit(k) * 2^(k % ByteBits)])]

\* unpack_bits: width 0 takes no byte, every value is the frame's base.
Unpacked(r, count, width) ==
    LET bytes == (count * width + ByteBits - 1) \div ByteBits
        Bit(k) == (r.rest[k \div ByteBits + 1] \div 2^(k % ByteBits)) % 2
    IN  IF ~r.ok \/ bytes > Len(r.rest) THEN Bad(r)
        ELSE [r EXCEPT
                !.rest = SubSeq(@, bytes + 1, Len(@)),
                !.values = @ \o [v \in 1..count |->
                    SumOf([o \in 0..(width - 1) |-> Bit((v - 1) * width + o) * 2^o])]]

Chunks(values) ==
    [c \in 1..((Len(values) + Chunk - 1) \div Chunk) |->
        SubSeq(values, (c - 1) * Chunk + 1, Min({c * Chunk, Len(values)}))]

\* Offsets from the least value, which fit a word whatever the range.
Offsets(values) == [i \in DOMAIN values |-> Unsigned(values[i] - Min(ToSet(values)))]

\* A frame: its base, the width of its offsets, and those.
FrameOf(low, offsets) ==
    LET width == WidthOf(Max(ToSet(offsets))) IN <<Unsigned(low), width>> \o Packed(offsets, width)

EncodeFrame(values) == FrameOf(Min(ToSet(values)), Offsets(values))

Based(r, body, count) ==
    IF ~r.ok \/ Len(r.rest) < 2 \/ r.rest[2] > WordBits \/ ~body.ok THEN Bad(r)
    ELSE [body EXCEPT !.values =
             r.values \o [i \in 1..count |-> Signed(r.rest[1] + body.values[i])]]

DecodeFrame(r, count) ==
    Based(r, Unpacked([Taken(Taken(r)) EXCEPT !.values = << >>], count, r.rest[2]), count)

----------------------------------------------------------------------------
\* ALP.  A double is a number of halves or NaN; ten is two, and digits under
\* exponents (e, f) stand for digits * ten^f / ten^e.  Which scheme and which
\* exponents a chunk gets is a matter of size alone: they are an input here,
\* [mode, e, f, cut], and any choice must decode.

ModeAlp == 0
ModeRd == 1
ModeRaw == 2

Pattern(x) == x + MaxNumber + 1
Double(pattern) == pattern - MaxNumber - 1
PatternBits == WidthOf(Pattern(NaN))

\* Nearest integer, halves away from zero.
Rounded(n, d) == IF n >= 0 THEN (2 * n + d) \div (2 * d) ELSE -((d - 2 * n) \div (2 * d))

\* A product no double equals rounds.
Reconstruct(digits, e, f) == Rounded(digits * 2^(1 + f), 2^e)

\* The value scaled to an integer.
Digits(x, e, f) == Rounded(x * 2^e, 2^(1 + f))

\* alp_convert: the digits, if in range and if they come back as the value.
Converts(x, e, f, digits) == digits \in -MaxNumber..MaxNumber /\ Reconstruct(digits, e, f) = x

Convert(x, e, f) == IF x # NaN /\ Converts(x, e, f, Digits(x, e, f)) THEN Digits(x, e, f) ELSE Null

\* The list that ends a chunk: <<position, what is there>> for each exception.
Exceptions(cells, positions) ==
    LET order == SetToSortSeq(positions, <)
    IN  <<Len(order)>> \o FlattenSeq([i \in DOMAIN order |-> <<order[i] - 1, cells[order[i]]>>])

AlpFrame(digits, low) ==
    FrameOf(low, [i \in DOMAIN digits |-> IF digits[i] = Null THEN 0 ELSE Unsigned(digits[i] - low)])

\* A chunk some value of which converts.
AlpChunk(values, e, f, digits) ==
    <<ModeAlp, e, f>> \o AlpFrame(digits, Min(ToSet(digits) \ {Null}))
    \o Exceptions([i \in DOMAIN values |-> Pattern(values[i])], {i \in DOMAIN values : digits[i] = Null})

EncodeAlp(values, e, f) == AlpChunk(values, e, f, [i \in DOMAIN values |-> Convert(values[i], e, f)])

\* The left parts of a chunk's patterns, the most frequent first.
Lefts(values, cut) == [i \in DOMAIN values |-> Pattern(values[i]) \div 2^(PatternBits - cut)]

LeftDictionary(lefts) ==
    LET Count(l) == Cardinality({i \in DOMAIN lefts : lefts[i] = l})
        order == SetToSortSeq(ToSet(lefts),
                     LAMBDA a, b : Count(a) > Count(b) \/ (Count(a) = Count(b) /\ a < b))
    IN  SubSeq(order, 1, Min({Len(order), DictLimit}))

CodeBits == WidthOf(DictLimit - 1)

RdChunk(values, cut, lefts, dict) ==
    LET known == {i \in DOMAIN values : Contains(dict, lefts[i])}
        codes == [i \in DOMAIN values |->
                     IF i \in known THEN (CHOOSE c \in DOMAIN dict : dict[c] = lefts[i]) - 1 ELSE 0]
        rights == [i \in DOMAIN values |-> Pattern(values[i]) % 2^(PatternBits - cut)]
    IN  <<ModeRd, cut, Len(dict)>> \o dict \o Packed(codes, CodeBits)
        \o Packed(rights, PatternBits - cut) \o Exceptions(lefts, DOMAIN values \ known)

EncodeRd(values, cut) == RdChunk(values, cut, Lefts(values, cut), LeftDictionary(Lefts(values, cut)))

\* encode_alp_f64, one chunk; ALP is passed over when nothing converts.
EncodeReals(values, scheme) ==
    CASE scheme.mode = "alp" /\ (\E x \in ToSet(values) : Convert(x, scheme.e, scheme.f) # Null) ->
           EncodeAlp(values, scheme.e, scheme.f)
      [] scheme.mode = "raw" -> <<ModeRaw>> \o [i \in DOMAIN values |-> Pattern(values[i])]
      [] OTHER -> EncodeRd(values, scheme.cut)

\* The exceptions at the head of a stream: a partial function from positions.
TakeExceptions(r, count) ==
    LET n == r.rest[1]
        slots == {i \in 1..n : r.rest[2 * i] < count}
    IN  IF ~r.ok \/ r.rest = << >> \/ Len(r.rest) < 1 + 2 * n \/ slots # 1..n
        THEN [reading |-> Bad(r), at |-> << >>]
        ELSE [reading |-> [r EXCEPT !.rest = SubSeq(@, 2 * n + 2, Len(@))],
              at |-> [p \in {r.rest[2 * i] + 1 : i \in slots} |->
                         r.rest[2 * Max({i \in slots : r.rest[2 * i] + 1 = p}) + 1]]]

Patched(values, at) == [i \in DOMAIN values |-> IF i \in DOMAIN at THEN at[i] ELSE values[i]]

\* A chunk's values behind those already read.
Delivered(r, reading, values) == [reading EXCEPT !.values = r.values \o values]

\* r stands behind the mode; the offsets are unpacked, the exceptions taken.
AlpValues(r, count, offsets, exceptions) ==
    LET e == r.rest[1]
        f == r.rest[2]
        Digit(i) == Signed(r.rest[3] + offsets.values[i])
        patterns == [i \in 1..count |-> Pattern(Reconstruct(Digit(i), e, f))]
    IN  IF Len(r.rest) < 4 \/ f > e \/ r.rest[4] > WordBits \/ ~exceptions.reading.ok THEN Bad(r)
        ELSE Delivered(r, exceptions.reading,
                 [i \in 1..count |-> Double(Patched(patterns, exceptions.at)[i])])

AlpExceptions(r, count, offsets) == AlpValues(r, count, offsets, TakeExceptions(offsets, count))

DecodeAlp(r, count) ==
    AlpExceptions(r, count,
        Unpacked([r EXCEPT !.rest = SubSeq(@, 5, Len(@)), !.values = << >>], count, r.rest[4]))

RdValues(r, count, codes, rights, exceptions) ==
    LET cut == r.rest[1]
        size == r.rest[2]
        dict == SubSeq(r.rest, 3, 2 + size)
        lefts == Patched([i \in 1..count |-> dict[codes.values[i] + 1]], exceptions.at)
    IN  IF \/ Len(r.rest) < 2 \/ cut \notin 1..(PatternBits - 1) \/ size \notin 1..DictLimit
           \/ Len(r.rest) < 2 + size \/ ~exceptions.reading.ok
           \/ \E i \in 1..count : codes.values[i] >= size
        THEN Bad(r)
        ELSE Delivered(r, exceptions.reading,
                 [i \in 1..count |-> Double(lefts[i] * 2^(PatternBits - cut) + rights.values[i])])

RdExceptions(r, count, codes, rights) == RdValues(r, count, codes, rights, TakeExceptions(rights, count))

RdRights(r, count, codes) ==
    RdExceptions(r, count, codes, Unpacked([codes EXCEPT !.values = << >>], count, PatternBits - r.rest[1]))

DecodeRd(r, count) ==
    RdRights(r, count,
        Unpacked([r EXCEPT !.rest = SubSeq(@, 3 + r.rest[2], Len(@)), !.values = << >>], count, CodeBits))

DecodeReals(r, count) ==
    LET body == Taken(r)
    IN  IF ~r.ok \/ ~body.ok THEN Bad(r)
        ELSE CASE Head(r.rest) = ModeAlp -> DecodeAlp(body, count)
               [] Head(r.rest) = ModeRd -> DecodeRd(body, count)
               [] Head(r.rest) = ModeRaw ->
                    IF Len(body.rest) < count THEN Bad(r)
                    ELSE Delivered(r, [body EXCEPT !.rest = SubSeq(@, count + 1, Len(@))],
                             [i \in 1..count |-> Double(body.rest[i])])
               [] OTHER -> Bad(r)

----------------------------------------------------------------------------
\* Columns and segments.

\* writer_codec.
WriterCodec(column, ordered) ==
    CASE column = "ts" -> IF ordered THEN "deltas" ELSE "frame"
      [] column = "n" -> "frame"
      [] column = "x" -> "reals"
      [] column = "sym" -> "codes"

\* A per-segment dictionary: symbols in order of first appearance.
Dictionary(rows) ==
    FoldLeft(LAMBDA d, row : IF row.sym = Null \/ Contains(d, row.sym) THEN d
                             ELSE Append(d, row.sym),
             << >>, rows)

\* A NULL's slot holds 0, or code 0.
Slot(cell, dictionary) ==
    IF cell = Null THEN 0
    ELSE IF cell \in ToSet(dictionary) THEN (CHOOSE c \in DOMAIN dictionary : dictionary[c] = cell) - 1
    ELSE cell

\* Bits, one a row; none when no cell is NULL.
Validity(cells) ==
    IF Null \notin ToSet(cells) THEN << >>
    ELSE Packed([i \in DOMAIN cells |-> IF cells[i] = Null THEN 0 ELSE 1], 1)

EncodeChunk(codec, values, scheme) ==
    IF codec = "reals" THEN EncodeReals(values, scheme) ELSE EncodeFrame(values)

EncodeChunks(codec, chunks, scheme) ==
    FlattenSeq([c \in DOMAIN chunks |-> EncodeChunk(codec, chunks[c], scheme)])

EncodeValues(codec, slots, scheme) ==
    IF codec = "deltas" THEN EncodeDeltas(slots) ELSE EncodeChunks(codec, Chunks(slots), scheme)

EncodeColumn(cells, codec, dictionary, scheme) ==
    [codec |-> codec, validity |-> Validity(cells), dictionary |-> dictionary,
     bytes |-> EncodeValues(codec, [i \in DOMAIN cells |-> Slot(cells[i], dictionary)], scheme)]

\* The values a stream begins with, chunk by chunk.
DecodedPrefix(codec, bytes, count) ==
    LET sizes == [c \in DOMAIN Chunks([i \in 1..count |-> i]) |-> Min({Chunk, count - (c - 1) * Chunk})]
    IN  IF codec = "deltas" THEN DecodeDeltas(Reading(bytes), count)
        ELSE FoldLeft(LAMBDA r, n : IF codec = "reals" THEN DecodeReals(r, n) ELSE DecodeFrame(r, n),
                      Reading(bytes), sizes)

\* Exactly count values; anything else in the stream is an error.
Whole(r) == IF r.ok /\ r.rest # << >> THEN Bad(r) ELSE r

DecodeValues(codec, bytes, count) == Whole(DecodedPrefix(codec, bytes, count))

DecodeColumn(column, count) ==
    LET values == DecodeValues(column.codec, column.bytes, count).values
        valid == Unpacked(Reading(column.validity), count, 1).values
    IN  [i \in 1..count |->
            IF column.validity # << >> /\ valid[i] = 0 THEN Null
            ELSE IF column.codec = "codes" THEN column.dictionary[values[i] + 1] ELSE values[i]]

\* SequenceInfo: the births are the row ids, a run from its first, or
\* listed, each u64 cast to an i64 for the codec.
EncodeSequence(births, state) ==
    [state |-> state, first |-> Head(births),
     bytes |-> IF state = "explicit" THEN EncodeDeltas([i \in DOMAIN births |-> Signed(births[i])])
               ELSE << >>]

DecodeSequence(sequence, base, count) ==
    LET explicit == DecodeValues("deltas", sequence.bytes, count).values
    IN  [i \in 1..count |->
            CASE sequence.state = "ids" -> base + i - 1
              [] sequence.state = "contiguous" -> sequence.first + i - 1
              [] sequence.state = "explicit" -> Unsigned(explicit[i])]

StoredColumns == {"ts", "sym", "x", "n"}

\* Segment::is_ordered is about the rows as they were ingested.
Ordered(rows) == \A i \in 1..(Len(rows) - 1) : rows[i].ts <= rows[i + 1].ts

\* encode_segment, and decode_segment of it.
EncodeSegment(segment) ==
    [count |-> Len(segment.rows), base |-> segment.base,
     columns |-> [column \in StoredColumns |->
         EncodeColumn([i \in DOMAIN segment.rows |-> segment.rows[i][column]],
                      WriterCodec(column, Ordered(segment.rows)),
                      IF column = "sym" THEN Dictionary(segment.rows) ELSE << >>,
                      segment.scheme)],
     sequence |-> EncodeSequence([i \in DOMAIN segment.rows |-> segment.rows[i].seq], segment.births)]

DecodeSegment(object) ==
    LET cells == [column \in StoredColumns |-> DecodeColumn(object.columns[column], object.count)]
        births == DecodeSequence(object.sequence, object.base, object.count)
    IN  [i \in 1..object.count |->
            [column \in StoredColumns \cup {"seq"} |->
                IF column = "seq" THEN births[i] ELSE cells[column][i]]]

\* Every stream an object holds: its codec and its bytes.
Streams(object) ==
    {<<object.columns[column].codec, object.columns[column].bytes>> : column \in StoredColumns}
        \cup (IF object.sequence.state = "explicit" THEN {<<"deltas", object.sequence.bytes>>} ELSE {})
=============================================================================
