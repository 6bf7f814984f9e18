--------------------------------- MODULE Qpack ----------------------------------
(***************************************************************************)
(* Field sections without a dynamic table, h3/qpack.rs, and the Huffman code  *)
(* of their strings, h3/huffman.rs, over sequences of octets.                 *)
(***************************************************************************)
EXTENDS Integers, Sequences, FiniteSetsExt

CONSTANTS STATIC_TABLE,         \* entries <<name, value>>, the first of index 0
          CODE_BITS,            \* the length of each symbol's code, the last EOS's
          INT_BITS,             \* of an integer: 64
          max_section_size

FIELD_OVERHEAD == 32

\* What a reading returns: where it stopped, and what went wrong if anything did.
\* A section that cannot be read costs its stream, or the connection.
Failed(error) == [error |-> error, value |-> <<>>, flags |-> 0, rest |-> <<>>]
Read(flags, value, rest) ==
    [error |-> "none", value |-> value, flags |-> flags, rest |-> rest]
truncated == Failed("stream")
IsOk(reading) == reading.error = "none"
After(s, n) == SubSeq(s, n + 1, Len(s))

-------------------------------------------------------------------------------
(* Huffman                                                                   *)

Symbols == DOMAIN CODE_BITS
EOS == Len(CODE_BITS)
MAX_CODE_BITS == Max({CODE_BITS[s] : s \in Symbols})

\* table(): how many codes there are of each length, the first of them, and the
\* symbols in the order of their codes.
count == [bits \in 0 .. MAX_CODE_BITS |->
             Cardinality({s \in Symbols : CODE_BITS[s] = bits})]
first_code[bits \in 0 .. MAX_CODE_BITS] ==
    IF bits = 0 THEN 0 ELSE (first_code[bits - 1] + count[bits - 1]) * 2
SymbolAt(bits, offset) ==
    CHOOSE s \in Symbols :
        /\ CODE_BITS[s] = bits
        /\ Cardinality({t \in 1 .. s - 1 : CODE_BITS[t] = bits}) = offset

Bit(octets, i) == (octets[(i - 1) \div 8 + 1] \div 2 ^ (7 - ((i - 1) % 8))) % 2

\* One bit more: it completes a code, or it does not.
TakeBit(state, bit) ==
    LET code == state.code * 2 + bit
        bits == state.bits + 1
        offset == code - first_code[bits]
    IN  IF ~state.ok THEN state
        ELSE IF bits > MAX_CODE_BITS THEN [state EXCEPT !.ok = FALSE]
        ELSE IF offset \notin 0 .. count[bits] - 1
        THEN [state EXCEPT !.code = code, !.bits = bits]
        ELSE IF SymbolAt(bits, offset) = EOS THEN [state EXCEPT !.ok = FALSE]
        ELSE [ok |-> TRUE, code |-> 0, bits |-> 0,
              out |-> Append(state.out, SymbolAt(bits, offset))]

PaddedAnyhow(state) == state.bits < 8
Padded(state) == state.bits < 8 /\ state.code = 2 ^ state.bits - 1

huffman(encoded) ==
    LET
      State[i \in 0 .. 8 * Len(encoded)] ==
        IF i = 0 THEN [ok |-> TRUE, code |-> 0, bits |-> 0, out |-> <<>>]
        ELSE TakeBit(State[i - 1], Bit(encoded, i))
      end == State[8 * Len(encoded)]
    IN  IF end.ok /\ Padded(end) THEN Read(0, end.out, <<>>) ELSE Failed("stream")

-------------------------------------------------------------------------------
(* Integers and strings                                                      *)

Overflow == -1
Added(value, octet, shift) ==
    IF value = Overflow \/ shift >= INT_BITS THEN Overflow
    ELSE IF (octet % 128) * 2 ^ shift >= 2 ^ INT_BITS THEN Overflow
    ELSE IF value + (octet % 128) * 2 ^ shift >= 2 ^ INT_BITS THEN Overflow
    ELSE value + (octet % 128) * 2 ^ shift

\* take_int: the low bits of the first octet and, where they are all ones, seven
\* bits of each octet after it up to one without its high bit.
Continued(flags, value, rest) ==
    LET
      Sum[i \in 0 .. Len(rest)] ==
        IF i = 0 THEN value ELSE Added(Sum[i - 1], rest[i], 7 * (i - 1))
      last == {i \in DOMAIN rest : rest[i] < 128}
    IN  IF last = {} \/ Sum[Min(last)] = Overflow THEN truncated
        ELSE Read(flags, Sum[Min(last)], After(rest, Min(last)))

take_int(buf, prefix_bits) ==
    IF buf = <<>> THEN truncated
    ELSE LET mask == 2 ^ prefix_bits - 1
             value == Head(buf) % (mask + 1)
             flags == Head(buf) \div (mask + 1)
         IN  IF value < mask THEN Read(flags, value, Tail(buf))
             ELSE Continued(flags, value, Tail(buf))

take_string(buf, prefix_bits) ==
    LET length == take_int(buf, prefix_bits)
        literal == SubSeq(length.rest, 1, length.value)
        string == IF length.flags % 2 = 0 THEN Read(0, literal, <<>>) ELSE huffman(literal)
    IN  IF ~IsOk(length) THEN length
        ELSE IF Len(length.rest) < length.value THEN truncated
        ELSE [string EXCEPT !.rest = After(length.rest, length.value)]

\* put_int: seven bits to an octet, the last without its high bit.
Septets(value) ==
    LET more[n \in 0 .. INT_BITS] == IF n = 0 THEN value ELSE more[n - 1] \div 128
        last == Min({n \in 0 .. INT_BITS : more[n] < 128})
    IN  [i \in 1 .. last + 1 |-> (more[i - 1] % 128) + (IF i <= last THEN 128 ELSE 0)]

put_int(prefix_bits, flags, value) ==
    LET mask == 2 ^ prefix_bits - 1 IN
    IF value < mask THEN <<flags * (mask + 1) + value>>
    ELSE <<flags * (mask + 1) + mask>> \o Septets(value - mask)

put_string(prefix_bits, flags, value) ==
    put_int(prefix_bits, flags * 2, Len(value)) \o value

-------------------------------------------------------------------------------
(* Field sections                                                            *)

Field(name, value) == [name |-> name, value |-> value]
size(field) == Len(field.name) + Len(field.value) + FIELD_OVERHEAD

static_entry(index) == STATIC_TABLE[index + 1]
InTable(index) == index < Len(STATIC_TABLE)

\* The value of a field whose name is read.
Valued(name, buf) ==
    LET value == take_string(buf, 7) IN
    IF IsOk(value) THEN [value EXCEPT !.value = Field(name, @)] ELSE value

\* One representation: indexed, literal with a name reference, or literal; the
\* others refer to the dynamic table there is none of.
WholeLine(entry) ==
    IF ~IsOk(entry) THEN entry
    ELSE IF entry.flags % 2 = 0 \/ ~InTable(entry.value) THEN Failed("connection")
    ELSE [entry EXCEPT !.value = Field(static_entry(@)[1], static_entry(@)[2])]
NamedLine(entry) ==
    IF ~IsOk(entry) THEN entry
    ELSE IF entry.flags % 2 = 0 \/ ~InTable(entry.value) THEN Failed("connection")
    ELSE Valued(static_entry(entry.value)[1], entry.rest)
LiteralLine(name) == IF IsOk(name) THEN Valued(name.value, name.rest) ELSE name
Representation(buf) ==
    IF Head(buf) >= 128 THEN WholeLine(take_int(buf, 6))
    ELSE IF Head(buf) >= 64 THEN NamedLine(take_int(buf, 4))
    ELSE IF Head(buf) >= 32 THEN LiteralLine(take_string(buf, 3))
    ELSE Failed("connection")

\* The fields read so far, what is left of the block, and the size they have.
Extended(section, field) ==
    LET total == section.size + size(field.value) IN
    IF ~IsOk(field) THEN [section EXCEPT !.error = field.error]
    ELSE IF total > max_section_size THEN [section EXCEPT !.error = "too large"]
    ELSE [error |-> "none", fields |-> Append(section.fields, field.value),
          rest |-> field.rest, size |-> total]
TakeField(section) ==
    IF section.error # "none" \/ section.rest = <<>> THEN section
    ELSE Extended(section, Representation(section.rest))

decode(block) ==
    LET
      Nothing(error, rest) == [error |-> error, fields |-> <<>>, rest |-> rest, size |-> 0]
      required == take_int(block, 8)
      base == take_int(required.rest, 7)
      Section[n \in 0 .. Len(block)] ==
        IF n = 0 THEN Nothing("none", base.rest) ELSE TakeField(Section[n - 1])
    IN  IF ~IsOk(required) THEN Nothing("stream", <<>>)
        ELSE IF required.value # 0 THEN Nothing("connection", <<>>)
        ELSE IF ~IsOk(base) THEN Nothing("stream", <<>>)
        ELSE IF base.flags % 2 = 1 THEN Nothing("connection", <<>>)
        ELSE Section[Len(block)]

\* find: the entry itself, or else the first of that name.
Entries(name) == {i \in DOMAIN STATIC_TABLE : STATIC_TABLE[i][1] = name}
Exact(name, value) == {i \in Entries(name) : STATIC_TABLE[i][2] = value}
put_field(field) ==
    IF Exact(field.name, field.value) # {}
    THEN put_int(6, 3, Min(Exact(field.name, field.value)) - 1)
    ELSE IF Entries(field.name) # {}
    THEN put_int(4, 5, Min(Entries(field.name)) - 1) \o put_string(7, 0, field.value)
    ELSE put_string(3, 2, field.name) \o put_string(7, 0, field.value)

encode(fields) ==
    LET
      Out[n \in 0 .. Len(fields)] ==
        IF n = 0 THEN <<0, 0>> ELSE Out[n - 1] \o put_field(fields[n])
    IN  Out[Len(fields)]

-------------------------------------------------------------------------------
(* What the readings are held to                                             *)

\* The code of a symbol by its place among the codes: each shorter one, and each
\* of its length before it, takes its share of the codes of this length.
CodeOf(s) ==
    LET before == {t \in Symbols :
            \/ CODE_BITS[t] < CODE_BITS[s]
            \/ CODE_BITS[t] = CODE_BITS[s] /\ t < s}
        code == MapThenSumSet(LAMBDA t : 2 ^ (CODE_BITS[s] - CODE_BITS[t]), before)
    IN  [i \in 1 .. CODE_BITS[s] |-> (code \div 2 ^ (CODE_BITS[s] - i)) % 2]
CodeBits == [s \in Symbols |-> CodeOf(s)]

\* The string is the codes of the symbols read, padded with fewer than eight ones;
\* and a string nothing was read from is no such thing (EOS is of eight bits or
\* more, so that no padding completes it).
IsHuffmanInverse(encoded) ==
    LET
      bits == [i \in 1 .. 8 * Len(encoded) |-> Bit(encoded, i)]
      Matches(s, i) == CODE_BITS[s] <= i /\ SubSeq(bits, i - CODE_BITS[s] + 1, i) = CodeBits[s]
      Spelled[i \in 0 .. Len(bits)] ==      \* the words the first i bits spell
        IF i = 0 THEN {<<>>}
        ELSE UNION {{Append(w, s) : w \in Spelled[i - CODE_BITS[s]]} :
                        s \in {t \in Symbols \ {EOS} : Matches(t, i)}}
      Ones(i) == Len(bits) - i < 8 /\ \A j \in i + 1 .. Len(bits) : bits[j] = 1
      words == UNION {Spelled[i] : i \in {j \in 0 .. Len(bits) : Ones(j)}}
      read == huffman(encoded)
    IN  words = IF IsOk(read) THEN {read.value} ELSE {}

\* An integer is read as the number its octets are, or, past the width, not at all.
IsIntegerExact(buf, prefix_bits) ==
    LET
      read == take_int(buf, prefix_bits)
      low == Head(buf) % 2 ^ prefix_bits
      ends == {i \in 2 .. Len(buf) : buf[i] < 128}
      Number == low + MapThenSumSet(LAMBDA i : (buf[i] % 128) * 128 ^ (i - 2), 2 .. Min(ends))
    IN  IF buf = <<>> THEN ~IsOk(read)
        ELSE IF low # 2 ^ prefix_bits - 1 THEN IsOk(read) /\ read.value = low
        ELSE IF ends = {} THEN ~IsOk(read)
        ELSE IF 7 * (Min(ends) - 2) >= INT_BITS THEN ~IsOk(read)
        ELSE IF Number >= 2 ^ INT_BITS THEN ~IsOk(read)
        ELSE IsOk(read) /\ read.value = Number /\ read.rest = After(buf, Min(ends))

\* What was read, written again and read again, is what was read.
IsReadBack(block) ==
    \A section \in {decode(block)} : section.error = "none" =>
        \A again \in {encode(section.fields)} : decode(again) = section
===============================================================================
