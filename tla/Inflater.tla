------------------------------ MODULE Inflater ------------------------------
(***************************************************************************)
(* What a reader of the compressed bytes (RFC 1951, 3.2.3 and 3.2.4) makes *)
(* of the blocks that BlockChoice chooses and DeflateStream writes.  The   *)
(* reader knows the codes of a block (TableLengths is about how they get   *)
(* there), and goes by nothing else but the bytes.                         *)
(***************************************************************************)
EXTENDS BlockChoice

Bit(p) == (dest[p \div ByteBits] \div 2 ^ (p % ByteBits)) % 2
Limit == ((pos + ByteBits - 1) \div ByteBits) * ByteBits
Number(p, bits) == Value([k \in 1 .. bits |-> Bit(p + k - 1)])

\* The symbol whose code is next, as a set; empty at the end of the bytes.
SymbolAt(p, code) ==
  {s \in DOMAIN code : /\ p + Len(code[s]) <= Limit
                       /\ \A k \in DOMAIN code[s] : Bit(p + k - 1) = code[s][k]}

Outcome(data, complete) == [data |-> data, complete |-> complete]

RECURSIVE Inflate(_, _, _), InflateCoded(_, _, _)

Match(length, distance) ==
  << [type |-> "CW_LENGTH", lit |-> 0, ld |-> length],
     [type |-> "CW_DISTANCE", lit |-> 0, ld |-> distance] >>

\* The words of block n, whose next symbol is at p.
InflateCoded(n, p, data) ==
  LET code == written[n].code
      s == CHOOSE x \in SymbolAt(p, code.items) : TRUE
      q == p + Len(code.items[s])            \* a length's extra bits
      r == q + LengthExtra(s)                \* its distance
      d == CHOOSE x \in SymbolAt(r, code.distances) : TRUE
      t == r + Len(code.distances[d])        \* the distance's extra bits
      u == t + DistanceExtra(d)
  IN  IF SymbolAt(p, code.items) = {} THEN Outcome(data, FALSE)
      ELSE IF s < 256 THEN
        InflateCoded(n, q, Append(data, [type |-> "CW_LITERAL", lit |-> s, ld |-> 0]))
      ELSE IF s = 256 THEN
        IF written[n].is_final THEN Outcome(data, TRUE) ELSE Inflate(n + 1, q, data)
      ELSE IF r > Limit \/ SymbolAt(r, code.distances) = {} \/ u > Limit THEN
        Outcome(data, FALSE)
      ELSE
        InflateCoded(n, u, data \o Match(LengthBase[s] + Number(q, r - q),
                                         DistanceBase[d] + Number(t, u - t)))

\* Block n, whose header is at p; anything unexpected ends the reader.
Inflate(n, p, data) ==
  IF p + 3 > Limit \/ n > Len(written) THEN Outcome(data, FALSE)
  ELSE IF Number(p + 1, 2) # 0 THEN InflateCoded(n, p + 3 + written[n].tables, data)
  ELSE LET start == ((p + 3 + ByteBits - 1) \div ByteBits) * ByteBits
           bits  == LenBytes * ByteBits
           len   == Number(start, bits)
           body  == start + 2 * bits
           bytes == [k \in 1 .. len |-> RawWord(Number(body + (k - 1) * ByteBits, ByteBits))]
       IN  IF \/ body + len * ByteBits > Limit
              \/ Number(start + bits, bits) # 2 ^ bits - 1 - len
           THEN Outcome(data, FALSE)
           ELSE IF Bit(p) = 1 THEN Outcome(data \o bytes, TRUE)
           ELSE Inflate(n + 1, body + len * ByteBits, data \o bytes)

-----------------------------------------------------------------------------
(* Properties.                                                             *)

\* What the blocks are to say.
Data ==
  FlattenSeq([n \in DOMAIN out |->
                LET x == out[n]
                IN  IF x.coding = Storing THEN Bytes(x) ELSE Codings[x.coding].words])

\* A reader gets all the data, whatever blocks of whatever kind follow each other.
\* With its end symbol the stream stops there; without, the reader makes fewer
\* symbols of the padding than there are bits.
ReaderGetsData ==
  Finished =>
    LET r == Inflate(1, 0, <<>>)
    IN  /\ IsPrefix(Data, r.data)
        /\ r.complete => r.data = Data
        /\ apple_gzip => r.complete
        /\ Len(r.data) - Len(Data) < ByteBits
=============================================================================
