---------------------------- MODULE CircuitCases ----------------------------
(***************************************************************************)
(* Cases of circuits: their files and archives, the compiler, the layouts  *)
(* and parsers of credentials, and the circuits for hashes, signatures and *)
(* codes.  First files: words of 9 bits, digits of 2, so that ULEB128      *)
(* holds 8 bits and a number of LFC1 6, as 32, 28 and 24 in the code.      *)
(***************************************************************************)
EXTENDS Computations, FiniteField

File == INSTANCE CircuitFile WITH WordBits <- 9, DigitBits <- 2, NumBits <- 2, q <- 5,
          MaxWires <- 20, MaxTerms <- 6, MaxLayers <- 2, MAX_LOGW <- 3

TermLimit == 5
FileTerms == {[g |-> g, h0 |-> h[1], h1 |-> h[2], k |-> k] :
                g \in {0, 1}, h \in {<<0, 0>>, <<0, 1>>, <<3, 2>>}, k \in {0, 1}}
DeltaCases == SeqOf({[g |-> 0, h0 |-> h, h1 |-> 1, k |-> k] : h \in {0, 511}, k \in {0, 1}}, 5)
LayerCases == {<<ts, cut>> : ts \in SeqOf(FileTerms, 3), cut \in 0 .. 2}

LayerOf(ts, tokens) ==
  LET ds == File!DeltasOf(ts)
      cut == IF ts = <<>> THEN 0 ELSE 1
  IN File!new_compressed(4, 2, <<SubSeq(ds, 1, cut), SubSeq(ds, cut + 1, Len(ds))>>, tokens)
Layers == {LayerOf(ts, tokens) : ts \in {<<>>} \cup {<<[g |-> 1, h0 |-> 3, h1 |-> x, k |-> 1], t>> : t \in FileTerms, x \in {15, 200}},
                                 tokens \in {<<0, 1>>, <<1, 0, 1>>}}
RawCircuits == {[noutput |-> 3, npublic_input |-> 1, subfield_boundary |-> 2, ninput |-> 6, logv |-> 2,
                 constants |-> <<2, 4>>, layers |-> ls] :
                  ls \in {<<>>} \cup {<<l>> : l \in Layers}}

Enclose(raw) == [raw |-> raw, id |-> File!compute_id(raw)]
Damaged == {Enclose(c) : c \in {c \in RawCircuits : c.layers # <<>> /\ Len(c.layers[1].tokens) = 2
                                             /\ \E d \in File!ToSet(c.layers[1].deltas) : d.k = 0 /\ d.g = 0}}
DamagedFiles == {c \in {<<f, c, at, t>> : f \in {1, 2}, c \in Damaged, at \in 1 .. 80,
                               t \in {<<>>} \cup {<<x>> : x \in 0 .. 7} \cup {<<0, 0>>}} :
                   LET file == IF c[1] = 1 THEN File!to_bytes_lfc1(1, c[2]) ELSE File!to_bytes_lfc2(1, c[2])
                   IN c[3] <= Len(file)}

Names == << <<3, 1>>, <<3>> >>
Entry(i, fid) == LET raw == CHOOSE c \in RawCircuits : c.layers = <<>>
                 IN [name |-> Names[i], circuit_id |-> Enclose(raw).id,
                     payload |-> File!to_bytes_lfc1(fid, Enclose(raw))]
Other == [name |-> <<>>, circuit_id |-> <<7, 7>>, payload |-> << <<4>>, <<5>> >>]
Archives == {File!build(v, <<t, <<>>, <<>>, <<>> >>, es) :
               v \in {0, 1}, t \in {<<>>, <<2>>, <<1, 2>>, <<1, 2, 4>>},
               es \in {<<>>, <<Other>>, <<Entry(1, 1), Entry(2, 4)>>, <<Entry(2, 4), Entry(1, 1)>>,
                       <<Other, Other, Other>>}}
MortonTerms == {[g |-> g, h0 |-> h0, h1 |-> h1, k |-> 0] : g \in {0, 1}, h0 \in {0, 1, 2, 3, 300}, h1 \in {0, 1, 2, 3, 300}}

NextFile ==
  \/ Pick("deltas", DeltaCases \X {1, 2})
  \/ Pick("layers", {c \in LayerCases : c[2] <= Len(c[1])})
  \/ Pick("morton", MortonTerms \X MortonTerms)
  \/ Pick("files", RawCircuits)
  \/ Pick("damage", DamagedFiles)
  \/ Pick("archives", Archives)
  \/ Pick("archive damage", {<<a, at, t>> : a \in {b \in Archives : Len(b.entries) = 2 /\ Len(b.texts[1]) = 2},
                                            at \in 1 .. 24, t \in {<<x>> : x \in 0 .. 5} \cup {<<7, 7>>}})

\* A circuit file with one token changed, doubled or lost is refused, or gives
\* a circuit whose indices stay inside its tables and whose identifier, when it
\* is enforced, is the one that was asked for; a reader panics only on a file
\* that says its circuit has no output.
DamageFound == On("damage") =>
  LET c == case[1]
      file == IF c[1] = 1 THEN File!to_bytes_lfc1(1, c[2]) ELSE File!to_bytes_lfc2(1, c[2])
  IN File!DamageFoundIn(file, c[3], c[4], c[2].id, 1, TermLimit, 1)

\* The comparison of terms, which looks at the highest differing bits only,
\* orders by the interleaved bits of the two indices, h1 first.
MortonIsInterleaving == On("morton") => File!MortonFor(case[1][1], case[1][2])

\* An archive of either format gives back the circuits and texts it was built
\* from, whatever follows it, and one that was damaged never passes for the one
\* with the identifiers asked for.
ArchivesFaithful ==
  /\ On("archives") => File!ArchiveRoundTripFor(case[1], Names, 2, 2, TermLimit, 1, << <<3>> >>)
  /\ On("archive damage") =>
       File!ArchiveDamageFoundIn(case[1][1], case[1][2], case[1][3], Names, 2, 2, TermLimit, 1)

\* The table that forgets deltas and the exact one give back every delta that
\* was put in, whatever was evicted, and the exact one holds no delta twice.
TablesFaithful == On("deltas") => File!TablesFaithfulFor(case[1][1], case[1][2])

\* A layer of differences modulo the word size, cut into segments anywhere,
\* gives back its terms, and the number of corners predicted from the segments
\* alone is the number of distinct corners in a row.
LayerFaithful == On("layers") => File!LayerFaithfulFor(case[1][1], case[1][2], <<2, 4>>)

\* Writing a circuit in either format and reading it gives the same circuit and
\* leaves what follows, exactly when its numbers fit the format.
FilesRoundTrip == On("files") => File!FilesRoundTripFor(case[1], 1, TermLimit, 1, << <<7>>, <<0>> >>)

-----------------------------------------------------------------------------
(***************************************************************************)
(* Cases of the compiler: straight-line programs over two inputs and a     *)
(* field of three elements.                                                *)
(***************************************************************************)
Comp == INSTANCE Scheduler WITH WordBits <- 9, DigitBits <- 2, NumBits <- 2, q <- 3,
          MaxWires <- 60, MaxTerms <- 60, MaxLayers <- 9, MAX_LOGW <- 6, SegmentWidth <- 2

Leaves == [i \in 1 .. 3 |-> <<"leaf", <<"a", "b", "c">>[i]>>]
ScopeOps == {<<"join", i, j>> : i \in 1 .. 3, j \in 1 .. 3} \cup {<<"scope", i, "s">> : i \in 1 .. 3}
ScopeCases == {Leaves \o ops : ops \in SeqOf(ScopeOps, 3)}
Fates == {<<>>, [i \in {2} |-> "fail"], [i \in 1 .. 3 |-> IF i = 2 THEN "fail" ELSE "pass"], [i \in {3, 4} |-> "pass"]}

Binary(ops, n) == {<<op, x, y>> : op \in ops, x \in 1 .. n, y \in 1 .. n}
StepsAt(n) ==
  {s \in Binary({"add", "mul"}, n) : s[2] <= s[3]} \cup Binary({"sub", "slice"}, n)
  \cup {<<"mulk", 2, x>> : x \in 1 .. n} \cup {<<"precious", x>> : x \in 3 .. n} \cup {<<"konst", 2>>}
LateSteps(n) == {s \in StepsAt(n) : \E i \in 2 .. Len(s) : s[i] = n}
Programs2 == {[steps |-> <<a, b>>, asserts |-> as] : a \in StepsAt(2), b \in LateSteps(3), as \in {<<4>>, <<3, 4>>}}
Programs3 == {[steps |-> <<a, b, c>>, asserts |-> as] :
                a \in {<<op, 1, 2>> : op \in {"mul", "sub", "add", "slice"}}, b \in LateSteps(3), c \in LateSteps(4), as \in {<<5>>, <<3, 5>>}}

NextCompiler ==
  \/ Pick("programs", Programs2 \cup Programs3)
  \/ Pick("scopes", ScopeCases)
\* A compiled circuit of either generation accepts exactly the inputs on which
\* every assertion of the program, and every one attached to a wire it uses,
\* holds; what it reports as failed did fail; and the passes of the compiler stop
\* only for assertions without content and inputs without use, never on an
\* expression, layer or term another pass should not have produced.
Compiled == On("programs") => Comp!CompiledFor(case[1], 2)

\* The identifier of a circuit depends neither on the order in which assertions
\* were made, and nodes numbered, nor on the compression of its tables.
Canonical == On("programs") => Comp!CanonicalFor(case[1], 2)

\* Assertions found to be one share their fate and the scopes they are put in
\* afterwards, however unions, path compression and scopes interleave: the
\* forest is the equivalence of the joined pairs, and every assertion of a
\* group is reported once, failed when any of its members failed.
ScopesFaithful == On("scopes") => \A fates \in Fates : Comp!ScopesFaithfulFor(case[1], fates)

-----------------------------------------------------------------------------
(***************************************************************************)
(* Cases of the mdoc circuits and their inputs.                            *)
(***************************************************************************)
Layout == INSTANCE MdocLayout

NextMdoc ==
  \/ Pick("layouts", 1 .. 4)

\* The prover and the verifier push inputs one by one; the circuits allocate
\* wires one by one, in crates that share no type: name by name and width by
\* width the two orders are the same, and the subfield boundary falls between
\* the same two inputs.
LayoutsRight == On("layouts") => Layout!LayoutsAgreeFor(case[1])

-----------------------------------------------------------------------------
(***************************************************************************)
(* Cases of the circuits that check hashes, signatures and authentication  *)
(* codes against the programs that compute their witnesses.                *)
(***************************************************************************)
\* A word of 32 bits, from its two halves, and the constants of SHA-256.
W(hi, lo) == {i \in 0 .. 31 : IF i < 16 THEN Bit(lo, i) = 1 ELSE Bit(hi, i - 16) = 1}
K == <<W(17034, 12184), W(28983, 17553), W(46528, 64463), W(59829, 56229),
        W(14678, 49755), W(23025, 4593), W(37439, 33444), W(43804, 24277),
        W(55303, 43672), W(4739, 23297), W(9265, 34238), W(21772, 32195),
        W(29374, 23924), W(32990, 45566), W(39900, 1703), W(49563, 61812),
        W(58523, 27073), W(61374, 18310), W(4033, 40390), W(9228, 41420),
        W(11753, 11375), W(19060, 33962), W(23728, 43484), W(30457, 35034),
        W(38974, 20818), W(43057, 50797), W(45059, 10184), W(48985, 32711),
        W(50912, 3059), W(54695, 37191), W(1738, 25425), W(5161, 10599),
        W(10167, 2693), W(11803, 8504), W(19756, 28156), W(21304, 3347),
        W(25866, 29524), W(30314, 2747), W(33218, 51502), W(37490, 11397),
        W(41663, 59553), W(43034, 26187), W(49739, 35696), W(51052, 20899),
        W(53650, 59417), W(54937, 1572), W(62478, 13701), W(4202, 41072),
        W(6564, 49430), W(7735, 27656), W(10056, 30540), W(13488, 48309),
        W(14620, 3251), W(20184, 43594), W(23452, 51791), W(26670, 28659),
        W(29839, 33518), W(30885, 25455), W(33992, 30740), W(36039, 520),
        W(37054, 65530), W(42064, 27883), W(48889, 41975), W(50801, 30962)>>
INITIAL == <<W(27145, 58983), W(47975, 44677), W(15470, 62322), W(42319, 62778),
        W(20750, 21119), W(39685, 26764), W(8067, 55723), W(23520, 52505)>>
\* The digest of "abc" (FIPS 180-4).
Abc == <<W(47736, 5823), W(36609, 53226), W(16705, 16606), W(23982, 8739),
        W(45059, 24995), W(38423, 31388), W(46096, 65377), W(61952, 5549)>>

\* A field of two bytes for the length: its sums can overflow.
Sha == INSTANCE Sha256 WITH LenBytes <- 2, MaxBlocks <- 2

\* A curve of prime order 17, less than the prime of its field as for P-256;
\* some of its points have a first coordinate that is not below the order.
Prime19 == FpField(19)
Curve17 == [a |-> 2, b |-> 10, g |-> <<3, 9>>, order |-> 17]
Inverses17 == [x \in 1 .. 16 |-> fp_invert(17, x)]
Sig == INSTANCE Ecdsa WITH F <- Prime19, Threshold <- 2, LowTerms <- {0, 1}, Degree <- 4, Low <- 3, Curve <- Curve17, Inverses <- Inverses17, NumBits <- 5
CurvePoints == Sig!Points
Multiples == [k \in 0 .. 16 |-> Sig!Times(k, Curve17.g)]

\* Authentication codes in the field of 16 elements, checked over a prime
\* field and over that field.
Field5 == FpField(5)
Field16 == BinaryField(4, 3, <<1, 6, 2, 10>>)
MacOdd == INSTANCE AnalogCircuit WITH F <- Field5, Threshold <- 2, LowTerms <- {0, 1}, Degree <- 4, Low <- 3
MacEven == INSTANCE AnalogCircuit WITH F <- Field16, Threshold <- 2, LowTerms <- {0, 1}, Degree <- 4, Low <- 3

\* Blocks and messages of which every byte differs from its neighbours.
BytesOf(seed, n) == [i \in 1 .. n |-> (i * (seed + 37) + seed * seed) % 256]
AbcBytes == <<97, 98, 99>>
Fields == [outw |-> 48, oute |-> 64, outa |-> 64, h1 |-> 8]

\* Wrong numbers of blocks and lengths for a padded message, overflowing ones
\* among them; and one byte changed.
Claims(n) == [n : {n}, changed : {0}, byte : {0}, nblocks : 0 .. 3,
              length : {n - 1, n, n + 1, n + 8, 8192 + n, 65535, 65536 - n, 65471} \cap (0 .. 65535)]
Changes(n) == [n : {n}, changed : {1, n, n + 1, n + 2, 62, 63, 64, 65, 126, 127, 128} \cap (1 .. 128),
               byte : {0, 1, 128}, nblocks : 1 .. 2, length : {n}]

NextCrypto ==
  \/ Pick("blocks", {c \in [seed : 0 .. 1, field : DOMAIN Fields, i : {1, 2, 5, 8, 9, 16, 17, 33, 47, 48, 60, 61, 63, 64}, bit : {0, 31}] :
                       c.i <= Fields[c.field]})
  \/ Pick("messages", [n : {0, 3, 61, 62, 125}, word : {1, 5, 8}, bit : {0, 31}])
  \/ Pick("paddings", UNION {Claims(n) \cup Changes(n) : n \in {0, 1, 3, 60, 61, 62, 63, 64, 65, 125}})
  \/ Pick("points", [A : CurvePoints, B : CurvePoints, c : {1, 7}, k : {6, 31}])
  \/ Pick("signatures", [d : {1, 2, 7, 16}, k : 0 .. 16, e : {1, 19, 31}, claim : {"right", "next", "wrapped", "zero"}, r : {0, 19}])
  \/ Pick("macs", [odd : BOOLEAN, message : {1, 90}, av : {0, 9}, ap : {<<5, 12>>}, tag : 0 .. 255])

\* The circuit of a block takes the witness and nothing else, whichever word
\* of the witness is changed.
BlocksRight ==
  On("blocks") =>
    LET c == case[1] IN
    Sha!TransformRight([input_block |-> Sha!BlockAt(BytesOf(c.seed, 64), 1), h0 |-> INITIAL], c.field, c.i, c.bit)

\* The hash of a message is the one its blocks have one after the other.
MessagesRight ==
  On("messages") =>
    LET c == case[1] IN
    /\ Sha!MessageRight(IF c.n = 3 THEN AbcBytes ELSE BytesOf(c.n, c.n), c.word, c.bit)
    /\ c.n = 3 => Sha!msg_given(AbcBytes, INITIAL)[1].expected_hash = Abc

\* Nothing but the padding of a message passes for one.
PaddingsRight ==
  On("paddings") =>
    LET c == case[1]
        padded == Sha!pad_sha256_message(BytesOf(c.n, c.n))[1].padded_preimage
        bytes == IF c.changed = 0 THEN padded ELSE [padded EXCEPT ![c.changed] = c.byte]
    IN Sha!PaddingRight(bytes, c.nblocks, c.length)
\* Sums, doubles and multiples of points, equal, opposite and zero ones too.
PointsRight == On("points") => LET c == case[1] IN Sig!PointsRight(c.A, c.B, c.c, c.k)

\* The public key d times the generator, the nonce k, and a claim for the
\* opposite of s; a nonce of zero stands for a point off the curve.
Claim(c) ==
  LET R == IF c.k = 0 THEN <<1, 1>> ELSE Multiples[c.k]
      s == ((c.e + R[1] * c.d) * Inverses17[IF c.k = 0 THEN 1 ELSE c.k]) % 17
      m == (17 - s) % 17
  IN [pk |-> Multiples[c.d], R |-> R, r |-> R[1] + c.r,
      m |-> CASE c.claim = "right" -> m [] c.claim = "next" -> (m + 1) % 32 [] c.claim = "wrapped" -> (m + 17) % 32 [] c.claim = "zero" -> 0]

\* The circuit takes a claim exactly when the signature verifies and no two of
\* the points it adds cancel.
SignaturesRight ==
  On("signatures") =>
    LET c == case[1]
        claim == Claim(c)
    IN c.r = 0 \/ claim.r < 32 => Sig!SignaturesRight(claim.pk, claim.R, c.e, claim.r, claim.m)

\* One tag is right for a message and keys.
MacsRight ==
  On("macs") =>
    LET c == case[1]
        tag == <<c.tag % 16, c.tag \div 16>>
    IN IF c.odd THEN MacOdd!MacsRight(MacOdd!mac_given(c.message, c.av, c.ap), tag)
       ELSE MacEven!MacsRight(MacEven!mac_given(c.message, c.av, c.ap), tag)

-----------------------------------------------------------------------------
(***************************************************************************)
(* Cases of credentials: bytes the parser and the circuits read, items and *)
(* whole documents, well formed and not, and claims about them.            *)
(***************************************************************************)
\* Documents nest seven deep; the signed object may take ten blocks.
D == INSTANCE MdocHash WITH MaxDepth <- 8, IndexBits <- 10, MaxShaBlocks <- 10

\* Writing CBOR.
IntBytes(n) == D!append_len(0, n)
Text(s) == D!encode_cbor_string(s)
Bytes(b) == D!append_bytes_len(Len(b)) \o b
ArrayOf(items) == D!append_len(128, Len(items)) \o FlattenSeq(items)
MapOf(entries) == D!append_len(160, Len(entries)) \o FlattenSeq(entries)
Wrapped(b) == D!K_TAG24 \o Bytes(b)
Repeat(x, n) == [i \in 1 .. n |-> x]

-----------------------------------------------------------------------------
(* Items. *)

\* Values of every kind: a truth value, a text, a date, bytes, a map, an array.
Values == <<<<245>>, Text(Repeat(77, 10)), <<217, 3, 236>> \o Text(Repeat(50, 10)), Bytes(Repeat(200, 26)),
            MapOf(<<Text(<<80>>) \o IntBytes(9), Text(<<81>>) \o <<246>>>>), ArrayOf(<<IntBytes(1), <<56, 99>>>>)>>
Salts == <<Bytes(Repeat(9, 16)), Bytes(Repeat(9, 24)), Text(Repeat(9, 5)), IntBytes(70000)>>
Ids == <<IntBytes(3), IntBytes(24), IntBytes(300), <<26, 0, 0, 1, 44>>>>
Numbers == <<3, 24, 300, 300>>
AttrName(n) == Repeat(64 + n, n)
\* A name may be written with a longer header than it needs.
NameText(name, long) == IF long THEN <<120, Len(name)>> \o name ELSE Text(name)

Item(i) ==
  LET fields == <<Text(D!DigestID) \o Ids[i.id], Text(D!Random) \o Salts[i.salt],
                  Text(D!ElementIdentifier) \o NameText(AttrName(i.name), i.long), Text(D!ElementValue) \o Values[i.value]>>
  IN MapOf([k \in 1 .. 4 |-> fields[i.order[k]]])

Orders == {o \in [1 .. 4 -> 1 .. 4] : {o[k] : k \in 1 .. 4} = 1 .. 4}
Items == [order : Orders, id : 1 .. 4, salt : 1 .. 4, name : {3}, value : {2, 5}, long : {FALSE}]
           \cup [order : {<<1, 2, 3, 4>>, <<4, 1, 3, 2>>}, id : {1}, salt : {1}, name : {3, 23, 24}, value : 1 .. 6, long : BOOLEAN]

\* The value digests of a namespace that holds the item.
DigestsOf(numbers, digests) == MapOf([k \in 1 .. Len(numbers) |-> IntBytes(numbers[k]) \o Bytes(digests[k])])
NsName == <<90, 91>>
Parsed(bytes) == D!parse_exact(bytes).val

\* The circuit's inputs for an item, and what may be claimed otherwise: another
\* place of a field, another end of one, another name or value.
ClaimSet == [what : {"none", "other name", "shorter name", "other value", "shorter value", "longer value", "other digest"}, at : {0}]
              \cup [what : {"swapped", "moved", "grown"}, at : 1 .. 3]

Shorter(s) == [s EXCEPT !.len = @ - 1]
Claimed(g, c) ==
  LET k == c.at
      p == g.field_locator.permutation
  IN CASE c.what = "none" -> g
       [] c.what = "other name" -> [g EXCEPT !.name.data[3] = @ + 1]
       [] c.what = "shorter name" -> [g EXCEPT !.name = Shorter(@)]
       [] c.what = "other value" -> [g EXCEPT !.value.data[g.value.len] = (@ + 1) % 256]
       [] c.what = "shorter value" -> [g EXCEPT !.value = Shorter(@)]
       [] c.what = "longer value" -> [g EXCEPT !.value.len = @ + 1]
       [] c.what = "other digest" -> [g EXCEPT !.expected_digest[1] = (@ + 1) % 256]
       [] c.what = "swapped" -> [g EXCEPT !.field_locator.permutation = [p EXCEPT ![k] = p[k + 1], ![k + 1] = p[k]]]
       \* One field ends, and the next starts, a byte later.
       [] c.what = "moved" -> [g EXCEPT !.field_locator.slot_position[k + 1] = @ + 1,
                                        !.field_locator.length[k] = @ + 1, !.field_locator.length[k + 1] = @ - 1]
       \* The last field is given other lengths, the value with it.
       [] c.what = "grown" -> [g EXCEPT !.field_locator.length[4] = @ + k, !.value.len = @ + k,
                                        !.value.data = [j \in 1 .. 64 |-> IF j > g.value.len /\ j <= g.value.len + k
                                                          THEN g.preimage.data[g.preimage.len + j - g.value.len] ELSE @[j]]]

AttributeOf(i) ==
  LET map == Item(i)
      wrapped == Wrapped(map)
      el == Parsed(wrapped)
      digests == Parsed(MapOf(<<Text(NsName) \o DigestsOf(<<Numbers[i.id]>>, <<D!Digest(wrapped)>>)>>))
  IN D!extract_attr(el, wrapped, digests, NsName)
GivenOf(a, padded) ==
  [preimage |-> [data |-> padded, len |-> Len(a.cbor_issuer_signed_item)],
   field_locator |-> [a.field_locator EXCEPT !.permutation = [j \in 1 .. 4 |-> (@ \div 4^(j - 1)) % 4]],
   name |-> D!slot(D!encode_cbor_string(a.name), 32), value |-> D!slot(a.cbor_value, 64),
   expected_digest |-> D!Digest(a.cbor_issuer_signed_item)]

-----------------------------------------------------------------------------
(* Documents. *)

\* Dates, in order; a public key, and two signatures.
Time(t) == [i \in 1 .. 20 |-> IF i = 4 THEN 48 + (t \div 3) ELSE IF i = 20 THEN 48 + (t % 3) ELSE 53]
KeyX == Repeat(111, 32)
KeyY == Repeat(222, 32)
TypeName(n) == [i \in 1 .. n |-> 64 + i]

\* The items of a document, by namespace.
It(id, name, value) == [order |-> <<3, 1, 4, 2>>, id |-> id, salt |-> 1, name |-> name, value |-> value, long |-> FALSE]
Layouts == <<<<<<It(1, 3, 1)>>>>, <<<<It(2, 3, 1), It(3, 5, 2)>>>>, <<<<It(1, 3, 2)>>, <<It(1, 4, 3), It(2, 3, 1)>>>>>>
NsOf(k) == Repeat(90 + k, 2)

\* What is wrong with a document, and how the parser says so; and what is
\* unusual and right.
Damages == [trailing |-> "Cbor", cut |-> "Cbor", documents_twice |-> "DuplicateField", documents_missing |-> "MissingField",
            no_document |-> "MissingField", documents_map |-> "UnexpectedType", auth_tag |-> "UnexpectedType",
            payload_text |-> "UnexpectedType", short_auth |-> "MissingField", mso_tag |-> "InvalidValue",
            mso_text |-> "UnexpectedType", mso_trailing |-> "Cbor", mso_long_header |-> "UnsupportedEncoding",
            mso_255 |-> "UnsupportedEncoding", mso_too_big |-> "TooBig", x_missing |-> "MissingField", y_text |-> "UnexpectedType",
            x_twice |-> "DuplicateField", signature_63 |-> "InvalidLength", device_signature_65 |-> "InvalidLength",
            until_missing |-> "MissingField", doc_type_twice |-> "DuplicateField",
            namespace_twice |-> "DuplicateField", namespace_number |-> "UnexpectedType", digest_missing |-> "MissingField",
            digest_twice |-> "DuplicateField", item_untagged |-> "UnexpectedType", item_trailing |-> "Cbor",
            item_three |-> "InvalidLength", item_unknown |-> "UnknownField", item_twice |-> "DuplicateField",
            item_number_key |-> "UnexpectedType", id_negative |-> "InvalidValue", id_text |-> "UnexpectedType",
            name_bytes |-> "UnexpectedType", value_missing |-> "MissingField"]
Unusual == {"none", "mso_256", "mso_full", "auth_tagged", "two_documents"}

Sometimes(x, name, yes, no) == IF x = name THEN yes ELSE no

\* The map of an item, with something wrong in the first item of a document.
DocItem(i, x) ==
  LET id == Sometimes(x, "id_negative", <<32>>, Sometimes(x, "id_text", Text(<<65>>), Ids[i.id]))
      name == Sometimes(x, "name_bytes", Bytes(AttrName(i.name)), Text(AttrName(i.name)))
      entries == <<Text(D!ElementIdentifier) \o name, Text(D!DigestID) \o id,
                   Text(D!ElementValue) \o Values[i.value], Text(D!Random) \o Salts[i.salt]>>
      changed == CASE x = "item_three" -> <<entries[1], entries[3], entries[4]>>
                   [] x = "item_unknown" -> [entries EXCEPT ![4] = Text(<<70>>) \o Salts[i.salt]]
                   [] x = "item_twice" -> [entries EXCEPT ![4] = entries[2]]
                   [] x = "item_number_key" -> [entries EXCEPT ![4] = IntBytes(5) \o Salts[i.salt]]
                   [] x = "value_missing" -> [entries EXCEPT ![3] = Text(<<70>>) \o Values[i.value]]
                   [] OTHER -> entries
  IN MapOf(changed) \o Sometimes(x, "item_trailing", <<0>>, <<>>)
DocWrapped(i, x) == Sometimes(x, "item_untagged", <<216, 25>>, D!K_TAG24) \o Bytes(DocItem(i, x))
At(x, k, j) == IF k = 1 /\ j = 1 THEN x ELSE "none"
WrappedAt(d, k, j) == DocWrapped(Layouts[d.layout][k][j], At(d.x, k, j))

\* An entry of so many bytes, to bring the signed object to a size.
Filler(n) == Text(<<40>>) \o Bytes(Repeat(7, n - (IF n <= 26 THEN 3 ELSE IF n > 260 THEN 5 ELSE 4)))

MsoMap(d) ==
  LET x == d.x
      layout == Layouts[d.layout]
      date(t) == <<192>> \o Text(Time(t))
      doc_type == Text(D!DocType) \o Text(TypeName(d.type))
      validity == Text(D!ValidityInfo) \o MapOf(<<Text(D!ValidFrom) \o date(2)>>
                    \o Sometimes(x, "until_missing", <<>>, <<Text(D!ValidUntil) \o date(6)>>))
      coordinates == <<IntBytes(1) \o IntBytes(2), <<32>> \o IntBytes(1),
                       Sometimes(x, "x_missing", <<36>>, <<33>>) \o Bytes(KeyX),
                       Sometimes(x, "x_twice", <<33>>, <<34>>) \o Sometimes(x, "y_text", Text(Repeat(65, 32)), Bytes(KeyY))>>
      key == Text(D!DeviceKeyInfo) \o MapOf(<<Text(D!DeviceKey) \o MapOf(coordinates)>>)
      \* A digest that is missing is listed under another number.
      entry(k, j) == (IF At(x, k, j) = "digest_missing" THEN IntBytes(77) ELSE Ids[layout[k][j].id]) \o Bytes(D!Digest(WrappedAt(d, k, j)))
      entries(k) == [j \in 1 .. Len(layout[k]) |-> entry(k, j)] \o (IF x = "digest_twice" THEN <<entry(k, 1)>> ELSE <<>>)
      digests == Text(D!ValueDigests) \o MapOf([k \in 1 .. Len(layout) |-> Text(NsOf(k)) \o MapOf(entries(k))])
      all == <<doc_type, validity, key, digests>>
      ordered == [k \in 1 .. 4 |-> all[d.order[k]]] \o Sometimes(x, "doc_type_twice", <<doc_type>>, <<>>)
      size == CASE x = "mso_255" -> 255 [] x = "mso_256" -> 256 [] x = "mso_full" -> 606 [] x = "mso_too_big" -> 607 [] OTHER -> 300
      missing == size - Len(MapOf(ordered))
  IN Strictly(ordered, LAMBDA o : MapOf(IF missing < 3 THEN o ELSE Append(o, Filler(missing))))

Mso(d) ==
  LET x == d.x
      map == MsoMap(d)
      head == Sometimes(x, "mso_tag", <<216, 25>>, D!K_TAG24)
  IN Strictly(map, LAMBDA m :
       head \o CASE x = "mso_text" -> Text(Repeat(65, 300)) [] x = "mso_long_header" -> <<90, 0, 0, Len(m) \div 256, Len(m) % 256>> \o m
                 [] OTHER -> Bytes(m)
         \o Sometimes(x, "mso_trailing", <<0>>, <<>>))

Signature(x, name, n) == Bytes(Repeat(150, Sometimes(x, name, n, 64)))
Document(d) ==
  LET x == d.x
      layout == Layouts[d.layout]
      ns(k) == Sometimes(At(x, k, 1), "namespace_number", IntBytes(4), Text(NsOf(k)))
                 \o ArrayOf([j \in 1 .. Len(layout[k]) |-> WrappedAt(d, k, j)])
      spaces == [k \in 1 .. Len(layout) |-> ns(k)] \o Sometimes(x, "namespace_twice", <<ns(1)>>, <<>>)
      payload == Sometimes(x, "payload_text", Text(Repeat(65, 300)), Bytes(Mso(d)))
      auth == CASE x = "auth_tagged" -> <<210>> [] x = "auth_tag" -> <<209>> [] OTHER -> <<>>
      parts == <<Bytes(<<161, 1, 38>>), MapOf(<<>>), payload, Signature(x, "signature_63", 63)>>
      issuer == Text(D!IssuerSigned) \o MapOf(<<Text(D!NameSpaces) \o MapOf(spaces),
                  Text(D!IssuerAuth) \o auth \o ArrayOf(IF x = "short_auth" THEN SubSeq(parts, 1, 3) ELSE parts)>>)
      device == Text(D!DeviceSigned) \o MapOf(<<Text(D!DeviceAuth) \o MapOf(<<Text(D!DeviceSignature)
                  \o ArrayOf(<<Bytes(<<161, 1, 38>>), MapOf(<<>>), <<246>>, Signature(x, "device_signature_65", 65)>>)>>)>>)
  IN MapOf(<<issuer, device>>)
Mdoc(d) ==
  LET x == d.x
      array == CASE x = "no_document" -> ArrayOf(<<>>) [] x = "documents_map" -> MapOf(<<>>)
                 [] x = "two_documents" -> ArrayOf(<<Document(d), IntBytes(0)>>) [] OTHER -> ArrayOf(<<Document(d)>>)
      docs == Text(D!Documents) \o array
      all == MapOf(CASE x = "documents_twice" -> <<docs, docs>> [] x = "documents_missing" -> <<>> [] OTHER -> <<docs>>)
               \o Sometimes(x, "trailing", <<0>>, <<>>)
  IN Sometimes(x, "cut", SubSeq(all, 1, Len(all) - 1), all)

-----------------------------------------------------------------------------
(* Presentations: the inputs of the circuit, and one of them changed.        *)

AttrNames(d) == FlattenSeq([k \in 1 .. Len(Layouts[d.layout]) |-> [j \in 1 .. Len(Layouts[d.layout][k]) |-> AttrName(Layouts[d.layout][k][j].name)]])
MacKeys == [av |-> 5, ap |-> <<1, 2, 3>>]
Transcript == ArrayOf(<<<<246>>, IntBytes(8)>>)

InputChanges == {"none", "expired name", "doc type", "longer type", "shorter type", "doc_type", "valid_from", "valid_until", "device_key",
            "value_digests", "outside", "digest", "key", "mac", "value", "blocks"}
Changed(g, change) ==
  CASE change = "none" -> g
    [] change = "expired name" -> [g EXCEPT !.disclosed[1].name.data[2] = @ + 1]
    [] change = "doc type" -> [g EXCEPT !.expected_doc_type.data[1] = @ + 1]
    [] change = "longer type" -> [g EXCEPT !.expected_doc_type.len = @ + 1]
    [] change = "shorter type" -> [g EXCEPT !.expected_doc_type.len = @ - 1]
    [] change \in DOMAIN g.offsets -> [g EXCEPT !.offsets[change] = @ + 1]
    [] change = "outside" -> [g EXCEPT !.offsets.value_digests = g.preimage.len]
    [] change = "digest" -> [g EXCEPT !.attributes[1].mso_digest_offset_in_preimage = @ + 1]
    [] change = "key" -> [g EXCEPT !.device_pk = <<@[2], @[1]>>]
    [] change = "mac" -> [g EXCEPT !.mac_ap[2] = @ + 1]
    [] change = "value" -> [g EXCEPT !.disclosed[1].value.data[1] = (@ + 1) % 256]
    [] change = "blocks" -> [g EXCEPT !.nblocks = @ + 1]

Sound == [order : {<<1, 2, 3, 4>>, <<4, 3, 2, 1>>, <<2, 4, 1, 3>>}, layout : 1 .. 3, type : {9, 23, 24}, x : {"none"}]
Plain == [order |-> <<1, 2, 3, 4>>, layout |-> 1, type |-> 9, x |-> "none"]
Transcripts == {1, 5, 23, 24, 200, 201, 202, 203, 204, 205, 206, 230, 255, 256}

NextCredential ==
  \/ Pick("headers", [major : {64, 96}, len : {0, 1, 22, 23, 24, 25, 100, 254, 255, 256, 257, 65535, 65536, 70000}])
  \/ Pick("first bytes", {c \in [v : 0 .. 255, next : {0, 1, 24, 127, 200}] : c.next = 0 \/ c.v % 32 \notin {25, 26, 27}})
  \/ Pick("nestings", [depth : 0 .. 11, with : {<<129>>, <<161, 0>>, <<194>>}])
  \/ Pick("items", [item : Items, claim : {c \in ClaimSet : c.what = "none"}]
                     \cup [item : {i \in Items : i.salt = 1 /\ i.id = 1 /\ ~i.long}, claim : ClaimSet])
  \/ Pick("documents", Sound \cup {[d EXCEPT !.x = x] : x \in DOMAIN Damages \cup Unusual, d \in {Plain, [Plain EXCEPT !.order = <<4, 2, 1, 3>>]}})
  \/ Pick("presentations", [doc : Sound, now : {4}, change : InputChanges]
                     \cup [doc : {[Plain EXCEPT !.x = x] : x \in Unusual}, now : 0 .. 8, change : {"none"}])
  \/ Pick("device messages", [n : Transcripts, type : {1, 23, 24}])

\* A header that is written is read as the length it was written for, and no
\* shorter one is; a text comes back.
HeadersRight ==
  On("headers") =>
    LET c == case[1]
        bytes == D!append_len(c.major, c.len)
        h == D!header(bytes, 0)
        text == Repeat(65, c.len)
    IN /\ h.ok /\ h.val.num = c.len /\ 32 * h.val.major = c.major /\ h.val.offset = Len(bytes)
       /\ Len(bytes) = (IF c.len < 24 THEN 1 ELSE IF c.len < 256 THEN 2 ELSE IF c.len < 65536 THEN 3 ELSE 5)
       /\ c.len < 1000 => LET t == D!parse_exact(Text(text)) IN t.ok /\ t.val.kind = "text" /\ t.val.bytes = text

\* The decoder's circuit agrees with its program on every byte; and the
\* length the attribute circuit takes for a field is the one at which the
\* parser's value ends, or its header for what is no string.
DecodersAgree ==
  On("first bytes") =>
    LET c == case[1]
        buf == <<c.v, c.next>> \o Repeat(0, 300)
        d == D!decode_circuit(c.v)
        h == D!header(buf, 0)
        took == {n \in 0 .. 300 : D!assert_cbor_length(buf, n, 0, FALSE)}
        el == D!parse_val(buf)
    IN /\ d = D!decode_one_v8(c.v)
       /\ d.invalid => took = {}
       /\ ~d.invalid /\ ~d.stringp => h.ok /\ took = {h.val.offset}
       /\ ~d.invalid /\ d.stringp /\ el.ok => took = {el.val.end}
       /\ {n \in took : D!assert_cbor_length(buf, n, 0, TRUE)} = (IF d.count27 THEN {} ELSE took)

\* What nests as deep as the limit is read, what is deeper is refused.
NestingBounded ==
  On("nestings") =>
    LET c == case[1]
        bytes == FlattenSeq(Repeat(c.with, c.depth)) \o <<0>>
    IN D!parse_exact(bytes).ok = (c.depth <= 8)

\* An item is located right whatever the order of its fields, and the circuit
\* takes the name and the value it has, and no other claim about it.  It does
\* not know a name that is written with a longer header than needed.
ItemsRight ==
  On("items") =>
    LET c == case[1]
        i == c.item
    IN Strictly(AttributeOf(i), LAMBDA a :
         /\ a.ok /\ a.val.name = AttrName(i.name) /\ a.val.cbor_value = Values[i.value]
         /\ LET item == a.val.cbor_issuer_signed_item
                padded == D!sha_padding(item, 2)
            IN /\ padded.ok = (Len(item) <= 119)
               /\ padded.ok => D!assert_attribute(Claimed(GivenOf(a.val, padded.val.bytes), c.claim))
                                 = (c.claim.what = "none" /\ ~(i.long /\ i.name < 24)))

\* A document is parsed into its attributes, each with the place of its digest
\* among the signed bytes; and one with something wrong is refused for it.
DocumentsRight ==
  On("documents") =>
    LET d == case[1]
    IN Strictly(D!parse_mdoc(Mdoc(d), Transcript, TypeName(d.type)), LAMBDA r :
         IF d.x \notin Unusual THEN ~r.ok /\ r.err = Damages[d.x]
         ELSE /\ r.ok
              /\ r.val.device_pk = <<KeyX, KeyY>>
              /\ [k \in 1 .. Len(r.val.attrs) |-> r.val.attrs[k].name] = AttrNames(d)
              /\ \A k \in 1 .. Len(r.val.attrs) :
                   LET a == r.val.attrs[k] IN
                   D!bytes_at(r.val.cbor_mso, a.mso_digest_offset_in_preimage + 25, Bytes(D!Digest(a.cbor_issuer_signed_item))))

\* The inputs made for a document satisfy the circuit while it is valid; with
\* any of them changed they do not.  A type that is only the beginning of the
\* document's passes, for the circuit does not look at its length.
PresentationsRight ==
  On("presentations") =>
    LET c == case[1]
        g == D!presentation(Mdoc(c.doc), Transcript, TypeName(c.doc.type), AttrNames(c.doc), Time(c.now), MacKeys)
    IN Strictly(g, LAMBDA r :
         r.ok /\ D!assert_valid_presentation_and_macs(Changed(r.val, c.change))
                   = (c.now \in 2 .. 6 /\ c.change \in {"none", "shorter type"}))

\* What the device signs is well formed at every length: a structure in a
\* byte string in a byte string, with the transcript and the type in it.
SignedMessagesRight ==
  On("device messages") =>
    LET c == case[1]
        transcript == IF c.n = 1 THEN <<246>> ELSE Bytes(Repeat(8, c.n))
        outer == D!parse_exact(D!device_authentication(transcript, TypeName(c.type)))
    IN /\ outer.ok /\ outer.val.kind = "array" /\ Len(outer.val.items) = 4
       /\ LET payload == outer.val.items[4].bytes
              inner == D!parse_exact(payload)
          IN /\ inner.ok /\ inner.val.kind = "tag" /\ inner.val.num = 24
             /\ LET structure == inner.val.items[1].bytes
                    s == D!parse_exact(structure)
                IN /\ s.ok /\ Len(s.val.items) = 4
                   /\ SubSeq(structure, s.val.items[2].start + 1, s.val.items[2].end) = transcript
                   /\ s.val.items[3].bytes = TypeName(c.type)
=============================================================================
