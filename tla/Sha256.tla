------------------------------- MODULE Sha256 -------------------------------
(***************************************************************************)
(* SHA-256 as the witness is computed (circuits/sha256/concrete.rs,        *)
(* sha256msg/concrete.rs) and as the circuit checks it (circuit.rs of      *)
(* both).  A word is the set of its one bits.  Comparisons and sums of     *)
(* bit vectors are those checked in ArithmeticCircuit and AnalogCircuit,   *)
(* here as what they mean.                                                 *)
(***************************************************************************)
EXTENDS Integers, Sequences, FiniteSets, Loops

CONSTANTS K,          \* the constants of the rounds
          INITIAL,    \* the initial state
          LenBytes,   \* bytes of the length field (8 in the code)
          MaxBlocks   \* MAX_BLOCKS

WordBits == 32
Rounds == 64
BlockBytes == 64
xor(x, y) == (x \ y) \cup (y \ x)
not(x) == (0 .. WordBits - 1) \ x
rotate_right(x, n) == {(i - n) % WordBits : i \in x}
shift_right(x, n) == {i - n : i \in {j \in x : j >= n}}
RECURSIVE wrapping_add(_, _)
wrapping_add(x, y) ==
  IF y = {} THEN x ELSE wrapping_add(xor(x, y), {i + 1 : i \in (x \cap y) \ {WordBits - 1}})
Sum(words) == ForEach({}, words, wrapping_add)

(***************************************************************************)
(* The witness of one block.                                               *)
(***************************************************************************)
ch(x, y, z) == xor(x \cap y, not(x) \cap z)
maj(x, y, z) == xor(xor(x \cap y, x \cap z), y \cap z)
sigma0_upper(x) == xor(xor(rotate_right(x, 2), rotate_right(x, 13)), rotate_right(x, 22))
sigma1_upper(x) == xor(xor(rotate_right(x, 6), rotate_right(x, 11)), rotate_right(x, 25))
sigma0_lower(x) == xor(xor(rotate_right(x, 7), rotate_right(x, 18)), shift_right(x, 3))
sigma1_lower(x) == xor(xor(rotate_right(x, 17), rotate_right(x, 19)), shift_right(x, 10))
\* Every word of the witness goes through `put' on its way, with its place.
Schedule(block, put(_, _, _)) ==
  For(block, 17, Rounds, LAMBDA w, i :
    Append(w, put("outw", i - 16, Sum(<<w[i - 16], sigma0_lower(w[i - 15]), w[i - 7], sigma1_lower(w[i - 2])>>))))
\* s is a, ..., h; every round keeps what it made of e and a.
RoundOf(w, acc, i, put(_, _, _)) ==
  LET s == acc.s
      temp1 == Sum(<<s[8], sigma1_upper(s[5]), ch(s[5], s[6], s[7]), K[i], w[i]>>)
      temp2 == wrapping_add(sigma0_upper(s[1]), maj(s[1], s[2], s[3]))
      e == put("oute", i, wrapping_add(s[4], temp1))
      a == put("outa", i, wrapping_add(temp1, temp2))
  IN [s |-> <<a, s[1], s[2], s[3], e, s[5], s[6], s[7]>>, oute |-> Append(acc.oute, e), outa |-> Append(acc.outa, a)]
Witness(given, put(_, _, _)) ==
  Strictly(Schedule(given.input_block, put), LAMBDA w :
    Strictly(For([s |-> given.h0, oute |-> <<>>, outa |-> <<>>], 1, Rounds, LAMBDA acc, i : RoundOf(w, acc, i, put)), LAMBDA r :
      [outw |-> SubSeq(w, 17, Rounds), oute |-> r.oute, outa |-> r.outa,
       h1 |-> Build(8, LAMBDA i : put("h1", i, wrapping_add(given.h0[i], r.s[i])))]))
derived(given) == Witness(given, LAMBDA field, i, word : word)

(***************************************************************************)
(* The circuit of one block.                                               *)
(***************************************************************************)
xor3(x, y, z) == xor(x, xor(y, z))
muxb(x, y, z) == (x \cap y) \cup (not(x) \cap z)
majb(x, y, z) == (x \cap y) \cup (xor(x, y) \cap z)
bigsigma0(x) == xor3(rotate_right(x, 2), rotate_right(x, 13), rotate_right(x, 22))
bigsigma1(x) == xor3(rotate_right(x, 6), rotate_right(x, 11), rotate_right(x, 25))
sigma0(x) == xor3(rotate_right(x, 7), rotate_right(x, 18), shift_right(x, 3))
sigma1(x) == xor3(rotate_right(x, 17), rotate_right(x, 19), shift_right(x, 10))
assert_wrapping_sum(expected, terms) == expected = Sum(terms)
\* The state before round t, of what the rounds before it are claimed to give.
StateAt(given, d, t) ==
  LET at(out, j, h) == IF t - j >= 1 THEN out[t - j] ELSE h[j - t + 1]
      abcd == SubSeq(given.h0, 1, 4)
      efgh == SubSeq(given.h0, 5, 8)
  IN [i \in 1 .. 8 |-> IF i <= 4 THEN at(d.outa, i, abcd) ELSE at(d.oute, i - 4, efgh)]
RoundAsserted(given, d, w, t) ==
  LET s == StateAt(given, d, t)
      t1 == <<s[8], bigsigma1(s[5]), K[t], muxb(s[5], s[6], s[7]), w[t]>>
      t2 == <<bigsigma0(s[1]), majb(s[1], s[2], s[3])>>
  IN assert_wrapping_sum(d.oute[t], <<s[4]>> \o t1) /\ assert_wrapping_sum(d.outa[t], t2 \o t1)
FinalAsserted(given, d) ==
  LET s == StateAt(given, d, Rounds + 1) IN \A i \in 1 .. 8 : assert_wrapping_sum(d.h1[i], <<given.h0[i], s[i]>>)
\* A defect: the schedule is not bound to the block.
assert_transform_block_Loose(given, d) ==
  LET w == given.input_block \o d.outw
  IN FinalAsserted(given, d) /\ \A t \in 1 .. Rounds : RoundAsserted(given, d, w, t)
assert_transform_block(given, d) ==
  LET w == given.input_block \o d.outw
  IN /\ \A i \in 17 .. Rounds : assert_wrapping_sum(w[i], <<sigma1(w[i - 2]), w[i - 7], sigma0(w[i - 15]), w[i - 16]>>)
     /\ FinalAsserted(given, d)
     /\ \A t \in 1 .. Rounds : RoundAsserted(given, d, w, t)

\* The circuit takes what the witness computes, and not what follows in the
\* same way from one wrong word.
TransformRight(given, field, i, bit) ==
  /\ assert_transform_block(given, derived(given))
  /\ ~assert_transform_block(given, Witness(given, LAMBDA f, k, word : IF f = field /\ k = i THEN xor(word, {bit}) ELSE word))

(***************************************************************************)
(* The witness of a message.                                               *)
(***************************************************************************)
\* A result is the sequence of the value, or empty.
Err == <<>>
Zeros(n) == [i \in 1 .. n |-> 0]
to_be_bytes(x) == [i \in 1 .. LenBytes |-> (x \div 256^(LenBytes - i)) % 256]
pad_sha256_message(preimage) ==
  LET n == Len(preimage)
      nblocks == (n + 1 + LenBytes + BlockBytes - 1) \div BlockBytes
      unpadded == preimage \o <<128>>
      padded == unpadded \o Zeros(nblocks * BlockBytes - LenBytes - Len(unpadded)) \o to_be_bytes(8 * n)
  IN IF nblocks > MaxBlocks THEN Err
     ELSE <<[nblocks |-> nblocks, length_bytes |-> n, padded_preimage |-> padded \o Zeros((MaxBlocks - nblocks) * BlockBytes)]>>
\* Word i of a block, from four bytes, the most significant first.
WordAt(bytes, at) ==
  UNION {{8 * (4 - k) + i : i \in {j \in 0 .. 7 : Bit(bytes[at + k], j) = 1}} : k \in 1 .. 4}
BlockAt(bytes, b) == Build(16, LAMBDA i : WordAt(bytes, BlockBytes * (b - 1) + 4 * (i - 1)))
\* A defect: every block starts from the initial state.
sha256_msg_derived_Fresh(padded, initial_state) ==
  Build(MaxBlocks, LAMBDA b : derived([input_block |-> BlockAt(padded, b), h0 |-> initial_state]))
sha256_msg_derived(padded, initial_state) ==
  For(<<>>, 1, MaxBlocks, LAMBDA done, b :
    Append(done, derived([input_block |-> BlockAt(padded, b), h0 |-> IF b = 1 THEN initial_state ELSE done[b - 1].h1])))
\* The state given as the expected hash is where the hashing starts.
msg_given(preimage, expected_hash) ==
  LET p == pad_sha256_message(preimage)
  IN IF p = Err THEN Err
     ELSE <<[padded_preimage |-> p[1].padded_preimage, nblocks |-> p[1].nblocks, length_bytes |-> p[1].length_bytes,
             expected_hash |-> sha256_msg_derived(p[1].padded_preimage, expected_hash)[p[1].nblocks].h1]>>
msg_derived(given) == sha256_msg_derived(given.padded_preimage, INITIAL)
\* The hash on the wires: the last word first.
push_expected_hash(hash) == UNION {{32 * (8 - j) + k : k \in hash[j]} : j \in 1 .. 8}

(***************************************************************************)
(* The circuit of a message.  Numbers of the length's width may overflow.  *)
(***************************************************************************)
Width == 2^(8 * LenBytes)
one_hot(nblocks, data(_), none) == IF nblocks \in 1 .. MaxBlocks THEN data(nblocks) ELSE none
assert_intermediate_hashes(bytes, d) ==
  \A b \in 1 .. MaxBlocks :
    assert_transform_block([input_block |-> BlockAt(bytes, b), h0 |-> IF b = 1 THEN INITIAL ELSE d[b - 1].h1], d[b])
assert_final_hash(expected, nblocks, d) ==
  expected = UNION {{32 * (7 - j) + k : k \in one_hot(nblocks, LAMBDA b : d[b].h1[j + 1], {})} : j \in 0 .. 7}
assert_nblocks(nblocks, length) ==
  /\ nblocks # 0 /\ nblocks <= MaxBlocks
  /\ nblocks * BlockBytes < Width
  /\ length + LenBytes + 1 < Width /\ length + LenBytes + 1 <= nblocks * BlockBytes
  /\ length + LenBytes + BlockBytes < Width /\ nblocks * BlockBytes <= length + LenBytes + BlockBytes
assert_length(nblocks, length, bytes) ==
  LET encoded(b) == SumOver(0, LenBytes - 1, LAMBDA j : bytes[b * BlockBytes - j] * 256^j)
  IN one_hot(nblocks, encoded, 0) = (length * 8) % Width /\ length < Width \div 8
\* A defect: what follows the last block is free.
assert_sha_padding_Tail(nblocks, length, bytes) ==
  \A i \in 0 .. MaxBlocks * BlockBytes - 1 :
    /\ length = i => bytes[i + 1] = 128
    /\ length < i /\ nblocks * BlockBytes > i + LenBytes => bytes[i + 1] = 0
assert_sha_padding(nblocks, length, bytes) ==
  /\ nblocks * BlockBytes < Width
  /\ \A i \in 0 .. MaxBlocks * BlockBytes - 1 :
       /\ length = i => bytes[i + 1] = 128
       /\ length < i /\ nblocks * BlockBytes > i + LenBytes => bytes[i + 1] = 0
       /\ nblocks * BlockBytes <= i => bytes[i + 1] = 0
PaddingAsserted(nblocks, length, bytes) ==
  assert_nblocks(nblocks, length) /\ assert_length(nblocks, length, bytes) /\ assert_sha_padding(nblocks, length, bytes)
assert_message_hash(given, d) ==
  /\ assert_nblocks(given.nblocks, given.length_bytes)
  /\ assert_length(given.nblocks, given.length_bytes, given.padded_preimage)
  /\ assert_intermediate_hashes(given.padded_preimage, d)
  /\ assert_final_hash(push_expected_hash(given.expected_hash), given.nblocks, d)
  /\ assert_sha_padding(given.nblocks, given.length_bytes, given.padded_preimage)

\* Bytes, a number of blocks and a length pass exactly when they are the
\* padding of the first `length' of the bytes.
PaddingRight(bytes, nblocks, length) ==
  LET p == IF length <= Len(bytes) THEN pad_sha256_message(SubSeq(bytes, 1, length)) ELSE Err
  IN PaddingAsserted(nblocks, length, bytes) =
       (p # Err /\ p[1].padded_preimage = bytes /\ p[1].nblocks = nblocks)

\* The hash of a message is the state after its last block, whatever follows
\* it; the circuit takes that hash and no other.
MessageRight(preimage, word, bit) ==
  Strictly(msg_given(preimage, INITIAL)[1], LAMBDA g :
    Strictly(msg_derived(g), LAMBDA d :
      LET state(h, b) == derived([input_block |-> BlockAt(g.padded_preimage, b), h0 |-> h]).h1
      IN /\ g.expected_hash = For(INITIAL, 1, g.nblocks, state)
         /\ assert_message_hash(g, d)
         /\ ~assert_message_hash([g EXCEPT !.expected_hash[word] = xor(@, {bit})], d)))
=============================================================================
