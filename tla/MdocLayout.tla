----------------------------- MODULE MdocLayout -----------------------------
(***************************************************************************)
(* The inputs of the two circuits of generation 2, as the compiler         *)
(* allocates wires for them (applications/mdoc_zk/compile) and as prover   *)
(* and verifier push elements into them (mdoc_zk/runtime/src/v2/inputs).   *)
(* Nothing but the order of the calls ties the two together.  An input is  *)
(* <<what it means, number of wires>>.                                     *)
(***************************************************************************)
EXTENDS Integers, Sequences, SequencesExt

K_SHA_BIT_PLUCKER == 4
K_HASH_V8_BIT_PLUCKER == 2
K_HASH_V256_BIT_PLUCKER == 2
K_SIG_MAC_BIT_PLUCKER == 2
K_ATTR_INDEX_BITS == 10
K_ATTR_LEN_BITS == 10

\* Row k of a table of inputs, for the k-th requested attribute.
Of(k, name) == <<name, k>>

Repeat(n, part(_)) == FoldLeft(LAMBDA acc, k : acc \o part(k), <<>>, [k \in 1 .. n |-> k])

\* An array of n inputs of one kind is one input as wide as all of them.
Array(n, part) == [i \in DOMAIN part |-> <<part[i][1], n * part[i][2]>>]

Width(layout) == FoldLeft(LAMBDA acc, input : acc + input[2], 0, layout)

-----------------------------------------------------------------------------
(***************************************************************************)
(* Allocation.  K_FIRST_WIRE_POSITION leaves wire 0 to the constant one.   *)
(***************************************************************************)
allocate_wire(name) == << <<name, 1>> >>
allocate_bitvec(name, n) == << <<name, n>> >>
allocate_plucked_v8(name, plucker) == << <<name, 8 \div plucker>> >>
allocate_plucked_v8_array(name, n, plucker) == Array(n, allocate_plucked_v8(name, plucker))
allocate_plucked_v32(name, plucker) == << <<name, 32 \div plucker>> >>
allocate_plucked_v128(name, plucker) == << <<name, 128 \div plucker>> >>
allocate_plucked_v256(name, plucker) == << <<name, 256 \div plucker>> >>
allocate_tag_plucked(name, plucker) ==
  allocate_plucked_v128(Of(0, name), plucker) \o allocate_plucked_v128(Of(1, name), plucker)

allocate_disclosed_attribute(k) ==
  allocate_plucked_v8_array(Of(k, "name"), 32, K_HASH_V8_BIT_PLUCKER)
  \o allocate_bitvec(Of(k, "name_len"), K_ATTR_INDEX_BITS)
  \o allocate_plucked_v8_array(Of(k, "value"), 64, K_HASH_V8_BIT_PLUCKER)
  \o allocate_bitvec(Of(k, "value_len"), K_ATTR_INDEX_BITS)

\* outw, oute, outa and h1 of one block.
sha256_block_wires(b) ==
  Array(48, allocate_plucked_v32(<<b, "outw">>, K_SHA_BIT_PLUCKER))
  \o Array(64, allocate_plucked_v32(<<b, "oute">>, K_SHA_BIT_PLUCKER))
  \o Array(64, allocate_plucked_v32(<<b, "outa">>, K_SHA_BIT_PLUCKER))
  \o Array(8, allocate_plucked_v32(<<b, "h1">>, K_SHA_BIT_PLUCKER))

allocate_sha_derived(name, max_blocks) == Repeat(max_blocks, LAMBDA b : sha256_block_wires(<<name, b>>))

allocate_attr_wires(k) ==
  allocate_plucked_v8_array(Of(k, "preimage"), 128, K_HASH_V8_BIT_PLUCKER)
  \o allocate_bitvec(Of(k, "preimage_len"), K_ATTR_INDEX_BITS)
  \o allocate_bitvec(Of(k, "mso_digest_offset"), 16)
  \o Repeat(4, LAMBDA i : allocate_bitvec(<<k, "slot_position", i>>, K_ATTR_INDEX_BITS))
  \o Repeat(4, LAMBDA i : allocate_bitvec(<<k, "length", i>>, K_ATTR_INDEX_BITS))
  \o Repeat(4, LAMBDA i : allocate_bitvec(<<k, "permutation", i>>, 2))
  \o allocate_sha_derived(Of(k, "sha"), 2)

Pair(name) == allocate_wire(Of(0, name)) \o allocate_wire(Of(1, name))

\* allocate_hash, up to pub_inputs_count, up to the subfield boundary, the rest.
AllocatedHashPublic(n) ==
  allocate_wire("one")
  \o allocate_plucked_v8_array("now", 20, K_HASH_V8_BIT_PLUCKER)
  \o Repeat(n, allocate_disclosed_attribute)
  \o Pair("mac_e") \o Pair("mac_pkx") \o Pair("mac_pky") \o allocate_wire("mac_av")
  \o allocate_wire("suppress_doc_type_check")
  \o allocate_plucked_v8_array("doc_type", 32, K_HASH_V8_BIT_PLUCKER)
  \o allocate_bitvec("doc_type_len", K_ATTR_INDEX_BITS)

AllocatedHashSubfield(n) ==
  allocate_plucked_v256("issuer_sig_e", K_HASH_V256_BIT_PLUCKER)
  \o allocate_plucked_v8_array("mso", 2560, K_HASH_V8_BIT_PLUCKER)
  \o allocate_bitvec("mso_len", 16)
  \o allocate_plucked_v8("nblocks", K_HASH_V8_BIT_PLUCKER)
  \o allocate_plucked_v256("device_pk_x", K_HASH_V256_BIT_PLUCKER)
  \o allocate_plucked_v256("device_pk_y", K_HASH_V256_BIT_PLUCKER)
  \o allocate_bitvec("doc_type_offset", 16)
  \o allocate_bitvec("valid_from_offset", 16)
  \o allocate_bitvec("valid_until_offset", 16)
  \o allocate_bitvec("dev_key_info_offset", 16)
  \o allocate_bitvec("value_digests_offset", 16)
  \o Repeat(n, allocate_attr_wires)
  \o allocate_sha_derived("mso", 40)

AllocatedHashRest == Pair("ap1") \o Pair("ap2") \o Pair("ap3")

\* ecdsa2: allocate_given_wires, allocate_derived_wires.
allocate_given_wires(s) ==
  allocate_wire(<<s, "pkx">>) \o allocate_wire(<<s, "pky">>) \o allocate_wire(<<s, "e">>)
  \o allocate_wire(<<s, "rx">>) \o allocate_wire(<<s, "ry">>)
  \o Array(256, allocate_wire(<<s, "ers">>))

allocate_derived_wires(s) ==
  allocate_wire(<<s, "pkxinv">>) \o allocate_wire(<<s, "rxinv">>)
  \o allocate_wire(<<s, "nmsinv">>) \o allocate_wire(<<s, "yinv">>)
  \o Pair(<<s, "g_pk">>) \o Pair(<<s, "g_r">>) \o Pair(<<s, "pk_r">>) \o Pair(<<s, "g_pk_r">>)
  \o Array(256, Array(3, allocate_wire(<<s, "round">>)))

\* allocate_sig
AllocatedSigPublic ==
  allocate_wire("one") \o allocate_wire("issuer_pk_x") \o allocate_wire("issuer_pk_y")
  \o allocate_bitvec("device_sig_e", 256)
  \o allocate_tag_plucked("mac_e", K_SIG_MAC_BIT_PLUCKER)
  \o allocate_tag_plucked("mac_pkx", K_SIG_MAC_BIT_PLUCKER)
  \o allocate_tag_plucked("mac_pky", K_SIG_MAC_BIT_PLUCKER)
  \o allocate_plucked_v128("mac_av", K_SIG_MAC_BIT_PLUCKER)

AllocatedSigPrivate ==
  allocate_bitvec("issuer_sig_e", 256)
  \o allocate_bitvec("device_pk_x", 256) \o allocate_bitvec("device_pk_y", 256)
  \o allocate_given_wires("issuer") \o allocate_given_wires("device")
  \o allocate_derived_wires("issuer") \o allocate_derived_wires("device")
  \o allocate_tag_plucked("ap1", K_SIG_MAC_BIT_PLUCKER)
  \o allocate_tag_plucked("ap2", K_SIG_MAC_BIT_PLUCKER)
  \o allocate_tag_plucked("ap3", K_SIG_MAC_BIT_PLUCKER)

-----------------------------------------------------------------------------
(***************************************************************************)
(* Assignment.                                                             *)
(***************************************************************************)
push_elt(name) == << <<name, 1>> >>
push_bits_len(name, nbits) == << <<name, nbits>> >>

\* push_value_plucked, pack_bits_to_elements
push_value_plucked(name, plucker, bits) == << <<name, (bits + plucker - 1) \div plucker>> >>

push_v8s(name, n) == Array(n, push_value_plucked(name, K_HASH_V8_BIT_PLUCKER, 8))
push_v32(name) == push_value_plucked(name, K_SHA_BIT_PLUCKER, 32)
push_nat256(name) == push_value_plucked(name, K_HASH_V256_BIT_PLUCKER, 256)
push_nat_256_bits(name) == Array(32, push_bits_len(name, 8))
push_plucked_128(name) == push_value_plucked(name, K_SIG_MAC_BIT_PLUCKER, 128)

push_input_attr(k) ==
  push_v8s(Of(k, "name"), 32) \o push_bits_len(Of(k, "name_len"), K_ATTR_LEN_BITS)
  \o push_v8s(Of(k, "value"), 64) \o push_bits_len(Of(k, "value_len"), K_ATTR_LEN_BITS)

\* Mutant of push_macs_order: all first halves before the second ones.
push_macs_order_ByHalf ==
  <<Of(0, "mac_e"), Of(0, "mac_pkx"), Of(0, "mac_pky"), Of(1, "mac_e"), Of(1, "mac_pkx"), Of(1, "mac_pky")>>

\* The six tags in the order of push_macs, however they are pushed.
push_macs_order ==
  <<Of(0, "mac_e"), Of(1, "mac_e"), Of(0, "mac_pkx"), Of(1, "mac_pkx"), Of(0, "mac_pky"), Of(1, "mac_pky")>>

push_input_hash(n) ==
  push_elt("one") \o push_v8s("now", 20)
  \o Repeat(n, push_input_attr)
  \o FlattenSeq([i \in DOMAIN push_macs_order |-> push_elt(push_macs_order[i])]) \o push_elt("mac_av")
  \o push_elt("suppress_doc_type_check")
  \o push_v8s("doc_type", 32) \o push_bits_len("doc_type_len", K_ATTR_LEN_BITS)

\* modern_elements, push_sha256_derived, push_sha256msg_derived
push_sha256_derived(b) ==
  FoldLeft(LAMBDA acc, part : acc \o Array(part[2], push_v32(<<b, part[1]>>)),
           <<>>, << <<"outw", 48>>, <<"oute", 64>>, <<"outa", 64>>, <<"h1", 8>> >>)
push_sha256msg_derived(name, blocks) == Repeat(blocks, LAMBDA b : push_sha256_derived(<<name, b>>))

push_witness_attr(k) ==
  push_v8s(Of(k, "preimage"), 128) \o push_bits_len(Of(k, "preimage_len"), K_ATTR_LEN_BITS)
  \o push_bits_len(Of(k, "mso_digest_offset"), 16)
  \o Repeat(4, LAMBDA i : push_bits_len(<<k, "slot_position", i>>, K_ATTR_LEN_BITS))
  \o Repeat(4, LAMBDA i : push_bits_len(<<k, "length", i>>, K_ATTR_LEN_BITS))
  \o Repeat(4, LAMBDA i : push_bits_len(<<k, "permutation", i>>, 2))
  \o push_sha256msg_derived(Of(k, "sha"), 2)

push_witness_hash(n) ==
  push_nat256("issuer_sig_e")
  \o push_v8s("mso", 2560) \o push_bits_len("mso_len", 16) \o push_v8s("nblocks", 1)
  \o push_nat256("device_pk_x") \o push_nat256("device_pk_y")
  \o push_bits_len("doc_type_offset", 16)
  \o push_bits_len("valid_from_offset", 16) \o push_bits_len("valid_until_offset", 16)
  \o push_bits_len("dev_key_info_offset", 16) \o push_bits_len("value_digests_offset", 16)
  \o Repeat(n, push_witness_attr)
  \o push_sha256msg_derived("mso", 40)
  \o Repeat(3, LAMBDA i : LET ap == <<"ap1", "ap2", "ap3">>[i]
                          IN push_elt(Of(0, ap)) \o push_elt(Of(1, ap)))

push_input_sig ==
  push_elt("one") \o push_elt("issuer_pk_x") \o push_elt("issuer_pk_y")
  \o push_nat_256_bits("device_sig_e")
  \o FlattenSeq([i \in DOMAIN push_macs_order |-> push_plucked_128(push_macs_order[i])]) \o push_plucked_128("mac_av")

\* ConcreteGiven::push_elements, ConcreteDerived::push_elements
push_ecdsa_given(s) ==
  FoldLeft(LAMBDA acc, name : acc \o push_elt(<<s, name>>), <<>>, <<"pkx", "pky", "e", "rx", "ry">>)
  \o Array(256, push_elt(<<s, "ers">>))

push_ecdsa_derived(s) ==
  FoldLeft(LAMBDA acc, name : acc \o push_elt(<<s, name>>), <<>>,
           <<"pkxinv", "rxinv", "nmsinv", "yinv">>)
  \o FoldLeft(LAMBDA acc, name : acc \o push_elt(Of(0, <<s, name>>)) \o push_elt(Of(1, <<s, name>>)),
              <<>>, <<"g_pk", "g_r", "pk_r", "g_pk_r">>)
  \o Array(256, Array(3, push_elt(<<s, "round">>)))

push_witness_sig ==
  push_nat_256_bits("issuer_sig_e")
  \o push_nat_256_bits("device_pk_x") \o push_nat_256_bits("device_pk_y")
  \o push_ecdsa_given("issuer") \o push_ecdsa_given("device")
  \o push_ecdsa_derived("issuer") \o push_ecdsa_derived("device")
  \o Repeat(3, LAMBDA i : LET ap == <<"ap1", "ap2", "ap3">>[i]
                          IN push_plucked_128(Of(0, ap)) \o push_plucked_128(Of(1, ap)))

-----------------------------------------------------------------------------
\* What is pushed for n attributes is what is allocated for n attributes, input
\* by input; the public inputs are those the verifier pushes; and the first
\* input past the subfield boundary of the hash circuit is the first pad.
LayoutsAgreeFor(n) ==
  /\ push_input_hash(n) = AllocatedHashPublic(n)
  /\ push_witness_hash(n) = AllocatedHashSubfield(n) \o AllocatedHashRest
  /\ push_input_sig = AllocatedSigPublic
  /\ push_witness_sig = AllocatedSigPrivate
  /\ Width(push_witness_hash(n)) - Width(AllocatedHashRest) = Width(AllocatedHashSubfield(n))
=============================================================================
