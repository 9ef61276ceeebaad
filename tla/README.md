# Verification of go-cardano-serialization

TLA+ modules, TLC configurations and TLAPS proofs about the library in `src/`.
Every definition that models code is listed, with its lines, under `map` in
`PROJECT.json`; the hazards the properties aim at are under `hazards`.

## The system

The library builds, signs, encodes and submits Cardano transactions. It starts
no goroutines; concurrency comes from its users, from the objects that its
values share through pointers, from the codec's tag sets, from programs that
spend from one wallet at the same time, and from the network between them and
the ledger.

| component | state | operations | how it interacts | what is hard, what makes it correct |
|---|---|---|---|---|
| transaction builder, `tx/tx_builder.go`, `tx.go`, `tx_body.go`, `tx_witness_set.go`, `tx_input_output.go` | one body, a witness set, auxiliary data, keys | add inputs and outputs, fee, TTL, change, sign, build, encode | returns copies that point to the same body, witness set and auxiliary data; tests and examples edit `builder.Tx()` in place | aliasing, queries that write, word arithmetic, dropped errors. The body balances, the fee covers what is sent, signatures are of what is sent |
| auxiliary data, `tx/auxiliary_data.go` | a map of metadata | add, encode, decode | its hash is written into the body on every encoding | stale hash, decoding that loses parts, panic on foreign content |
| fee and parameters, `fees/linear.go`, `protocol/protocol.go` | constants | linear fee | called by the builder | errors become fee 0; `MinUTXOValue` and `MaxTxSize` are never read |
| native scripts, `tx/script.go` | nested scripts | encode, decode, hash | inside the witness set and addresses | an unknown kind decodes to an empty key script without an error |
| payment program, `examples/transactions/txbuilder/main.go` | one run | list, pick, build, submit | uses node, builder, address | stale listing, lost answers, retries, rejected transactions |
| Blockfrost client, `node/blockfrost.go` | network, API client | list outputs, parameters, tip, submit | HTTP | two servers chosen apart, no timeout, first page only |
| `node/cardano-cli.go`, `node/local_tx_submission.go` | none | run a subprocess and parse; one constant message | | inverted network flag (28), slicing by the wrong length (70) |
| addresses, `address/*.go`, `network/network.go` | values | decode from bytes, bech32 or hex, encode, convert | used in outputs | dispatch on the header, variable-length naturals, missing length checks, two libraries for one encoding |
| `internal/bech32/bech32.go` | none | convert bits, checksum | used by addresses | padding, checksum, round trip |
| CBOR codec, `internal/bech32/cbor/*` (vendored) | stream buffers, open items, tag sets, type caches | encode, decode, validate | used by scripts and auxiliary data | partial reads and writes, errors in the middle of an item, nesting and limits, reused destinations, canonical order, concurrent registration |
| key derivation, `bip32/bip32.go` | none | derive, clamp | keys for the builder | carries of byte-wise additions |
| `crypto/*` | none | Ed25519 | | third-party field arithmetic |

## Modules

| module | models | how |
|---|---|---|
| `CborLen` | lengths of the encoded parts of a transaction | pure operators with a constant for each boundary of CBOR heads; transactions are encoded with `github.com/fxamacker/cbor/v2`, whose heads are external |
| `TxBuilder` | the builder, the Tx values it returned and the clients that edit them in place | one action per method; `EXTENDS CborLen` |
| `TxBuilderProofs` | theorems about `TxBuilder` | TLAPS |
| `MCTxBuilder`, `MCTxFlows` | values for TLC | Cardano parameters, scaled words; three ways of using a builder |
| `Wallet` | what paying from a wallet promises | abstract specification: balance, payments, receipts |
| `Payment` | runs of the example against Blockfrost and a ledger | one action per request; refines `Wallet` |
| `PaymentProofs` | theorems about `Payment` and `Wallet` | TLAPS |
| `MCPayment` | values for TLC | amounts in units of 100000 lovelace |
| `CborItems` | `valid.go`, and `skip` and `getHead` of `decode.go` | functions from the offset where an item may start, without RECURSIVE |
| `CborParts` | data that arrives byte by byte | what validation and `skip` find now and later; `EXTENDS CborItems` |
| `CborItemsProofs` | theorems about `CborItems` and `CborParts` | TLAPS |
| `CborFloats` | half, single and double precision | a number is a sign, an exponent and bits, the same in all widths |
| `CborDecode` | `parse`, `parseToValue` and what they call | recursive operators: offset, error and value; `EXTENDS CborItems, CborFloats` |
| `CborData`, `MCCborData` | data that arrives, decoded into many types | every extension of a few beginnings, byte by byte; `EXTENDS CborParts, CborDecode` |
| `CborFields` | `structfields.go`, and the struct types of `cache.go` | which fields are visible, their names, numbers and order |
| `CborEncode` | `encode.go` | recursive operators: error and bytes; `EXTENDS CborDecode, CborFields` |
| `CborCodec`, `MCCborCodec` | the stream encoder, and what a decoder finds in what it wrote | one action per method; `EXTENDS CborEncode` |
| `ItemStream` | what decoding a stream promises | abstract specification: the place of the next item and the result of a call |
| `CborStream` | the stream decoder of `stream.go` | one action per step of a call; refines `ItemStream` |
| `CborStreamProofs` | theorems about `CborStream` | TLAPS |
| `MCCborStream` | values for TLC | three streams, a scaled `minRead`; ties `Scan` to `CborItems` |
| `TagItems` | the items of a tag set and the calls that are made of it | operators |
| `TagRegistry` | what a tag set promises | abstract specification: every call is one step |
| `TagSets` | `syncTagSet` and the copies made for a mode | one action per step between two goroutines' points of meeting; refines `TagRegistry` |
| `TagSetsProofs` | theorems about `TagSets` | TLAPS |
| `MCTagSets` | values for TLC | three types, three tag numbers, twelve calls |
| `Induction` | induction over sets and functions, and that recursive functions are what their equations say | TLAPS; used by the next proofs |
| `Bech32` | `internal/bech32` | strings are sequences of character codes, words of the checksum sets of bits |
| `Addresses`, `MCAddresses` | `package address`, and addresses that are mistyped or damaged on their way | operators, and an action per way to damage; `EXTENDS Bech32` |
| `Bech32Proofs`, `AddressesProofs` | theorems about `Bech32` and `Addresses` | TLAPS |

### TxBuilder and the code

`body` is the one `TxBody` that every `Tx` of a builder points to (Build copies
the `Tx` struct, not what it points to). `wsets` and `aux` are heaps of
`WitnessSet` and `AuxiliaryData` objects; `tx` holds the builder's pointers, an
element of `built` those of a `Tx` that Build has returned. `xprvs` are the
keys. `seal` and `quote` are history: whether the transaction has been signed or
built since it was last edited, and what the last settlement assumed.

A body keeps the number and sum of its inputs, and of its outputs the sum and
the length of all but the last, the last amount and its length without the
amount: the code only appends to these lists and rewrites the amount of the last
output, and reads nothing but sums and lengths. Identity of inputs is lost by
this, so adding an input twice cannot be told from adding two. A hash is the
value hashed and a signature the pair of key and message. Metadata is a member
of a small set of contents, each with a length, some that cannot be encoded;
editing it may lead to any content but the empty one.

* `AddInputs`, `AddOutputs`, `SetFee`, `SetTTL`, `Sign` are the methods of the
  builder or of the `Tx` it hands out. They return no errors.
* `MinFee` may be called at any time. It computes on a body of its own but adds
  an empty witness to the witness set it shares (`PadWitnesses`).
* `Settle` is AddChangeIfNeeded from its first line to its last. It appends an
  output, computes a fee in two passes and writes the last amount again. A
  failing encoding makes the fee 0 and nothing else, as in the code.
  `SettleByHand` is the variant of `TestMultisigTx`, which assumes
  inputs - outputs instead of inputs - outputs - fee.
* `Build` hashes (storing the hash of the auxiliary data), signs with every key
  and installs a new witness set. Its guard is that encoding succeeds; the
  failing Build has the effect of `Bytes`, or none.
* `Bytes` is any encoding of the current or of an old `Tx`, by Bytes, Hex, Hash
  or a failed Build: it stores the hash of that Tx's auxiliary data in the body
  all of them share.
* `NewAuxiliaryData`, `AddMetadata` and `AttachPlaceholders`, `AttachScripts`,
  `SignInPlace` are what tests and examples do through `builder.Tx()`.
  `AttachPlaceholders` appends, as `tx_builder_test.go:291`; that there are no
  signatures then is a guard of the model that states how this client behaves, and
  `NoMixedWitnesses` rests on it. `SignInPlace` drops the error of the hash, as
  line 344 does, and then signs a hash of zeros. `AddMetadata` leaves out the panic
  of `auxiliary_data.go:51` on metadata of another type.

Not modelled: a client that sets `AuxiliaryData` back to nil or swaps the body,
which no test or example does; calls of one builder from several goroutines,
which nothing in the repository does and nothing protects.

### Payment and the code

`ListAndPick` is the call of UTXOs and the loop over its answer; `TipAndBuild`
the call of QueryTip and everything up to Build; `Submit` SubmitTx up to the
request; `Answered` the rest of SubmitTx and of main. Any error is
`log.Fatal`, so the run ends in `fatal`; `Rerun` is the user. The ledger and the
network (`Valid`, `Decide`, `Lose`, `Disconnect`, `Tick`) are not in the
repository and are marked external: the ledger takes a transaction whose input
is unspent, which is in time, balances and whose outputs are worth keeping. A
request may be lost, decided long after its run has ended, or decided while the
answer is lost. `input` is the zero `TxInput` if nothing matched; the
transaction is then built and submitted all the same and its change wraps
around.

The fee is a constant here. `TxBuilder` covers how it comes about; for one input,
two outputs and one key it does not depend on the run.

### CborItems, CborStream and the code

`ValidItem` is `validInternal`; its loops are the operators `ValidItems`,
`ValidTag`, `ValidChunks` and `ValidUntilBreak`. A result is an offset, a depth
and the name of an error; what Go returns as `io.EOF` and `io.ErrUnexpectedEOF`
are "EOF" and "UnexpectedEOF", since the stream decoder tells them apart. An
argument that a 64-bit `int` cannot hold is -1, as the code sees it, and
arguments above the constant `MaxArg`, which is 2^16 in the runs, are one value:
no data of theirs is as long. `Skip` is the code that runs after validation and
checks no bounds.

An item contains items that start behind it, so the recursion of the code is one
over offsets: `from[off]` is what validation finds there, for each depth, or what
`skip` finds, and it is defined by `from` of greater offsets. `Behind` is a call
at such an offset; `Lost`, an offset that is not in the data, is where a `skip`
without bounds checks would read beyond it.

`CborStream` is `Decoder`. `buf`, `bufCap`, `off` and `bytesRead` are its fields
and the capacity of its buffer, `stream` and `taken` the reader: what it will
ever deliver and how much it has. A call is `Decode`, then reads and attempts to
decode until it returns: `Read` is `read` with the test of its result
(`ReadSome`, `ReadNothing`), `Value` the call of `value` with what follows.
`pc` is `"first"` before the read at line 30, `"more"` before the one at line 44.
The recursive call at line 47 finds bytes in the buffer and so goes to `Value`.
Whether `v` can be decoded into is chosen by the call (`target`). An error
that comes with bytes is dropped by the code; the reader may report it again or
not. `began` is history: where the last call found the stream.

What validation finds is the constant `Scan`, and `ScanAssumption` all that is
assumed of it. `Scanned` of `CborItems` is the same made of `Valid`, and
`ValidationScans` proves that it is as assumed, but for the last conjunct, which is
about streams: their unfinished items are bounded. `MCScanAssumption` says that the
`Scan` of the run is `Scanned` wherever an item of its streams may start. That
decoding consumes its item whole is `ConsumesItem`.

`Outcomes` lists what decoding a valid item may end in. `"unexpected"` stands
for an `UnmarshalCBOR` that returns `io.ErrUnexpectedEOF`, for example because it
decodes a byte string whose content is cut.

### CborDecode and the code

A Go type is a record with its kind, a value a tuple that starts with its kind.
Each function of `decode.go` is an operator from the place of an item to the
place behind what was consumed, the error, and what the destination was set to
(`Left` if it was left alone). Loops are recursive: `ParseMap`, `MapElem` and
`MapPair` are the body of one loop, cut where a result is used, as the code
cuts it with `continue`. `d.dm` has the options that change control: duplicate
keys, byte strings as keys, signed integers, unknown fields, tags of times, and
the registered tags.

Errors are classes ("type", "dup", "builtin", ...), not messages. Times are what
they were made from; formatting and parsing of time strings is not modelled, nor
are interfaces other than the empty one.

`cur` is what a destination holds before: pointers that are followed, slices that
are long enough and used again (the capacity of a slice is its length here), maps
that are added to, fields of structs. `parseMapToMap` uses the destinations of keys
and elements again from pair to pair, which the model carries along (`last`).
Duplicates are told as the code tells them: `Filling` is a Go map with the size it
had after the pair before (`keyCount`) and the keys it held at first
(`existingKeys`), `Store` sets an entry and `IsDup` is that the map has not grown.
`StructPair` does the same with `mapKeys`. An integer key of a struct above the
greatest int64 is -1, whichever it is (`IntKey`).

### CborFields, CborEncode, CborCodec and the code

`GetFields` collects the fields of a struct and of the structs embedded in it,
level by level, and keeps those that dominate (`Visible`); `StructType` adds the
names and numbers, `FieldsFor` is the order of a mode. `CborEncode` has an
operator for every encode function; `Encode` is `encode`. The order in which Go
iterates a map is a parameter of the mode, and the properties take all orders.

`CborCodec` is `Encoder`: `indefTypes` is its stack of open items, `buf` the
buffer `e`, `out` what has arrived at the writer, which takes all, none or a part
of a write and reports an error if it is not all. `said` is history: the values
that were encoded without an error, under each open item, as a decoder would
have them. Its client keeps to the protocol, as far as the code does not enforce
it: no nil in an open string, no value that refuses to be encoded in the middle
of a pair, no item ended after half a pair.

### TagItems, TagSets and the code

`tags` is the map of the set, `writer` and `readers` the state of its
`sync.RWMutex` (a goroutine that waits to write keeps new readers out). `Start`
is the beginning of a call up to the lock: `newTagItem` is called before it, so
an item that is not acceptable is refused without locking. `Scan` is an iteration
of the loop in `Add`, over the entries in any order, `CopyEntry` one of
`EncModeWithTags` and `DecModeWithTags`; everything else under a lock is one
step, the loop of `getTypeFromTagNum` too, under whose read lock nothing changes.
Of the numbers of an item only the first is compared with the reserved ones, as in
`tag.go:258`, so `NumsUnique` speaks of the first. `Leave` is the caller with the
answer. Options that the mode checks before it copies are not modelled, nor is a
nil content type, which `Add` refuses (`tag.go:191`) and `Remove` panics on (`:217`).

### Bech32, Addresses and the code

`Step` is the body of the loop of `polymod`, with exclusive or as the symmetric
difference of sets of bits. `Regroup` and `Ungroup` are `convertBits` with and
without padding, by groups instead of an accumulator. `Encode` and `Decode` were
compared with the addresses in the repository's tests.

The kinds of an address are records; `Bytes` is the method of all four, and
`Text` their `String`. `PointerText` is what `github.com/btcsuite/btcutil/bech32`
does with the bytes that `PointerAddress.String` gives it. `NewAddressFromBytes`
results in an address, an error, a panic, or "unchecked", where a slice goes
beyond the length of the data. A network id other than 0 and 1 makes an address
of no network, `"zero"`, as `address.go:61` does. An address is given away as bytes
and as a string (`Init`, `Convert`); `Address` is every address of one of the two
networks, and what is given away is among them (`WrittenAssumption`). What happens
to them on their way (`Mistype`, `Cut`, `Extend`, `Garble`) is external.

## Runs

| run | configuration | question | result |
|---|---|---|---|
| tx_flows | `TxFlows.cfg` | does the settled body balance, does the fee cover what is sent, is what is sent signed, whatever the order of calls | holds, 1 300 000 states |
| tx_change | `TxChange.cfg` | is the change part of what the inputs hold | violated |
| tx_two_keys | `TxTwoKeys.cfg` | does a built transaction pay its minimum fee | violated |
| payment | `Payment.cfg` | does the wallet pay for accepted transactions only, does every success stand for a payment of its own, does every run end that is answered | holds, 190 000 states |
| payment_testnet | `PaymentTestnet.cfg` | is a transaction submitted where its input was listed | violated for network id 0 |
| cbor_data | `CborData.cfg` | is what validation says of a part final, do skip and decoding end where it did, do the four loops agree, are duplicate keys told exactly, has an entry of a map nothing of the pair before | holds, 84 000 states |
| cbor_null | `CborNull.cfg` | has a null no effect in a map of numbers | violated |
| cbor_stream | `CborStream.cfg` | are the items of a stream decoded whatever the reader does, in a bounded buffer, and does every call return; with regular readers and values | holds, 1000 states |
| cbor_codec | `CborCodec.cfg` | is what was said what was written, do values come back, are keys in order | holds, 100 000 states |
| tag_set | `TagSets.cfg` | does every call on a shared set take effect at one moment, and return | holds, 19 000 states |
| address | `Addresses.cfg` | is an address read back, or refused if it is damaged | holds, 190 000 states |
| address_text | `AddressText.cfg` | has every address a string | violated for pointer addresses |

The violated ones state what a comment of the source promises; the findings in
`PROJECT.json` quote it.

* **Change** (`tx_builder.go:57`): with an input of 1 ADA and an output of 1 ADA
  nothing is left for the fee, and the change is the word just below zero.
* **Two keys** (`tx_builder.go:102`): the fee counts one witness.
  The test of the multisig flow knows it (`tx_builder_test.go:288`) and adds
  placeholders by hand.
* **Servers** (`blockfrost.go:27` and `:131`): the example uses network id 0, so
  no run of it as committed can succeed; the passing run uses network id 1.
* **Null** (`decode.go:1338`): the destination of an element is used again for
  the next pair and not reset if its kind is immutable; a null sets nothing.
  `EntriesIndependent` shows that the kinds that are reset are right.
* **Pointer text** (`pointer.go:79`): bytes are given to a library that takes
  groups of five bits; the error is dropped.

Disagreements that no run shows:

* The HTTP client has no timeout and the request no deadline (`blockfrost.go:109`),
  so a submission whose answer is lost waits as long as its connection lasts, and
  SubmitTx returns neither a hash nor an error. `EndsUnlessUnanswered` leaves it open.
* An `io.ErrUnexpectedEOF` from `UnmarshalCBOR` is taken for an incomplete item,
  although the item has been consumed (`stream.go:37`): the next one is decoded
  into the value, and the error is lost. A reader that returns no bytes and no
  error (`stream.go:30`) makes Decode return nil with nothing decoded. With
  `"unexpected"` in `Outcomes`, or with `ZeroReads`, TLC finds `NilDecodesNext`
  violated; `CborStream.cfg` leaves both out, and `NilMeansDecoded` proves
  `NilDecodesNext` without them, so there are no others.
* The length-first order of fields is the bytewise one unless a struct has text and
  number keys (`cache.go:254`): 24 (two bytes) comes before -1 (one byte), against
  `encode.go:120`. `KeysAscend` names this exception and is checked on such a struct.
* Bytes of an address of a network other than 0 and 1 are taken, and the address is
  written as one of network 0 (`address.go:61`). `Reencodes` states it; no comment
  says what should happen.
* The loop of the example has no break, so the last output that is enough is
  used (`main.go:133` says the first).
* Decoding into a struct type with a broken field tag consumes nothing
  (`decode.go:1380`, `:1453`).
* A map from interfaces may hold one number as an int8 and as an int64; both are
  encoded alike, so the key stands twice in what is written. `KeysAscend` is of
  values with one kind of integer.
* Structs embedded twice at one level are dropped instead of hiding each other
  (`structfields.go`), and the two fields with key 2 of `AuxiliaryData` hide each
  other, so neither is ever encoded.
* With a shared tag set, EncTagNone is not looked at when a tag is written
  (`encode.go:524`).

### Properties

* `ChangeBalances`: what AddChangeIfNeeded leaves balances as machine words and
  stays so through queries, encodings and builds.
* `FeeCovers`: the fee pays for the encoding that is finally sent, although it
  was computed on another body, with another fee in it, without its hash. It
  needs that no more witnesses or scripts are there than were counted, and that
  the final change is no more than the change assumed: with a larger change its
  head can be longer. The latter is false only when the amounts wrapped or an
  earlier fee was larger than the new one.
* `SignedOnWire`: signatures are of the body that would be encoded now. It holds
  because encoding an old handle stores the old hash, and encoding the new one
  stores the right one again before anything is sent.
* `NoMixedWitnesses`, `OneWitnessPerKey`: the empty witness MinFee leaves behind
  never sits next to signatures, and Build signs once per key. The first relies on
  a client that attaches placeholders before it signs.
* `OnlyStaleRejected`: a transaction on an output that was found enough is
  rejected only if the output was spent meanwhile or its time has passed.
* `RefinesWallet`: `Payment` implements `Wallet`, with the balance mapped to the
  sum of the unspent outputs.
* `EndsUnlessUnanswered`: liveness, below.
* `PrefixStable`: more data changes neither a complete item nor an error, so
  only `UnexpectedEOF` asks for more and decoding may start over after a read.
* `SkipAgrees`: `skip` ends where validation did.
* `ConsumesItem`: so does decoding, into whatever type and however it fails.
* `SameEitherWay`: the loops of `parseMap` and `parseMapToMap`, of `parseArray`
  and `parseArrayToSlice`, fail on the same data and make the same of it.
* `DuplicatesTold`: where duplicates are enforced there is an error exactly if two
  pairs that decode have the same key, although it is told by the size of the map,
  pairs fail in between, and the map may have held the key before.
* `EntriesIndependent`: an entry is what its pair says when it is decoded alone,
  although destinations are used again. `NullHasNoEffect`, the same for numbers,
  strings and booleans, is violated.
* `SaidIsWritten`: unless a write broke off inside an item, the writer has
  exactly what the calls without an error said, under the items that are open.
* `RoundTrip`, `Reencodes`, `KeysAscend`: a value is one well-formed item that
  decodes to it; in a sorting mode it has one encoding, in whatever order maps are
  iterated, with its keys in the order of the mode, structs with number keys only
  apart, which are in bytewise order in both.
* `Window`: buffer, offset and `NumBytesRead` describe the same place of the
  stream through moves, growths and errors.
* `BufferBounded`, `RoomToRead`: the buffer is bounded by the longest item and
  there is always room to read.
* `RefinesItems`: `CborStream` implements `ItemStream`: each call consumes the
  item that is next in the stream as a whole, or nothing.
* `NumsUnique`, `RefinesRegistry`: no two types have the same numbers, and `TagSets`
  implements `TagRegistry`, in which calls are atomic.
* `ReadsBack`, `Reencodes` of addresses: what is written is read as it was, and
  what is read, from whatever bytes, is written to bytes that mean the same, but
  that a network that is not known becomes network 0 (`Rewritten`).
* `MistypeFound`, `OnlyWhole`: up to two wrong characters never make another
  address, nor do missing or additional bytes, base addresses apart, whose length
  is not checked.
* `EveryCallReturns`, twice: liveness, below.

### Bounds

`MCTxFlows` takes three parts of what a client can do, as all of it is too much
for one run; each is a part of `TxBuilder`. In "fee" there are two inputs (one
that covers everything, one that does not cover the fee), two outputs of kinds
that can and cannot be encoded, so a change output after another, and settling
twice; fee 0 and one set by hand, so the fee passes from the one-byte to the
five-byte head between the two passes; an object of auxiliary data with two
lengths. "sign" drops the lists and has two objects of auxiliary data, three
contents, two keys, three witness sets. "multisig" has two placeholders, two
signing keys and one script.

TLC has 32-bit integers, so a word is 2^30 and the longest CBOR head starts at
2^29 instead of 2^64 and 2^32; the order of all boundaries is kept, and the
proofs hold for every value that has `2 * Head64 <= UintMod`.

In `Payment.cfg` an amount of 1 stands for 100000 lovelace. The wallet holds one
output that is enough and one that covers the amount but not the margin. Two
runs, each started twice, are enough for two runs to spend the same output, for
a run to pay twice after a lost answer and for a late request to meet a later
run. A slot is longer than a transaction lives, so one tick is enough to be late.

`CborData.cfg` takes 18 bytes that select every branch of validation and
decoding and appends up to three of them to nineteen beginnings, among them open
arrays, maps and strings, registered and built-in tags, and an eight-byte length
of which a byte is missing. Two elements, two pairs and four levels are the
limits, so that they are met (the code accepts four levels at least and larger
numbers of elements). Two of its destinations hold something before.

Eight beginnings are of maps with two pairs, most with the first pair there, and
nine of the bytes go on from them (`MCArrive`): the second key may be the first one
again, an integer of another length, a null, or fail, and so may the elements. The
maps that `DuplicatesTold` and `EntriesIndependent` are about have each kind of
element that is set to zero between pairs (lists, arrays, structs, pointers,
maps), and numbers; some hold a key of the data or another one before.
`CborNull.cfg` has a map of two numbers.

`CborCodec.cfg` has the values at the bounds of every length of an integer, at
the bounds of every float format, and one or more of every kind of type, in four
pairs of modes and three orders of maps of up to three pairs. A stream encoder
is called up to five times, enough for an item in an item in an item or for a
call after a failed call in an open item.

`CborStream.cfg` has six items of one to five bytes, whole, cut in the last one
or followed by malformed data, and 2 instead of 512 bytes as `minRead`: reads of
every size end inside items, and the buffer grows and is moved. No property
depends on more items than the buffer holds.

`TagSets.cfg` has two goroutines, which may be at any two steps of any two of
twelve calls, so every pair of calls meets in every way. The proofs hold for any
number.

In `Addresses.cfg` a hash has one byte, unsigned integers have 15 bits, and
numbers of pointers are at the bounds of their one, two and three bytes in every
place. Two edits are enough for a change in each of two groups of a string.

Deadlock is checked in `CborStream` only: programs end, data is complete, an
address arrives, the calls of a client are bounded, and goroutines may call no
more.

### Fairness

`Payment` assumes of the program only what is its own: it is scheduled, so it
submits what it has built and goes on once its submission has been answered or its
connection is broken (`WF(Submit(r))`, `WF(Answered(r))`). Nothing is assumed of
servers, ledger, network or user: a listing may never be answered, and a
connection may last without an answer. `EndsUnlessUnanswered` is what remains: a
run ends, in success or in an error, unless it waits for an answer for ever.

`CborStream` assumes that a call goes on and that the reader's Read returns
(`WF(Read)`, `WF(Value)`); whether it returns bytes is open.

`TagSets` assumes that a goroutine inside a call goes on (`WF(Runs(g))`) and that
`sync.RWMutex` lets nobody wait for ever (`SF` of `Claim` and `RLock`): its mutex
serves writers in turn, and Unlock lets the waiting readers in. Nobody has to
make a call. `EveryCallReturns` then says that each call leaves the lock, the
failing Add as well.

`TxBuilder`, `CborCodec` and `Addresses` have no liveness: they do what they are
told.

## Proofs

`TxBuilderProofs` proves for all amounts, words, lengths, protocol parameters and
bounds:

| theorem | property |
|---|---|
| `TypeCorrect` | `TypeOK` |
| `ChangeCorrect` | `ChangeBalances` |
| `FeeSufficient` | `FeeCovers` |
| `SignaturesValid` | `SignedOnWire` |
| `WitnessesUnmixed` | `NoMixedWitnesses` |
| `BuildSignsOnce` | `OneWitnessPerKey` |

They rest on the assumptions `TxBuilder` and `CborLen` name: boundaries of heads
are increasing (`HeadAssumption`), lengths and parameters are naturals
(`LenAssumption`, `FeeAssumption`, `AuxAssumption`), a word holds twice the
last boundary (`WordAssumption`), and amounts are words (`ClientAssumption`).

* *Types.* One step per action; the lemmas on `HeadLen` and on word arithmetic
  give the ranges.
* *Balance.* `Minus` and `Plus` are inverse on words, so the second write of the
  change restores inputs = outputs + fee whatever was wrapped.
* *Signatures.* `SignedOnWire` is not inductive: storing a hash changes the body
  a signature is compared with. The invariant `SigInv` adds that a returned `Tx`
  with auxiliary data never outlives the builder's own (so whatever hash an old
  handle stores, the next encoding of the builder's `Tx` stores over it:
  `LastHashWins`), and that what was signed could be encoded.
* *Fee.* `FeeInv` says that the fee is the linear fee of the length the quote
  measured, that this length covers the body as it would be sent but for the
  fee's own head, and that a body without auxiliary data has no hash. `HeadLen`
  is monotone, so a final fee that is at least `Head32` and below `Head64` has
  the head the second pass measured.

`CborItemsProofs` proves for data of any length and all limits:

| theorem | property |
|---|---|
| `SpecSkipAgrees` | `SkipAgrees` |
| `SpecPrefixStable` | `PrefixStable` |
| `ValidItemIsSkipped` | what the first rests on: wherever in the data an item starts, however deep it is nested |
| `ValidationScans` | validation finds items the way the proofs about the stream decoder assume |

They need that limits are naturals (`LimitAssumption`) and that what is there at
first and what arrives are bytes (`ArrivalAssumption`).

* *Recursion.* What is found from an offset on depends on what is found behind it,
  so the tables of validation and of `skip` exist and are what their equations say
  (`CourseOfValues` of `Induction`), and a statement about offsets is proved from
  the end of the data (`DownTo`).
* *Validation.* What is found well-formed ends in the data, behind its start, and
  is not the error of empty data once there is a byte. With more data
  nothing changes for an item whose result is not `UnexpectedEOF`, nor for the
  rest of an array, map, string or tag of which some elements have been read
  (`ValidKept`).
* *Skip.* The statement is about rests as well: a definite array of n elements is
  skipped by n calls, an indefinite one up to its break, as a well-formed item
  never starts with the byte of a break; a tag and what is nested in it is
  one item.

`CborStreamProofs` proves for all streams, sizes of reads and `minRead`, and all ways to
find items that satisfy `ScanAssumption`:

| theorem | property | needs |
|---|---|---|
| `TypeCorrect` | `TypeOK` | |
| `WindowKept` | `Window` | |
| `ReadsHaveRoom` | `RoomToRead` | |
| `BufferStaysSmall` | `BufferBounded` | `Regular` |
| `ImplementsItems` | `RefinesItems` | `Regular` |
| `NilMeansDecoded` | `NilDecodesNext`: a call that returned nil has decoded the item that was next | `Regular` |

`Regular` excludes the two exceptions named under Runs: readers that return nothing
without an error, and values whose `UnmarshalCBOR` returns
`io.ErrUnexpectedEOF`. So the last theorem says that there are no others.

* *Buffer.* `Inv` is inductive: types, window, and that a call that decodes has
  something to decode. What is unread is then a part of the stream that starts
  at `bytesRead` (`UnreadOfStream`), and so is what a read leaves (`ReceiveKeeps`).
* *Bound.* `PartInv` adds that more is read only if nothing or a part of an item
  is left, which is at most `MaxPart` long; the buffer is doubled only when it
  is smaller than that and `MinRead`.
* *Refinement.* A finding on a part is the finding on the whole stream
  (`FoundInStream`), so each outcome of `Value` is an action of `ItemStream` or none;
  `EOF` is returned only at the end of the stream, where the part is the rest.

`TagSetsProofs` proves for any number of goroutines, types, tag numbers and calls:

| theorem | property |
|---|---|
| `TypeCorrect` | `TypeOK` |
| `NumbersUnique` | `NumsUnique` |
| `SetIsRegistry` | `RefinesRegistry` |

They rest on the assumptions of `TagItems` and `TagSets`: the values that stand
for no item, no call and nobody are none of the others, and `Ops` are calls.

* *Lock.* `LockInv` says who is inside: one writer, which has waited for the
  readers to leave, or readers.
* *Loops.* `NumsUnique` is not inductive: that no entry is in the way was found
  one by one. `LoopInv` says that what a loop has passed still holds, which needs
  the lock, and `CallInv` that a goroutine is where its call has taken it.
* *Refinement.* A call takes effect where its result is written; the loop of a
  failing Add stops at an entry that is there at that moment, and what a copy has
  gathered is the set of that moment (`StepRefines`).

`PaymentProofs` proves for any number of runs and starts, any wallet and all
amounts and servers:

| theorem | property |
|---|---|
| `TypeCorrect` | `TypeOK` |
| `RejectedOnlyIfStale` | `OnlyStaleRejected` |
| `PaysAsPromised` | `RefinesWallet` |

They rest on the assumptions of `Payment`: the margin covers the fee and an
output worth keeping, the amount is worth keeping, and the amount with its margin
is a word (`AmountAssumption`); the first outputs are words (`GenesisAssumption`);
bounds and sizes are naturals (`BoundAssumption`).

* *Invariant.* No property is inductive alone. `IInv` says that an accepted
  transaction has an input that is spent (`SpentInv`); that what a run found is
  enough, and what it built of it has the rest as its change (`BuiltInv`); that a
  request carries the amount and the fee, and one of the present try the
  transaction of its run (`RequestInv`); and that runs that were told of success
  have accepted transactions of their own (`ReceiptInv`).
* *Rejection.* The rest is at least the margin without the fee, so it neither
  wraps around nor falls below what is worth keeping; spent inputs and late
  slots remain (`RejectedOnlyIfStale`).
* *Refinement.* The balance of `Wallet` is the total of the unspent outputs, and
  accepting a transaction lowers it by what is sent and the fee: its input goes,
  its change comes (`TotalSpent`). `Total` is a recursive function over the
  outputs, so its laws are proved by induction over their number. Receipts map
  into accepted transactions one to one (`OneReceiptEach`), so there are never
  more of them than payments.

`Bech32Proofs` has two results. `DecodesEncoded`: `Decode(Encode(hrp, data))` is
`data` for every prefix of printable characters without upper-case letters and
all bytes. `GarbledIsRefused`: of a string that `Decode` takes, up to six
characters in a row behind the separator may be replaced, by anything but a '1',
and `Decode` refuses what results, unless it differs in case only; for strings of
any length.

* *Regrouping.* The groups of five bits and the bytes are two ways of cutting one
  sequence of bits, filled up with fewer than five zeros (`RegroupedBack`).
* *Checksum.* `Step` adds: of two words and two values summed, it is the sum
  (`StepAdds`). So the six digits that are written into the place of six zeros
  change the word at the end by exactly what they spell, which is the difference
  from 1 (`PolymodSix`, `ChecksumHolds`), for any generator of 30-bit words.
* *Text.* No digit is the character '1', so the last one is the separator, and
  no part has an upper-case letter (`TextParts`).
* *Six characters.* The five lowest bits of the numbers in `Generator` tell which
  of them were added (`CarriedTells`), so a step loses nothing: of different words
  the same digit makes different words (`StepInjective`). Within six steps a
  difference between digits is not yet shifted out of the word (`Diverges`; with
  seven the statement is false), so two strings that differ in no more have
  different words at the end, and one of them is not 1.

`AddressesProofs` proves for hashes of any length, words of any size that is a
multiple of 128, and any addresses, edits and bytes:

| theorem | property |
|---|---|
| `WrittenReadsBack` | `ReadsBack` |
| `PartsRefused` | `OnlyWhole` |
| `ReadReencodes` | `Reencodes` |
| `BytesReadBack`, `OnlyAddressesRead`, `TextReadsBack` | what these rest on, without a state: writing and reading are inverse, and what any bytes are taken for has hashes of their length, numbers that fit and the network of the header, known or not |
| `GarbledAddressRefused` | a part of `MistypeFound`, for strings of any length: up to six characters in a row behind the prefix |

They need `AddressAssumption` (2^64 is a multiple of 128, so seven bits are
shifted out of a word as a whole), `WrittenAssumption` and `GarbageAssumption`
(what is given away are addresses, what is damaged stays bytes).

* *Numbers.* All bytes of a number but the last have the high bit, so its end is
  found whatever follows (`NatGoesOn`), and shifting its digits into a word gives
  it back if it fits (`NatReadsBack`). A number that is too long for a word is
  read as some word, which is why `Reencodes` says less than that the bytes are
  the same.
* *Beginnings.* The length of a pointer address follows from its bytes, so no
  such address begins another one (`NothingBehindPointer`); the length of
  enterprise and reward addresses is compared. Base addresses are not covered by
  `OnlyWhole`: their length is not checked upwards.
* *Invariant.* What arrives are bytes, and until the first edit they and the
  string are those of the address.

The strengthenings were checked with TLC before they were proved.

The library's induction theorems take the statement as a parameter, which the
provers cannot instantiate. `Induction` states it as a set instead: a set of
naturals that has 0 and with every number the next has all (`SetInduction`), and
a recursive function satisfies its equation (`RecursionDefines`, `RecursionUpTo`,
`DescentDefines`).

Only model-checked are:

* what the operators of `CborDecode`, `CborEncode` and `CborFields` compute, which
  are declared RECURSIVE, so that the prover has no arithmetic for them:
  `ConsumesItem`, `SameEitherWay`, `DuplicatesTold`, `EntriesIndependent`,
  `SaidIsWritten`, `RoundTrip`, `Reencodes` and `KeysAscend` of the codec;
* that parts of items are bounded, the last conjunct of `ScanAssumption`: a stream may
  hold an unfinished item of any length, and the buffer then grows with it;
* `MistypeFound` as a whole: that the checksum also finds two wrong characters that
  are far apart depends on the lengths of the strings and on all the numbers in
  `Generator`, which is a computation rather than an argument; characters of
  the prefix and a typed '1', which move the separator, are tried as well;
* liveness, which is out of the prover's reach.

## Not modelled

* `crypto/` is third-party field arithmetic, and HMAC and blake2b are external; a
  signature is a pair. `bip32` works on 256-bit values around an HMAC.
* Native scripts, the contents of auxiliary data and Byron addresses: data
  without a state, built on the codec and on base58.
* Of the codec: options and their checks, messages of errors, times as text,
  interfaces with methods, slices with more capacity than length, and the
  `sync.Map` caches of type descriptions, which two goroutines may fill with equal
  values. With a shared tag set, decoding looks up a type and then its item; each
  lookup is atomic, the two together are not.
* The examples that only print, `cardano-cli.go` and `local_tx_submission.go`
  keep no state.
* Client behaviour that nothing in the repository shows and nothing protects:
  one builder used by several goroutines, auxiliary data set back to nil.

## Plan

Done: the builder, the payment program with its abstract specification, the
codec (validation, stream decoder, decoding, encoding, struct types, stream
encoder, tag sets), addresses and bech32; proofs of all but decoding and
encoding. What could follow, in this order:

1. A body with lists of inputs and outputs that `TxBuilder`'s aggregated one
   refines, so that inputs added twice can be told.
2. Decoding without RECURSIVE operators, as validation is, and `ConsumesItem`
   proved of it.
3. The encoding of auxiliary data and of native scripts on top of `CborEncode`.
4. The clamping and additions of `bip32` with scaled bytes.
