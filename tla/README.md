# A TLA+ specification of polymarket-bindings

The repository holds a Java client for the Polymarket order book (`src/src/main/java`)
and, under `src/libs/archive/native-secp256k1-java`, the C++ library it signs with: a
fork of libsecp256k1 behind a JNI layer. This directory models the parts of both where
something can go wrong that a unit test would hardly show, checks the models with TLC
and proves the most important results with TLAPS for every value of the constants.

Paths below are abbreviated: `java/` is `src/src/main/java/`, `native/` is
`src/libs/archive/native-secp256k1-java/`.

## The system

| part | state it keeps | operations | hard to get right |
|---|---|---|---|
| `java/cryptography/elliptic/NativeSecp256k1.java` | `INSTANCE`, `sEnabled`, `sError`; the class-wide read/write lock; one direct buffer per thread | `init`, `contextCreate`, `cloneContext`, `contextCleanup`, `randomize`, `sign`, `signRecoverable`, `verify`, `computePubkey`, tweaks, ECDH | unsynchronized loading; contexts shared by threads; a monitor around a lock; reuse of the buffer by methods with other layouts |
| the JNI glue (`native/src/java/...NativeSecp256k1.cpp`) | none of its own | finds the arguments in the buffer at fixed offsets and calls the library | offsets that assume lengths Java did not check |
| contexts and `ecmult_gen` (`native/src/secp256k1.cpp`, `ecmult_gen_impl.h`) | the blinding pair `(blind, initial)` and the precomputed table of a context | create, clone, destroy, randomize, multiply the generator | the pair is written in two steps and read in two steps |
| group operations (`group_impl.h`) | a Jacobian point | double, the four additions, negate, rescale, convert, compare | formulas that break down for equal, opposite and infinite operands |
| ECDSA (`ecdsa_impl.h`, `secp256k1.cpp`, `modules/recovery/main_impl.h`) | the nonce counter of a signing call | sign, sign recoverable, verify, normalize, recover | x coordinates that wrap modulo the order, the lower-s rule, rejected nonces |
| multiplication (`ecmult_impl.h`, `ecmult_const_impl.h`) | digit arrays, tables, the accumulator | wNAF recodings, Strauss, Pippenger, constant-time | carries at the top, even scalars, skew |
| hashing (`hash_impl.h`) | a 64-byte block buffer and a length | SHA-256, HMAC, the RFC 6979 generator | block boundaries |
| scalars and fields (`scalar_*`, `field_*`) | limbs | arithmetic modulo the order and the prime | carries, magnitudes |
| key loading and signing (`java/cryptography/keys`, `clob/headers/AuthenticationHeaders.java`, `clob/orders/v2/OrderBuilder.java`) | the private key and the address; a context for the length of one call | load a key, derive its address, sign headers, sign orders | cleanup on the straight path only; keys that are not valid |
| CLOB requests (`java/clob/auth`, `clob/markets`, `clob/orders`, `clob/quotes`) | credentials | derive, create, get and delete an API key, list markets, place an order | lost answers, error bodies, cursors |
| encodings (`java/eth`, `clob/orders/v2/OrderUtils.java`) | none | EIP-712 structs, order amounts | negative and short integers, rounding |

They interact as a stack. Java threads call static methods of `NativeSecp256k1`; each
copies its arguments into the buffer of its thread, takes the lock and enters the glue
code, which calls the library on the context whose address the caller passed as a
`long`. The library computes on group and field elements with the context's table and
blinding pair. Above it, `KeyPair` and the two signing clients create a context for
every call they make and clean it up after it, and the request classes send what was
signed. What threads share is the class (its static fields, its lock, its monitor) and
contexts, if they pass the addresses on. Nothing is persisted; there are no callbacks.

What makes each part correct:

- *NativeSecp256k1*: native code never follows a pointer that is null or was freed; it
  reads only bytes of the current call; calls do not disturb each other; every call returns.
- *contexts*: a multiplication returns `k*G` whatever the blinding is and whoever is changing it.
- *group operations*: the result stands for the sum, for every representation of every pair of points.
- *ECDSA*: a signature verifies, in one form only, and recovers its signer.
- *clients*: they keep to the rules of the class, release each context, and never go on with a key that cannot sign.

`PROJECT.json` lists every component with what is covered of it, and under `hazards`
each of these difficulties at its line of code with the properties that would catch it.

## Modules

| module | models | state and actions |
|---|---|---|
| `Secp256k1Context` | scalars and the blinding pair of `ecmult_gen_impl.h`; a point is its discrete logarithm | operators only |
| `NativeSecp256k1` | `NativeSecp256k1.java`, its glue code, and creating, cloning, randomizing and destroying contexts | see below |
| `CurveService` | what the class promises: every call takes effect at once, with no locks, buffers, loading or blinding | allocated contexts; the request and the answer of every thread |
| `SigningClients` | `JniLoader`, `KeyLoader`, `KeyPair`, `createL1Headers`, `createSignedOrder` | where each client is, its key, its context, its public key; one action per call and per return |
| `Curve` | the reference: the affine group law of a curve `y^2 = x^3 + B` of prime order | operators only |
| `Jacobian` | `group_impl.h` on Jacobian coordinates | operators only |
| `Recoding` | the digit forms of a scalar: `ecmult_wnaf`, `wnaf_fixed`, `wnaf_const` | operators only |
| `Tables` | tables of odd multiples, their common z coordinate, batch inversion, the table of `ecmult_gen` | operators only |
| `Group` | the operations of `Jacobian` in any order | the accumulator `r`, the point it stands for, the last z ratio; one action per operation |
| `Multiply` | `ecmult`, Strauss and Pippenger batches, `ecmult_const`, `ecmult_gen` | the terms, digits, table, position and accumulator of the running call; one action to start each algorithm, one per round of its loop |
| `Scratch` | `scratch_impl.h`: the budget, frames and objects of a scratch space | operators only |
| `MultiVar` | `ecmult_multi_var`: how a sum of any length is planned, cut into batches and accumulated | the sum so far, the plan, the frames; one action per batch, callback and allocation that fails |
| `Encodings` | DER (`ecdsa_impl.h`), the forms of a public key (`eckey_impl.h`) | operators only |
| `Keys` | creating, tweaking, negating and combining keys, ECDH | operators only |
| `Ecdsa` | both signing functions with their loops over nonces, verification, normalization, recovery | key, message, the nonce stream, the running call, the last output of either function |
| `DerivedKeys` | `Ecdsa` with the public key in other hands, both halves tweaked separately | the bytes of the public key, the tweak not applied to it yet |
| `Sha256`, `HashStream` | `sha256_write` and `finalize` | what a hash object has compressed and holds; one action per round of the loop |
| `Rfc6979` | HMAC, the generator of RFC 6979, `nonce_function_rfc6979` | the user of a generator, the registers, the outputs drawn |
| `ScalarLimbs` | `scalar_8x32_impl.h` | operators only |
| `FieldLimbs` | `field_10x26_impl.h` | operators only |
| `AdditionChains` | inverses and square roots of `scalar_impl.h` and `field_impl.h`, line by line on exponents | operators only |
| `Limbs` | calculations with the three | the words, the number they stand for, the line of a chain |
| `Floats`, `OrderAmounts` | `OrderUtils` of the orders, in Java's float arithmetic | operators only |
| `OrderEncoding` | the order as the words that are signed (`OrderStruct`, `EIP712Signature`, `OrderArgs`) and as the fields that are sent (`SignedOrder`) | operators only |
| `Clob` | `AuthenticationRequests`, `AuthenticationHeaders`, `OrderRequests`, `OrderBuilder`, `MarketRequests`, `QuoteRequests`; the exchange and the network are external | credentials, the call and its request, orders signed and placed, markets read; the exchange's keys, orders and clock |
| `...Proofs` | the proofs about the module they are named for (`SigningClientsProofs`: also about `NativeSecp256k1`; `EcdsaProofs`: about `DerivedKeys`, and with it `Ecdsa`; `PointProofs`: the lemmas on points and their tables that `EcdsaProofs`, `GroupProofs` and `MultiplyProofs` share) | |
| `MC...` | instances for TLC | |

How they are composed: `SigningClients` extends `NativeSecp256k1`, which extends `Secp256k1Context`. `Jacobian`,
`Recoding` and `Encodings` extend `Curve`; `Tables` extends `Jacobian`, `Group` extends `Tables`,
and `Multiply` extends `Tables` and `Recoding`; `Keys`, `Ecdsa` and `DerivedKeys` extend `Encodings`, each the one before.
`HashStream` and `Rfc6979` extend `Sha256`, `MultiVar` extends `Scratch`, `Limbs` extends the
three modules of arithmetic, `Clob` extends `OrderAmounts` (on `Floats`) and `OrderEncoding`. A definition
whose comment says `Mutant:` is a plausible bug that a property is known to notice; no
specification uses it.

**NativeSecp256k1 in detail.** A thread's `pc` walks through a method. Actions are cut
where another thread can be scheduled with an effect:

- `init` takes up to four steps (`InitCheck`, `Load`, `Disable`, `SetInstance`), because it
  reads and writes `INSTANCE`, the loaded library, `sError`/`sEnabled` separately and
  without a lock.
- `contextCreate` tests `sEnabled` in one step and calls into the library in another, with
  no lock. It fails with `UnsatisfiedLink` if the library is not there.
- The other methods: enter the monitor if `synchronized`; check the arguments
  (`RejectCall`: an `IllegalArgumentException`, or a `NullPointerException` where a null array is
  looked at first); make sure of the buffer and copy the arguments (`StageCall`, or
  `OverflowCall` where they do not fit); take the read or write lock; native code; the
  `finally` block; return, which leaves the monitor.
- Native code that reads or writes both members of the blinding pair takes two steps, so
  that the lock, and not the granularity of the model, is what keeps the pair together.

The lengths of array arguments are values; their bytes are not, but `staged` counts how
many bytes the current call has put into the buffer, which is what tells a fresh byte from
one left by an earlier call. A secret key is a number up to `N`, where `N` stands for every
string that overflows. `libPresent` says whether the library can be found at all.
Addresses come from `Ctxs`, and an address is reused once it has been freed. A context that
no thread holds any longer stays allocated, as in the program. The model assumes of the
class's callers what the class cannot check: they pass addresses they were given, and call
`contextCleanup` when no other thread holds the address. That the callers in this
repository do so is not assumed: it is what `SigningClients` is for.

**Clob in detail.** The program has one thread; a call passes through the places where
its code stops for something: it reads the clock, computes the headers, sends, waits, and parses
whatever came back, throwing where the code would. The exchange answers a request, refuses it or answers with
an error body, replaces keys that were issued, and may be slow; the
network may lose the request or the answer, which the client sees as the same exception. A
caller may repeat what failed: the call, or in the case of orders the placing or the signing.
A reader of listings follows cursors the way the tests of the repository do, while markets are added. A MAC or a signature is
its key and its message, a hash its input.

## Runs

| run | instance | what it shows |
|---|---|---|
| `NativeLocks` | 2 threads, 2 contexts, order 3, a request of every locking kind and one that throws, library present or not | `NoBadPointer`, `GenCorrect`, `EnabledMeansLoaded`, and the refinement of `CurveService` |
| `NativeCalls` | 2 threads on 1 context, order 2, every method, every documented length, the shorter ones the checks let through and a rejected one for every check, with fairness | `StaleOnlyIfShort`: native code reads what an earlier call left in the buffer only in place of the bytes missing from a short secret or tweak; `CallsReturn`: all calls return once no new ones are made |
| `NativeShortArguments` (violation) | 1 thread, the same requests | with a short secret, native code does read bytes that this call did not put in the buffer (`ReadsStaged`) |
| `SigningClients` | 2 threads, 2 contexts, all keys, key files of 31 or 32 bytes | the clients keep the rules of the class, get signatures that are not null and leave no context behind |
| `Group13` | the curve `y^2 = x^3 + 2` modulo 19, 13 points, all scales | every group operation computes the sum; every z ratio is right; batch inversion passes over infinity; what is read off a point is what its affine form says |
| `Multiply199` | the curve `y^2 = x^3 + 7` modulo 211, 199 points: every scalar of 8 bits, three points, batches of two | every multiplication returns the product, from digits that fit their tables |
| `MultiVar` | sums of up to 9 points, batches of up to 6, scratch spaces of every size in steps of 16 | success means every point once; the tables of a batch fit its frame; all paths release their frames |
| `EcdsaSign` | the curve of 13 points, every key, chain of tweaks and message, up to 2 nonces | the halves of a key pair stay together; a public key has one spelling in each form; the bytes of a signature verify, and no other spelling does; one id recovers the signer; both functions agree; verification and recovery agree |
| `HashStream` | words of one byte, messages of up to 36 bytes in all pieces, keys around the size of a block | the padded message is compressed whatever the pieces; HMAC and the generator are those of their RFCs; nonces of different arguments or counters differ |
| `Limbs` | scalars of 8 words of 3 bits, field elements of 4 limbs of 7 bits, operands at every boundary; the chains at their real width | the words always stand for the right residue, and the bounds on carries and limbs that the model keeps of `VERIFY` builds hold; the chains reach the exponents of inverse and root |
| `Clob` | bytes of four values, words of four bytes, integers of three; 2 keys, 2 requests of a kind, 3 markets on pages of 2 | what is sent is what was signed and asked for; order amounts stay within bounds whatever the roundings do; credentials are those issued; one signed order is placed at most once; readers miss nothing; every call ends |
| `ClobComments` (violation) | one order of `Clob`: a token of the upper half, a date after 2038, 20.5 tokens at 0.7 | nothing that the comments say of it is so (`OrderAsCommented`, see below) |

The two runs marked as violations show disagreements between the code and its own comments and documents, quoted in `PROJECT.json`
under `findings`. `NativeShortArguments` ends in a call of `sign` with a secret of no bytes: 32 are read, none was put
there. The state in which `ClobComments` ends shows five things at once:

- the salt is 16 bytes, where the struct says `u256`, so no word behind it is where a contract would read it;
- the date is negative, and `encodeInt` makes a word of it that is not that number, read as a signed one;
- `SignedOrder.toString` reads the token's 32 bytes as a signed number and sends ids from 2^255 on as negative ones;
- to buy, it offers 21 units for 21 tokens: 20.5 times 0.7 prints with too many digits, and both fallbacks round the size instead,
  without the price;
- to sell, the same order would ask for 420 units: that branch multiplies by the size, not by the price.

What the code guarantees all the same is the business of the passing runs: `StaleOnlyIfShort` says which bytes can be
stale, and `AmountsBounded` by how much amounts can be off. `SignedAsAsked` counts the words from the end of the bytes, behind
a salt of any length, and of a negative number takes the last bytes; `PlacedAsSigned` is about tokens of the lower half. Other
disagreements that were met while modelling are listed at the end.

**Why the bounds are enough.** Two threads are what every conflict here needs: a reader
and a writer, two callers of `init`, two allocations. Two addresses let one be freed
and reused while the other is cloned or randomized. In a group of order 3 there are two blinding
scalars to change between, and an exchanged or half-written pair gives a wrong point.
`NativeCalls` has one context and order 2: who waits for whom, and what is in whose buffer, does not
depend on values. For the properties that are proved, the bounds do not matter: the runs find
mistakes early, the theorems hold for all values.

The curve of 13 points is small enough to enumerate every Jacobian form of every point
and has all the special cases: `P = 19` and its group order are both 1 modulo 3, so there
are points whose x coordinates differ by a cube root of unity (the 0/0 case of
`gej_add_ge`), and it has a point with `x >= N`, which on the real curve no test can
find (this is where the `recid` bit 2 and the second comparison of `sig_verify` come from).
`P % 4 = 3` as for secp256k1, since square roots are taken by exponentiation. Two nonces per
signature show a rejected one before a good one in either function; the limit `MaxTries` only
stops the model from drawing more. In `EcdsaSign` a string is one byte of 16 values: scalars from 8 on need a zero in front in
DER, three strings overflow, and every respelling of a signature fits; the tag and length
octets are bytes as well, with `LongForm` above the longest signature as `0x80` is above 72. One tweak may be
under way at a time, and as many as one likes one after the other, since nothing counts them; the pair is
left alone once something is signed. Coordinates are numbers up to 20, two of which overflow.

`Multiply199` needs a longer scalar: on 199 points, scalars have eight bits and, as for
secp256k1, most strings of that width are scalars (`2^Bits < 2N`). Windows of 4 and 5
bits (5 and 16 in the code) then give several digits, a short last window (8, as 256, is not a multiple
of the 3 bits Pippenger takes of two points) and carries at the top. Every scalar is the first
scalar of every algorithm; the second one of a batch, the scalar of `G` and the blinding are
the extreme ones and one in the middle. Points are one point, its negative and infinity, so
batches have equal, opposite and infinite terms, and `ecmult` gets one in other
coordinates. What the table of `ecmult_gen` relies on, that no entry is infinite, is the assumption
`NumsAssumption`: it is a matter of chance in the code and a choice of the point here.

`MultiVar` has three bucket windows and the two algorithms with a threshold between them, structures whose sizes
are not multiples of the alignment, and scratch spaces from too small for one point to enough for all; up to three batches.
In `HashStream` a block is 16 bytes and the length is two words, of which messages from 32 bytes on
need both; 36 bytes are two blocks and a bit. Two nonces, or two calls of the generator, are enough to see the
registers step. The words of `Limbs` are just wide enough for the inequalities the code relies on (the assumptions
`OrderAssumption` and `FieldAssumption`); the operands are 0, 1, the order or prime and its neighbours, the halves, all ones and
words that make carries run through; two scalar operations or three field operations follow each other.

In `Clob` a byte has four values, so that token ids have all the lengths `toByteArray` can give them (one byte more than a word
included) and exactly one bit of sign; integers are shorter than words, and some are negative. The quotes have 24-bit floats, the four
configurations of `RoundingConfiguration`, prices on and off the tick, sizes with a part that is rounded off, small enough
for floats to be dense and so large that they are not, that they print with an exponent, or that the amounts are clamped to
an int. `Floats` is exact for what can be asked for: sizes and prices that are not negative, infinite or NaN, below 10^10.
How many digits a float prints with is taken from the Javadoc of `Float.toString`; JDKs before 19 may print one more.
From 10^10 on, where every amount is clamped, printing is left open. Counters (time, keys, requests of a kind) stop at
2, which is one repetition of everything; reading and quoting come before trading, and the markets of the exchange
are tracked only while somebody reads, since neither has state in common with the other calls.

`CHECK_DEADLOCK FALSE` is set where the system may stop: `SigningClients`, whose threads
may all have died of an exception, `EcdsaSign` at the limit on nonces, `HashStream` after the last user,
`Limbs`, where a calculation ends at its bound.

**Fairness.** `FairSpec` of the class is weak fairness of `Step(t)` for each thread: a thread that can
go on inside a method does. Threads are scheduled by the operating system, so this is
the least one may assume. Nothing is assumed of lock handover: `ReentrantReadWriteLock` is
built in its default, nonfair mode and a monitor has no order either, so a writer that finds
the lock taken again and again may wait forever. Liveness is therefore stated for
the case in which clients stop making calls (`NoNewCalls`): then everyone who is
waiting gets through, also behind calls that throw. Clients are under no fairness.

`FairSpec` of `Clob` is weak fairness of the program inside a call (`Continue`) and of the network
(`Network`): an answer arrives or the connection fails, sometime. The requests are built without a timeout, so
the program would wait for as long as the connection stays open and silent; that it does not is an
assumption about the network and not a fact about the code. Under it `CallEnds` holds for
every call, the reading of a listing included, because the exchange has finitely many markets.

## Proofs

All theorems about the class and its clients hold for every set of threads and addresses, every set of requests with
natural or null lengths, every group order of at least 2 and every blinding scalar
(the named assumptions in `Secp256k1Context`, `NativeSecp256k1` and `SigningClients`, which TLC
evaluates in the runs).

The first part of `SigningClientsProofs` is about the class. It proves that `IInv` is inductive and derives `TypeCorrect`,
`NeverBadPointer`, `MultiplicationExact` and `InitConclusive`. None of these invariants is
inductive alone. `IInv` adds to the types:

- `LinkInv`: what `init` has recorded agrees with what it found, also half way through by
  several threads. Without it, a null context could exist beside a loaded library.
- `OpInv`: where a thread is says which method it is in.
- `LockInv`: who holds the lock is where a method holds it; a writer is alone.
- `AllocInv`: an address about to be returned is not in use, and not twice.
- `HandleInv`: clients hold allocated contexts, and a context in cleanup is held by nobody
  else. With `LinkInv` it gives `NoBadPointer`.
- `PairInv`: the pair of every context cancels out (`initial + blind = 0`), unless a `randomize` is
  between its two writes, and then it will; a thread between its two reads holds the
  `initial` of a pair that has not changed. With `LockInv`, which keeps the two apart, it gives `GenCorrect`.

The arithmetic is in four lemmas on scalars (`MultiplicationCorrect`, `BlindingConsistent`,
`BuiltConsistent`, `ScalarClosed`); the rest is one lemma for each group of actions,
with a step for every action. `StaleBytesAreMissing` proves `StaleOnlyIfShort` without any hypothesis on
the lengths of arguments, from `StageInv`: past the copying, `staged` is the sum of the lengths, which fits the
buffer. What native code reads beyond it is then what is missing from a short secret or tweak, wherever the buffer has been before.

Its second part proves `Atomicity`: `Spec` implements `CurveService!Spec`, with the
allocated contexts as they are, the call of a thread as its request and its result as the
answer. The linearization point is the step in which the result is set; the two-step
operations rely on `IInv` for their first half to be still valid at that point.

Its third part is about the clients. It proves `Conformance` (`ClientSpec => Spec`: all theorems
about the class apply to the program), `NothingLeft`, `PairsAreValid` and
`SignaturesReturned`. The invariant `UseInv` says which call, with which arguments, is under way at each place of a
client; that its context is one it holds; that no two threads have an address in
common (so that a cleanup never takes a context from someone); and what the outcome of a call
tells about the key. It is proved next to `IInv`, from a few facts about what a step of
the class does to a thread other than the one that takes it.

`MultiVarProofs` holds for all sizes of structures, windows, batches and scratch spaces that satisfy
`MultiVar`'s assumptions: `EveryPointOnce` (a successful sum has taken each point once), `BatchesFit` (a batch
that was planned fits the frame it gets), `TablesFit` (no object is refused inside it, so that the pointers the code does not
test are not null), `BatchesHavePoints` and `NoFrameLeaks`. The argument is the
arithmetic of two divisions rounded up, and that the room a plan was made for bounds what every smaller batch, with its
smaller window, rounds up to.

`HashStreamProofs` holds for every width of words and every message: `StreamIsMessage` (what has been
compressed, with what is buffered, is what was written), `DigestIsComplete` (the digest is of whole
blocks, all of them), `DigestOfMessage` (it is of the message, `Pad` and `SizeDesc`) and `DigestIsPadded`: these are the
padding of the standard, with the least number of zeros (`PadIsLeast`), and the length in bits (`SizeIsLength`, by induction over the
digits of the two words). Words of any width are what makes the block sizes variables. `WritesWholeTheorem` compares the loop of
`sha256_write` with the operator `Written`, which the users of the hash are modelled with; its invariant `LoopInv` says that the
rest of the data, put where the loop will put it, makes the object `Written` asks for.

On top of that come HMAC and the generator. `MacRightTheorem`, `OutputRightTheorem` and `NoncesApartTheorem` follow from
`GeneratorInvariant`, for keys of every length, messages in any pieces and any number of draws of any length. Its invariant `RInv` does not speak of the operators of the standard but of the
table of digests: `IsMac(t, key, msg, d)` says that the streams of which d is made are in the table, and stays true when the
table grows (`MacGrown`), which an equation with a `CHOOSE` in it would not. `IsRound`, `IsSeeded`, `IsBlocks` and `IsSeeds`
build the registers of a generator out of it, draw by draw, so that what the code does (`NextKIs`, `HmacIs`) and what RFC 6979 says
(`StdHmacIs`, `StdDrawIs`) can be compared in one state. For the nonces, a draw is followed back to where it began (`Unwind`): a padded stream determines the
message (`PaddedApart`), a code its key and message (`MacApart`: the key is a digest, so two of them differ in every byte), a step the
registers before it (`RoundApart`), and the bytes that separate the steps tell the seed from a later draw; key data are then taken apart by their lengths (`KeyDataApart`).
What is assumed is what a digest is for: different streams have different digests (module `Rfc6979`). `ArgsAssumption`, `DrawsAssumption` and `MacsAssumption` say what kind of values the constants have; `PowersAssumption` of `Sha256` is the definition of
`256^n`.

`ClobProofs` holds for every exchange, every number of keys, requests, markets and page sizes: `SentAsSigned` (what the headers
sign is the request that is sent, although the body is copied with its quotes replaced), `IssuedOnly`
(the program never goes on with credentials that were not issued to it, through refusals, error bodies and
repetitions), `AllRead` (a reader that has come to the end has every market that was there when it began) and
`OrderPlacedOnce` (the exchange never has more orders than were asked for, whatever answers are lost and which calls are
repeated). `AskedIsSigned` and `SignedIsPlaced` say the same of the contents: the bytes under a signature, cut into
words, are the order that was asked for, and what the exchange took says in numbers what was signed in bytes. All three rest on `OrdersInv`:
what the program holds is the signed order of the arguments it asked with and of the last salt, what is on its way is that order as it is sent,
everything in the book is the order of one of the salts so far, sent under some key, and no two in the book carry the same signature.
The rest is about digits: `UnsignedIs` (a number smaller than `BYTE^WORD` is what its `WORD` digits say, by induction over them),
`TokenWord` (`pad64` of `toByteArray` is the word, whether the array is shorter, of the same length, or one sign byte longer),
`IntWord` (so is `encodeInt` of an int that is not negative; of a negative one the last bytes are its value modulo `BYTE^INT`), `SignedIs` (what
`SignedOrder.toString` reads back), and `CutMore` (a word more leaves the words before it in their places).
Beyond the widths in `EncodingAssumption` they assume that tokens are `uint256`, dates and nonces ints, and that the amounts asked for
come out as ints that are not negative (`OrderAssumption`), and the definition of `BYTE^n` (`PowersAssumption` of `OrderEncoding`). For
the words of negative dates as a whole, of which `SignedAsAsked` has the last bytes alone, `ClobComments` shows what goes wrong.

The proofs about the algorithms hold for every curve `y^2 = x^3 + B` without a point of order two whose prime and order lie as in
`CurveAssumption` (`P % 4 = 3` and `N < P < 2N`, as for secp256k1). What they assume beyond that is that the curve is one of the kind meant:
`PrimeAssumption` (inverses modulo `P` and `N` exist), `GeneratorAssumption` (the points are the `N` multiples
of the generator, and `PointAdd` adds the multiples) and, for `GroupProofs`, `SquareAssumption` (of a number and its negative
one is a square modulo `P`). These are facts of mathematics about constants, not about the
code; TLC evaluates them in full on the curves of the runs. `PointProofs` derives from them what the rest
uses: congruences modulo a prime and their cancellation, the inverses, when two points have an x coordinate in common, that
negation changes the parity of y.

`GroupProofs` proves `SumRepresented`: whatever sequence of operations is carried out, the accumulator is the sum, in some Jacobian form
(`Represents`). The invariant is `Stands`, the same said so that it can be
multiplied out: `x = X z^2` and `y = Y z^3` modulo `P`, with `z # 0`, instead of a quotient. Each formula of
`group_impl.h` is followed line by line as a polynomial in the affine coordinates, the slope of the line through the operands and z
(`OnLine`, `ChordStands`, `DoubleStands`, `UnifiedStands`), and each branch of the variable-time
additions is shown to be taken for the operands it is meant for. For `gej_add_ge`, which has no branches,
the case in which its slope is 0/0 needs an argument of its own (`CubesDiffer`: x coordinates that differ while the
y coordinates are opposite), as does the choice of the alternative slope, which is the same slope whenever both are defined (`UnifiedSlope`).
`RatiosRight` (the z ratio an addition or doubling returns is the right one), `CoordinatesTyped` and `ReadsRight` come from the same
invariant. The last says that what is read off a point without an inversion is right: whether it is valid, its x, whether its y is a square.
`AllRight` is about batch inversion. Its lemmas `AllInverted` and `AllSet` hold for sequences of any
length, with points at infinity anywhere in them. The library's induction theorems cannot be used (they take operators), so
`LeastNumber` derives from a well-founded order what `Induction` needs for the members of a set, and
`Recursion` that what iterates a function exists; the products from the left and the way back are instances of it.

`EcdsaProofs` is about `DerivedKeys`, that is both signing functions, verification, recovery, tweaks and the other
side of a pair. Its inductive invariant `Inv` adds to the types

- `CallInv`: where a call is in its loop, every nonce before has been tried and rejected;
- `OutInv`: what either function has returned is the signature of the first nonce that is not rejected, or the refusal of a key that
  is not valid;
- `PairInv`: the other side is as far as the signer or exactly one tweak behind, and in that case nothing is signed.

The theorems are `SignAlike` (both functions return the same), `PairsTogether` (tweaks commute with taking the
public key, and ECDH agrees), `VerifyRecovers` (a pair verifies for exactly the keys it recovers), `SignedVerifies` and `SignerRecovered` (what
was signed verifies, and exactly its own id recovers its signer), `OneSpelling` (a public key has one string in each
form) and `OneFormTheorem` (verification takes the string that was returned, and none of the other spellings of the signature).
The core of the first five is that `x(R) mod N = r` has at most two solutions x, `r` and `r + N`, and each at most two
points, which the two bits of the id tell apart; and that negating `s` negates `R`.
`OneFormTheorem` is about bytes: `ValueIs` (the digits of a number are worth the number, by an induction over them) and `SerializedIs`
(what `SerializeInteger` leaves still holds the number, is not taken for negative and cannot be shorter); `ParseDerOf` says what
the parser makes of two contents in a tuple, for any lengths and anything left over, and `Respelled` that of all the ways to write a scalar
one alone is both shortest and not read as zero. For this `Encodings` assumes the definition of `Byte^n`
(`PowersAssumption`) and that a string and the tuple's length fit (`EncodingsAssumption`), `Ecdsa` that strings are below `Byte^Bytes`
(`StringsAssumption`); 256, 32 and 0x80 satisfy both.
`SignedVerifies`, `SignerRecovered` and `OneFormTheorem` exclude `r = 0`, as `ecdsa_sig_sign` does by a `VERIFY_CHECK` (see below).

`MultiplyProofs` proves `ProductTheorem`: every multiplication returns the product, for every curve, every width `Bits` with `N < 2^Bits < 2N`,
all widths of windows and all scalars and points; and `DigitsFitTheorem`. What it assumes beyond the curve is `WindowAssumption` and
`InputAssumption` (the kind of values the constants have), `NumsAssumption` (the table of `ecmult_gen` has no point at
infinity, which the code relies on) and `PowersAssumption`, the definition of `2^n`, which the provers do not have. The argument has four layers:

- *Sums.* `SumTo` is the sum of a function on `0 .. n - 1`, from `PartialExists` with `Induction`: the backends have no
  sums, and the number that digits stand for is one (`Low`).
- *Recodings.* `EcmultWnafRight`, `WnafFixedRight` and `WnafConstRight`: the digits add up to the scalar (and its skew; in constant time
  modulo `N`), and each is odd, or zero where that is allowed, and fits its table. `ecmult_wnaf` is followed from every bit on
  for either carry; `wnaf_fixed` and `wnaf_const` window by window, with the digit below changed whenever a window is even.
- *Points as multiples.* `Rep(Z, a, x)`: the Jacobian point `a`, on the curve isomorphic by `Z`, stands for `x*G`. With
  `Order` (`G` has order `N`), every operation of `Jacobian` is one on integers (`RepDouble`, `RepAddGeVar`, ...). The tables
  follow: `OddChain` and `ChainAppend` (odd multiples with the ratios of their z coordinates, for one point after the other), `GlobalzRight` and
  `SetTableRight` (brought to one z coordinate, or to none), `GenTableRight` (the rows of `ecmult_gen`, whose offsets add up to nothing).
- *Loops.* `MultInv`: what the accumulator stands for, doubled for every position still to come, and the digits below it add up to the sum
  the call is for (`Horner`). For Pippenger's buckets, `BucketsDigit` and `SumsAdd` say that the running sums count bucket j
  `2j + 1` times; for `ecmult_gen` the accumulator has the windows taken so far, their offsets and `-b`.
  Each algorithm has a lemma that it starts, goes on and ends in this way (`StraussStarts`, `StraussSteps`, `StraussEnds`, and so on).

`Product` alone says nothing of a call that is under way; `MultInv` is what makes it inductive.

Checked only, not proved:

- liveness under fairness (`CallsReturn`, `CallEnds`), which the prover does not do;
- `ScalarRight`, `FieldRight` and `ChainRight` (`Limbs`),
  and `AmountsBounded` (`Clob`): they are about numbers written in digits, bytes or words of a
  parameter's width, that is, sums over powers. The backends know nothing of `^`, so every one of them needs an induction over its digits written out, as
  `SizeIsLength` and `DigitsFitTheorem` are for one sum each; here there are several per operation, with carries between them. TLC takes every scalar of a whole small group, all tokens and dates of small words, and operands at every boundary.

## What is not modelled

- `NativeSecp256k1.setEnabled` called by a client, documented for clients that load the
  library themselves; no code here does.
- The endomorphism, which the build leaves out (`USE_ENDOMORPHISM`), with what only it uses: `split_lambda`,
  `split_128`, `mul_shift_var`, `ge_mul_lambda`. `field_5x52` and the assembler are not compiled either.
- The storage form of group elements and the 64-byte structures of keys and signatures, which nothing but
  the library itself reads; the order of coordinates as bytes.
- The rounds inside SHA-256's `transform`: a digest is the stream that was compressed. Keccak is third-party.
- The class tree `eth.eip712.types`, which nothing uses, and the type hashes, which are constants.
- The bytes of JSON; the text of headers; hexadecimal conversions.
- HTTP itself: a request is answered or fails. What an exchange checks is modelled as far as the answers differ.
- `libs/uint128_t`, `ecmult_static_context.h` and its generator, the build: third-party,
  generated or without behaviour. `ecmult_static_context.h` alone is half of the repository's
  lines of code. Orders v1 and v3 are unfinished variants of v2 that nobody calls.

## Met while modelling

Disagreements between the code and its documents, or surprises, that no run is about:

- `sEnabled` starts as true: `contextCreate` before `init` fails with an `UnsatisfiedLinkError`, though the field
  is documented as "true if the library is loaded". The programs here call `init` first.
- `muladd`, `muladd_fast` and `muladd2` of `scalar_4x64_impl.h` convert a product to `uint128_t` after the multiplication,
  `(uint128_t)(a * b)`: without assembler its upper half is lost and every scalar product is wrong. The CMake build selects
  `USE_SCALAR_8X32`. In the model this is the mutant `ProductNarrow`, which `ScalarRight` notices.
- Tweaks are not bounded from below, and the buffer is only made as large as the arguments: after a short
  tweak the glue code reads beyond its end, if no earlier call of the thread needed a larger one (`StaleOnlyIfShort` says
  that nothing else does).
- `verify` bounds each array by 520 and the buffer is 520 bytes in all: long arrays end in a `BufferOverflowException`.
- `randomize(null)` is dereferenced before it is compared with null.
- `createAPIKey` posts to `/auth/derive-api-key`; `ClobAuthStruct` documents `/auth/api-key`.
- `getSamplingSimplifiedMarket` asks for `/sampling-markets`; its comments say `/sampling-simplified-markets`.
- The type string that `OrderStruct.typeHash` hashes has no `tokenId`, which `encodeData` does encode; the JSON of an order lacks the
  salt, the addresses and the signature type.
- Amounts are never scaled by 10^6, because `decimalPlaces` is never 0; and since `powOf10(0)` is 10, whole amounts are rounded through a
  float ten times as large, which `Math.round` clamps to an int: no amount is above 214748368.
- `powOf10(10)`, which the fallback for a tick of 0.0001 asks for, wraps around to 1410065408.
- The status of an HTTP answer is not looked at; an error body becomes credentials without members.
- `ecdsa_sig_sign` leaves it to a `VERIFY_CHECK`, which a release build drops, that `r`, the x coordinate of the nonce point modulo the
  order, is not 0. With `x = N` the signature `(0, s)` would be returned and would not verify. secp256k1 has such a point (`N^3 + 7` is a square
  modulo `P`), though nobody knows its nonce; the curve of the run has none, so TLC cannot meet it, and it was the proof that could not do
  without the condition.
- `privkey_tweak_add` and `privkey_tweak_mul` do not look whether the key they are given overflows, as all other functions do.

## Plan

Most important first; all of these are done.

1. `Secp256k1Context`, `NativeSecp256k1`: the class and its contexts; type, pointer, blinding, loading and buffer properties.
2. `CurveService` and the refinement.
3. Proofs of both.
4. `Curve`, `Group`, `Ecdsa`: the algorithms that produce a signature.
5. `SigningClients` on top of the class, with proofs.
6. `Recoding`, `Tables` and `Multiply`: all multiplications, on real points.
7. `MultiVar` on `Scratch`, with proofs for all sizes.
8. `HashStream` and `Rfc6979` on `Sha256`, with a proof that what is compressed is the message.
9. `Clob`: credentials, headers, orders and listings against an exchange and a network that fail, with proofs;
   `OrderAmounts` and `OrderEncoding` below it.
10. `ScalarLimbs`, `FieldLimbs` and `AdditionChains`.
11. `Encodings`, `Keys` and `DerivedKeys`: bytes, tweaks, ECDH.
12. `PointProofs`, `GroupProofs` and `EcdsaProofs`: the algorithms for every curve; `OrderPlacedOnce`.
13. `MultiplyProofs`: the recodings, the tables and every multiplication.
14. The second half of `HashStreamProofs`: HMAC, the generator and the nonces for every key and message.

Left: `field_5x52` as an instance of `FieldLimbs` (its limbs are as wide, its reduction is written differently); the
endomorphism, if a build ever turns it on; theorems on what the clients get from `CurveService`
directly, and on single limb operations (a carry at a time, without the sum over all limbs).
