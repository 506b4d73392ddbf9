# Verification of leancrypto

This directory holds TLA+ models of leancrypto, the TLC configurations that
check them on small instances, and theorems about them that the TLA+ proof
system (TLAPS) checks for every value of the constants. `PROJECT.json` is the
index: components, runs, mutants, the source lines behind each definition,
findings, hazards and theorems.

leancrypto is a C library of cryptographic algorithms without dependencies. Most
of its lines are arithmetic on data: permutations, field and lattice arithmetic,
often in several assembler variants. Those are tested with known answers and
are out of reach of a model checker. What is modelled here is the part of the
library that has *state which outlives a call*: who may use an algorithm and
when, when the shared generator must be reseeded, which certificates are
trusted, what a context remembers between the pieces of a stream, how the two
ends of a key exchange agree, and what the decoder of certificates makes of the
bytes it is given. Primitives are ideal in these models: a permutation, a block
cipher, a KEM or a signature scheme is a function of which nothing is known
but its arguments.

## 1. Inventory

| Component | State | Operations | Talks to |
|---|---|---|---|
| Self-test status (`internal/src/status_algorithms.c`, `internal/api/compare.h`, `internal/src/compare.c`, `status_api.c`) | three bits per algorithm in several 32 bit atomics | `alg_status_get_result`, `alg_status_set_result`, `alg_status_set_testresult`, the sweeps of `alg_status_set_common`, the macros `LC_SELFTEST_RUN` and `LC_SELFTEST_COMPLETED` | called by the init function of every algorithm; self tests call the checked API of other algorithms |
| FIPS integrity check (`internal/src/fips_integrity_check.c`, `fips_integrity_checker_elf.c`, `hash/src/sha3_selftest.c`) | the library field of the registers | constructor, `lc_fips_integrity_checker` (re-run at any time), `lc_activate_library_selftest_init/_fini` | hashes the image with SHA3-256, opens or closes all other algorithms |
| Library start (`internal/src/leancrypto_init.c`) | the library field, the selected implementations | `lc_init`, `lc_activate_library_internal` | status registers, implementation selectors |
| Seeded RNG (`drng/src/seeded_rng.c`) | one DRNG, byte counter, time of the last seed, pid | `lc_rng_generate/seed/zero` on `lc_seeded_rng`, destructor | XDRBG-256, entropy source, clock, `getpid`, spin lock |
| Spin lock (`internal/api/mutex_w.h`) | a flag and a counter of waiters | lock, unlock | seeded RNG |
| Deterministic RNGs (`drng/src/*`) | key/state, `initially_seeded`, reseed counters | instantiate, reseed, generate, zero | hash, HMAC, AES, KMAC, cSHAKE, ChaCha20 |
| Hashes and XOFs (`hash/src/*`) | buffer, fill level, squeeze offset | init, update, final, absorb/squeeze | self-test status |
| MAC, KDF, OTP (`hmac`, `kmac`, `kdf`, `otp`) | inner and outer hash state, counters | init, update, final, generate | hashes |
| Symmetric ciphers (`sym/src/*`) | key schedule, chaining value, counter | setkey, setiv, encrypt, decrypt | self-test status |
| AEAD (`aead/src/*`) | cipher and MAC state, position in the stream | setkey, enc_init, enc_update, enc_final and the same for decryption | ciphers, hashes, secure comparison |
| ASN.1, X.509, PKCS#7/8 (`asn1/src/*`) | decoder stacks, certificate objects, signer infos with cached digests, singly linked trust store | compile a grammar, decode, `lc_pkcs7_trust_store_add/_clear`, `lc_pkcs7_supply_detached_data`, `lc_pkcs7_get_digest`, `lc_pkcs7_verify` | signature algorithms, hashes |
| ML-KEM, ML-DSA, SLH-DSA, BIKE, HQC | keys, ephemeral values of a key exchange, streamed message hash | keygen, enc/dec, sign/verify, KEX roles, IES | hashes, RNG, self-test status |
| Curve25519, Curve448 | none | scalar multiplication, EdDSA | hashes |
| Internal helpers | none, or CPU feature flags | secure comparison, zeroization, CPU features | all |
| Glue (kernel, EFI, Rust, Python, applications) | parameter objects of the environment | forwards to the library | all |

What makes the behaviour hard:

* *Concurrency without locks.* The status registers are plain atomics. Reading
  a field, running the test, resetting *all* fields because another test failed
  and re-running the integrity check are separate atomic operations of any
  number of threads; the sweeps over the registers are not atomic as a whole.
* *Two critical sections for one operation.* A call of the seeded RNG makes the
  generator ready, unlocks, locks again and uses it.
* *Fork.* A child inherits the generator, the lock and the counters.
* *Failure paths.* Every reseed may fail half way; a self test may fail after
  it has already passed a vector, or return without a verdict.
* *Linked shared objects.* The trust store is a list appended to by
  compare-and-swap whose certificates carry scratch bits of the verification
  that walks them.
* *Streams.* Many operations may come in any sequence and any portion, on a
  context that has been used before, perhaps for something that was given up.
* *Caches.* A message keeps digests, an ML-DSA context an expanded matrix, a
  KMAC context a keyed copy; a flag tells whether they are good.
* *A network.* The messages of a key exchange may be lost, repeated or crossed.
* *Lengths from outside.* The decoder follows lengths that it reads.

What makes each component correct is listed in section 5. The hazards, each with its source
line and the properties that would catch it going wrong, are in
`PROJECT.json` under `hazards`.

## 2. Modules

| Module | What it is |
|---|---|
| `AlgStatus` | the self-test status machine with the integrity check, `lc_init` and the status API |
| `SelfTestGate` | abstract specification: what the status machine promises to users |
| `SeededRng` | the seeded RNG with its lock, forks, failures and destructor |
| `TrustStore` | the certificate trust store and the climb through certificate chains |
| `TrustAnchors` | abstract specification of the trust store |
| `Pkcs7Message` | verification of a PKCS#7 message with its signer infos and cached digests |
| `Asn1Compiler` | from the elements of a grammar to a decoder program |
| `Asn1Grammars` | nine grammars of the library and two of its generated programs |
| `Asn1Decoder` | the machine that runs a decoder program over data |
| `Sponge` | operators: absorbing and squeezing of Keccak and Ascon |
| `HashStream` | the hash API on a context: SHA-3/SHAKE, Ascon, SHA-256 |
| `Kmac` | KMAC as MAC, as XOF and as random number generator |
| `KdfRng` | HMAC, and HKDF and the counter KDF as random number generators |
| `Drbg` | XDRBG, Hash DRBG, HMAC DRBG, CTR DRBG, ChaCha20 DRNG |
| `Modes` | CBC, CTR, XTS and key wrapping of a block cipher |
| `Aead` | AES-GCM, ChaCha20-Poly1305 and Ascon-AEAD128 as streams |
| `GcmIv` | the first counter block of GCM |
| `KyberKex` | the UAKE and AKE key exchanges over ML-KEM |
| `MlDsa` | a context of ML-DSA with its matrix and options |
| `AlgStatusProofs` | theorems about `AlgStatus` |
| `TrustStoreProofs`, `DrbgProofs`, `ModesProofs`, `AeadProofs` | theorems about the module of that name |
| `RngProofs` | theorems about `SeededRng` and `KdfRng` |
| `AsymmetricProofs` | theorems about `KyberKex`, `MlDsa` and `Pkcs7Message` |
| `SpongeProofs` | theorems about `HashStream` and `Kmac`, and the lemmas about `Sponge` they rest on |
| `MCAlgStatus`, `MCTrustStore`, `MCPkcs7`, `MCDecoder`, `MCCerts`, `MCAsn1` | small instances and their data |
| `MCProgress` | the self-test machine, the seeded RNG and the trust store in one run, for progress |
| `MCContexts` | all other components in one run, each on its own |

Which module uses which: `HashStream`, `Kmac` and `Aead` extend `Sponge`;
`TrustStore` and `AlgStatus` instantiate their abstract specifications;
`Asn1Decoder` extends `Asn1Compiler`, whose programs it runs. `MCContexts`
extends the modules with theorems (`HashStream`, `Kmac`,
`Aead`, `Modes`, `Drbg`, `KyberKex`, `KdfRng`, `MlDsa`, `Pkcs7Message`, `TrustStore`), so that a run checks the very
definitions the theorems are about, and instantiates the decoder; `MCProgress` extends `AlgStatus` for the same
reason (its constants are those of part `plain`) and instantiates three more
self-test machines, the seeded RNG and the trust store. Both put their parts side by side with a variable `part` that
says which of them runs while the others stay as they began: the contexts of a
program do not share state, so that their product would show nothing more.

### AlgStatus

*State.* `status[a]` is the three bit field of algorithm `a`; the bit patterns
000, 001, 011, 111 form a chain, so a field is a number 0 to 3 and ORing two
patterns gives the larger number. `RegOf` puts the fields into registers,
because a sweep writes one register at a time. `pc[t]` is the place of a thread
inside the library and `cur[t]` the algorithm whose test or check it executes.
Self tests nest (a self test calls the init function of another algorithm, the
integrity check calls SHA3-256): `caller[t][a]` says who called the test of
`a` in thread `t`.

*Actions.* Each is one atomic operation of the code with the private
computation up to the next one. The path of a use is

    Use -> (ReadLib, SHA3-256 only) -> ReadOwn -> Mark -> ComparePasses*
        -> Completed -> Finish

that is `LC_SELFTEST_RUN`, the self test with its calls of
`lc_compare_selftest`, `LC_SELFTEST_COMPLETED`, and the service. A failing
compare takes `CompareFails`, then in FIPS mode `DropRegister` once for each
register (`alg_status_unset_test_state`), then `RecordFailure`. The constructor
starts at `Claim`; a re-run starts with `InitRegister` for each register; both
go through SHA3-256's own test to `Digest`, `Fini` and `ReopenRegister`.
`lc_init` is `Activate` and `OpenRegister`. `RerunOne`, `RerunAll` and `Disable`
are the status API: in FIPS mode the first two run the integrity check and the last is
refused, else they clear one field (`UnsetOne`) or sweep all of them (`UnsetAll`,
`OpenRegister`).

*Constants.* `Dep` says which algorithm the self test of another one uses,
`Vectors` how many comparisons a self test makes, `BadAt` which of them does
not match (0 if the algorithm is sound), `Silent` the self tests that return
early without a verdict when their dependency refuses. These are facts of the
build and the hardware, so they are constants and every theorem holds for all
of them.

*Abstractions.* Wording of error codes, the waiter's back-off and the value of
digests are left out. A broken SHA3-256 may compute any digest. The library
image may stop matching at any time (`Tamper`) when `Tampering` is set.

### SelfTestGate

Verdicts `untested`, `good` and `bad` for each algorithm and what each user is
served. A verdict may be withdrawn at any time for any set of algorithms; a
broken algorithm never gets `good`; a user is served only by an algorithm whose
verdict is `good` *at the moment it is admitted*. `AlgStatus!Promise` maps
`passed` to good, `failed` to bad, and a thread is served while it is at
`served`. The integrity hash is excluded: `lc_activate_library_selftest_fini`
marks it passed by the evidence of the digest and not of its own test.

### SeededRng

*State.* The generator itself is abstracted to `level` (zeroized, one seed, both
seeds of its instantiation) and `origin`, the process in which it last received
entropy. `bytes`, `last`, `pid` are the fields of the C struct, `lock` its
mutex. `newpid`, `init`, `left` and `site` are local variables and return
addresses of the functions of a thread.

*Actions.* `Get` is the lock and first test of `lc_get_seeded_rng`; `Setup` is
`lc_seeded_rng_init_state`; `Check` is `lc_check_reseed` with
`lc_seeded_rng_must_reseed`; `Seed1` and `Seed2` are the rounds of
`lc_seed_seeded_rng`, whose bookkeeping is `Commit`. `Relock` is the second lock
of the operation, `Chunk` a turn of the loop of `lc_seeded_rng_generate`,
`Insert` the caller's data in `lc_seeded_rng_seed`, `ZeroState` the destructor.
`Fork` follows the child: a copy of all memory with one thread.

*Abstractions.* Output lengths are counted in units such that
`LC_SEEDED_RNG_MAX_CHUNK` is a small number. Clock readings are arbitrary
elements of `Clock`, they may step backwards. Data of the caller counts as no
entropy. The code between two steps of a thread that holds the lock is not
split where no other thread can observe the difference.

### TrustStore

*State.* `next` holds the next pointers of the certificate objects and, at
`Anchor`, `trust_store->anchor_cert`; `seen` is the bit of that name in each
object. `x` is the local variable `x509` of `lc_pkcs7_verify_sig_chain`, `chain`
its argument `certificate_chain`, `at` the pointer of a loop over the list.
`given` and `wiped` remember which objects are in the list or on their way
into it and which ones a clear has emptied; `entitled` is a history variable for one
property.

*Actions.* `Add` is `lc_pkcs7_trust_store_add` up to the climb, `Detach` and `Swap`
(one compare-and-swap of the append) are its end. `VerifyChain` is the call of the
climb at the end of `pkcs7_verify_one`, with or without a trust store. The climb
itself is `ResetSeen` for each certificate of the list, then `MarkSeen` and
`Climb` for each turn of its loop. `Clear` is `lc_pkcs7_trust_store_clear`, which
empties the objects but leaves the head pointer as it is.

*Abstractions.* A certificate is a row of constants: its identifiers, those
it names as its issuer's, its key (`KeyOf`), the key it is signed with, and the
results of the policy functions. `Walk`, `Kept` and `Verdicts` are the loops over
the list as recursive functions of the pointers, the list or the number of turns. A search of a list is one step: pointers only change
from NULL, at the end of the list. The digests of a message and the signature of
its signer come before the climb: they are in `Pkcs7Message`.

*Contract.* Callers offer each object to the store once and clear the store
when no other thread uses it. The header does not say so, but an object that is
added twice truncates the list at itself.

*TrustAnchors* is a sequence of certificates to which one is appended at a time,
a root CA or one that is signed by the key of an earlier member.
`TrustStore!Promise` maps the objects that are linked from the head and not
wiped to this sequence.

*Pkcs7Message* is `lc_pkcs7_verify` around the climb, whose end is one of the
facts about a signer info. `digests` and `useAttrs` are the digest and the
attribute pointer that `pkcs7_digest` leaves in each signer info; `Verify`,
`GetDigest` and `SupplyDetached` are the calls of the interface. Digests and
signatures are ideal. `proper` is a history variable: no call has met a digest that
was wrong, or taken one before there was content.

### Asn1Compiler, Asn1Grammars, Asn1Decoder

An element is what the parser of `asn1_compiler.c` leaves: a kind, a tag,
children, an action and flags. `Render` is `render_element` and the functions
it calls, `Compile` adds the end of the program, the elements that are rendered
once and called, and the jumps. `Asn1Grammars` writes nine root grammars of the
library as elements, among them a whole X.509 certificate and a whole PKCS#7
message; `CompilesAsGenerated` compares the programs of two of them with the
byte code that the repository holds, instruction by instruction.

`Asn1Decoder` has one action for each group of opcodes: `Match` (the six
matching opcodes with their variants), `End`, `Act`, `CondFail`, `Return`,
`Complete`. `cons` and `jumps` are the two stacks of the C function, `matched`
and `last` the flags. An action of the grammar may refuse, which ends the
decoding. Actions get the tag and the bytes of their element. `Readings` is the
reference: which elements the data hold, by recursion over the grammar and without
a program or stacks. Its constant `AsCommented` decides in which data the bit for
constructed elements may differ from the program's tag: `FALSE` is the comparison of the
code, `TRUE` the comment above it. The limit `ASN1_MAX_DATASIZE` on the input is left out.

### Sponge, HashStream, Kmac

A sponge state is what was XORed in before each permutation and since the last
one; two contexts give the same byte if they agree on both. `HashStream` is
`lc_hash_init`, `_update`, `_set_digestsize`, `_final` on a context that is used
again and again; SHA-256 is its buffer of a block and the sequence of blocks
that went through the compression function. `Kmac` is keyed with one block for
the key; `shadow` is the copy of the keyed state that `lc_kmac_reinit` takes back.
As generator it is squeezed and fed in turns, seeded or not; it may be
reinitialised at any time it has a shadow, and makes no MAC shorter than `MinMac`.

### KdfRng, Drbg

`KdfRng` has the HMAC context with its inner hash state, the counter, the partial
block and the flag of the two generators. `Drbg` writes each generator as a
straight-line program over named registers (`Set(to, f, of)`), with a table of
the values computed so far; `Computable` closes a set of values under all
functions and inverts none but XOR (and takes concatenations and copies apart), `Origin` follows the arguments back. A
register that C code forgets to update, or updates too late, is the same
mistake in the program. `putOut` and `seeds` are history variables: what was put out,
each block with the inputs it has to depend on, and the inputs since the generator was
zeroized. Counters are numbers: the carry of the 32 bit words of ChaCha20's counter
and the 64 bits of `reseed_ctr` are left out, and a fixed output of a primitive that
happens to be equal for different arguments does not occur.

### Modes, Aead, GcmIv

AES is a table of the blocks it was applied to; a byte is a set of atoms whose
XOR it is. `Modes` has the four modes with their chaining value, counter,
tweak or tag, and turns from encryption to decryption with the same key. `Aead`
seals a message after others were given up half way, changes it perhaps on
its way (a byte, the length, the boundary between additional data and
ciphertext) and opens it. A byte of key stream is known by its block
and its position. `GcmIv` is the function that derives the first counter block.

### KyberKex

`mem` is what an initiator keeps between its two calls: the ephemeral key, the
ciphertext for its peer and the secret `tk`. `InitiatorInitFails` is a call that
runs out of random numbers: it leaves new tags, perhaps a new key pair, and the
rest of the call before. The network is the set of all messages
sent so far, any of which may be delivered to anybody at any time. The KEM is ideal
with implicit rejection; keys of another type are refused by their tag.

### MlDsa

`ahat` and `expanded` are the matrix in the context and its flag, `memory` says
whether the context has room for a matrix, and for one of this parameter set.
One-call operations use and leave the matrix, streamed ones zeroize the context
at their end. `external` is the option that replaces the hash of the message.
Callers drop the matrix before they change the key (`MayUse`), which
`lc_dilithium.h` asks of them; a context without room for one may be used with any key
at any time. A signature that is rejected before the message is hashed leaves the hash
in the context, which the model clears: the next operation starts with a new one.

## 3. Runs

Passing runs:

| Run | Question | States |
|---|---|---|
| `AlgStatusFips` | FIPS mode with a broken hash, a broken `y`, a two-vector `x` that `y` uses, pairwise tests, two checkers, `lc_init`, an image that changes: types, `BrokenNeverServed` and the refinement `PromiseKept` | 697 k |
| `SeededRngSound` | two threads, a fork, every fault, a destructor that runs alone: types, `OwnStream`, `FullySeeded`, `ForcedReseed`, `OverrunBounded` | 298 k |
| `Progress` | six instances (below), for `AnyCallReturns`, `LockReleased`, `ErrorIndicatorStays`, `GateClosed` and `FailuresAreSound` | 193 k |
| `Contexts` | the other components one by one, with 25 properties | 352 k |

Runs that show a disagreement, see section 8:

| Run | Property that is violated |
|---|---|
| `AlgStatusRerunFailure` | `LibraryStaysFailed` |
| `AlgStatusSilent` | `TestingCompletes` |
| `SeededRngNoClock` | `FullySeeded` where `get_time()` returns 0 |
| `TrustStoreClimbers` | `RejectedHasNoChain` when two threads add intermediate CAs |
| `AsconAbsorb` | `DigestOfEveryMessage` |
| `GcmIv` | `IvsGiveBlocks` |
| `Pkcs7Again` | `AcceptedIsConsistent` |
| `Asn1Methods` | `MethodsAsCommented` |

`CHECK_DEADLOCK FALSE` is set where the system really stops: every thread or
caller has a bounded number of calls, a message and a decoding have an end.

### Bounds

*Self-test status.* Algorithms `x` and `y`, the integrity hash and the library
field. Two registers with the fields shared in both ways (an algorithm with the hash, an
algorithm with the library field) show writes that must not touch their
neighbours; four, one field each, show every order in which a sweep meets the
library field. Two calls let a thread come back after its first call changed
the status; three threads are needed where they erase each other's work. Two
vectors for one algorithm interrupt a self test between its verdicts.

*`Progress`.* Part `degraded`: three threads with one call each meet the failing
test of `x` in every phase of the failure path. Part `plain`: two threads without FIPS
mode, where a failure sweeps nothing, with the whole status API. Part `gate`: one checker and one
user, two calls each, four registers, an image that may change. Part
`crowd`: one checker and two users with one call each, so that a self test
may be overtaken by a re-run while a third thread looks. Part `rng`: two
threads, every fault, a destructor beside users, `SizeMax = 3` so that the counter
saturates. Part `store`: one thread adds CAs, the other a root, or verifies a
message whose certificates issue each other.

*Seeded RNG.* `Max = 2` units, requests of 1 and 5: one below the limit, one that
takes three turns of the loop and meets the reseed check twice. `SizeMax = 20`
leaves the counter room, so that `OverrunBounded` is not the work of its
saturation. `Clock = {1, 3}` with `MaxTime = 1`: a reading is late or not, and
the clock may step back.

*Trust store and messages.* `r` and `s` share all identifiers but not their
keys, so that the first match may be the wrong one; `i` and `j` make a chain of
three; one CA is expired, one certificate no CA. Messages: a chain that
ends in the store, a circle, a copy of a root, a CA without critical key usage.
The thread that builds the store has three calls, the other one. Signer infos:
every combination of attributes, what was signed, and the end of the chain; two
of them in a message for the more plausible ones.

*Decoder.* Words of all nine grammars, written with short, long and indefinite
lengths, each of them whole, cut short anywhere, with octets behind it, and with
any one octet replaced by a boundary value or moved by one: about 5 700 inputs. The
PKCS#7 words fill nine of the ten entries of the stack of elements.

*Streams.* Rates and block sizes of two to five bytes and pieces from nothing to more
than a block: an update may end before, at and behind the end of a block, with and
without a block begun before. Messages of two blocks and a padding block. GCM
has three counter values and messages of up to seven bytes with blocks of three, so that
the counter wraps and its limit is met; two initial values, one of them the last.

*Generators.* Four calls: seed, reseed, request, and one in between or after.
Requests of nothing, less than a chunk and more than one. A ChaCha20 key has
two words and a block four, as the real ones have eight and sixteen.

*Key exchange.* Three parties, one with a key of another type, so that an
answer of the right type may come from the wrong party and a wrong type is met;
three calls that draw random values, so that an initiator starts again or
two exchanges cross. Section 6 removes all bounds of this model.

*ML-DSA.* Two keys, two user contexts, messages of up to two symbols, and an
external mu that is that of a message.

*KMAC.* `MinMac = 2`, so that a MAC that is too short is asked for.

The theorems of section 6 remove the bounds for the properties they name.

## 4. Fairness

Liveness is checked by `Progress`, whose specification is
`AnySpec`; the other passing runs check safety. `AnySpec`, like the `FairSpec` of a
component (under which `AlgStatusSilent` does not end), assumes weak fairness
of `Step(t)` for each thread: a thread that is *inside* a library function keeps
being scheduled. It does not assume that users make calls, that an image is changed, or that the environment
forks. Nothing stronger is assumed: no strong fairness for the spin lock, which
has no queue, so that nothing is said about a thread *getting* the lock;
`LockReleased` only says that a holder lets go. `LC_SELFTEST_COMPLETED` is a
loop that re-reads one field; weak fairness suffices because the field stays at
its final value in the states the property is about.

## 5. Properties

### Self-test status

* `TypeOK`: no mixture of ORs and sweeps leaves a bit pattern that the code
  does not know.
* `BrokenNeverServed`: no thread is served by an algorithm whose first known
  answer is wrong, whatever resets and re-runs happen beside it.
* `PromiseKept`: `AlgStatus` implements `SelfTestGate`. In particular a thread
  is admitted only if the verdict is good at the moment it leaves
  `LC_SELFTEST_COMPLETED`, and not because it was when the test ended.
* `GateClosed`: while the library has not passed the integrity check, all other
  fields are in the error state, although self tests of other threads that were
  in flight when the check began still OR their verdicts into the registers.
  (They OR into fields that are already all ones, and the sweep that reopens
  them comes after the check.) It is proved for FIPS mode, sound algorithms and one
  checker that also starts the library (`Gated`), and checked in all parts of `Progress`.
* `FailuresAreSound` (`OnlyBrokenCondemned`, in the parts that have a broken
  algorithm): a failing self test sends the others to pending and condemns no sound algorithm: with three threads in the failure path of FIPS mode
  (part `degraded`), and without FIPS mode beside the status API, where nothing is
  swept and only the ORs remain (part `plain`).
* `ErrorIndicatorStays`: the failure of an algorithm is recorded for good even
  if several threads find it at once, each resetting everything first.
* `AnyCallReturns`: no thread spins for ever, of any part of `Progress`.

### Seeded RNG

* `OwnStream`: output in a process comes only from a generator that received
  entropy in that process. The pid is stored only by a reseed that was due
  *because of* the fork; if a reseed was due for another reason the check finds
  the pid again later.
* `FullySeeded`: output only from a generator that got both seeds of its
  instantiation, although the second may fail, and although between the reseed
  check and the use the lock is free.
* `ForcedReseed`: output beyond the byte limit only if a reseed has failed.
* `OverrunBounded`: whatever fails, the output between two seeds exceeds the
  limit by at most one chunk for each thread.
* `LockReleased`: every path releases the lock.

### Trust store

* `TypeOK`: among the types, an append never runs past the end of the list.
* `NothingLost`: a certificate whose addition succeeded is in the list until the
  store is cleared, whoever appends beside it.
* `StoreKeepsPromise`: `TrustStore` implements `TrustAnchors`: the list grows at
  its end only, and its members are roots or signed by an earlier member.
* `ChainIsSound`: an accepted message has a chain of signatures from a key in the
  store (without a store: from a root CA in the message) to its signer. The climb
  stops at the first certificate known by *identifier*; the property speaks of
  *keys*.
* `RejectedHasNoChain`: an intermediate CA is refused only if the store had no
  chain for it when its addition began: the marks left by earlier climbs are
  cleared, and roots that other threads add meanwhile harm no chain. Holds as long
  as one thread at a time climbs through the store (instance `OneClimber`);
  `TrustStoreClimbers` is the counterexample for two.
* `AnyCallReturns`: certificates that issue each other in a circle are found
  out.
* `VerdictOfMessage`: verified again, after `lc_pkcs7_get_digest`, or with
  content that came late, a message gets the verdict that its signer infos and
  its content deserve: no cached digest and no attribute pointer of an earlier call
  counts. It holds as long as no earlier call met a wrong digest; `Pkcs7Again`
  shows what happens then.

### Decoder

* `DecodesGrammar`: the program that is made for a grammar takes the data that
  have a reading and no other, and calls the actions in order, each with the
  tag and the bytes of its element. This relates three pieces of code: the compiler, which
  turns nesting and options into skips and jumps, the decoder, which knows only
  flags and two stacks, and the grammar. Readings are what the grammar describes, with
  two liberties of the code: a primitive tag may stand for a constructed element
  (against the comment of `asn1_decoder.c:204-206`, see `MethodsAsCommented`), and an
  element may count that is not there. A reading of the latter kind is not `sound`: the
  decoder may take it, but the actions are not compared. These are the conventions of
  section 8.
* `MethodsAsCommented`: the decoder takes exactly the data that have a reading by its own
  comment, with the bit for constructed elements mandatory where the program has it
  and free where it has not. `Asn1Methods` refutes both halves.
* `StaysInside`: whatever lengths the data claim, the decoder leaves no element
  beyond those around it and gives the actions only bytes of the data.

### Streams

* `DigestOfMessage`, `MacOfMessage`: the digest, and the MAC or the output, are
  those of the message, however message and output are cut into pieces, and
  whatever was done with the context before. The reference pads the whole
  message. For Ascon-Hash the property excepts updates that end exactly at the
  end of a block that was begun before; `AsconAbsorb` shows these. For the KMAC
  generator it excepts output after input after output.
* `OutputIsStream`: after a seed that was taken without an error the output of HKDF is
  the stream of the standard, without a byte lost or repeated, however requests are
  cut, refused and repeated. For the counter KDF this holds up to and including the
  first request that ends inside a block; the code leaves the HMAC finalized then, and
  what follows is no stream of the standard. `CounterInRange`: the eight bit counter never wraps.
* `DecryptsToPlain`, `CutsDoNotMatter`, `UnwrapAuthenticates`: decryption in
  other pieces gives the message back, the ciphertext is that of one call, and
  unwrapping tells a changed input; all with ciphertext stealing, whose two last
  blocks change places.
* `OpensWhatWasSealed`, `ChangedIsRejected`: what was sealed opens, what was
  changed does not, even if the context was given up half way in any phase. The first
  one asks for `regular` callers, who make the calls of the one-shot functions but for the
  pieces: additional data of Ascon in one piece, an update after additional data, and no
  empty one first with ChaCha20-Poly1305.
* `KeyStreamOnce`: no byte of key stream encrypts two bytes and none is of the
  block that hides the tag, although the counter wraps.

### Generators

* `PastIsGone`: once a call has returned, nothing that was put out can be
  computed from the state and all other output (backtracking resistance).
* `FutureIsHidden`: no part of the state can be computed from the output.
* `NeverRepeats`: no block is put out twice, across requests, reseeds and new
  instantiations.
* `InputsCount`: each block of output depends on all seeds and personalization
  strings since the instantiation and on the additional input of its own call.

### Key exchange and signatures

* `SecretsMatchExactly`: initiator and responder share a secret if and only if
  they took part in the same exchange and each is the one the other meant,
  whatever was lost, repeated, crossed, begun again or failed half way.
* `SecretsFresh`: each call of a responder makes a secret of its own, even for a
  message it has answered before.
* `VerifiesIffSame`: a signature is accepted exactly for the key and the message
  its signer was asked for, in whatever order a context signs, verifies, keeps,
  drops or wipes its matrix and changes its options.

Each property of a passing run has a mutant in `PROJECT.json`: a change of one
mapped definition, of the kind a bug in that code would make, under which TLC
finds the property violated.

## 6. Theorems

TLAPS proves, for every number of threads, algorithms, registers, forks,
parties, keys, signer infos and calls, every rate, block and message, and every choice of
faults:

| Theorem | Statement | Assumes |
|---|---|---|
| `AlgStatusProofs!TypeCorrect` | `Spec => []TypeOK` | the constants' types |
| `AlgStatusProofs!BrokenRefused` | `Spec => []BrokenNeverServed` | FIPS mode, or nobody calls `lc_alg_disable_selftests` |
| `AlgStatusProofs!GateIsImplemented` | `Spec => PromiseKept` | the same |
| `AlgStatusProofs!SoundNotCondemned` | `Spec => []OnlyBrokenCondemned` | `Undisturbed` |
| `AlgStatusProofs!GateStaysClosed` | `Spec => []GateClosed` | `Gated(c)` for a thread `c` |
| `RngProofs!TypeCorrect` | `Spec => []TypeOK` | the constants' types |
| `RngProofs!OutputIsSeeded` | `Spec => []FullySeeded` | `ClockRuns`, `DestroyedAlone` |
| `RngProofs!ForkIsNoticed` | `Spec => []OwnStream` | `ClockRuns`, `DestroyedAlone` |
| `RngProofs!LimitForcesReseed` | `Spec => []ForcedReseed` | `ClockRuns`, `DestroyedAlone` |
| `RngProofs!OutputIsBounded` | `Spec => []OverrunBounded` | the same and finitely many threads |
| `RngProofs!CounterNeverWraps` | `KdfSpec => []CounterInRange` | the constants' types |
| `RngProofs!StreamOfTheSeed` | `KdfSpec => []OutputIsStream` | the constants' types |
| `DrbgProofs!DrbgKeeps` | `DrbgSpec => []DrbgInv` | the constants' types |
| `DrbgProofs!DrbgNeverRepeats` | `DrbgSpec => []NeverRepeats` | the same |
| `DrbgProofs!DrbgInputsCount` | `DrbgSpec => []InputsCount` | the same |
| `DrbgProofs!DrbgPastIsGone` | `DrbgSpec => []PastIsGone` | the same |
| `DrbgProofs!DrbgFutureIsHidden` | `DrbgSpec => []FutureIsHidden` | the same |
| `TrustStoreProofs!TypesHold` | `Spec => []TypeOK` | `CertAssumption`, `BundleAssumption` |
| `TrustStoreProofs!NothingIsLost` | `Spec => []NothingLost` | the same |
| `TrustStoreProofs!ChainsAreSound` | `Spec => []ChainIsSound` | the same |
| `TrustStoreProofs!StoreIsTrustAnchors` | `Spec => StoreKeepsPromise` | the same |
| `TrustStoreProofs!RejectionIsJust` | `Spec => []RejectedHasNoChain` | the same and `SoleClimber(c)` for a thread `c` |
| `SpongeProofs!HashInvHolds` | `HashSpec => []HashInv` | the constants' types |
| `SpongeProofs!DigestIsOfMessage` | `HashSpec => []DigestOfMessage` | the constants' types |
| `SpongeProofs!KmacInvHolds` | `KmacSpec => []KmacInv` | the constants' types |
| `SpongeProofs!MacIsOfMessage` | `KmacSpec => []MacOfMessage` | the constants' types |
| `ModesProofs!ModesDecrypt` | `ModesSpec => []DecryptsToPlain` | the constants' types; a block has two halves |
| `ModesProofs!ModesCut` | `ModesSpec => []CutsDoNotMatter` | the same |
| `ModesProofs!ModesUnwrap` | `ModesSpec => []UnwrapAuthenticates` | the same |
| `AsymmetricProofs!SecretsMatch` | `KexSpec => []SecretsMatchExactly` | the constants' types |
| `AsymmetricProofs!SecretsAreFresh` | `KexSpec => []SecretsFresh` | the constants' types |
| `AeadProofs!AeadInvHolds` | `AeadSpec => []AeadInv` | the constants' types |
| `AeadProofs!SealedMessagesOpen` | `AeadSpec => []OpensWhatWasSealed` | the constants' types |
| `AeadProofs!KeyStreamIsUsedOnce` | `AeadSpec => []KeyStreamOnce` | the constants' types |
| `AeadProofs!ChangesAreRejected` | `AeadSpec => []ChangedIsRejected` | the constants' types |
| `AsymmetricProofs!SameOrRejected` | `MlDsaSpec => []VerifiesIffSame` | the constants' types |
| `AsymmetricProofs!EarlierCallsDoNotCount` | `MessageSpec => VerdictOfMessage` | the constants' types |

`ClockRuns` says that `get_time()` never returns 0 and `DestroyedAlone` that the
destructor runs only when no thread is in the library. Both are needed: `SeededRngNoClock` is the
counterexample to the first, section 8 describes the one to the second.

*`BrokenRefused`* rests on `GuardInv`. `BrokenNeverServed` alone is not
inductive: a thread is served because it read `passed`. `GuardInv` adds
`NoFalseVerdict` (no field of a broken algorithm ever says passed; the integrity
hash is the exception) and `Guarded(t)` (the first compare of a self test is
its vector 1, so a broken algorithm never reaches a matching compare). Every
OR and every sweep preserves `NoFalseVerdict` because a sweep writes only
pending or failed for such an algorithm and an OR of passed comes only from a
matching compare.

*`GateIsImplemented`* is a step simulation: initial states map to initial
states, and each action of `AlgStatus` is a step of `SelfTestGate` or a stutter.
It needs `GuardInv`, because a matching compare must not give a broken algorithm a
good verdict, and `FrameInv`, which says for each thread whose test or check it
executes and who called it: only then is the field that `Completed` reads the
one of the algorithm that is served.

*`SoundNotCondemned`.* `Undisturbed` says that nothing resets fields but a failing
self test: no re-runs, no tampering, SHA3-256 sound, no pairwise tests, and only
`Silent` tests use other algorithms. Section 8 lists what happens otherwise. `CondemnInv`
adds that a thread that drops the registers or records a failure does so for an algorithm
that is broken (`Fit`), and that the phases of the library agree with the threads inside it
(`Booting`, `InUse`).

*`GateStaysClosed`.* `Gated(c)` is FIPS mode with sound algorithms, `c` as the only
thread that re-runs the check after the constructor has booted the library, no call of
`lc_init`, no pairwise tests, and the library's register as the last one of a sweep, which is what `alg_status_set_common` does. `GateInv(c)` follows the
sweep of `c` register by register: those it has passed hold all ones, and a
verdict that another thread ORs into them changes nothing (`SweepCloses`).

*The trust store.* `StoreInv` is inductive: the pointers form a list without a
circle whose nodes are given certificates (`Linked`), each call adds an
object of its own that is in no list yet (`Enrolled`), an append stands at a node of the list
(`Appending`), what a climb has passed has been verified by a member or by what
comes before it (`Vouched`, `Climbing`), and the property `ChainIsSound` itself. A
compare-and-swap that succeeds makes the list longer by one at its end
(`SwapJoins`); one that fails leaves everything as it is. The four theorems follow;
`StoreIsTrustAnchors` is a step simulation where `Swap` is the
step of the abstract store, `Clear` empties it, and all other steps stutter.

*`RejectionIsJust`* has an invariant of its own, `SoleInv(c)`, for the one thread
that adds CAs which need a chain. `Hopeful(c)` says of a climb that would end well
alone: it still does from where it stands (`Accepts`, over the recursive function
`Verdicts`); while the marks are being cleared none is left behind (`Swept`); and later each
marked certificate leads to the next one or to where the climb stands (`Trail`). Were a mark
met again, the marked ones would form a circle from which nothing is
accepted (`CircleRejects`). A root that joins the store while the climb runs changes no
turn of it (`AcceptsAppend`). Roots are exempt from the check for loops, so other
threads may add them. The hypothesis is that of the run `Contexts`; without it the
run `TrustStoreClimbers` refutes the property.

*Key derivation.* `KdfInv` relates the HMAC, the counter, the buffered block and its
pointer to the stream of the standard for the seed and the inputs so far: the bytes
taken and the rest of the buffered block are a prefix of it (`HkdfAligned`,
`CtrAligned`). For the counter KDF the HMAC is fresh before every block until a request ends
inside one; `CtrRequest` is such a request, whose last turn is `CtrLastTurn`. From there on
only `KeyStays` is needed, since the recorded output ends. `StreamTurn` unfolds the recurrence of the stream, `ExpandedTurn` one turn
of the generator's loop, and `SetInduction` (least elements of sets of naturals, from
well-foundedness) carries both to every number of turns.

*Streams.* Of a message `m` and a number `k`, `Held(m, k)` is the sponge that has
taken `k` blocks of `m` for good and has the bytes behind them XORed in; `Absorbed(m)` is the
context that has taken all of `m`. `KeccakAbsorbs` is the heart of the argument:
absorbing `in` takes `Absorbed(m)` to `Absorbed(m \o in)`, whether the
input ends inside the block begun (`InsideBlock`), fills it (`OverBoundary`) or starts at a
boundary (`FromBoundary`), with `SetInduction` over its full blocks. `AsconAbsorbs` is the
same where the input does not fill a block exactly, which is the exception that
`DigestOfMessage` makes. `KeccakOut(m, k)` is the context after the padding and `k` bytes of
output; `KeccakSqueezes` says that `n` more bytes are those from `k` on of the stream of `m`
and lead to `KeccakOut(m, k + n)`, so that `KeccakDone` (there is such a `k`) is kept by each
request (`KeccakGoesOn`). For SHA-256 `IsSha2` says which blocks have been compressed and
that the buffer agrees with the message up to its fill level; what is behind that level is
left open, because the code leaves old bytes there. `Sha2Finals` has the two cases of
the padding, with and without room for the length. `HashInv` and `KmacInv` put these
together; `KmacInv` adds what was appended before the first output (`form`) and that
the shadow is the keyed state, without which `lc_kmac_reinit` would not preserve it.

*The generators.* A value is an entry of the table `machine.table`, and a generator adds
entries in a fixed order, so what can be said of it is said about tables that
grow. That a value cannot be computed is shown by a set of `Sealed` values: each of
them is a seed or has a sealed argument, and no value outside gives one away, because it
is a one-way image, has no sealed argument, or is the exclusive or of sealed values only.
Whoever knows no sealed value never computes one (`ComputableSealed`, by `SetInduction` over the number
of values still to be learned). The work is to find such sets. `DrbgInv` says
that between calls there are two kinds: one that holds the secret registers of
the generator and no output (`Held`, for `FutureIsHidden`), and for each output one
that holds it but neither the memory nor another output (`Gone`, for `PastIsGone`).
Each call must continue every such set and make the new ones. For that it is
described by what it does to sets and not by its instructions: `Keeps` says which registers
are hidden and shown before and after it while its output is shown, `Burns` the same while one
block of its output is hidden, and `Leads` with `Counts` which values the new ones were made from. A single instruction
(`TurnIs`), a run of outputs (`OutputIs` and its likes) and two pieces one after the other satisfy them, and each generator is then an instance:
`XofPiece`, `HashAdds`, the update of HMAC_DRBG, and the `CtrCore` of CTR_DRBG, whose seven
instructions XOR the derived input into three blocks of the cipher. Loops are
recursive functions (`Repeat`, the blocks of ChaCha20) and go by `SetInduction`. An exclusive or opens when its other argument is
known; so the proofs keep with every register who has used its value (`UsedBy`): the
words that update the key of ChaCha20 are fresh because none of them was put out, which is
what `TooFewLeft` decides. `NeverRepeats` is part of the invariant (`History`): new outputs are
entries that the table did not have, since V, K or the counter of the block has
not been used for them before. `InputsCount` follows from `Counts`: it says that each set
of values which is closed under arguments and holds the output holds the inputs, and `Origin` is such a set (by
induction from the end of the table).

*Modes of operation.* `IsCipher(mode, T, iv, m, c)` says in closed form that `c` is the
ciphertext of `m` under the permutation that the table `T` has so far: block `k` of `m` is
enciphered with what `Before` names (the block of ciphertext before it, the
counter, the tweak), and behind the whole blocks comes the cut key stream of CTR or the stolen
block of XTS. A call that encrypts yields it (`CbcGives`, `CtrGives`, `XtsGives`), a call that decrypts
finds the message again (`CbcOpens`, `CtrOpens`, `XtsOpens`: AES is undone because `IsTable`
lists each block once), and both leave the state at `Before` of the next block. Between them stand
four facts about `IsCipher` alone: it stays true when the table grows (`CipherStays`), there is one
ciphertext only (`CipherOnce`), two behind each other are one (`CipherJoins`), and a stretch from a
block boundary is one (`CipherSplits`), for XTS with a whole block left for the last call. `ModesInv`
puts them together: the state is that at the end of what was sent or of what was decrypted.
`CutsDoNotMatter` is then `CipherOnce`, since one call with all of it gives a ciphertext as well.

*Key wrapping.* `Wrapping(f, n)` is the course of the `6 * n` steps. That each of them gives AES a block it has not
seen (`WrapNext`) follows from the step counter, which is XORed into the tag: the first byte of the tag after
step `t` is `Mark(t)`, and no two marks and no bare result of AES are alike (`Marks`). `KwOpens` undoes
the steps one by one. `KwRejects` is the converse and goes the other way through the steps: unwrapping
*anything* of that length that ends with the initial value must have met the mark of step 0
there, so AES was undone on the result of step 1 (`MarkTells`), so one step earlier the tag was that of
wrapping after step 1 and so was the semiblock just replaced (`UnwrapUp`), and so on up to the ciphertext, which is
therefore the one that was wrapped. Exchanging two bytes is what the model does on the way, but the lemma
is about every other ciphertext of that length.

*Authenticated encryption.* `CtxOf(alg, v, a, d, begun)` is the context of an algorithm after
`a` bytes of additional data and `d` bytes of data under the key and IV `v`, in closed
form, and `CtPiece` the ciphertext of a stretch of the message. A call takes the one to the other: `AadCourse`,
`SealCourse` and `OpenCourse` say that a piece of any length takes `OnCourse` for
`(a, d)` to `OnCourse` for the place behind it and puts out the ciphertext or the plaintext of that
stretch. Under them is one turn of each loop for each algorithm (`ChaNext`, and its likes
for GCM and Ascon), and `SetInduction` over the bytes of a piece. What the padding of
the additional data in ChaCha20-Poly1305 needs is `PadsOnce`: the code decides by
`datalen` whether the padding is due, so it must not have begun while that is still zero.
`AeadInv` says that the context of the sealing calls is on course for what has been sealed,
that what arrives is the closed form of that message, and that the context of the opening
calls is on course for what has been opened of it; that other IVs or half a message came before plays no part,
because `SetKeyCourse` starts from any context. `SealedMessagesOpen` is then
that both sides end at the same place and tags are functions of the context.
`KeyStreamIsUsedOnce` is arithmetic: below the length that `TooLong` refuses, the counter blocks of
different blocks are different modulo `CtrMod` and none is the one of the tag
(`GcmStreamOnce`), and a place in the key stream is known by quotient and remainder
(`PlacesDiffer`).

`ChangesAreRejected` needs the converse, that the tag of something else differs, and for all calls,
those of an irregular caller and those beyond the length limit of GCM included, so it does not use the
closed form. `Symbols` are what was ever mixed into the state a tag is computed
from. One call mixes in the bytes it is given and nothing but padding besides
(`AadFollows`, `SealFollows`, `OpenFollows`; `Follows` leaves open what
becomes of a symbol that is given twice, since an XOR may take it out again), and two
tags are equal only if the lengths are and every symbol that is neither padding nor a
length is in both or in neither (`SameTags`). For each way of changing a message
there is then a mark (`MarkAt`, `Tells`): a symbol that the receiver mixes in at one
place and the sender never did, or one that the sender mixed in and the receiver misses, or else
the lengths differ. `AuthInv` carries the mark through the calls of the receiver: it is in
the state exactly from its byte on. `TagsDiffer` ends the argument at `DecFinal`.
The MAC itself is symbolic here, so what is shown is that the code feeds it all of the message.

*The RNG theorems* rest on `SafeInv`: the types, `GenOK` about the generator
and `Safe(t)` for each thread. The important parts are mutual exclusion (the
points inside the critical sections belong to the holder); `last = 0` exactly as
long as the generator was never completely seeded, so that a failed
instantiation is always repeated; `pid = proc` only if the entropy came from
this process; and that a thread in the gap between its two critical sections
has left behind a generator that nobody but a destructor or a fork makes worse,
where a fork leaves only a thread that is not in the gap. `LimitForcesReseed`
adds `Blame`: if the generator is over its limit then some thread is either
about to reseed under the lock or has been told of a failed reseed.
`OutputIsBounded` adds `Budget`, a potential: bytes produced plus one chunk for
each thread that is past its check never exceeds one chunk more than the number
of threads, so a thread that uses its permission to generate pays with it.

*The key exchange.* `IInv` says of each initiator that its stored secret `tk`
belongs to its stored ciphertext and peer, or that no initialisation ever
succeeded (`Belong`): a failed call leaves new tags and perhaps a new key, but never one
of the two without the other. Each secret is then known as an expression in its
record; that the expressions are equal only for equal records needs that
decapsulation separates ciphertexts (`AnswerMatches`, `TkMatches`) and that one
coin belongs to one answer (`OneCoinOneAnswer`).

*Contexts of ML-DSA.* `MatrixOK`: the flag is set only if the memory holds the
matrix of the key the context is bound to. `RequestOK`: the running hash is
that of the request, also across a drop of the matrix, which frees the context
for another key. `SignatureOK`: a signature was made with the matrix of its key.

*Messages.* `CacheOK(i)`: while `proper` holds, a cached digest of a signer info is
that of the content, its hash is known, and the attribute pointer is set
exactly if it has attributes and they hold that digest. The loop of
`lc_pkcs7_verify` stops at the first rejected signer info; `LoopSees` shows that
it sees one if there is one (by the well-foundedness of the natural numbers) and
`JudgementIsFirst` that the answers are weighed in a fixed order.

## 7. Model-checked only

Safety that is only checked on the instances of section 3: `DecodesGrammar` and `StaysInside` of the decoder.
The induction theorems of the library take an operator as a parameter, which the
provers cannot instantiate; `SetInduction` states induction for a *set* of naturals
instead, which they can use, and with it loops written as recursive functions can be
reasoned about, as in `SpongeProofs`, `AeadProofs`, `ModesProofs`, `RngProofs`, `DrbgProofs` and `TrustStoreProofs`. `Asn1Compiler` and
`Asn1Decoder` use RECURSIVE operators, since a grammar nests, which the provers do not accept.

Liveness under fairness stays with TLC as well: `AnyCallReturns`,
`ErrorIndicatorStays`, `LockReleased`.

## 8. Findings and observations

Runs that expect a violation show disagreements between the code and its own
comments; `PROJECT.json` quotes the lines.

1. `AlgStatusRerunFailure`: a self test in flight that fails after the integrity
   check failed sets the library back to passed. The code tests whether the
   *flag* is the library, where the comment says that a failing library stays in
   failure mode.
2. `AlgStatusSilent`: the self tests of Ed448 and SLH-DSA return without a
   verdict if an operation they use refuses; the field stays "ongoing" and every
   later caller spins.
3. `SeededRngNoClock`: where `get_time()` returns 0 every call sets the
   generator up again, which zeroizes it, but only the first one reseeds.
4. `TrustStoreClimbers`: two threads that add CAs with a common issuer mark the
   same certificates of the store as seen, and one of them is told of a loop.
   The header says that this error implies that there is no chain.
5. `AsconAbsorb`: an update of Ascon-Hash that exactly fills a block begun by an
   earlier one leaves the block unpermuted, so that the next block is XORed onto
   it: the digest depends on how the message was cut.
6. `GcmIv`: the length block of an IV that is not of twelve bytes is XORed only
   as far as the last chunk of the IV reaches. Its length is lost unless the IV is
   a multiple of sixteen bytes, and an IV with zero bytes appended gives the same
   counter block.
7. `Pkcs7Again`: a message whose digest differs from the one in its attributes
   is rejected once; the second verification finds the digest set, skips the
   comparison and checks the signature against the bare digest.
8. `Asn1Methods`: a comment of the decoder says that a tag without the bit for
   constructed elements in the program permits either in the data and that one with the bit makes
   it mandatory (asn1_decoder.c:204-206). The comparison below it does the
   opposite: it takes a SEQUENCE with a primitive tag and refuses an implicit
   tag of a leaf that has the bit.

Met while modelling, not the subject of a run:

* `LC_SELFTEST_COMPLETED` can return `-EAGAIN` to a user when a reset comes
  between the test and the loop; compare.h:37-39 leaves it to the caller.
* `lc_compare_selftest` marks an algorithm passed after its *first* matching
  vector, so other threads may use it before a later vector fails.
* Two re-runs of the integrity check may proceed at once: each sets the library
  back to pending before it claims it by `fetch_or`, so the second one takes
  the claim from the first (fips_integrity_check.c:36-38 says "stop if there is
  another check ongoing"). `PromiseKept` holds all the same.
* A self test that uses another algorithm fails if that one was reset or failed
  meanwhile: a sound algorithm may be condemned. `Sound` in
  `OnlyBrokenCondemned` is therefore stated with the dependency.
* The destructor may run between the two critical sections of a generate call;
  the output then comes from a zeroized state.
* After a *failed* reseed, threads in the gap still generate: the limit is
  exceeded by `OverrunBounded`'s bound.
* `curr_time` is uninitialised when the byte limit triggers the reseed; it only
  goes to the DRBG as additional data, whose content is abstracted.
* `lc_init` tests `LC_ALG_STATUS_FLAG_LIB` where `LC_ALG_STATUS_LIB` is meant:
  its early return is never taken. `Activate` models the code as it is.
* Adding an object that is already in the trust store, or the emptied head object
  after a clear, sets its next pointer to NULL and then appends it to the list
  it is in: the list is truncated and may point to itself.
* If SHA3-256's own test fails during the integrity check, the failure path first
  resets everything and marks the library passed and only then marks the library
  failed: all other algorithms are pending and usable, where the comment says
  that all are in error state.
* `lc_pkcs7_get_digest` before the content is supplied caches the digest of
  nothing, which a later verification uses.
* The KMAC generator drops additional input that comes in the middle of a block
  of output: it is absorbed when the state is permuted next, and output up to
  there does not depend on it. It also sets `rng_initialized` before the seed has
  been absorbed.
* A request to the counter KDF that ends inside a block leaves its HMAC finalized:
  later output is of the finalized state. The rest of the block is lost.
* `drbg_hash_generate_internal` computes `buflen` instead of `todo` bytes in each
  round of 64 KByte.
* Key wrapping does not end for a length that is no multiple of a semiblock, and
  leaves the old tag for one below two semiblocks.
* The end of an encryption with Ascon-AEAD returns nothing and puts out no tag if
  the tag length is wrong; ChaCha20-Poly1305 decides by the length so far
  whether the additional data was padded, which an empty update leaves at zero.
* Error paths for a wrong length of an external mu in
  `dilithium_signature_impl.h` return without releasing the workspace.
* Conventions of the decoder that a reader of a grammar would not expect: a
  primitive tag is accepted for a constructed element, but not the other way round (finding
  8); a mandatory choice that
  is missing at the end of a sequence of definite length counts as matched by
  the element before it (a Validity without notAfter); the action of an absent optional
  choice is called (the certificates of SignedData); an absent optional ANY
  reads the end mark of an indefinite length as its element; an empty SEQUENCE OF is refused
  unless its element is a choice; data behind the first element are ignored.
* The compiler renders an optional reference without a tag as mandatory and
  never calls the action of an optional leaf behind a reference; no grammar of
  the library has either. A jump has one byte for its goal, and programs of
  more than 255 bytes are not refused. What is written behind `SEQUENCE OF X` is
  the action of its elements and not of the sequence.
* `lc_disable_selftest` passes the flag -1, whose shift is undefined; nothing
  in the library calls it.

## 9. Plan

Done: the status machine, the seeded RNG, the trust store with the climb, messages
of PKCS#7, the decoder with its compiler, streams (hash, MAC, KDF, modes, AEAD),
generators, the ML-KEM key exchanges and contexts of ML-DSA.

Next, in order of importance:

1. The encoder of `asn1_encoder.c` against the decoder, and the actions of
   `x509_cert_parser.c` and `pkcs7_parser.c` that collect what was decoded.
2. The compositions: `hash_crypt.c`, `cshake_crypt.c`, `kmac_crypt.c`, `symhmac.c`; IES of
   ML-KEM over one of them; hybrids with X25519 and X448, which run the
   exchanges of `KyberKex` beside a Diffie-Hellman exchange.
3. HOTP and TOTP with their windows, PBKDF2.

### Not modelled

Nine tenths of the lines of this repository are out of reach of a model
checker for reasons that no amount of work changes, and the share of them that
the definitions translate stays small for the same reasons:

* *Arithmetic on data*: permutations, the AES and ChaCha rounds, number theoretic
  transforms, polynomials over lattices and codes (ML-KEM, ML-DSA, SLH-DSA, BIKE,
  HQC), field and curve arithmetic (Curve25519, Curve448). They have no
  state between calls; what is hard in them is carries and reductions over
  hundreds of bits, which known answers test and finite instances do not show.
* *Variants*: the same primitives for AVX2, AVX-512, ARMv8, RISC-V and in
  parallel, and the selection among them at start.
* *Tables, test vectors and text*: precomputed multiples, `status.c`'s report,
  object identifiers, names.
* *Wrappers*: headers that select a parameter set and pass the call on
  (`kyber_api.c` and `dilithium_api.c` beyond what the models use), the glue to the kernel,
  to EFI, Rust and Python, the applications.
* *Helpers* without state: secure comparison, zeroization, CPU features.
