# nex-go in TLA+

A verification of the PRUDP/NEX server library in `src/`: TLA+ models of its
concurrent core and of its wire formats, TLC runs on small instances, and TLAPS
proofs for every value of the constants.

## The system

A `Server` opens one UDP socket and starts `runtime.NumCPU()` goroutines that all
read from it. Each handles one datagram at a time (`handleSocketMessage`): it finds
or creates the `Client` of the source address in the map `server.clients`, decodes
the packet, starts a goroutine to acknowledge it, acts on its type and starts a
goroutine per event handler. Nothing is locked: the map, the counters, the RC4
streams and the connection signatures of a client are shared by all of these
goroutines.

| Part | State | Operations | Module |
|---|---|---|---|
| Listeners and client table | `clients`, locals of each listener | read, look up, create, fetch, decode, the cases of the switch, `Kick`, `SendPing`, `Emit` | `Server` |
| Acknowledgements | running `AcknowledgePacket` calls, the two connection signatures of a client | store and announce a signature, sign, send | `Server` |
| Sending | payload left, fragment counter, `sequenceIDOut`, `cipher` | `Send`, `SendFragment`, `Increment`, `Bytes`, `SendRaw`, `Reset` | `SendLoop`, `Fragmentation`, `SendPath` |
| Receiving Data | `decipher` and its position | read, `Decode`, `NewRMCRequest`, starting the acknowledgement, `Emit`, `Reset` | `Inbound` |
| Life cycle | the socket, listeners started, the channel `quit` | `Listen`, `listenDatagram`, `Emit("Listening", nil)` | `Lifecycle` |
| Events | the three maps of handlers, the lists being run through | `On`, `Emit`, starting a handler | `Events` |
| Packets and RMC on the wire | the packet under way, the decoder's offset and fields, the response | `Bytes`, `Decode` section by section, `AcknowledgePacket`, `NewRMCRequest`, `SetSuccess`, `SetError` | `PacketFormat`, `LittleEndian` |
| Streams | the bytes, the reader's offset | `Write...`, `Read...`, structures | `Streams`, `LittleEndian` |
| NEX types | a StationURL, a DateTime | the setters, `EncodeToString`, `FromString`, `Now` | `NexTypes` |
| Kerberos | the position of the one RC4 stream of each end | `Encrypt`, `Decrypt`, `Validate` | `Kerberos` |
| What an acknowledgement promises | read, open, paid | an abstract specification | `AckLedger`, `ServerLedger` |

The parts meet in the client object: a Syn resets at once the signatures
(`Server`), the outgoing counter and cipher (`SendPath`) and the decipher
(`Inbound`). The three modules each model the whole of what `Reset` does to their
part of the object. `PacketFormat` takes what these modules establish for granted:
the signatures, keys and keystreams of its two ends agree.

## How the models correspond to the code

A goroutine is split at every access to state another goroutine can touch; what
lies between two accesses belongs to one of them. Control is kept; data is
abstracted to what the properties tell apart.

- **Server.** A datagram is its source, its kind, flags, payload length and
  signature. Kind `Short` stands for a datagram refused before the sender is
  looked at, `Bad` for any later decoding error. Client objects are named by the
  datagram they were created for, and 0 is nil. `Read` may take any datagram,
  which covers loss, repetition and reordering. `Kick` tests and deletes in one
  step: deleting an absent key changes nothing. The two `Emit` calls for a packet
  are one step, since they only start goroutines. `ConcurrentMapFault` is the Go
  runtime stopping a process in which a map write meets another access.
  Application handlers may return, kick the sender, or acknowledge a Connect that
  has a payload.
- **SendLoop, Fragmentation.** `Send` with the conversion to `int16` and Go's
  division. Data is represented by its length.
- **SendPath.** `Increment` is a load, a store and a second load; `XORKeyStream`
  reads a position and writes it back. Counters and ciphers are objects, so that a
  goroutine may hold one that `Reset` has replaced. Pings and empty payloads do not
  touch the keystream. What two overlapping
  `XORKeyStream` calls do to the bytes is not modelled, only the position. `turns` is
  history: it stays true until a `Send` begins while another one is running.
- **Inbound.** A payload is its length and its place in the peer's keystream.
  Decrypted elsewhere it is noise, and noise is taken not to pass the length test
  of `NewRMCRequest`; the chance that it does is about 2^-32. An assumption on the
  peer goes with this: every payload of its Data packets is empty or one whole RMC
  request. A payload that is shorter, or one fragment of a longer request, would be
  refused by `NewRMCRequest` in its proper place too, and the peers of this model do
  not send any. All sessions use the default key, as `Reset` does. Starting the
  acknowledgement and handing the packet to `Emit` are two steps, in the order of the
  code, and other listeners and the network may step in between.
- **Lifecycle.** The unbuffered channel is a rendezvous; a panic ends the process.
- **AckLedger, ServerLedger.** The ledger knows only which datagrams were read,
  which acknowledgements are being made and which were written, and to whom. In
  `ServerLedger` a running `AcknowledgePacket` is an open entry and a written
  acknowledgement a paid one; all other state of `Server` is hidden, and all other
  steps stutter.
- **PacketFormat.** Here data is bytes. A peer sends a packet, the server decodes it
  and acknowledges it or answers the call in it, and the peer decodes the answer,
  all with `Bytes` and `Decode` of the same version. Each section of `Decode` is an
  action, with its length test; a read beyond the datagram is `"panic"`. The
  datagram may be cut anywhere. Flags are a set of the five known bits. RC4 at one
  position of the stream is an involution, HMAC a function of its input, so that
  the runs compare signatures and do not show that they are hard to forge. The two
  ends have issued different connection signatures: `Bytes` signs with the one its
  end was given, and `Decode` compares with the one its end has issued. The
  checksum is computed as in the code, word by word, arranged in columns since
  TLC's integers have 32 bits.
- **Streams.** A byte has `Base` values, so that strings longer than their 16-bit
  length field can be written. A read yields a value and an offset, or fails with
  an error or a panic. What the library reads and cannot write (variants, maps,
  qBuffers, parent classes) is written by a peer. A double is its bit pattern.
- **NexTypes.** A string is a scheme and a sequence of fields, a value the sequence
  of its parts between equals signs: what `Split` tells apart. Years are counted
  from some year.
- **Kerberos.** A message is its length, its place in the sender's keystream, and
  whether it was damaged.
- **Events.** A packet is emitted as its own event and as `"Packet"`, each to the
  generic handlers and then to those of its version; the slice is read when its loop
  starts, and what is left of it is the set of its handlers, taken in the order of
  registration. `OnMeetsEmit` is the Go runtime stopping the process.

`MCServer` and `MCFragmentation` only define constants; `MCParts` also puts the
modules without shared state side by side, one of them per behaviour. A definition commented as
"a slip" is a plausible mistake in the code, kept to show that a property notices
it; none is part of a specification.

## Runs

| Run | Instance | Shows |
|---|---|---|
| `ServerOne` | v1, 1 listener, 2 peers, 3 datagrams out of 14; handlers acknowledge | `AnswersGoToTheSource`, `AcknowledgedOnce`, `SessionIsolation`, `SignatureIsTold`, `SenderIsStored`, `TableStable`, `AcksImplementLedger` (refinement) |
| `ServerTwo` | v0, 2 listeners, 2 peers, 2 datagrams; handlers kick and acknowledge | `TypeOK`, `AnswersGoToTheSource`, `SessionIsolation`, `OnlyOwnKick`, `AcksImplementLedger` (refinement), and `OwedAckIsSent` (liveness) |
| `Fragmentation` | size 1300; lengths at every multiple and every int16 edge, each +-1 | `TypeOK`, `SendWritesAll`, `FragmentsFit`, `NothingTwice` |
| `SendPath` | 2 senders of which 1 also resets, Data in two fragments or empty, pings, 4 packets, numbers modulo 3 | `TypeOK`, `NumbersInOrder`, `KeystreamInOrder`, `CounterNotAhead` |
| `Inbound` | v1, 1 listener, 3 packets, 4 reads, reliable and unreliable network | `TypeOK`, `InOrderOnce`, `AckedIsHandedOver`, `NothingRefused`, and `AllDelivered` and `AckedIsDelivered` (liveness) |
| `Lifecycle` | 4 listeners | `OneListenerQuits`, and `FailureEndsServer` (liveness) |
| `Parts`, packets | 9 combinations of settings, 6 types, 4 sets of flags, datagrams cut at every byte | `PacketReadsBack`, `DecodeInBounds`, `WholeOrRefused`, `AckNamesPacket`, `CallIsAnswered` |
| `Parts`, streams | 2 fields out of 34, bytes of 8 values, NEX versions 2 and 3 | `StreamReadsBack` |
| `Parts`, NEX types | 3 setter calls, any number of encodings in between; times at the ends of every unit | `StationReadsBack`, `NowIsOrdered` |
| `Parts`, Kerberos | 2 ends, 5 messages, each intact or damaged | `KerberosInStep` |
| `Parts`, events | 2 listeners, 3 handlers, 2 packets, registration at any moment | `HandlersRunOnce` |

Five runs end in a counterexample, where the code does not do what its comments say:

| Run | Property | What happens |
|---|---|---|
| `ServerNilSender` | `PacketHasSender` | A client is kicked between another listener's lookup and fetch; `Decode` gets a nil sender. |
| `ServerLostSignature` | `AnsweredSignatureIsKept` | The goroutine acknowledging a Syn stores a signature, then `Reset` for the same Syn clears it. |
| `FragmentationLong` | `SendWritesData` | From 32768 to 64236 bytes the fragment count is negative and nothing is sent. |
| `SendPathLostUpdate` | `IncrementReturnsNew` | Two concurrent sends get the same sequence number. |
| `InboundOvertaken` | `NothingRefused` | Two listeners decrypt in another order than the datagrams arrived. |

`SenderIsStored` and `TableStable` are checked for one listener and handlers that
do not kick: with more, the races above break them. In the same way `NothingRefused`
and `AllDelivered` are for one listener. `NumbersInOrder` and `KeystreamInOrder` are
about behaviours in which no two calls of `Send` have overlapped so far, in whatever
goroutines they ran; `CounterNotAhead` holds however they overlap.

The properties of the conversions name what the code does not give back:
`DecodeInBounds` that version 0 reads 11 bytes of a datagram of 9 or 10;
`WholeOrRefused` that a version 0 packet without a size may be cut unnoticed;
`StreamReadsBack` that trailing NULs are lost, that doubles come back as other
numbers, and that nothing is claimed after a string that is too long;
`StationReadsBack` that values are cut at an equals sign, that old parameters stay,
and that a URL without parameters cannot be parsed; `KerberosInStep` that messages
crossing on their way bring the two ends out of step.

**Bounds.** Three datagrams allow a client to be created, used and removed, or
created, removed and created again; two are enough for two listeners to race for
one entry. Four packets wrap numbers modulo 3, and two senders
overlap in every step of `Increment`. Three packets and four reads allow
a packet to be lost, repeated or overtaken around a Syn. The run on two listeners
stops at two datagrams for its size. No symmetry is used. With bytes of 8 values a
16-bit length wraps at 64, and strings of 62, 63 and 64 bytes lie around it; two
fields are enough for one to spoil the next. The sequence numbers 1 and 65279 have
different bytes in both places, and one of the two calls has no parameters, which
makes the shortest request of 13 bytes. Three setter calls
allow a second string to be parsed into a used object. Five messages allow a
damaged one, an answer to it and further ones. Three handlers and two packets allow
both listeners to run through lists while another handler is being registered.

**Fairness.** Weak fairness of each goroutine's steps, since the Go scheduler runs
every runnable goroutine; in `Lifecycle`, of a read on a broken socket, which
returns. No fairness is assumed of peers: `Read` is fair in `Inbound` only for a
packet that was sent, and `AllDelivered` claims something only for a reliable
network. `OwedAckIsSent` allows for the process being brought down.

## Proofs

Every theorem holds for all values of the constants that satisfy the assumptions
stated in the modules: bounds are naturals, a datagram's signature belongs to its
source, the fragment size is positive and fits an int16, the fields of a clock
reading are in their usual ranges. A theorem that needs more says so in its own
hypothesis, named below. Each proof has one lemma per action, or per group of actions
that disturb the same part of the invariant.

- **`ServerProofs`**: `TypeCorrect`, `AnswersGoBack` (`AnswersGoToTheSource`),
  `Isolation` (`SessionIsolation`) and `SignaturesAreTold` (`SignatureIsTold`), for
  any number of listeners, peers and datagrams and both protocol versions. None is
  inductive: each is about packets sent or signatures kept, while goroutines hold
  client pointers over steps that change the table. The invariant `Inv` adds that a
  table entry belongs to its address (`TableInv`), and that whatever client a
  listener, an acknowledgement or a handler holds is one of the source of the
  datagram it works for (`ListenerInv`, `AckInv`, `HandlerInv`). A client object
  never changes its address, so this survives every race. `ToldInv` adds that an
  acknowledgement announces nothing before it stores the signature.
- **`LedgerProofs`**: `OneAcknowledgement` (`AcknowledgedOnce`),
  `ServerImplementsLedger` (`AcksImplementLedger`, the safety part of the refinement,
  which is all the ledger specifies) and `KicksOnlyOwn` (`OnlyOwnKick`), again with
  every race. A datagram can be acknowledged in two places, by the listener and by
  the application's Connect handler; `OnceInv` says who may still do it: the one
  listener that holds the datagram before it is decoded and, for a Connect with a
  payload, the one handler that listener starts.
- **`SequentialProofs`**: `SenderStored` (`SenderIsStored`) and `TableIsStable`
  (`TableStable`) under `OneGoroutine`: there is one
  listener and handlers do not kick. Without it the run `ServerNilSender` shows
  the race. What is needed besides `Inv` is that the lookup is
  still true at the fetch.
- **`FragmentationProofs`**: `TypeCorrect`, `NoByteTwice` (`NothingTwice`),
  `SendIsComplete` (`SendWritesAll`) and `SendFragmentsFit` (`FragmentsFit`), for
  every fragment size and any set of lengths. `LoopInv` relates bytes written to
  bytes left for every length, `FitInv` relates the iterations left to the data left
  for lengths that fit an int16, and `ReturnInv` describes the state in which `Send`
  returns.
- **`SendPathProofs`**: `TypeCorrect` and `CounterBehind` (`CounterNotAhead`) for any
  number of senders and resets: `SendInv` counts one cipher or one reset on its way
  per counter made. `NumbersGoOut` (`NumbersInOrder`), `KeystreamGoesOut`
  (`KeystreamInOrder`) and `NumbersAreNew` (`IncrementReturnsNew` as long as no two
  sends have overlapped; afterwards it is violated), again for any number of goroutines,
  with resets at any moment. `TurnInv` says that until then one goroutine at most is
  inside `Send`. `NumberInv` says that a
  counter holds how many packets it has numbered on the wire, and one more while the
  next is under way; `KeyInv` says that a cipher stands where its last packet on the
  wire ends, and further on while the next is written. The width of the sequence
  number is arbitrary.
- **`InboundProofs`**: `TypeCorrect` and `AckedHandedOver` (`AckedIsHandedOver`) for
  any number of listeners and any network: a listener past `Decode` holds a packet
  that parsed, and keeps it until it has emitted it (`ListenerOK`). The type of `decipher` needs the count
  that each new stream used up a datagram (`StreamCount`). `DeliveredInOrder`
  (`InOrderOnce`) under `OneListener` and any network, since a stream only moves
  forward (`PeerInv`, `StreamInv`). `NeverRefused` (`NothingRefused`) under
  `OneListener` and `NoPlainAcks`: the protocol is version 1 or the peer sends no
  aggregate acknowledgements, which version 0 would decrypt. `InStepInv` places both
  ends of the stream at every step.
- **`LifecycleProofs`**: `LifecycleTypes` and `OneQuits` (`OneListenerQuits`) for any
  number of listeners. `LifecycleInv` says that nobody is past the channel before
  `Listen` has received.
- **`PartsProofs`**: the modules without shared state, each with its own
  specification.
  `KerberosStaysInStep` (`KerberosInStep`): messages on their way are contiguous
  pieces of the keystream between the positions of the two ends (`KerberosInv`).
  `HandlersRun` (`HandlersRunOnce`): the lists of one packet are run through in a
  fixed order of ranks, and a handler has run if and only if its list is past
  (`EventInv`). `NowOrdered` (`NowIsOrdered`): for all clock readings, packed fields
  compare like the fields. `StationIsReadBack` (`StationReadsBack`), for any values
  and setter calls: the encoded fields, numbered by counting the parameters set
  before each, contain every parameter set once (`StationInv`).

Only model-checked:

- the liveness properties `OwedAckIsSent`, `AllDelivered`, `AckedIsDelivered`
  and `FailureEndsServer`, which rest on fairness and are out of the prover's reach;
- `PacketReadsBack`, `AckNamesPacket`, `CallIsAnswered` and `StreamReadsBack`: they
  are about what the recursive functions of the conversions compute from byte
  sequences of every length, which needs induction over data;
- `DecodeInBounds` and `WholeOrRefused`, which are about the offsets of `Decode` and
  have no proof yet.

## Not modelled

- Getters and setters of packets, which read and write single fields. One of them,
  `StationURL.Scheme`, returns the address where it should return the scheme.
- The strength of RC4, HMAC and MD5, which are library code and appear as fixed
  functions.
- Compression: both implementations return their argument.
- Settings that no code reads: signature version, Kerberos key size and derivation.
- Resending and ping timeouts: the fields exist, and no code reads them.
- The ticket types of `kerberos.go`, which no code uses.
- `SetSessionKey` and `UpdateRC4Key` with a key other than the default, which only
  applications call.
- Unknown PRUDPv1 options are in the model of `decodeOptions`; no peer in the runs
  writes one.

## Plan

Theorems: `DecodeInBounds` for every datagram, with an invariant that relates the
offset of the decoder to the sections it has read, and `WholeOrRefused` from it.
