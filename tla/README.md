# A verification project for cryptography-rs

TLA+ specifications of the `cryptographic-message-syntax` crate and of the parts
of `x509-certificate` it stands on, with TLC configurations that model-check
them and proofs that TLAPS checks. Paths below are relative to the repository;
`cms/` is short for `cryptographic-message-syntax/src/` and `x509/` for
`x509-certificate/src/`.

## 1. The system

The repository holds two libraries. `x509-certificate` reads, writes, signs and
verifies X.509 certificates; `cryptographic-message-syntax` builds, parses and
verifies CMS SignedData messages (RFC 5652) and talks to time-stamping
authorities (RFC 3161). Neither starts a thread or keeps anything on disk. What
is hard in them comes from elsewhere: long sequences of setter calls that end in
one build, a build that makes a network call per signer and may stop in the
middle, messages that arrive altered, and rules that are written twice, once
where a message is made and once where it is read.

| Component | State it keeps | Operations | Correct when |
|---|---|---|---|
| `SignerBuilder` (`cms/signing.rs`) | key, identifier, certificate, digest, digest override, extra attributes, URL | nine setters | its digest override matches the content unless declared detached |
| `SignedDataBuilder` (`cms/signing.rs`) | content, signers, certificates, content type, signing time | eight setters, `build_signed_data` | what it builds parses, verifies, has each signer once, does not depend on hash order |
| SignedData parsing (`cms/lib.rs`) | none | `SignedData::try_from`, `SignerInfo::try_from` | it accepts what the builder makes and refuses inconsistent messages |
| SignerInfo verification (`cms/lib.rs`) | none | `signing_certificate`, `verify_*` | it accepts only what a key signed, as what it was signed |
| Time-Stamp Protocol client (`cms/time_stamp_protocol.rs`) | one request per call | `time_stamp_message_http`, `time_stamp_request_http` | it accepts only a stamp made for this request, and always returns |
| CMS and time-stamp ASN.1 (`cms/asn1/`) | decoded structures; the bytes kept of signed attributes | decode, encode, sort | what is written is read as the same value, no element is taken for another, canonical signed attributes, a token exactly with success |
| Algorithm tables (`x509/algorithm.rs`) | none | conversions between identifiers and algorithms | the two directions agree; no signature verifies under a foreign key type |
| Keys and signing (`x509/signing.rs`) | a key pair and the document it was loaded from | sign, load, store, generate | the algorithm and the public key named are those of the key that signs; a stored pair loads as the same pair |
| ASN.1 times (`x509/asn1time.rs`) | time stamps | decode, encode | a time survives a round trip |
| Certificates (`x509/certificate.rs`) | parsed structure and captured bytes | accessors, `find_signing_certificate`, `resolve_signing_chain` | the chain ends, links by signatures, repeats nothing and stops nowhere early |
| Plain and mutable certificates (`x509/certificate.rs:91-475, 889-913`) | the parsed structure, changed in place; the bytes it was parsed from, kept as they were | `as_mut`, `DerefMut`, conversions, `encode_der` and a new parse | bytes and structure agree until the structure is changed, and again in a copy |
| Certificate builder (`x509/certificate.rs`) | names, extensions, serial number, validity, request attributes | nine setters, three ways to create a certificate, one to create a request | what it creates parses back as configured and verifies under the issuer |
| X.509 ASN.1 (`x509/rfc*.rs`) | decoded structures | decode, encode, change and print names | as for CMS ASN.1; a name shows the text it was given |

How they interact: the caller moves `SignerBuilder`s into a `SignedDataBuilder`
and calls `build_signed_data`, which borrows the builder for the whole build. For
each signer in turn it checks the configuration, signs through the key's
`KeyInfoSigner`, and, when the signer has a `time_stamp_url`, calls the time-stamp
client, which blocks on HTTP and uses the parser and the verification methods on
the token it gets. The message goes to a reader, who parses it and calls
`verify_*` on its signers; these look up the certificate in the message and the
algorithm rules in the tables.

On the X.509 side a caller configures an `X509CertificateBuilder`, which borrows a
subject's and an issuer's key for one call: it checks its fields, encodes and signs
the TBSCertificate and hands the bytes to the crate's own strict decoder, whose
result it returns. `resolve_signing_chain` takes certificates from anywhere and
links them by `find_signing_certificate`.

Below all of this are the encoders and decoders of `x509/rfc*.rs` and `cms/asn1/`, one
pair per structure, written by hand. A document is written, altered on its way, read as
one of several types, changed through public fields, copied and written again. Nothing
ties an encoder to its decoder but that somebody wrote both.

What makes it hard, with the line where it bites, is listed under "hazards" in
`PROJECT.json`.

## 2. The modules

| Module | Models | Extends |
|---|---|---|
| `Algorithms` | the tables of `x509/algorithm.rs`, as sets and functions | |
| `Errors` | a list of checks of which the first that fails is the error | |
| `DerOrder` | the DER order of a SET OF | |
| `SignedData` | the structure of messages, parsing and verification, as predicates | `Algorithms`, `DerOrder` |
| `TimeStampProtocol` | the client, authorities, the network and the clock | `SignedData`, `Errors` |
| `SignedDataBuilder` | both builders and `build_signed_data`, driving the client | `TimeStampProtocol` |
| `SignedDataExchange` | builders, a foreign signer, the wire and readers | `SignedDataBuilder` |
| `Authenticity` | the abstract promise: nothing is accepted that was not endorsed | |
| `Asn1Time` | `Time` of `x509/asn1time.rs`: UTCTime and GeneralizedTime | |
| `Certificates` | certificates, what their decoder refuses, who signed which | `Algorithms`, `Asn1Time`, `Errors` |
| `CertificateBuilder` | `X509CertificateBuilder`: certificates and requests | `Certificates`, `DerOrder` |
| `SigningChain` | `resolve_signing_chain`, step by step | `Certificates` |
| `SigningPath` | the abstract promise: a maximal simple path of signatures | |
| `Der` | what bcder's encoders and decoders do with a row of optional and tagged elements | |
| `Names` | names and general names of `x509/rfc3280.rs`: written, read, printed, changed | `Der` |
| `X509Structures` | `x509/rfc5280.rs` and `rfc2986.rs`: certificates, extensions, revocation lists, requests | `Names` |
| `TimeStampStructures` | `cms/asn1/rfc3161.rs`: requests, responses, TSTInfo | `X509Structures` |
| `CmsStructures` | `cms/asn1/rfc5652.rs`: SignedData, SignerInfo, ContentInfo | `X509Structures` |
| `KeyStructures` | private keys of `x509/rfc5958.rs`, `rfc5915.rs`, `rfc5480.rs`, `rfc3447.rs`, and key pairs of `x509/signing.rs` | `X509Structures` |
| `StructureTypes` | what the Rust types of all these structures say of a value, and the rules that decoders have between fields | the last three |
| `Documents` | what happens to one document of any of these kinds, and to what is read from it | `StructureTypes` |
| `MCTimeStampProtocol`, `MCSignedDataBuilder`, `MCSignedDataExchange`, `MCCertificateBuilder`, `MCSigningChain`, `MCDocuments` | instances for TLC | |
| `SignedDataBuilder_proofs`, `SignedDataExchange_proofs`, `TimeStampProtocol_proofs`, `SigningChain_proofs`, `CertificateBuilder_proofs`, `Documents_proofs` | theorems about these modules | `TLAPS` and the library theorems |
| `Structures_proofs` | lemmas about the encoder and the decoder of each structure, which `Documents_proofs` rests on | `StructureTypes`, `Errors_proofs`, library theorems |
| `Errors_proofs` | lemmas about lists of checks and about least numbers | `Errors`, `TLAPS` |

The first half of the table is about what the system does with messages and certificates,
the second half about how they are written down; the two meet in the code and not in a
module, because a state space that had both would be the product of the two. `SignedData`
and `Certificates` keep of a structure what is acted on, and `CmsStructures` and
`X509Structures` say how each of its fields gets through an encoding.

`Key`, `Cert`, `Content` and the tables `KeyAlg` and `CertInfo` are constants, so
that everything is stated for any number of keys, certificates and contents.
Operators whose name begins with `M_` are mutated forms of the operator that
follows them: each is a bug one could make there, and the property listed beside
it in `PROJECT.json` fails when the operator is replaced by it.

### How the state corresponds to the code

* `builder` is the `SignedDataBuilder`; its fields are those of the struct
  (`cms/signing.rs:266-289`). `draft` is the `SignerBuilder` the caller holds, or
  `None`: a caller that holds several builds the same messages as one that
  finishes them one by one, because they share nothing. `digestCall` records
  which of two setters was called last and is read by no action.
* `job` is the frame of `build_signed_data`: the program counter, the locals
  `signer_infos`, `seen_digest_algorithms`, `seen_certificates` and
  `signed_data_version`, and the `SignerInfo` that waits for its time stamp. A
  signer whose turn it is signs in one step, since nothing else can touch the
  builder; the time-stamp call in its middle is where the network interleaves.
  The build fails at every place the code returns an error.
* `client` is the frame of `time_stamp_request_http`: `sent` between `send()` and
  the answer, then `ok` or `failed` with the variant of the error. `requests`,
  `replies` and `stamps` are what has been sent and signed. They only grow, so
  that a reply can be late, repeated or out of order.
* `built` and `signed` are ghosts: the messages returned, each with the builder
  it came from, and the signatures made.
* `wire` and `accepted`, in the exchange, are what is on its way to readers and
  what they have accepted.

* `builder` and `outcome`, in `CertificateBuilder`, are the `X509CertificateBuilder`
  (`x509/certificate.rs:986-994`) and what the last call returned. A creation is one
  step: it borrows the builder and touches nothing else. It fails where the code
  returns an error, with a `Signature` error where a key may refuse to sign, and
  with `Asn1Decode` where the decoder refuses the encoded result.
* `pc`, `self`, `certs`, `next`, `remaining` and `chain`, in `SigningChain`, are the
  frame of one call of `resolve_signing_chain`: its arguments, where its loops stand
  and its two vectors. `remaining` holds positions in `certs`, so that the order of
  the vector is the order of the numbers; the local `seen` is the certificates at
  these positions while they are buffered.

* `wire`, in `Documents`, is a document: its elements and whether they are DER or BER
  only. `held` is what a reader has in its hands: the type it was read as
  (`X509Certificate`, `CapturedX509Certificate`, `MutableX509Certificate`,
  `InMemorySigningKeyPair`, or the one type of any other structure), the value, the bytes
  it came from, and whether it was changed since. `kind` never changes: the kinds share
  no state. `sent`, `meant`, `damage`, `issued`, `edits` and `copied` are history, read
  by properties only (`issued` and `damage` also by the guards that let an issuer sign
  once and a document be altered once between two times that it is written or signed), and
  `alterations` and `rewrites` count against the bounds.

Errors are reported in the code's order: the checks of `SignerError`,
`TransportError`, `StampError`, `FieldError`, `CreationError` and `DecodeError` are listed in the order of the source, and
`FirstError` picks the first that fails.

### What is abstracted

* Cryptography is symbolic: a digest is a record of its algorithm and what was
  digested, a signature one of key, algorithm and message. There are no
  collisions. A key that signs the same message twice makes the same signature;
  the randomness of ECDSA, which nothing in the crate reads, is left out.
* A signature over attributes and one over bare content are over different
  messages (`covers`). In the code both are over bytes, and a content that is
  itself the DER of signed attributes would be confused with them; RFC 5652 has
  the same property. The models assume that no content is such an encoding.
* A SET OF is a sequence in DER order (where the order matters) or a set (values
  of one attribute). `sort_der` is "the rearrangement that is in order": the
  result is a function of the elements. The DER order of attributes depends on
  their whole encoding; the models order them by type, which the encodings of the
  attributes the crate writes do.
* Years stand for times in signing times; small integers elsewhere. In `Asn1Time` a
  time stamp is a number of subseconds and both units are constants: the code that is
  modelled asks for the year, the second and the fraction only, so that months, days
  and leap years are left out.
* A captured certificate stands for its bytes, and `CertificateIn` for what they hold:
  two encodings of one certificate are two captured certificates, as in `PartialEq`
  and `Hash` (`x509/certificate.rs:819-831`). The `raw_data` that a signature is
  checked over is the certificate's `tbs`; decoding never leaves it out.
* Names are values of which one is empty. An extension's value is a name for its
  bytes. The values of one request attribute are a set, which is what sorting them
  makes of them.
* An encoding is a sequence of elements `<<tag, body>>`, one for each field that is
  written; lengths, and the octets of integers and strings, are bcder's and left out.
  Tags are kept, because a decoder tells optional fields apart by nothing else.
  Whether bytes are DER or BER only is one flag: BER comes in with what another library
  wrote, and goes out only inside a value that was captured, since the crates' own
  encoders write definite lengths in both modes.
* AlgorithmIdentifier, Attribute, and the structures that `SignedData` nests are opaque
  elements that are written as they were read; one of each is BER only. The order of
  attributes is a constant, `Rank`.
  So are the values captured inside names and general names (`x509/rfc3280.rs:245`, `744`
  and `788`): an attribute of a name has a text or it has not, and a name that holds a value in
  BER does not occur. Of the alphabets of string types `Names` keeps that of PrintableString,
  which is the one that the methods that change a name can refuse a text for; a NumericString
  or an IA5String, which only other libraries write, can be printed if it is any `Text`.
* What a crypto library finds in the octets of a private key is the constant
  `PrivateKeyInfo`. Public keys have a whole number of octets, so that the decoder's check for
  unused bits in one (`x509/rfc5280.rs:321-323`) never fails.
* The body of a reply is its length and where the response in it ends. That bcder decodes the
  first value of what it is given, and does not look behind it, is modelled from how
  `time_stamp_request_http` calls it.
* In messages on the wire (`SignedData`) encodings are left out; what a decoder refuses
  beyond the structure (attributes out of order, a token without success, a version) is
  kept. CRLs are carried and never read by the crate, so these messages have none.

## 3. The runs

| Run | Question | Instance | States |
|---|---|---|---|
| `tsp` | Which replies does the client accept, whatever is wrong with them? | 3 authorities, 22 kinds of reply, 2 requests | 278 k |
| `builder_options` | Does every sequence of setters give an error or a good message? | 1 signer, all setters, 3 keys | 218 k |
| `builder_signers` | Two signers, shared certificates, failures, two builds | 2 signers, 3 certificates, 2 builds | 667 k |
| `builder_stamps` | Stamping inside builds that fail and are retried | 2 signers, 2 builds, 4 requests, 2 replies | 36 k |
| `exchange` | Can messages be recombined or altered and still be accepted? | 2 signers, 3 messages on the wire | 453 k, with symmetry |
| `exchange_stamps` | Can a token be moved? | 2 signers, 2 replies, 2 messages on the wire | 35 k |
| `signing_chain` | Does a chain end, and is it one, whatever certificates it is given? | 7 certificates, of which any 4 in any order | 151 k |
| `certificate_builder` | Does every sequence of setters give an error or the certificate that was asked for? | 4 keys, 3 names, 2 additions | 94 k, with symmetry |
| `documents` | Is every document read as what was written, whatever happens to it? | 13 kinds of structure, 2 changes, 1 rewrite | 234 k |
| `sticky_detached`, `signing_year`, `certificate_validity` | disagreements of the code with its documentation, section 6 | as above | until the counterexample |

Every run sets `CHECK_DEADLOCK FALSE`, because each system may really stop: a
caller need not call again, and the bounds stop the others.

**`tsp`.** A client that sends requests of its own choosing (with and without
nonce, policy and `certReq`) or those of `time_stamp_message_http`, and the
authorities: a good one, one whose certificate expired before it stamped and
one whose certificate is not for time stamping only. A reply has at most one
fault, out of the twenty-one of `AnyFault`: each check of the client is the only
one that stands between the client and some fault. Two requests are enough for a late or repeated reply to meet the wrong
request; one reply, delivered once to each, is all the client can see at a time.
`StampWasMadeForRequest`, `StampIsFresh` and `AcceptedStampVerifies` are what a
caller relies on when it attaches a token; `ExchangeEnds` is that the call returns.
`ReportedBodyIsWhole` is about the size limit: a body is cut one octet beyond
`MAX_RESPONSE_SIZE`, and the decoder takes the first value of what is left, so that a
response of exactly the limit with an octet behind it decodes, whether or not its length was
declared; only the length of what was read shows that it was not all of the body.

**`builder_options`.** All setters of both builders on one signer, in any order
and number, with an ECDSA key, an Ed25519 key and one whose algorithm the crate
does not know, right and wrong certificates, two digests, two content types, two
contents, overrides, and extra attributes of which one is empty and one
reserved. No two settings of different signers interact except through
certificates, digests and the version, which is what the next run is about.

**`builder_signers`.** Two signers, of any keys and identifiers, a certificate
added by the caller, and `certTwin`, which has the issuer and serial number of
`certA` and another key. `BuiltSignersVerify` holds under `KeyCanBeFound`: no
other certificate in the message that the identifier matches has another key. The
premise is real. A caller that adds such a certificate gets a message that its
own verification refuses, because `signing_certificate` takes the first match.
Two builds are needed for `SameBuilderSameMessage`.

**`builder_stamps`.** Two signers, each with or without URL, and two builds, so
that a build can fail on either signer and be tried again while replies to the
first try are under way. Faults are one of each kind a build treats differently.
`EverySignerOnce` is checked here and not in `builder_signers`, because only here does a
build fail in the middle of its loop, after a signer was stamped.

**`exchange`, `exchange_stamps`.** Messages of the builder and of an
implementation that signs id-data without signed attributes; alterations replace
a field of a message or of a signer by one from any message on the wire, drop or
reorder attributes, change the content, its type, the version, certificates and
algorithm identifiers. Three messages on the wire are two genuine ones and one
alteration, or one genuine and two alterations in a row. `Authentic` is the
refinement: the exchange implements `Authenticity` under the mapping that reads a
signature as the statements its key made by it. `exchange` treats the two
contents as symmetric, which is sound because the module compares contents for
equality only, gives them no order, and both properties treat them alike.

**`signing_chain`.** A leaf, two authorities that are self-signed and sign each
other, one of these certificates in a second encoding, one with the right name and a
wrong key, and one whose outer algorithm identifier is not the signed one. The
behaviours are all calls with up to four of them, with repetitions and in any order,
starting from any one. Four are enough for a cycle that leads back to the start, a
repetition of a certificate that is used, and a choice between two issuers.
`FollowsSignatures` is the refinement: the call implements `SigningPath`, which may
end only where no given certificate continues the path and whose fairness says that
it does end. That each certificate signed the one before it (`ChainIsSigned`) is part of it.

**`certificate_builder`.** All setters, in any order and number, with two Ed25519 keys,
a P-384 key and one whose algorithm the crate does not know; a subjectAltName with names
and one without, either of which the caller may make not critical; request attributes
whose DER order is not the order they are added in; a builder made with a fraction in
2049 or on a whole second of 2050, so that validities end on both sides of 2050, with
and without a fraction, before the start, or beyond the last time stamp. Two additions
are enough for a repeated extension and for two attributes in the wrong order, since the
checks compare pairs. The names but the empty one are symmetric, and so are the two
Ed25519 keys: names and keys are compared for equality only, and no property prefers
one. `DecoderAgrees` says that the rules of the builder and of the decoder are the same
but for one exception, which `certificate_validity` shows to be real.

**`documents`.** Thirteen kinds of structure: certificates, requests, revocation lists, the
signed message and its parts, the three structures of the Time-Stamp Protocol, four forms
of private keys and digests. `Write` writes a value of `Written` or of `Refused`, built from
public fields; `Receive` takes what another library wrote, in either form. `Alter` loses,
repeats or moves an element, or spells out a default. `Parse` reads the result, strictly or
not, as each type that there is for it. What is held is changed (`EditSubject`,
`EditCritical`, `EditSigned`), written again (`Rewrite`), and a certificate is turned into
another type (`ToMutable`, `IntoCertificate`), copied (`Copy`) or sent inside a message
(`ThroughMessage`). `Issue` signs a certificate's bytes; `LoadPair` and `StorePair` make a
key pair of a document and a document of a key pair.

The values are chosen so that each optional field is present in one of them and absent in
another, next to a neighbour of the same type where there is one, because that is where a
decoder can mistake one field for another. Two changes are an alteration and an edit, two
edits of one name, or an alteration before and one after the issuer signed;
one rewrite reads what was written from what was read, and a second would start from a
value of the same kind. What its properties say:

* `ReadsAsWritten`: a value is read back as itself, and one that breaks a rule between
  fields (a TBSCertificate of version 1 with extensions, a token without success) is
  refused, though its encoder writes it. `ReadCanBeWritten`: what was read can be written,
  as DER if it was read as DER. `RewriteIsStable`: reading what was written, from a
  value that was read or changed, ends there.
* `AlterationIsNoticed`: no single loss, repetition or move makes one field pass for
  another. The exception is a revocation list without its first time, which is read with
  the second in its place: both are times, and a signature is what protects them.
* `CapturedMatchesItsBytes`, `CopyKeepsSignature`, `CopyShowsChanges`: a captured
  certificate holds what its bytes say, a copy of one that this library wrote still
  verifies, and a copy of a changed one shows the changes. The second needs
  its premise that the library wrote it; section 6 has what happens otherwise.
* `NamesShowTheirText`: a name can be read as the text it was last given, whatever string
  type it is in, provided that its other attributes can be read.
* `DigestCoversAttributes`: what a signature over attributes is checked against is the DER of
  exactly the attributes that are held, as long as they are those that were read.
* `ChangeNeedsNewSignature`: after a change they are not. The value in memory goes on
  digesting the bytes kept of its document, so that its signature verifies as before
  whatever its attributes show (`cms/asn1/rfc5652.rs:533-535`). Once it is written, those bytes are
  gone: a reader digests all of the changed attributes, or refuses them where they are out of
  order, and the old signature does not cover them.
* `KeyPairSignsAsItSays`: a key pair names the algorithm and the public key of its private
  key, also if its document claims another, and is the same after it is stored and loaded.

### Fairness

`TspFairness` is weak fairness of `TransportFails`: the HTTP client has a timeout
(`HTTP_TIMEOUT`, `cms/time_stamp_protocol.rs:194-196`), so that an exchange without a
reply ends with an error. Nothing is assumed of authorities or of the network.
`BuilderFairness` adds weak fairness of the crate's own steps of a build, which
run to completion in the calling thread. Nothing forces a caller to configure or
to build, and `SigningFails`, which depends on the key, has no fairness.
`ChainSpec` has weak fairness of the whole call, a computation without I/O that runs
in the calling thread. `CertificateBuilder` and `Documents` have none: their calls are single steps.

## 4. The proofs

TLAPS proves, for all values of the constants that satisfy the assumptions
(`ContentsAssumption`, `KeyAssumption`, `RankAssumption`, `CertAssumption`,
`TspAssumption`, `BuilderAssumption`, `ListAssumption`, `ExchangeAssumption`, and for the chain
`CalendarAssumption`, `NamesAssumption`, `KeysAssumption`, `CapturedAssumption`, for the
certificate builder the first three of these and `CertificateBuilderAssumption`, and for
documents `DocumentsAssumption`, `ForeignAssumption` and `TextAssumption`; TLC evaluates them
in every run of their modules):

* `BuilderTypeCorrect`: `BuilderSpec => []BuilderTypeOK`;
* `BuilderInvariant`: `BuilderSpec => []BuilderInv`;
* `AssemblyInvariant`: `BuilderSpec => []AssemblyInv`;
* `BuiltMessagesParse`, `BuildingIsDeterministic`: `BuilderSpec` implies
  `[]BuiltMessageParses` and `[]SameBuilderSameMessage`;
* `BuiltSignersAllVerify`, `EverySignerIsThereOnce`: `BuilderSpec` implies
  `[]BuiltSignersVerify` and `[]EverySignerOnce`, if `NoneIsNoList`;
* `SigningTimesSurvive`: `BuilderSpec => []SigningTimeSurvives`, if `YearsAreTold`;
* `AcceptedOnlyIfSigned`: `ExchangeSpec => []AcceptedWasSigned`;
* `ExchangeIsAuthentic`: `ExchangeSpec => Authentic`, the refinement;
* `TspInvariant`, `TspTypes`, `StampForRequest`, `StampFreshness`, `AcceptedVerifies`: the
  client's specification implies `[]TspInv`, `[]TspTypeOK`, `[]StampWasMadeForRequest`,
  `[]StampIsFresh` and `[]AcceptedStampVerifies`;
* `ReportedBodies`: `TspSpec => []ReportedBodyIsWhole`;
* `TokensStampTheirSigners`: `BuilderSpec => []TokenStampsItsSigner`;
* `TokensCoverSignatures`: `ExchangeSpec => []StampCoversSignature`;
* `ChainInvariant`, `ChainTypeCorrect`, `ChainNeverRepeats`, `ChainLinksSignatures`,
  `ChainTakesFirst`: `ChainSpec` implies `[]ChainInv`, `[]ChainTypeOK`, `[]ChainIsSimple`,
  `[]ChainIsSigned` and `[]FirstGivenWins`;
* `ChainFollowsPath`: every step of `ChainSpec` is one of `SigningPath` or a stutter;
* `CertificateBuilderInvariant`, `CertificateBuilderTypes`, `CertificateReadsBack`,
  `IssuersAreFound`, `WithoutIssuerSelfSigned`, `DecoderAgreesWithBuilder`,
  `RequestsAreCanonical`: `CertificateBuilderSpec` implies `[]CertificateBuilderInv` and
  each invariant of the run `certificate_builder`;
* `DocumentsInvariant`, `CapturedIsItsBytes`, `SignaturesCoverAttributes`,
  `KeyPairsAreHonest`: the `Spec` of `Documents` implies `[]DocumentsInv`,
  `[]CapturedMatchesItsBytes`, `[]DigestCoversAttributes` and `[]KeyPairSignsAsItSays`;
* `ValuesInvariant`, `WrittenIsReadBack`, `RewritingEnds`, `CopiesAreUpToDate`,
  `CopiesVerifyAlike`: the same `Spec` implies `[]ValuesInv`, `[]ReadsAsWritten`,
  `[]RewriteIsStable`, `[]CopyShowsChanges` and `[]CopyKeepsSignature`, if `Atoms`;
* `HistoryInvariant`, `AlterationsAreSeen`, `NamesInvariant`, `NamesKeepTheirText`,
  `FormsInvariant`, `WhatIsReadCanBeWritten`: it implies `[]HistoryInv`,
  `[]AlterationIsNoticed`, `[]NamesInv`, `[]NamesShowTheirText`, `[]FormsInv` and
  `[]ReadCanBeWritten`, if `Atoms`;
* `KeptInvariant`, `ChangesNeedNewSignatures`: it implies `[]KeptInv` and
  `[]ChangeNeedsNewSignature`, if `Atoms`.

`BuilderTypeOK` is not inductive. That certificates stay distinct needs the shape
of `builder` and `job`, and that the length of `job.infos` is bounded needs to know
that it is a sequence. `BuilderInv` adds an explicit set of signer informations of
which `job.infos` is a sequence, the pending one an element, and from which the built
messages are composed, each with a signature that is in `signed`. The lemmas follow
the actions: setters that change the builder, setters that change the draft, each
step of a build. `MessagesOk` says of sorting only that a rearrangement has
the elements of what it rearranges.

The properties of built messages compare a message with the signers it was made from,
through three sorted lists and a build that other calls interrupt. `AssemblyInv` ties them
together. While a build is under way `JobAssembled` says, signer by signer, that those it is
done with passed the checks of `build_signed_data`, that `job.infos` has the signer
information of each at its place (`InfoOf`: signed attributes that are a sorted form of the
signer's, a signature over them under its key, a token exactly if it has a URL), and that
digests, certificates and version are what these signers amount to. `SettersFit` says what
the setters keep of a signer: its identifier is that of its certificate, and its content
is one. A message that is returned is `BuiltFrom` its builder, which is a statement about
the message and that builder alone, so that no later step disturbs it; the rest is about
one such message.

* `BuiltMessagesParse`: the checks of `SignedData::try_from` are taken one at a time. Those
  about signed attributes rest on `AttributesShape`: the checks before signing refuse
  a type that is given twice, and so the sorted list has content type, digest and time
  once each. The version rests on `HeaderKept`, the certificates on `CertificatesKept`.
* `BuiltSignersAllVerify`: under `KeyCanBeFound` the certificate that a reader takes for the
  signer's holds its key (`KeyFound`); the reader resolves the algorithm that the signer
  signed with (`AlgorithmFound`), and digests what the signer digested.
* `EverySignerIsThereOnce` needs the permutation that sorting the infos applied, and that
  sorting neither drops nor adds (`InfosKept`).
* `BuildingIsDeterministic`: a list without repetitions is sorted into one that depends on
  its set of elements only (`SortedBySet`), because two such lists are rearrangements of one
  another and have the same rearrangements, of which the order picks one. It is applied to
  the digests, which come out of a `HashSet` in any order, to the certificates, and to the
  infos, which without tokens are functions of the builder (`SameInfo`).

Two of these theorems have a hypothesis. `YearsAreTold` says that callers give years from 1950
to 2049; without it the statement is false, which is finding 2 of section 6. `NoneIsNoList`
says that the value which stands for `Option::None` is not a sequence of anything: in Rust
`Some(list)` is never `None`, and TLC keeps the model value apart from every list, but TLA+
leaves a constant free to be any value. `NotEveryValueIsAList` shows that such values exist.
The same is needed of two particular sets in `BuiltMessagesParse`, where it could be written as
an assumption that TLC evaluates, `ListAssumption`; the unsigned attributes of a signer, which
`EverySignerOnce` looks at, come from authorities and have no set of their own.

`AcceptedWasSigned` needs to know what is on the wire. `ExchangeInv` says that every
signature in a signer information on the wire was made, and that what was accepted
was stated by a signature in `signed`. An alteration keeps the first part, because
an altered signer information has the signature of one on the wire (`AlteredInfoMade`,
`AlteredMessageOk`). When a reader accepts, the verification methods give that the
signature is one over this message under the key of the certificate
(`VerifiedSignature`), and from this that it states the content under its type
(`AttributesStatement`, `ContentStatement`). The last case is where the two forms of
signature meet: a signer without signed attributes is accepted only in a message of
type id-data, because `Parses` demands attributes elsewhere. The refinement uses the
same invariant and that `signed` never shrinks (`SignedGrows`).

For the client, the point is what a nonce is worth. `TspInv` says that no two requests
have the same nonce (`NoncesUsed`), that a stamp for the request the client waits with,
if it has a nonce, was made since the client sent it (`StampsLater`), and that every reply
was made by an authority, with or without one of its faults (`RepliesMade`). From
these, and from the check of the nonce, a stamp that is accepted was made for this very
request and within the exchange. `AcceptedStampVerifies` compares two lists of checks that
the code has in two places: a token that passes those of the client passes those of
`verify_time_stamp_token`. The hard case is a token whose attributes were altered, which
no check of the client may let through (`AlteredTokenFails`).

Two theorems of `SignedDataExchange_proofs` compose the client with its callers. A build
leaves the client to the network between the request and the reply, and what makes the
token belong to the signer is `StampsPending`: as long as a signer waits, a client that
waits or has succeeded has a request over the signature of that signer. No step of the
network changes it, and `TspInv` is kept by every step of the builder (`BuilderTsp`). With
`AcceptedVerifiesInv`, the token that is attached verifies for its signer (`AttachStamps`).
In the exchange tokens go to signers they were not made for. `StampedExchangeInv` says
only that every token on the wire was sent by an authority, altered or not, which the
alterations keep (`AlteredInfoSent`); that one which verifies was not altered, and is a
stamp over the signature of the signer it is found at, is `SentTokenStamps`.

The chain's properties are not inductive by themselves. That the chain stays simple
needs `RemainingUnused` (what remains is neither in the chain nor the start); that it
ends only where nothing continues it needs `RemainingComplete` (every certificate
buffered is the start, in the chain, or equal to one that remains) and that buffering
is over when linking begins (`LinkingAfterBuffering`); that the first given is taken needs
that the first of several equal ones remains (`RemainingFirst`). `ChainInv` is their
conjunction with the three properties, and one lemma per step shows that it is kept.
`LinkExtends` and `ReturnEnds` use it to map the two steps that `SigningPath` sees;
for `ReturnEnds` the point is that a certificate that could continue the path is
equal to one that remains, and so would have been found. Nothing is assumed of the
signature relation: it may have any cycles.

The outcome of the certificate builder is a function of its configuration, but a step
later the configuration may be another. `OutcomeCame` says that it is not as long as the
outcome is there: setters clear it, and creations leave the builder alone (`SameBuilder`).
So a certificate came from a configuration that passed the checks of the builder and of
the decoder, and the properties are statements about these two lists
(`CreationAccepted`, `DecodingAccepted`, `DecodingAccepts`) and about times: what is
written and can be read is the time without its fraction (`TimeRoundTrip`), and dropping
fractions keeps the order (`TimeOrder`). That a request is canonical rests on
`SortedKeeps`: a rearrangement has every element as often as what it rearranges, because
the places of an element in one are in bijection with those in the other.

For `Documents` the question is what ties a value that is held to bytes that somebody
else may have changed by now. `DocumentsInv` says it for each type. What is held and was
not changed since is what its bytes decode to (`HeldWasRead`), and for a captured
certificate that is so even after a change, because changes are made on plain and mutable
ones and a copy decodes new bytes: this is why the types are told apart. A key pair is the
one that its document loads as, and the document is still there (`PairWasLoaded`); a
pair that was stored is what the stored document loads as, until it is altered
(`StoredPairLoads`). `PairSays` gives that a pair which `from_pkcs8_der` returns names the
algorithm and the public key of its private key; `SignerIsCanonical` that a decoder which
accepts signed attributes found them in order, so that putting them in order again changes
nothing; `CertificateKeepsItsBytes` that the signed bytes are those of the decoded part.
For these theorems nothing is assumed of the values, of what other libraries write, or of
the bounds.

The other properties of `Documents` say what the encoders and decoders compute, for
structures whose lists (names, extensions, attributes, certificates, primes) may be of any
length. `Structures_proofs` has two lemmas for each of the structures:

* `...RoundTrip`: the decoder, given what the encoder wrote of a value of the type
  (`IsTbs`, `IsSignerInfo`, ... of `StructureTypes`), returns that value without the
  defaults that are not written (`NormalTbs`, `NormalExtensions`, ...) if the value keeps the
  rules between fields, and fails otherwise;
* `...Shape`: what the decoder returns, of any elements whatever, is of the type and keeps
  the rules.

They rest on a few about a row of fields. `Fields` and `Present` go through a row with a
recursive function, and the prover cannot do inductions over data in general; but that a
function which is built one step after the other exists and stays in a set is a
statement about the set of places where it would fail, and a least such place does not
exist (`LeastNatural`, `UpTo`, `StepsStay`, `Steps`). From this, a row whose optional fields
have tags that tell them from what may follow (`Unambiguous`) is read as it was written, whichever
are missing (`Read2` to `Read10`); for each structure it is checked that its row is
such a one (`...Rows`), which is what hides in the order of `take_opt_...` calls.

`DocumentsInv` is not enough for the properties: it says nothing of a value that was changed
after it was read. `ValuesInv` adds that a document that was written here, and not
altered since, is the encoding of the value that was meant (`MeantIsWritten`); that whatever
is held, changed or not, has its type and keeps the rules that no change can break
(`HeldIsTyped`, with one lemma per way of changing a value, `RenamedIsTyped`,
`CriticalIsTyped`, `AppendedIsTyped`); that a copy is its original as it was written
(`CopyIsRead`); and, across all this, that what a library-made issuer signed is the encoding
of some certificate that obeys the rules, and that the document goes on being a
certificate around some bytes with its signature algorithm (`IssuedIsWritten`). The last is
what `CopyKeepsSignature` needs: the copy's bytes are an encoding of the normal form of
that certificate, the normal form is written like the certificate itself
(`NormalIsWrittenAlike`), and the form of the bytes depends on captured values that
normalising leaves alone.

`Atoms` says that the values that stand for `Option::None` and for a decoder's error are different
and are none of the data: no number, no truth value, none of the tags that structures hold
themselves, and no list or structure. In Rust the types see to it, and TLC keeps model
values apart from everything else; in TLA+ a constant could be any value, and a structure that
happens to be `None` would not be written. It speaks of all functions, so it is a
hypothesis of the theorems and not an `ASSUME`, which TLC would have to evaluate.

Four more properties of `Documents` each need an invariant of their own, because each is
about something that the others forget.

*What a signature still covers* (`ChangesNeedNewSignatures`). `HeldIsTyped` knows that a changed
SignerInfo has its type, not where its two copies of the signed attributes come from. `KeptInv`
says it: the bytes that are kept are of the attributes in the document it was read from, and the
attributes are more than these, since the one change there is appends
(`AppendIsLonger`, `EditKeepsBytes`). What is written is read as the new list or not at all
(`SignerInfoRoundTrip`), and the new list is not what was kept, because it is longer.

*What an alteration does* (`AlterationsAreSeen`). `HistoryInv` says that a document is what was
written or signed last, or that with one element of its body lost, repeated, added or moved
(`AlteredOnce`; `DoneIsAltered` is that the operations on sequences do just that). The rest
is about two documents and one decoder. A row of fields that could be read tells at which
element each field was found, in increasing order (`ReadInOrder`, `Aligned`). If one element
is missing from the second document, then before it both were read alike (`SameBeginning`),
after it as well, counted from the end (`SameEnd`), and so the two readings differ in the one
field between, which must be optional (`LosingARow`); and no decoder reads two different
neighbours in both orders (`SwappingRows`). `AlterationIsOneField` puts these together for
every row that can be told apart from both ends (`ToldApart`), which is checked for each
structure (`TbsAltered`, `SignerInfoAltered`, ...). Three structures do not fit. A
SignerInfo is read by one of two rows, according to its second element
(`SignerIsTheSameKind`); the status and the token of a response have the same tag, and
what tells them apart is inside (`TimeStampRespAltered`); and the two
times of a revocation list have the same tag, so that for it the argument is made again with
the exception that the property names (`LosingATime`, `SwappingATime`).

*What a name shows* (`NamesKeepTheirText`). `NamesInv` says that the subject has, of each
type it was given a text of, an attribute with the last of these texts; the subject that is
held, or the one of the document if nothing is held, because a changed certificate can
be written and read again. The methods `append_...` put an attribute behind the others, so
that the old ones stay and may be shown first; the property is about all texts that
a name is printed with, and for common names about the first one being a string at all. That
the flattened name has the attributes of all its RDNs is `FlattenedHolds`; that each
of the methods keeps the others' texts and adds its own, `RenamedIsShown`; that printing and
searching then find them, `FriendlyShows` and `CommonNameIsFound`. An alteration on the way
either leaves the subject alone or makes the certificate unreadable (`SubjectIsKept`), by
`AlterationIsOneField` again.

*What can be written* (`WhatIsReadCanBeWritten`). Values that were captured in BER cannot be
written as DER, and nothing in a value says that it has none. `FormsInv` says it of documents:
one that is called DER, on its way or as what something was read from, holds no captured
value that is BER (`IsDer`). Both directions are needed. What a decoder captures of such a
document is not BER, one lemma for each structure (`TbsIsCaptured`, `SignerInfoIsCaptured`,
..., `ReadIsDer`); what an encoder makes of a value without captured BER is such a document
(`TbsIsWrittenDer`, ..., `WrittenIsDer`), and the flag that it is sent with says so
(`BytesAreTrue`). An alteration moves elements or adds one of which the same is known
(`AlteredElements`). `ForeignAssumption` says that documents of other libraries are
given in DER; they can arrive in either form. The other things that have no encoder, a
message with revocation lists or attribute certificates and the explicit parameters of a
curve, are what decoders refuse (`HeldIsTyped`).

Checked by TLC only: the liveness properties `ExchangeEnds`, `BuildEnds`, `ResolveEnds` and
the fairness in `FollowsSignatures`, which need fairness and ENABLED, beyond this prover.
Every invariant and every action property of the runs that are expected to pass is
proved. No module uses a recursive operator. What
looks like an induction in the proofs is one over a set: that a list of checks has a first one
that fails, however long it is, follows from well-foundedness of the naturals for the
set of the places where one fails (`LeastNatural` in `Errors_proofs`).

## 5. What is not modelled

* The octets of tags, lengths, integers and strings (bcder), PEM, and the outer wrappers
  that PEM needs: input and output of bytes.
* RSA, ECDSA and EdDSA arithmetic, random generation of keys, `rsa_primes`, and what the
  crypto libraries read in a SEC1 or PKCS #1 private key: done by libraries; symbolic here.
* `RsaPublicKey` (`x509/rfc8017.rs`), two integers in a row; the object identifiers of
  `x509/rfc4519.rs`; revocation lists have no encoder in the code.
* The decoder of an attribute certificate always fails (`cms/asn1/rfc3281.rs:73-77`), so that
  none of its types is ever built; a message that holds one is refused, which is modelled.
  EnvelopedData, AuthenticatedData, EncryptedData and their recipients are types without
  any code.
* `verify_message_digest_with_content` on its own does not compare content types; the
  model has it as the code does, and readers call it through `verify_with_content`,
  which does compare.
* The time zones that `GeneralizedTime::parse` can read: every caller outside its tests
  passes `Z`.
* `compare_issuer`, `certificate_is_subset_of` and the other accessors of certificates,
  which change nothing and which the modelled code does not call.
* Public keys of a number of bits that is not a multiple of eight, which the decoder of
  certificates refuses (`x509/rfc5280.rs:321-323`).

## 6. Where code and documentation disagree

1. *A detached digest is forever* (`sticky_detached`). `detached_message_digest`
   sets a flag that no setter clears (`cms/signing.rs:186-190`). A signer that calls
   it and then `message_id_content` is exempt from the match that
   `message_id_content` "requires" (`cms/signing.rs:170-171`).
2. *Signing in 2050* (`signing_year`). The builder keeps a `UtcTime` whatever the
   date; a signing time of 2050 is written as `50` and read back as 1950
   (`x509/asn1time.rs:435` and `485`). RFC 5652, in `cms/rfc5652.txt:2306-2308`, asks
   for GeneralizedTime from 2050 on. `builder_signers` checks that 1950 and 2049 survive.
3. *Validities that end in 2050* (`certificate_validity`). `validity_duration` sets the
   expiration in terms of the start (`x509/certificate.rs:1058`), which is
   `Timestamp::now()` and has a fraction of a second. A UTCTime drops the fraction; from
   2050 on `Time::from` keeps it in a GeneralizedTime (`x509/asn1time.rs:78` and `377`), and
   `Time::take_from` refuses it (`x509/asn1time.rs:47`) when the new certificate is read
   back (`x509/certificate.rs:1250`). Such a certificate cannot be created, and the
   error is a decoding error of the result.

Met while modelling, without a run of their own:

* The documentation of `signing_certificate` (`cms/lib.rs:1059`) says it matches by issuer and
  serial number only; it also matches by subject key identifier (`cms/lib.rs:1072-1084`).
* Certificates in a message are decoded, encoded and decoded again, which "may lead to
  correctness bugs" (`cms/lib.rs:664-668`). It does for a certificate of another library that
  spells out a default, version 1 or a critical flag that is FALSE: the new bytes leave it
  out, so that a signature over the old ones no longer verifies. `CopyKeepsSignature` holds
  for what this library wrote and would not without this premise.
* `append_common_name_utf8_string` is documented to append to the first RDN
  (`x509/rfc3280.rs:559`); like all of these methods it adds an RDN at the end
  (`x509/rfc3280.rs:544-556`), and readers of names look at all RDNs.
* `PKIFreeText` and `OtherPrimeInfos` are `SIZE (1..MAX)` in the ASN.1 their sources quote,
  and both decoders accept none.
* `private_key_data` of an ECDSA key pair is its whole PKCS #8 document, of an RSA key pair the
  inner key (`x509/signing.rs:266-272`).
* A `MutableX509Certificate` that was changed keeps the bytes it was parsed from, as its
  documentation says. A change that breaks a rule between fields (a subjectAltName made not
  critical where there is no subject) is encoded without an error and cannot be read.

## 7. Plan

Done: the builder, the message, the time-stamp client, the exchange and its abstract
promise; certificates, the certificate builder and signing chains; the structures they
are written as, key pairs and documents; the theorems of section 4. Left, in this order:

1. An issuer that makes a certificate from a request that it read.
2. `compare_issuer`, `subject_is_issuer` and `certificate_is_subset_of` as operators,
   checked against the relations their documentation names.
3. Months and days in `Asn1Time`, and the time zones of `GeneralizedTime::parse`.
