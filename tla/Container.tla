----------------------------- MODULE Container ------------------------------
(***************************************************************************)
(* The DCF3 container of src/src/container.rs: packing a file, what may    *)
(* happen to the container on its way, and the checks of unpack_impl, in   *)
(* their order, each with its own error.                                   *)
(*                                                                         *)
(* The body of a container is a sequence of cells: characters of the name  *)
(* and of the media type, then the bytes of the payload.  A payload is a   *)
(* content, perhaps compressed, perhaps sealed; byte i of payload p is     *)
(* <<"data", p, i>>.  AEAD, digest and gzip are external: a sealed payload *)
(* opens only with what sealed it, and a digest fits one content.  gzip    *)
(* gives the right result for what it compressed, and for a stream that    *)
(* was altered an error, other bytes, or the right ones all the same.  The *)
(* digest is not keyed, so whoever alters a payload may put its digest     *)
(* into the header.                                                        *)
(***************************************************************************)
EXTENDS Integers, Metadata

CONSTANTS
  None,
  Names, Types,       \* names and media types as an application gives them
  Precompressed,      \* the media types of is_precompressed_type
  Contents,           \* the bytes of files
  OtherBytes,         \* bytes that are of none of them
  Size, GzSize,       \* their lengths, plain and compressed
  Passwords, Nonces,
  HeaderLen, TagLen,
  GzipMin, GzipRoom, GzipMinLen,
  MaxFileBytes, MaxStreamBytes,
  MaxLen,             \* u16::MAX, for the lengths of name and media type
  MaxAlterations      \* bound on the changes to a container under way

ASSUME SizeAssumption ==
  /\ {HeaderLen, TagLen, GzipRoom, MaxFileBytes, MaxStreamBytes, MaxLen} \subseteq Nat
  /\ Size \in [Contents -> Nat] /\ GzSize \in [Contents -> Nat]
  /\ MaxStreamBytes >= HeaderLen + 2 * MaxLen + MaxFileBytes + TagLen

\* A header and a trailer, whatever is compressed.
ASSUME GzipAssumption ==
  /\ {GzipMin, GzipMinLen} \subseteq Nat \ {0}
  /\ \A c \in Contents : GzSize[c] >= GzipMinLen

ASSUME MetaAssumption ==
  /\ "other" \in Characters
  /\ Names \cup Types \subseteq Seq({<<"char", c>> : c \in Characters})

ASSUME OtherAssumption == OtherBytes \notin Contents \cup {None}

ASSUME NoneAssumption ==
  /\ None \notin {"Empty", "TooLarge", "Meta"} \cup Contents
  /\ \A password \in Passwords, nonce \in Nonces : None # <<password, nonce>>

VARIABLES
  source,       \* the arguments of the pack call
  container,    \* [whole, header, body], or None: whole if the header is all there
  alterations,
  outcome       \* what the last call of pack or unpack returned

vars == <<source, container, alterations, outcome>>

\* The characters of cells, and the cells of characters.  A byte of the payload
\* that a wrong length makes part of the name is of no class in particular.
Chars(cells) ==
  [i \in DOMAIN cells |-> IF cells[i][1] = "char" THEN cells[i][2] ELSE "other"]

Cells(chars) == [i \in DOMAIN chars |-> <<"char", chars[i]>>]

SafeName(name) == Cells(SafeFileName(Chars(name)))

\* None if it is refused.
NormalType(type) ==
  LET normal == NormalizeMimeType(Chars(type))
  IN IF normal = Refuse THEN None ELSE Cells(normal)

\* EncryptionKey::from_password: another nonce gives another key.  The nonce
\* None is the one of zeros, in a container that is not encrypted.
Key(password, nonce) == <<password, nonce>>

Returned(error, file) == outcome' = [error |-> error, file |-> file]

Init ==
  /\ source = None
  /\ container = None
  /\ alterations = 0
  /\ outcome = None

-----------------------------------------------------------------------------
(* Packing.                                                                *)

PayloadLen(p) ==
  (IF p.gzip THEN GzSize[p.content] ELSE Size[p.content])
    + (IF p.seal = {} THEN 0 ELSE TagLen)

Bytes(p) == [i \in 1 .. PayloadLen(p) |-> <<"data", p, i>>]

\* prepare: is the compressed form used?
Compresses(type, c) ==
  /\ Size[c] >= GzipMin
  /\ type \notin Precompressed
  /\ GzSize[c] + GzipRoom < Size[c]

\* aad: the two lengths keep name and media type apart.
Bug_Aad(gzip, name, type, file_len, xmit_len, digest) ==    \* without them
  <<gzip, file_len, xmit_len, digest, name \o type>>

Aad(gzip, name, type, file_len, xmit_len, digest) ==
  <<gzip, Len(name), Len(type), file_len, xmit_len, digest, name \o type>>

\* What encrypt is given, and the length it promises for its result.
Bug_Sealed(p, key, nonce, name, type) ==    \* authenticates the length without the tag
  [p EXCEPT !.seal = {[key |-> key, nonce |-> nonce,
     aad |-> Aad(p.gzip, name, type, Size[p.content], PayloadLen(p), p.content)]}]

Sealed(p, key, nonce, name, type) ==
  [p EXCEPT !.seal = {[key |-> key, nonce |-> nonce,
     aad |-> Aad(p.gzip, name, type, Size[p.content], PayloadLen(p) + TagLen, p.content)]}]

\* The errors of prepare.
Bug_Refused(name, type, c) ==     \* takes a file one byte too long
  IF Size[c] = 0 THEN "Empty"
  ELSE IF Size[c] > MaxFileBytes + 1 THEN "TooLarge"
  ELSE IF NormalType(type) = None THEN "Meta"
  ELSE IF Len(SafeName(name)) > MaxLen \/ Len(NormalType(type)) > MaxLen THEN "Meta"
  ELSE None

Refused(name, type, c) ==
  IF Size[c] = 0 THEN "Empty"
  ELSE IF Size[c] > MaxFileBytes THEN "TooLarge"
  ELSE IF NormalType(type) = None THEN "Meta"
  ELSE IF Len(SafeName(name)) > MaxLen \/ Len(NormalType(type)) > MaxLen THEN "Meta"
  ELSE None

\* assemble
Assemble(p, name, type, nonce) ==
  [whole |-> TRUE,
   header |-> [magic |-> TRUE, gzip |-> p.gzip, crypt |-> p.seal # {},
               name_len |-> Len(name) % (MaxLen + 1),
               type_len |-> Len(type) % (MaxLen + 1),     \* as u16
               file_len |-> Size[p.content], xmit_len |-> PayloadLen(p),
               digest |-> p.content, nonce |-> nonce],
   body |-> name \o type \o Bytes(p)]

\* pack_file (key = None) and pack_file_encrypted.
Pack(name, type, c, key, nonce) ==
  LET safe == SafeName(name)
      mime == NormalType(type)
      plain == [content |-> c, gzip |-> Compresses(type, c), seal |-> {}]
      sent == IF key = None THEN plain ELSE Sealed(plain, key, nonce, safe, mime)
  IN /\ container = None
     /\ source' = [name |-> name, type |-> type, content |-> c, key |-> key]
     /\ UNCHANGED alterations
     /\ \/ /\ Refused(name, type, c) # None
           /\ Returned(Refused(name, type, c), None)
           /\ UNCHANGED container
        \/ /\ Refused(name, type, c) = None
           /\ container' = Assemble(sent, safe, mime, IF key = None THEN None ELSE nonce)
           /\ outcome' = None

-----------------------------------------------------------------------------
(* Under way.                                                              *)

Digests == Contents \cup {OtherBytes}

\* A length becomes zero or is off by one; other fields take any value.  The digest
\* may be that of any file, or of other bytes: of which, is open.
FieldValues(field) ==
  CASE field \in {"magic", "gzip", "crypt"} -> BOOLEAN
    [] field \in {"name_len", "type_len", "file_len", "xmit_len"} ->
         LET len == container.header[field] IN {0, len - 1, len + 1} \ {-1}
    [] field = "digest" -> Digests
    [] field = "nonce" -> Nonces \cup {None}

Alter ==
  /\ container # None
  /\ container.whole
  /\ alterations < MaxAlterations
  /\ alterations' = alterations + 1
  /\ outcome' = None
  /\ UNCHANGED source
  /\ \/ \E field \in DOMAIN container.header : \E v \in FieldValues(field) :
          container' = [container EXCEPT !.header[field] = v]
     \/ \E i \in DOMAIN container.body :
          container' = [container EXCEPT !.body[i] = <<"char", "other">>]
     \/ \E n \in 0 .. (Len(container.body) - 1) :
          container' = [container EXCEPT !.body = SubSeq(@, 1, n)]
     \/ container' = [container EXCEPT !.whole = FALSE, !.body = <<>>]

-----------------------------------------------------------------------------
(* unpack_impl: each check presupposes those before it.                    *)

H == container.header
DataOffset == H.name_len + H.type_len
NameBytes == SubSeq(container.body, 1, H.name_len)
TypeBytes == SubSeq(container.body, H.name_len + 1, DataOffset)
Transmitted == SubSeq(container.body, DataOffset + 1, Len(container.body))

\* The payload that a sequence of bytes is, if it is one.
Parsed(data) ==
  {p \in {data[i][2] : i \in {j \in DOMAIN data : data[j][1] = "data"}} :
     data = Bytes(p)}

\* read_header
Readable == container.whole
Recognized == Readable /\ H.magic

\* validate_layout
LaidOut ==
  /\ Recognized
  /\ H.file_len \in 1 .. MaxFileBytes
  /\ H.xmit_len \in 1 .. (MaxFileBytes + IF H.crypt THEN TagLen ELSE 0)
  /\ DataOffset + H.xmit_len = Len(container.body)

HasKey(key) == LaidOut /\ (H.crypt => key # None)

Opens(p, key) ==
  p.seal = {[key |-> key, nonce |-> H.nonce,
             aad |-> Aad(H.gzip, NameBytes, TypeBytes, H.file_len, H.xmit_len, H.digest)]}

\* decrypt succeeds.
Decrypted(key) ==
  HasKey(key) /\ (H.crypt => \E p \in Parsed(Transmitted) : Opens(p, key))

\* The plain payload, where it is one that was packed.
Plain ==
  IF H.crypt THEN {[p EXCEPT !.seal = {}] : p \in Parsed(Transmitted)}
             ELSE Parsed(Transmitted)

PlainLen == H.xmit_len - IF H.crypt THEN TagLen ELSE 0

\* gzip bytes that are what gzip made.
Gzipped == {p \in Plain : p.gzip /\ p.seal = {}}

LongEnough(key) == Decrypted(key) /\ (H.gzip => PlainLen >= GzipMinLen)

\* The trailer of other bytes may happen to hold the declared length, and
\* gunzip may happen to make as many bytes of them.
TrailerFits == \A p \in Gzipped : Size[p.content] = H.file_len
TrailerMayMiss == H.gzip /\ (Gzipped = {} \/ ~ TrailerFits)
Inflated(key) == LongEnough(key) /\ (H.gzip => TrailerFits)
InflateMayFail == H.gzip /\ Gzipped = {}

RightLength(key) == Inflated(key) /\ (~ H.gzip => PlainLen = H.file_len)

\* What the recovered bytes may be.  Where they are not those of a payload that
\* was packed, their length is all that was checked: they may be of any file.
Recovered ==
  LET known == {p.content : p \in {q \in Plain : q.seal = {} /\ q.gzip = H.gzip}}
  IN IF known # {} THEN known
     ELSE {OtherBytes} \cup {c \in Contents : Size[c] = H.file_len}

\* blake3::hash(&bytes) = h.digest.  The digest of other bytes may be that of
\* these or not.
DigestFits(bytes) == bytes = H.digest
DigestMayMiss(bytes) == bytes # H.digest \/ bytes = OtherBytes

Genuine(key, bytes) == RightLength(key) /\ DigestFits(bytes)
Typed(key, bytes) == Genuine(key, bytes) /\ NormalType(TypeBytes) # None

Fails(error, reached, may) ==
  /\ reached /\ may
  /\ Returned(error, None)
  /\ UNCHANGED <<source, container, alterations>>

Accepts(key, bytes) ==
  /\ Typed(key, bytes)
  /\ Returned(None, [name |-> SafeName(NameBytes), type |-> NormalType(TypeBytes),
                     content |-> bytes, encrypted |-> H.crypt])
  /\ UNCHANGED <<source, container, alterations>>

UnpackImpl(key) ==
  \/ Fails("Truncated", TRUE, ~ Readable)
  \/ Fails("BadMagic", Readable, ~ Recognized)
  \/ Fails("Lengths", Recognized, ~ LaidOut)
  \/ Fails("NoEncryption", LaidOut, ~ HasKey(key))
  \/ Fails("Crypto", HasKey(key), ~ Decrypted(key))
  \/ Fails("GzipIncomplete", Decrypted(key), ~ LongEnough(key))
  \/ Fails("GzipSize", LongEnough(key), TrailerMayMiss)
  \/ Fails("Inflate", Inflated(key), InflateMayFail)
  \/ Fails("Lengths", Inflated(key), ~ RightLength(key))
  \/ /\ RightLength(key)
     /\ \E bytes \in Recovered :
          \/ Fails("Crypto", TRUE, DigestMayMiss(bytes))
          \/ Fails("Meta", Genuine(key, bytes), ~ Typed(key, bytes))
          \/ Accepts(key, bytes)

UnpackFile == container # None /\ UnpackImpl(None)

UnpackWithKey(key) == container # None /\ UnpackImpl(key)

\* unpack_file_with_password refuses a container that is not encrypted.
UnpackWithPassword(password) ==
  /\ container # None
  /\ \/ Fails("Truncated", TRUE, ~ Readable)
     \/ Fails("BadMagic", Readable, ~ Recognized)
     \/ Fails("NoEncryption", Recognized, ~ H.crypt)
     \/ Fails("Lengths", Recognized /\ H.crypt, ~ LaidOut)
     \/ LaidOut /\ H.crypt /\ UnpackImpl(Key(password, H.nonce))

Keys == {Key(password, nonce) : password \in Passwords, nonce \in Nonces}

Next ==
  \/ \E name \in Names, type \in Types, c \in Contents :
       \/ Pack(name, type, c, None, None)
       \/ \E password \in Passwords, nonce \in Nonces :
            Pack(name, type, c, Key(password, nonce), nonce)
  \/ Alter
  \/ UnpackFile
  \/ \E key \in Keys : UnpackWithKey(key)
  \/ \E password \in Passwords : UnpackWithPassword(password)

Spec == Init /\ [][Next]_vars

-----------------------------------------------------------------------------
(* Properties.                                                             *)

\* What the receiver should get: unpack_impl cleans name and type once more.
Sent(encrypted) ==
  [name |-> SafeName(SafeName(source.name)),
   type |-> NormalType(NormalType(source.type)),
   content |-> source.content, encrypted |-> encrypted]

\* The calls that should open the container: without a key, with the key, or
\* with the password, from which the key is derived again with the nonce in the
\* header, before anything of the header is authenticated.
Unpack ==
  \/ source.key = None /\ UnpackFile
  \/ source.key # None /\ UnpackWithKey(source.key)
  \/ \E password \in Passwords, nonce \in Nonces :
       source.key = Key(password, nonce) /\ UnpackWithPassword(password)

\* Whatever pack_file or pack_file_encrypted makes, these calls accept, and they
\* return the file that was packed: the two sides agree on lengths, on the
\* flags and on what is authenticated, and no limit of prepare admits a file
\* that validate_layout then refuses.
RoundTrip ==
  [][container # None /\ alterations = 0 /\ Unpack
     => /\ outcome'.error = None
        /\ outcome'.file = Sent(source.key # None)]_vars

Accepted == outcome # None /\ outcome.file # None

\* "The file digest detects corruption but is not a signature or MAC" (README.md).
\* Of a plain container unpack_impl accepts other bytes only if their digest was
\* put into the header: while the digest is the one that was packed, whatever else
\* was changed, the bytes are those that were packed, and so is their length.  No
\* single change makes other bytes pass, one of the digest included.  A file that
\* it returns as encrypted was sealed and is the one that was packed, name and type
\* included: aad binds the boundary between them, not just their characters.
AcceptedIsGenuine ==
  Accepted =>
    /\ H.digest = source.content \/ alterations <= 1 =>
         outcome.file.content = source.content /\ Size[source.content] = H.file_len
    /\ outcome.file.encrypted => source.key # None /\ outcome.file = Sent(TRUE)

\* A container that was packed can be sent: with the longest name, type and
\* file, header and tag, it keeps within the limit of Sender::try_with_mode.
PackedFits ==
  container # None /\ alterations = 0 =>
    HeaderLen + Len(container.body) <= MaxStreamBytes

-----------------------------------------------------------------------------
(* Of name and type alone, for every string that an application may give    *)
(* or a container may hold: nothing was called yet, so any call may follow. *)

Untouched == source = None

\* "Received filenames discard path components, controls, bidi controls,
\* Windows-invalid characters, trailing dots/spaces, and reserved device-name
\* collisions" (README.md): whatever was in the container, in whatever
\* combination, and the name is never empty.  What one step of safe_file_name
\* takes away must not uncover what an earlier one should have removed.
NamesAreSafe ==
  /\ Untouched => \A s \in NameStrings : Safe(SafeFileName(s))
  /\ Accepted => Safe(Chars(outcome.file.name))

\* prepare cleans name and type, and unpack_impl cleans them once more.  The second
\* time changes no name that has no blanks other than spaces, and neither
\* refuses nor changes any type: a file gets the name and the type it was
\* packed with.  A name that is safe already, and has no blanks at its ends, is
\* kept from the start.
MetadataSurvives ==
  Untouched =>
    /\ \A s \in NameStrings :
         /\ Safe(s) /\ Trim(s) = s => SafeFileName(s) = s
         /\ ToSet(s) \cap White \subseteq {" "} =>
              SafeFileName(SafeFileName(s)) = SafeFileName(s)
    /\ \A s \in TypeStrings :
         NormalizeMimeType(s) # Refuse =>
           NormalizeMimeType(NormalizeMimeType(s)) = NormalizeMimeType(s)
=============================================================================
