-------------------------------- MODULE Jrc ---------------------------------
(***************************************************************************)
(* The judge-recoverable commitment of src/src/jrc.rs as functions on       *)
(* symbolic bytes.                                                          *)
(*                                                                         *)
(* Every field of fixed length (magic, commitment, public key, nonce, tag)  *)
(* is one cell, and so is each byte of a ciphertext: envelopes are          *)
(* sequences of cells, and only lengths and whole fields matter to the      *)
(* code.  X25519, BLAKE3 and XChaCha20-Poly1305 are ideal: the shared       *)
(* secret of two key pairs is known to their owners only, a hash is what was *)
(* hashed, and a ciphertext opens with what sealed it.                      *)
(***************************************************************************)
EXTENDS Naturals, Sequences

CONSTANTS
  Messages, MsgLen,     \* what may be committed to, and its length
  Nonces,
  Secrets,              \* X25519 secrets, of judges and ephemeral ones
  MaxStreamBytes

ASSUME JrcAssumption ==
  MsgLen \in [Messages -> Nat] /\ MaxStreamBytes \in Nat /\ MaxStreamBytes > 5

Overhead == 5                       \* ENVELOPE_OVERHEAD, in cells

MaxMessageLen == MaxStreamBytes - Overhead

Magic == <<"magic">>
Other == <<"other">>                \* any bytes nobody computed

\* What may become of bytes under way, next to other messages: a cell is damaged
\* or taken from another message, the rest is that of another message, cells
\* are lost or added.
CellDamaged(bytes, cells) == {[bytes EXCEPT ![i] = cell] : i \in DOMAIN bytes, cell \in cells}
CellMoved(bytes, o) == {[bytes EXCEPT ![i] = o[i]] : i \in DOMAIN bytes \cap DOMAIN o}
RestMoved(bytes, o) ==
  {SubSeq(bytes, 1, i) \o SubSeq(o, i + 1, Len(o)) : i \in DOMAIN bytes \cap DOMAIN o}
Shortened(bytes) == {SubSeq(bytes, 1, n) : n \in 0 .. Len(bytes) - 1}

Altered(bytes, others, cells) ==
  CellDamaged(bytes, cells) \cup Shortened(bytes) \cup {Append(bytes, Other)}
  \cup (UNION {CellMoved(bytes, o) \cup RestMoved(bytes, o) : o \in others})

\* Public keys; LowPoint stands for those of small order, with which no
\* exchange is contributory.
Public(secret) == <<"public", secret>>
LowPoint == <<"low">>
Nonce(r) == <<"nonce", r>>

Contributory(public) == public # LowPoint

\* diffie_hellman: the same for either side.
Shared(secret, public) == {Public(secret), public}

Bug_DeriveKeys(shared, e_pk, ek, r) ==      \* leaves the shared secret out
  [enc |-> <<"enc", e_pk, r>>, com |-> <<"com", e_pk, r>>]

DeriveKeys(shared, e_pk, ek, r) ==
  [enc |-> <<"enc", shared, e_pk, ek, r>>, com |-> <<"com", shared, e_pk, ek, r>>]

CommitValue(k_com, m) == <<"commitment", k_com, m>>

\* crypto::encrypt: the bytes of the ciphertext, and the tag.
Encrypt(key, nonce, m, aad) ==
  [i \in 1 .. MsgLen[m] + 1 |-> <<"ct", key, nonce, aad, m, i>>]

\* crypto::decrypt: the message, if there is one, as a set.
Decrypt(key, nonce, ct, aad) == {m \in Messages : ct = Encrypt(key, nonce, m, aad)}

\* judge_recover and the other fallible functions return an error or a value.
Err(e) == [error |-> e, value |-> <<>>]
Ok(v) == [error |-> "none", value |-> v]

\* The commitment, the nonce and the recovery channel bound to the commitment.
Seal(keys, r, m) ==
  <<CommitValue(keys.com, m)>> \o <<r>> \o Encrypt(keys.enc, r, m, CommitValue(keys.com, m))

\* commit_with_ephemeral
CommitWithEphemeral(ek, m, r, e_sk) ==
  LET e_pk == Public(e_sk)
      sealed == Seal(DeriveKeys(Shared(e_sk, ek), e_pk, ek, Nonce(r)), Nonce(r), m)
  IN IF MsgLen[m] > MaxMessageLen THEN Err("TooLarge")
     ELSE IF ~ Contributory(ek) THEN Err("InvalidKey")
     ELSE Ok([commitment |-> Head(sealed), aux |-> <<e_pk>> \o Tail(sealed)])

\* verify_ext
VerifyExt(aux) == Len(aux) >= 3 /\ Len(aux) <= MaxStreamBytes - 2

\* judge_recover
JudgeRecover(dk, c, aux) ==
  LET e_pk == aux[1]
      r == aux[2]
      keys == DeriveKeys(Shared(dk, e_pk), e_pk, Public(dk), r)
      opened == Decrypt(keys.enc, r, SubSeq(aux, 3, Len(aux)), c)
  IN IF Len(aux) < 3 THEN Err("Truncated")
     ELSE IF ~ Contributory(e_pk) THEN Err("InvalidKey")
     ELSE IF opened = {} THEN Err("Crypto")
     ELSE LET m == CHOOSE x \in opened : TRUE
          IN IF CommitValue(keys.com, m) # c THEN Err("Crypto") ELSE Ok(m)

\* JrcCommitment::to_bytes and from_bytes
ToBytes(committed) == <<Magic, committed.commitment>> \o committed.aux

Bug_FromBytes(bytes) ==       \* does not look at the magic
  IF Len(bytes) > MaxStreamBytes THEN Err("TooLarge")
  ELSE IF Len(bytes) < Overhead THEN Err("Truncated")
  ELSE Ok([commitment |-> bytes[2], aux |-> SubSeq(bytes, 3, Len(bytes))])

FromBytes(bytes) ==
  IF Len(bytes) > MaxStreamBytes THEN Err("TooLarge")
  ELSE IF Len(bytes) < Overhead THEN Err("Truncated")
  ELSE IF bytes[1] # Magic THEN Err("BadMagic")
  ELSE Ok([commitment |-> bytes[2], aux |-> SubSeq(bytes, 3, Len(bytes))])
=============================================================================
