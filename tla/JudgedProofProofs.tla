------------------------- MODULE JudgedProofProofs --------------------------
(***************************************************************************)
(* Proofs about JudgedFile and JudgedProof, for any messages, lengths, keys *)
(* and nonces, statements, relation, proof lengths and limits, any number   *)
(* of envelopes and transcripts, and any number of changes to them.         *)
(*                                                                         *)
(* The invariant says what every envelope consists of, that no two have the *)
(* same ephemeral secret, and that whatever is under way consists of cells  *)
(* of the envelopes made and of cells that nobody made.  A cell of a        *)
(* ciphertext carries all that it was sealed with, so the one that a judge  *)
(* opens names the envelope it is from, and through the associated data the *)
(* rest of that envelope.                                                   *)
(*                                                                         *)
(* A cell of a proof carries the public input and the length it was made    *)
(* for.  So the first cell of a proof that verifies names the transcript it *)
(* is from, the public input gives that transcript's key, statement,        *)
(* commitment and aux, and the length where its envelope starts: these are  *)
(* all of its bytes.                                                        *)
(***************************************************************************)
EXTENDS JudgedProof, SequenceTheorems, TLAPS

-----------------------------------------------------------------------------
(* Envelopes alone: JudgedFile.                                            *)

Key(e) == DeriveKeys(Shared(e.e_sk, e.ek), Public(e.e_sk), e.ek, Nonce(e.r))
Com(e) == CommitValue(Key(e).com, e.m)
CtCell(e, i) == <<"ct", Key(e).enc, Nonce(e.r), Com(e), e.m, i>>
Cells(e) ==
  {Magic, Com(e), Public(e.e_sk), Nonce(e.r)} \cup {CtCell(e, i) : i \in 1 .. MsgLen[e.m] + 1}

IsEnvelope(e) ==
  /\ e.m \in Messages /\ MsgLen[e.m] <= MaxMessageLen
  /\ e.bytes \in Seq(Cells(e)) /\ Len(e.bytes) = MsgLen[e.m] + 5
  /\ e.bytes[1] = Magic /\ e.bytes[2] = Com(e)
  /\ e.bytes[3] = Public(e.e_sk) /\ e.bytes[4] = Nonce(e.r)
  /\ \A i \in 1 .. MsgLen[e.m] + 1 : e.bytes[4 + i] = CtCell(e, i)

\* What an envelope that was made is parsed to.
Committed(e) == [commitment |-> e.bytes[2], aux |-> SubSeq(e.bytes, 3, Len(e.bytes))]

\* The cells that may be under way when these envelopes were made.
CellsOf(M) == (UNION {Cells(e) : e \in M}) \cup {Other, LowPoint}
Known == CellsOf(made)

\* No cell of a ciphertext is in S but those of the envelopes made.
OnlySealed(S) ==
  \A k, n, c, m, i : <<"ct", k, n, c, m, i>> \in S =>
    \E e \in made : k = Key(e).enc /\ n = Nonce(e.r) /\ c = Com(e) /\ m = e.m

\* The envelopes are what commit makes, and what is under way consists of S.
Held(S) ==
  /\ \A e \in made : IsEnvelope(e)
  /\ \A e, f \in made : e.e_sk = f.e_sk => e = f
  /\ wire # None => wire \in Seq(S)
  /\ Got => wire # None /\ Recovered(outcome.dk, wire) = Ok(outcome.value)

IInv == Held(Known)

-----------------------------------------------------------------------------
(* Envelopes.                                                              *)

\* The entries of a sequence without its first one.
LEMMA SequenceTail ==
  ASSUME NEW S, NEW s \in Seq(S), NEW n \in Nat, Len(s) = n + 2
  PROVE  /\ Tail(s) \in Seq(S) /\ Len(Tail(s)) = n + 1 /\ Tail(s)[1] = s[2]
         /\ \A i \in 1 .. n : Tail(s)[i + 1] = s[i + 2]
<1>1. /\ Tail(s) \in Seq(S) /\ Len(Tail(s)) = n + 1
      /\ \A i \in 1 .. n + 1 : Tail(s)[i] = s[i + 1]
  OBVIOUS
<1>2. ASSUME NEW i \in 1 .. n
      PROVE  Tail(s)[i + 1] = s[i + 2]
  <2>1. i + 1 \in 1 .. n + 1 /\ (i + 1) + 1 = i + 2
    OBVIOUS
  <2> QED
    BY <2>1, <1>1
<1> QED
  BY <1>1, <1>2

\* The bytes of a ciphertext: as many as the message has, and the tag.
LEMMA EncryptCells ==
  ASSUME NEW key, NEW nonce, NEW m \in Messages, NEW aad,
         NEW S, \A i \in 1 .. MsgLen[m] + 1 : <<"ct", key, nonce, aad, m, i>> \in S
  PROVE  Encrypt(key, nonce, m, aad) \in Seq(S)
<1>1. PICK n : n = MsgLen[m] + 1
  OBVIOUS
<1>2. PICK ct : ct = [i \in 1 .. n |-> <<"ct", key, nonce, aad, m, i>>]
  OBVIOUS
<1>3. n \in Nat /\ Encrypt(key, nonce, m, aad) = ct
  BY <1>1, <1>2, JrcAssumption DEF Encrypt
<1>4. ct \in [1 .. n -> S] /\ \A i \in 1 .. n : ct[i] = <<"ct", key, nonce, aad, m, i>>
  BY <1>1, <1>2
<1>5. ct \in Seq(S) /\ Len(ct) = n
  <2>1. [1 .. n -> S] \subseteq Seq(S)
    BY <1>3
  <2>2. DOMAIN ct = 1 .. n
    BY <1>4
  <2> QED
    BY <2>1, <2>2, <1>3, <1>4
<1> QED
  BY <1>1, <1>3, <1>4, <1>5

\* The length of a ciphertext and the bytes at each place of it.
LEMMA EncryptLen ==
  ASSUME NEW key, NEW nonce, NEW m \in Messages, NEW aad
  PROVE  /\ Len(Encrypt(key, nonce, m, aad)) = MsgLen[m] + 1
         /\ \A i \in 1 .. MsgLen[m] + 1 :
              Encrypt(key, nonce, m, aad)[i] = <<"ct", key, nonce, aad, m, i>>
<1>1. PICK n : n = MsgLen[m] + 1
  OBVIOUS
<1>2. PICK ct : ct = [i \in 1 .. n |-> <<"ct", key, nonce, aad, m, i>>]
  OBVIOUS
<1>3. n \in Nat /\ Encrypt(key, nonce, m, aad) = ct
  BY <1>1, <1>2, JrcAssumption DEF Encrypt
<1>4. DOMAIN ct = 1 .. n /\ \A i \in 1 .. n : ct[i] = <<"ct", key, nonce, aad, m, i>>
  BY <1>2
<1> QED
  BY <1>1, <1>3, <1>4

\* The ciphertext of an envelope.
LEMMA CipherCells ==
  ASSUME NEW e, e.m \in Messages,
         NEW ct, ct = Encrypt(Key(e).enc, Nonce(e.r), e.m, Com(e))
  PROVE  /\ ct \in Seq(Cells(e)) /\ Len(ct) = MsgLen[e.m] + 1
         /\ \A i \in 1 .. MsgLen[e.m] + 1 : ct[i] = CtCell(e, i)
<1>1. PICK k, n, c : k = Key(e).enc /\ n = Nonce(e.r) /\ c = Com(e)
  OBVIOUS
<1>2. PICK m \in Messages : m = e.m
  OBVIOUS
<1>3. \A i \in 1 .. MsgLen[m] + 1 : <<"ct", k, n, c, m, i>> \in Cells(e)
  BY <1>1, <1>2 DEF Cells, CtCell
<1>4. ct = Encrypt(k, n, m, c)
  BY <1>1, <1>2
<1>5. ct \in Seq(Cells(e))
  BY <1>3, <1>4, EncryptCells
<1>6. /\ Len(Encrypt(k, n, m, c)) = MsgLen[m] + 1
      /\ \A i \in 1 .. MsgLen[m] + 1 :
           Encrypt(k, n, m, c)[i] = <<"ct", k, n, c, m, i>>
  BY EncryptLen
<1>7. /\ Len(ct) = MsgLen[m] + 1
      /\ \A i \in 1 .. MsgLen[m] + 1 : ct[i] = <<"ct", k, n, c, m, i>>
  BY <1>4, <1>6
<1> QED
  BY <1>1, <1>2, <1>5, <1>7 DEF CtCell

\* What commit_with_ephemeral and to_bytes put together.
LEMMA CommitMakes ==
  ASSUME NEW e, e.m \in Messages,
         CommitWithEphemeral(e.ek, e.m, e.r, e.e_sk).error = "none",
         e.bytes = ToBytes(CommitWithEphemeral(e.ek, e.m, e.r, e.e_sk).value)
  PROVE  /\ IsEnvelope(e)
         /\ CommitWithEphemeral(e.ek, e.m, e.r, e.e_sk).value = Committed(e)
<1>1. PICK ct : ct = Encrypt(Key(e).enc, Nonce(e.r), e.m, Com(e))
  OBVIOUS
<1>2. /\ ct \in Seq(Cells(e)) /\ Len(ct) = MsgLen[e.m] + 1
      /\ \A i \in 1 .. MsgLen[e.m] + 1 : ct[i] = CtCell(e, i)
  BY <1>1, CipherCells
<1>3. PICK c : c = Com(e)
  OBVIOUS
<1>4. PICK n : n = Nonce(e.r)
  OBVIOUS
<1>5. PICK pk : pk = Public(e.e_sk)
  OBVIOUS
<1>6. {Magic, c, n, pk} \subseteq Cells(e)
  BY <1>3, <1>4, <1>5 DEF Cells
<1>7. PICK sealed : sealed = <<c>> \o <<n>> \o ct
  OBVIOUS
<1>8. /\ MsgLen[e.m] <= MaxMessageLen
      /\ e.bytes = <<Magic, c>> \o (<<pk>> \o Tail(sealed))
      /\ CommitWithEphemeral(e.ek, e.m, e.r, e.e_sk).value
           = [commitment |-> c, aux |-> <<pk>> \o Tail(sealed)]
  <2>1. sealed = Seal(DeriveKeys(Shared(e.e_sk, e.ek), Public(e.e_sk), e.ek, Nonce(e.r)), Nonce(e.r), e.m)
    BY <1>1, <1>3, <1>4, <1>7 DEF Seal, Com, Key
  <2>2. Head(sealed) = c
    BY <1>2, <1>6, <1>7
  <2>3. MsgLen[e.m] <= MaxMessageLen
    <3>1. ~ (MsgLen[e.m] > MaxMessageLen)
      BY DEF CommitWithEphemeral, Err
    <3>2. MsgLen[e.m] \in Nat /\ MaxMessageLen \in Nat
      BY JrcAssumption DEF MaxMessageLen, Overhead
    <3> QED
      BY <3>1, <3>2
  <2>4. CommitWithEphemeral(e.ek, e.m, e.r, e.e_sk) =
          Ok([commitment |-> Head(sealed), aux |-> <<pk>> \o Tail(sealed)])
    BY <2>1, <1>5 DEF CommitWithEphemeral, Err
  <2>5. PICK v : v = [commitment |-> Head(sealed), aux |-> <<pk>> \o Tail(sealed)]
    OBVIOUS
  <2>6. CommitWithEphemeral(e.ek, e.m, e.r, e.e_sk).value = v
    BY <2>4, <2>5 DEF Ok
  <2>7. e.bytes = ToBytes(v)
    BY <2>6
  <2>8. v = [commitment |-> c, aux |-> <<pk>> \o Tail(sealed)]
    BY <2>2, <2>5
  <2>9. e.bytes = <<Magic, c>> \o (<<pk>> \o Tail(sealed))
    BY <2>7, <2>8 DEF ToBytes
  <2> QED
    BY <2>3, <2>6, <2>8, <2>9, Zenon
<1>9. /\ Tail(sealed) \in Seq(Cells(e)) /\ Len(Tail(sealed)) = Len(ct) + 1
      /\ Tail(sealed)[1] = n
      /\ \A i \in 1 .. Len(ct) : Tail(sealed)[i + 1] = ct[i]
  <2>1. /\ <<c>> \o <<n>> \in Seq(Cells(e)) /\ Len(<<c>> \o <<n>>) = 2
        /\ (<<c>> \o <<n>>)[1] = c /\ (<<c>> \o <<n>>)[2] = n
    BY <1>6
  <2>2. PICK cn : cn = <<c>> \o <<n>>
    OBVIOUS
  <2>3. /\ sealed \in Seq(Cells(e)) /\ Len(sealed) = Len(ct) + 2
        /\ sealed[2] = n /\ \A i \in 1 .. Len(ct) : sealed[i + 2] = ct[i]
    BY <1>2, <1>7, <2>1, <2>2
  <2>4. Len(ct) \in Nat
    BY <1>2
  <2> QED
    BY <2>3, <2>4, SequenceTail
<1>10. PICK t : t = Tail(sealed)
  OBVIOUS
<1>11. PICK aux : aux = <<pk>> \o t
  OBVIOUS
<1>12. /\ aux \in Seq(Cells(e)) /\ Len(aux) = Len(ct) + 2
       /\ aux[1] = pk /\ aux[2] = n /\ \A i \in 1 .. Len(ct) : aux[i + 2] = ct[i]
  <2>1. /\ aux \in Seq(Cells(e)) /\ Len(aux) = Len(t) + 1 /\ aux[1] = pk
        /\ \A i \in 1 .. Len(t) : aux[i + 1] = t[i]
    BY <1>6, <1>9, <1>10, <1>11
  <2>2. ASSUME NEW i \in 1 .. Len(ct)
        PROVE  aux[i + 2] = ct[i]
    <3>1. i + 1 \in 1 .. Len(t) /\ (i + 1) + 1 = i + 2
      BY <1>2, <1>9, <1>10
    <3> QED
      BY <2>1, <3>1, <1>9, <1>10
  <2>3. Len(ct) \in Nat /\ Len(t) = Len(ct) + 1
    BY <1>2, <1>9, <1>10
  <2>4. 1 \in 1 .. Len(t) /\ t[1] = n
    BY <2>3, <1>9, <1>10
  <2>5. aux[1 + 1] = n
    BY <2>1, <2>4
  <2> QED
    BY <2>1, <2>2, <2>3, <2>5
<1>13. /\ e.bytes \in Seq(Cells(e)) /\ Len(e.bytes) = Len(aux) + 2
       /\ e.bytes[1] = Magic /\ e.bytes[2] = c
       /\ \A i \in 1 .. Len(aux) : e.bytes[i + 2] = aux[i]
  <2>1. e.bytes = <<Magic, c>> \o aux
    BY <1>8, <1>10, <1>11
  <2> QED
    BY <2>1, <1>6, <1>12
<1>14. e.bytes[3] = pk /\ e.bytes[4] = n
  <2>1. 1 \in 1 .. Len(aux) /\ 2 \in 1 .. Len(aux)
    BY <1>2, <1>12, JrcAssumption
  <2>2. e.bytes[1 + 2] = aux[1] /\ e.bytes[2 + 2] = aux[2]
    BY <2>1, <1>13
  <2> QED
    BY <2>2, <1>12
<1>15. ASSUME NEW i \in 1 .. MsgLen[e.m] + 1
       PROVE  e.bytes[4 + i] = CtCell(e, i)
  <2>1. i \in 1 .. Len(ct) /\ i + 2 \in 1 .. Len(aux) /\ (i + 2) + 2 = 4 + i
    BY <1>2, <1>12, JrcAssumption
  <2> QED
    BY <2>1, <1>2, <1>12, <1>13
<1>16. Len(e.bytes) = MsgLen[e.m] + 5
  BY <1>2, <1>12, <1>13, JrcAssumption
<1>17. IsEnvelope(e)
  BY <1>3, <1>4, <1>5, <1>8, <1>13, <1>14, <1>15, <1>16 DEF IsEnvelope
<1>18. SubSeq(e.bytes, 3, Len(e.bytes)) = aux
  <2>1. PICK len \in Nat : len = Len(aux)
    BY <1>12
  <2>2. PICK bytes \in Seq(Cells(e)) : bytes = e.bytes
    BY <1>13
  <2>3. PICK sub : sub = SubSeq(bytes, 3, Len(bytes))
    OBVIOUS
  <2>4. /\ sub \in Seq(Cells(e)) /\ Len(sub) = len
        /\ \A i \in 1 .. len : sub[i] = bytes[i + 2]
    BY <1>13, <2>1, <2>2, <2>3
  <2>5. aux \in Seq(Cells(e)) /\ \A i \in 1 .. len : aux[i] = bytes[i + 2]
    BY <1>12, <1>13, <2>1, <2>2
  <2>6. sub = aux
    BY <2>1, <2>4, <2>5
  <2> QED
    BY <2>2, <2>3, <2>6
<1> QED
  BY <1>8, <1>10, <1>11, <1>13, <1>17, <1>18 DEF Committed

-----------------------------------------------------------------------------
(* Recovery.                                                               *)

\* A cell of a ciphertext that is under way is from an envelope, with all that
\* it was sealed with.
LEMMA KnownCell == OnlySealed(Known)
<1> SUFFICES ASSUME NEW k, NEW n, NEW c, NEW m, NEW i, <<"ct", k, n, c, m, i>> \in Known
             PROVE  \E e \in made : /\ k = Key(e).enc /\ n = Nonce(e.r)
                                    /\ c = Com(e) /\ m = e.m
  BY DEF OnlySealed
<1>1. PICK cell : cell = <<"ct", k, n, c, m, i>>
  OBVIOUS
<1>2. cell[1] = "ct" /\ cell[2] = k /\ cell[3] = n /\ cell[4] = c /\ cell[5] = m
  BY <1>1
<1>3. cell # Other /\ cell # LowPoint
  BY <1>2 DEF Other, LowPoint
<1>4. PICK e \in made : cell \in Cells(e)
  <2>1. cell \in Known
    BY <1>1
  <2>2. PICK U : U = UNION {Cells(e) : e \in made}
    OBVIOUS
  <2>3. Known = U \cup {Other, LowPoint}
    BY <2>2 DEF Known, CellsOf
  <2>4. cell \in U
    BY <2>1, <2>3, <1>3
  <2>5. PICK S \in {Cells(e) : e \in made} : cell \in S
    BY <2>2, <2>4
  <2> QED
    BY <2>5
<1>5. cell # Magic /\ cell # Com(e) /\ cell # Public(e.e_sk) /\ cell # Nonce(e.r)
  BY <1>2 DEF Magic, Com, CommitValue, Public, Nonce
<1>6. PICK j : cell = CtCell(e, j)
  BY <1>4, <1>5 DEF Cells
<1>7. /\ cell[2] = Key(e).enc /\ cell[3] = Nonce(e.r)
      /\ cell[4] = Com(e) /\ cell[5] = e.m
  BY <1>6 DEF CtCell
<1> QED
  BY <1>2, <1>7

\* Equal keys mean equal inputs of their derivation.
LEMMA KeyBinds ==
  ASSUME NEW s, NEW pk, NEW ek, NEW r, NEW s2, NEW pk2, NEW ek2, NEW r2,
         DeriveKeys(s, pk, ek, r).enc = DeriveKeys(s2, pk2, ek2, r2).enc
  PROVE  s = s2 /\ pk = pk2 /\ ek = ek2 /\ r = r2
<1>1. <<"enc", s, pk, ek, r>> = <<"enc", s2, pk2, ek2, r2>>
  BY DEF DeriveKeys
<1> QED
  BY <1>1

\* What a judge opens under way is an envelope that was made for that judge.
LEMMA OpenedWasMade ==
  ASSUME \A e \in made : IsEnvelope(e),
         NEW S, OnlySealed(S), wire \in Seq(S),
         NEW dk, NEW v, Recovered(dk, wire) = Ok(v)
  PROVE  \E e \in made : e.bytes = wire /\ e.m = v /\ e.ek = Public(dk)
<1>1. PICK aux : aux = SubSeq(wire, 3, Len(wire))
  OBVIOUS
<1>2. PICK c, pk, n : c = wire[2] /\ pk = aux[1] /\ n = aux[2]
  OBVIOUS
<1>3. PICK keys : keys = DeriveKeys(Shared(dk, pk), pk, Public(dk), n)
  OBVIOUS
<1>4. PICK ct : ct = SubSeq(aux, 3, Len(aux))
  OBVIOUS
<1>5. /\ Len(wire) >= Overhead /\ wire[1] = Magic
      /\ JudgeRecover(dk, c, aux) = Ok(v)
  <2>1. FromBytes(wire).error = "none"
    BY DEF Recovered, Ok
  <2>2. /\ ~ (Len(wire) < Overhead) /\ wire[1] = Magic
        /\ FromBytes(wire) = Ok([commitment |-> c, aux |-> aux])
    BY <2>1, <1>1, <1>2 DEF FromBytes, Err
  <2>3. FromBytes(wire).value.commitment = c /\ FromBytes(wire).value.aux = aux
    BY <2>2 DEF Ok
  <2>4. JudgeRecover(dk, c, aux) = Ok(v)
    BY <2>1, <2>3 DEF Recovered
  <2> QED
    BY <2>2, <2>4 DEF Overhead
<1>6. PICK opened : opened = Decrypt(keys.enc, n, ct, c)
  OBVIOUS
<1>7. opened # {} /\ v = CHOOSE x \in opened : TRUE
  BY <1>5, <1>2, <1>3, <1>4, <1>6 DEF JudgeRecover, Ok, Err
<1>8. v \in Messages /\ ct = Encrypt(keys.enc, n, v, c)
  BY <1>6, <1>7 DEF Decrypt
<1>9. /\ Len(aux) = Len(wire) - 2 /\ Len(aux) >= 3
      /\ \A i \in 1 .. Len(aux) : aux[i] = wire[i + 2]
      /\ aux \in Seq(S)
  BY <1>1, <1>5 DEF Overhead
<1>10. /\ Len(ct) = Len(wire) - 4
       /\ \A i \in 1 .. Len(ct) : ct[i] = aux[i + 2]
  BY <1>4, <1>9
<1>11. /\ Len(ct) = MsgLen[v] + 1
       /\ \A i \in 1 .. Len(ct) : ct[i] = <<"ct", keys.enc, n, c, v, i>>
  <2>1. PICK k : k = keys.enc
    OBVIOUS
  <2>2. Len(ct) = MsgLen[v] + 1
    <3>1. Len(Encrypt(k, n, v, c)) = MsgLen[v] + 1
      BY <1>8, EncryptLen, Zenon
    <3> QED
      BY <3>1, <1>8, <2>1
  <2>3. \A i \in 1 .. MsgLen[v] + 1 : ct[i] = <<"ct", k, n, c, v, i>>
    BY <1>8, <2>1, EncryptLen
  <2> QED
    BY <2>1, <2>2, <2>3
<1>12. \A i \in 1 .. Len(ct) : wire[i + 4] = <<"ct", keys.enc, n, c, v, i>>
  <2>1. ASSUME NEW i \in 1 .. Len(ct)
        PROVE  wire[i + 4] = ct[i]
    <3>1. i + 2 \in 1 .. Len(aux) /\ (i + 2) + 2 = i + 4
      BY <1>9, <1>10
    <3> QED
      BY <3>1, <1>9, <1>10
  <2> QED
    BY <2>1, <1>11
<1>13. PICK e \in made : keys.enc = Key(e).enc /\ n = Nonce(e.r) /\ c = Com(e) /\ v = e.m
  <2>1. 1 \in 1 .. Len(ct) /\ 5 \in 1 .. Len(wire)
    BY <1>8, <1>10, <1>11, JrcAssumption
  <2>2. wire[5] = <<"ct", keys.enc, n, c, v, 1>>
    BY <2>1, <1>12
  <2>3. wire[5] \in S
    BY <2>1
  <2> QED
    BY <2>2, <2>3 DEF OnlySealed
<1>14. pk = Public(e.e_sk) /\ Public(dk) = e.ek
  BY <1>3, <1>13, KeyBinds DEF Key
<1>15. IsEnvelope(e)
  OBVIOUS
<1>16. Len(e.bytes) = Len(wire)
  BY <1>10, <1>11, <1>13, <1>15, JrcAssumption DEF IsEnvelope
<1>17. wire[3] = pk /\ wire[4] = n
  BY <1>2, <1>9
<1>18. ASSUME NEW i \in 1 .. Len(wire)
       PROVE  e.bytes[i] = wire[i]
  <2>1. CASE i > 4
    <3>1. PICK j \in 1 .. Len(ct) : i = 4 + j /\ i = j + 4
      <4>1. i - 4 \in 1 .. Len(ct) /\ i = 4 + (i - 4) /\ i = (i - 4) + 4
        BY <2>1, <1>10
      <4> QED
        BY <4>1
    <3>2. e.bytes[4 + j] = CtCell(e, j)
      BY <3>1, <1>11, <1>13, <1>15 DEF IsEnvelope
    <3>3. wire[j + 4] = <<"ct", keys.enc, n, c, v, j>>
      BY <3>1, <1>12
    <3> QED
      BY <3>1, <3>2, <3>3, <1>13 DEF CtCell
  <2>2. CASE i \in {1, 2, 3, 4}
    BY <2>2, <1>2, <1>5, <1>13, <1>14, <1>15, <1>17 DEF IsEnvelope
  <2> QED
    BY <2>1, <2>2
<1>19. e.bytes = wire
  <2>1. e.bytes \in Seq(Cells(e))
    BY <1>15 DEF IsEnvelope
  <2> QED
    BY <2>1, <1>16, <1>18
<1> QED
  BY <1>13, <1>14, <1>19

\* The named judge opens an envelope as it was made.
LEMMA NamedJudgeOpens ==
  ASSUME NEW e, IsEnvelope(e), NEW dk, e.ek = Public(dk)
  PROVE  /\ FromBytes(e.bytes) = Ok(Committed(e))
         /\ Recovered(dk, e.bytes) = Ok(e.m)
<1>1. PICK bytes : bytes = e.bytes
  OBVIOUS
<1>2. PICK len : len = MsgLen[e.m] + 1
  OBVIOUS
<1>3. /\ len \in Nat /\ len >= 1 /\ Len(bytes) = len + 4
      /\ bytes \in Seq(Cells(e)) /\ Len(bytes) <= MaxStreamBytes
      /\ bytes[1] = Magic /\ bytes[2] = Com(e)
      /\ bytes[3] = Public(e.e_sk) /\ bytes[4] = Nonce(e.r)
      /\ \A i \in 1 .. len : bytes[4 + i] = CtCell(e, i)
  BY <1>1, <1>2, JrcAssumption DEF IsEnvelope, MaxMessageLen, Overhead
<1>4. PICK aux : aux = SubSeq(bytes, 3, Len(bytes))
  OBVIOUS
<1>5. /\ aux \in Seq(Cells(e)) /\ Len(aux) = len + 2
      /\ \A i \in 1 .. len + 2 : aux[i] = bytes[i + 2]
  BY <1>3, <1>4
<1>6. aux[1] = Public(e.e_sk) /\ aux[2] = Nonce(e.r)
  BY <1>3, <1>5
<1>7. PICK ct : ct = SubSeq(aux, 3, Len(aux))
  OBVIOUS
<1>8. /\ ct \in Seq(Cells(e)) /\ Len(ct) = len
      /\ \A i \in 1 .. len : ct[i] = aux[i + 2]
  BY <1>3, <1>5, <1>7
<1>9. ASSUME NEW i \in 1 .. len
      PROVE  ct[i] = CtCell(e, i)
  <2>1. i + 2 \in 1 .. len + 2 /\ (i + 2) + 2 = 4 + i
    BY <1>3
  <2> QED
    BY <2>1, <1>3, <1>5, <1>8
<1>10. PICK keys : keys = DeriveKeys(Shared(dk, aux[1]), aux[1], Public(dk), aux[2])
  OBVIOUS
<1>11. keys = Key(e)
  BY <1>6, <1>10 DEF Key, Shared
<1>12. ct = Encrypt(keys.enc, Nonce(e.r), e.m, Com(e))
  <2>1. PICK f : f = Encrypt(Key(e).enc, Nonce(e.r), e.m, Com(e))
    OBVIOUS
  <2>2. e.m \in Messages
    BY DEF IsEnvelope
  <2>3. f \in Seq(Cells(e)) /\ Len(f) = len /\ \A i \in 1 .. len : f[i] = CtCell(e, i)
    BY <2>1, <2>2, <1>2, CipherCells
  <2>4. ct = f
    BY <2>3, <1>8, <1>9
  <2> QED
    BY <2>1, <2>4, <1>11
<1>13. PICK opened : opened = Decrypt(keys.enc, aux[2], ct, Com(e))
  OBVIOUS
<1>14. e.m \in opened
  BY <1>6, <1>12, <1>13 DEF Decrypt, IsEnvelope
<1>15. ASSUME NEW x \in opened
       PROVE  x = e.m
  <2>1. PICK k, n, c : k = keys.enc /\ n = Nonce(e.r) /\ c = Com(e)
    OBVIOUS
  <2>2. x \in Messages /\ ct = Encrypt(k, n, x, c)
    BY <2>1, <1>6, <1>13 DEF Decrypt
  <2>3. 1 \in 1 .. MsgLen[x] + 1 /\ 1 \in 1 .. len
    BY <2>2, <1>3, JrcAssumption
  <2>4. ct[1] = <<"ct", k, n, c, x, 1>>
    BY <2>2, <2>3, EncryptLen
  <2>5. ct[1] = CtCell(e, 1)
    BY <2>3, <1>9
  <2> QED
    BY <2>4, <2>5 DEF CtCell
<1>16. e.m = CHOOSE x \in opened : TRUE
  BY <1>14, <1>15
<1>17. JudgeRecover(dk, Com(e), aux) = Ok(e.m)
  <2>1. ~ (Len(aux) < 3) /\ Contributory(aux[1])
    BY <1>3, <1>5, <1>6 DEF Contributory, Public, LowPoint
  <2>2. CommitValue(keys.com, e.m) = Com(e)
    BY <1>11 DEF Com
  <2>3. opened # {}
    BY <1>14
  <2> QED
    BY <2>1, <2>2, <2>3, <1>7, <1>10, <1>13, <1>16 DEF JudgeRecover
<1>18. FromBytes(bytes) = Ok([commitment |-> Com(e), aux |-> aux])
  BY <1>3, <1>4, JrcAssumption DEF FromBytes, Overhead
<1>19. Committed(e) = [commitment |-> Com(e), aux |-> aux]
  BY <1>1, <1>3, <1>4 DEF Committed
<1> QED
  BY <1>1, <1>17, <1>18, <1>19 DEF Recovered, Ok

-----------------------------------------------------------------------------
(* The invariant.                                                          *)

\* Whatever is done to bytes under way, it puts in no other cells.
LEMMA AlteredKeepsCells ==
  ASSUME NEW S, NEW bytes \in Seq(S), NEW others, \A o \in others : o \in Seq(S),
         NEW cells \in SUBSET S, Other \in S, NEW b \in Altered(bytes, others, cells)
  PROVE  b \in Seq(S)
<1>1. CASE b \in CellDamaged(bytes, cells)
  BY <1>1 DEF CellDamaged
<1>2. CASE b \in Shortened(bytes)
  <2>1. PICK n \in 0 .. Len(bytes) - 1 : b = SubSeq(bytes, 1, n)
    BY <1>2 DEF Shortened
  <2>2. 1 \in Int /\ n \in Int /\ \A j \in 1 .. n : bytes[j] \in S
    OBVIOUS
  <2> QED
    BY <2>1, <2>2, SubSeqProperties
<1>3. CASE b = Append(bytes, Other)
  BY <1>3
<1>4. ASSUME NEW o \in others, b \in CellMoved(bytes, o)
      PROVE  b \in Seq(S)
  <2>1. o \in Seq(S)
    OBVIOUS
  <2>2. PICK i \in DOMAIN bytes \cap DOMAIN o : b = [bytes EXCEPT ![i] = o[i]]
    BY <1>4 DEF CellMoved
  <2>3. o[i] \in S
    BY <2>1, <2>2
  <2> QED
    BY <2>2, <2>3
<1>5. ASSUME NEW o \in others, b \in RestMoved(bytes, o)
      PROVE  b \in Seq(S)
  <2>1. o \in Seq(S) /\ DOMAIN o = 1 .. Len(o) /\ DOMAIN bytes = 1 .. Len(bytes)
    OBVIOUS
  <2>2. PICK i \in DOMAIN bytes \cap DOMAIN o :
          b = SubSeq(bytes, 1, i) \o SubSeq(o, i + 1, Len(o))
    BY <1>5 DEF RestMoved
  <2>3. i \in 1 .. Len(bytes) /\ i \in 1 .. Len(o)
    BY <2>1, <2>2
  <2>4. \A j \in 1 .. i : bytes[j] \in S
    BY <2>3
  <2>5. \A j \in i + 1 .. Len(o) : o[j] \in S
    BY <2>1, <2>3
  <2>6. 1 \in Int /\ i \in Int /\ i + 1 \in Int /\ Len(o) \in Int
    BY <2>1, <2>3
  <2>7. SubSeq(bytes, 1, i) \in Seq(S) /\ SubSeq(o, i + 1, Len(o)) \in Seq(S)
    BY <2>4, <2>5, <2>6, SubSeqProperties
  <2> QED
    BY <2>2, <2>7
<1> QED
  BY <1>1, <1>2, <1>3, <1>4, <1>5 DEF Altered

\* Nothing is made or under way at first.
LEMMA InitInv == Init => IInv
BY DEF Init, IInv, Held, Got

\* commit and pack_file_jrc, whether they make an envelope or fail.
LEMMA CommitKeepsHeld ==
  ASSUME NEW S, NEW T, S \subseteq T, Held(S),
         NEW by \in {"commit", "pack"}, NEW ek, NEW m \in Messages, NEW r,
         CommitAs(by, ek, m, r)
  PROVE  Held(T)'
<1>1. wire' = wire
  BY DEF CommitAs
<1>2. outcome'.call = by
  BY DEF CommitAs, Returns
<1>3. ~ Got'
  BY <1>2 DEF Got
<1>4. wire' # None => wire' \in Seq(T)
  BY <1>1 DEF Held
<1>5. CASE made' = made
  BY <1>3, <1>4, <1>5 DEF Held
<1>6. CASE made' # made
  <2>1. PICK e_sk \in Fresh :
          LET committed == CommitWithEphemeral(ek, m, r, e_sk)
              result == IF committed.error = "none"
                        THEN Serialized(by, committed.value) ELSE committed
          IN made' = IF result.error # "none" THEN made
                     ELSE made \cup {[ek |-> ek, m |-> m, r |-> r, e_sk |-> e_sk,
                                      bytes |-> result.value]}
    BY <1>6 DEF CommitAs
  <2>2. PICK committed : committed = CommitWithEphemeral(ek, m, r, e_sk)
    OBVIOUS
  <2>3. PICK result : result = IF committed.error = "none"
                               THEN Serialized(by, committed.value) ELSE committed
    OBVIOUS
  <2>4. PICK e : e = [ek |-> ek, m |-> m, r |-> r, e_sk |-> e_sk, bytes |-> result.value]
    OBVIOUS
  <2>5. result.error = "none" /\ made' = made \cup {e}
    BY <2>1, <2>2, <2>3, <2>4, <1>6
  <2>6. committed.error = "none" /\ result.value = ToBytes(committed.value)
    BY <2>3, <2>5 DEF Serialized, Ok, Err
  <2>7. /\ e.ek = ek /\ e.m = m /\ e.r = r /\ e.e_sk = e_sk
        /\ e.bytes = ToBytes(committed.value)
    BY <2>4, <2>6
  <2>8. IsEnvelope(e)
    BY <2>2, <2>6, <2>7, CommitMakes
  <2>9. \A f \in made : f.e_sk # e.e_sk
    BY <2>7 DEF Fresh
  <2> QED
    BY <1>3, <1>4, <2>5, <2>8, <2>9 DEF Held
<1> QED
  BY <1>5, <1>6

\* One step per action: making, sending, altering and recovering.  T is what
\* may be under way afterwards.
LEMMA NextKeepsHeld ==
  ASSUME NEW S, NEW T, S \subseteq T, CellsOf(made) \subseteq S,
         Held(S), [Next]_vars
  PROVE  Held(T)'
<1>1. ASSUME NEW ek \in JudgeKeys, NEW m \in Messages, NEW r \in Nonces,
             Commit(ek, m, r) \/ PackFileJrc(ek, m, r)
      PROVE  Held(T)'
  BY <1>1, CommitKeepsHeld DEF Commit, PackFileJrc
<1>2. CASE Send
  <2>1. PICK e \in made : wire' = e.bytes
    BY <1>2 DEF Send
  <2>2. e.bytes \in Seq(Cells(e))
    BY DEF Held, IsEnvelope
  <2>3. Cells(e) \subseteq T
    BY DEF CellsOf
  <2>4. wire' \in Seq(T)
    BY <2>1, <2>2, <2>3
  <2>5. made' = made /\ ~ Got'
    BY <1>2 DEF Send, Got
  <2> QED
    BY <2>4, <2>5 DEF Held
<1>3. CASE Alter
  <2>1. wire \in Seq(S)
    BY <1>3 DEF Alter, Held
  <2>2. \A o \in {e.bytes : e \in made} : o \in Seq(S)
    <3>1. ASSUME NEW e \in made
          PROVE  e.bytes \in Seq(S)
      <4>1. e.bytes \in Seq(Cells(e)) /\ Cells(e) \subseteq S
        BY DEF Held, IsEnvelope, CellsOf
      <4> QED
        BY <4>1
    <3> QED
      BY <3>1
  <2>3. {Other, LowPoint} \subseteq S
    BY DEF CellsOf
  <2>4. wire' \in Seq(S)
    BY <1>3, <2>1, <2>2, <2>3, AlteredKeepsCells DEF Alter
  <2>5. made' = made /\ ~ Got'
    BY <1>3 DEF Alter, Got
  <2>6. wire' \in Seq(T)
    BY <2>4
  <2> QED
    BY <2>5, <2>6 DEF Held
<1>4. ASSUME NEW dk \in Judges, Recover(dk) \/ UnpackFileJrc(dk)
      PROVE  Held(T)'
  <2>1. made' = made /\ wire' = wire /\ wire # None
    BY <1>4 DEF Recover, UnpackFileJrc
  <2>2. ASSUME outcome'.error = "none"
        PROVE  outcome'.dk = dk /\ Recovered(dk, wire).error = "none"
               /\ outcome'.value = Recovered(dk, wire).value
    BY <1>4, <2>2 DEF Recover, UnpackFileJrc, Returns, Err
  <2>3. ASSUME Recovered(dk, wire).error = "none"
        PROVE  Recovered(dk, wire) = Ok(Recovered(dk, wire).value)
    BY <2>3 DEF Recovered, FromBytes, JudgeRecover, Ok, Err
  <2>4. Got' => wire' # None /\ Recovered(outcome'.dk, wire') = Ok(outcome'.value)
    BY <2>1, <2>2, <2>3 DEF Got
  <2>5. wire' \in Seq(T)
    BY <2>1 DEF Held
  <2> QED
    BY <2>1, <2>4, <2>5 DEF Held
<1>5. CASE UNCHANGED vars
  BY <1>5 DEF vars, Held, Got
<1> QED
  BY <1>1, <1>2, <1>3, <1>4, <1>5 DEF Next

\* Envelopes are only added.
LEMMA NextKeepsMade == [Next]_vars => made \subseteq made'
<1>1. ASSUME NEW by, NEW ek, NEW m, NEW r, CommitAs(by, ek, m, r)
      PROVE  made \subseteq made'
  BY <1>1, Zenon DEF CommitAs
<1>2. Send \/ Alter \/ UNCHANGED vars => made' = made
  BY DEF Send, Alter, vars
<1>3. \A dk \in Judges : Recover(dk) \/ UnpackFileJrc(dk) => made' = made
  BY DEF Recover, UnpackFileJrc
<1> QED
  BY <1>1, <1>2, <1>3 DEF Next, Commit, PackFileJrc

\* So what may be under way only grows.
LEMMA NextInv == IInv /\ [Next]_vars => IInv'
<1> SUFFICES ASSUME IInv, [Next]_vars
             PROVE  IInv'
  OBVIOUS
<1>1. made \subseteq made'
  BY NextKeepsMade
<1>2. PICK S, T : S = Known /\ T = Known'
  OBVIOUS
<1>3. S \subseteq T /\ CellsOf(made) \subseteq S
  BY <1>1, <1>2 DEF Known, CellsOf
<1>4. Held(S)
  BY <1>2 DEF IInv
<1>5. Held(T)'
  BY <1>3, <1>4, NextKeepsHeld
<1> QED
  BY <1>2, <1>5 DEF IInv, Held

\* The inductive invariant of commitments and what may be under way.
THEOREM Invariant == Spec => []IInv
BY InitInv, NextInv, PTL DEF Spec

-----------------------------------------------------------------------------
(* What it implies.                                                        *)

\* Whatever else may be under way, a judge recovers only what was made for it.
LEMMA HeldIsGenuine ==
  ASSUME NEW S, OnlySealed(S), Held(S)
  PROVE  RecoveredWasCommitted /\ OnlyTheJudge
<1>1. RecoveredWasCommitted
  BY OpenedWasMade DEF Held, RecoveredWasCommitted
<1>2. ASSUME Got, NEW e \in made, e.bytes = wire
      PROVE  e.ek = Public(outcome.dk)
  <2>1. PICK f \in made : f.bytes = wire /\ f.ek = Public(outcome.dk)
    BY <1>2, OpenedWasMade DEF Held
  <2>2. IsEnvelope(e) /\ IsEnvelope(f)
    BY DEF Held
  <2>3. e.bytes[5] = CtCell(e, 1) /\ f.bytes[5] = CtCell(f, 1)
    <3>1. ASSUME NEW g \in {e, f}
          PROVE  g.bytes[4 + 1] = CtCell(g, 1)
      <4>1. 1 \in 1 .. MsgLen[g.m] + 1
        BY <2>2, JrcAssumption DEF IsEnvelope
      <4> QED
        BY <4>1, <2>2 DEF IsEnvelope
    <3> QED
      BY <3>1
  <2>4. Key(e).enc = Key(f).enc
    BY <1>2, <2>1, <2>3 DEF CtCell
  <2> QED
    BY <2>1, <2>4, KeyBinds DEF Key
<1> QED
  BY <1>1, <1>2 DEF OnlyTheJudge

\* The key of an envelope is that of its ephemeral secret, whatever else is
\* under way.
LEMMA HeldIsFresh ==
  ASSUME NEW S, Held(S)
  PROVE  NoKeyReuse
<1> SUFFICES ASSUME NEW e \in made, NEW f \in made, e # f,
                    NEW i \in 5 .. Len(e.bytes), NEW j \in 5 .. Len(f.bytes)
             PROVE  e.bytes[i][2] # f.bytes[j][2]
  BY DEF NoKeyReuse
<1>1. IsEnvelope(e) /\ IsEnvelope(f) /\ e.e_sk # f.e_sk
  BY DEF Held
<1>2. ASSUME NEW g, IsEnvelope(g), NEW n \in 5 .. Len(g.bytes)
      PROVE  g.bytes[n][2] = Key(g).enc
  <2>1. PICK x \in 1 .. MsgLen[g.m] + 1 : n = 4 + x
    <3>1. n - 4 \in 1 .. MsgLen[g.m] + 1 /\ n = 4 + (n - 4)
      BY <1>2, JrcAssumption DEF IsEnvelope
    <3> QED
      BY <3>1
  <2> QED
    BY <1>2, <2>1 DEF IsEnvelope, CtCell
<1>3. e.bytes[i][2] = Key(e).enc /\ f.bytes[j][2] = Key(f).enc
  BY <1>1, <1>2
<1>4. ASSUME Key(e).enc = Key(f).enc
      PROVE  FALSE
  <2>1. Public(e.e_sk) = Public(f.e_sk)
    BY <1>4, KeyBinds DEF Key
  <2> QED
    BY <2>1, <1>1 DEF Public
<1> QED
  BY <1>3, <1>4

\* No change to an envelope under way, however many, makes a judge recover
\* anything but a message from the envelope that was made for it: judge_recover
\* returns a message only from the very bytes commit returned for it.
THEOREM RecoveryIsGenuine == Spec => []RecoveredWasCommitted
<1>1. IInv => RecoveredWasCommitted
  BY KnownCell, HeldIsGenuine DEF IInv
<1> QED
  BY <1>1, Invariant, PTL

\* judge_recover returns a message to the judge named in its commitment only.
THEOREM JudgeIsExclusive == Spec => []OnlyTheJudge
<1>1. IInv => OnlyTheJudge
  BY KnownCell, HeldIsGenuine DEF IInv
<1> QED
  BY <1>1, Invariant, PTL

\* derive_keys with a fresh ephemeral secret never gives two commitments the
\* same key, whatever nonces the application passes.
THEOREM KeysAreFresh == Spec => []NoKeyReuse
<1>1. IInv => NoKeyReuse
  BY HeldIsFresh DEF IInv
<1> QED
  BY <1>1, Invariant, PTL

\* The judge whom the sender named opens whatever arrives as commit made it,
\* and unpack_file_jrc unpacks it if it holds a container.
THEOREM NamedJudgeRecovers == Spec => RoundTrip
<1> DEFINE Opens == \A dk \in Judges, e \in made :
                      wire = e.bytes /\ e.ek = Public(dk) =>
                        /\ Recover(dk) => outcome'.error = "none"
                        /\ UnpackFileJrc(dk) /\ e.m \in Files => outcome'.error = "none"
<1>1. IInv => Opens
  <2> SUFFICES ASSUME IInv, NEW dk \in Judges, NEW e \in made,
                      wire = e.bytes, e.ek = Public(dk)
               PROVE  /\ Recover(dk) => outcome'.error = "none"
                      /\ UnpackFileJrc(dk) /\ e.m \in Files => outcome'.error = "none"
    OBVIOUS
  <2>1. Recovered(dk, wire) = Ok(e.m)
    BY NamedJudgeOpens DEF IInv, Held
  <2> QED
    BY <2>1 DEF Recover, UnpackFileJrc, Returns, Ok
<1>2. IInv /\ [Next]_vars => [Opens]_vars
  BY <1>1
<1> QED
  BY <1>2, Invariant, PTL DEF Spec, RoundTrip

\* What the invariant says of envelopes makes the length limits consistent.
LEMMA HeldFormatsAgree ==
  ASSUME NEW S, Held(S)
  PROVE  FormatsAgree
<1>1. ASSUME NEW e \in made
      PROVE  Len(e.bytes) <= MaxStreamBytes /\ FromBytes(e.bytes).error = "none"
  <2>1. IsEnvelope(e)
    BY DEF Held
  <2>2. /\ Len(e.bytes) \in Nat /\ Len(e.bytes) >= 5 /\ Len(e.bytes) <= MaxStreamBytes
        /\ e.bytes[1] = Magic
    BY <2>1, JrcAssumption DEF IsEnvelope, MaxMessageLen, Overhead
  <2> QED
    BY <2>2, JrcAssumption DEF FromBytes, Overhead, Ok
<1>2. ASSUME wire # None, Len(wire) >= 2, wire[1] = Magic
      PROVE  FromBytes(wire).error = "none" <=> VerifyExt(SubSeq(wire, 3, Len(wire)))
  <2>1. wire \in Seq(S)
    BY <1>2 DEF Held
  <2>2. PICK n \in Nat : n = Len(wire)
    BY <2>1
  <2>3. Len(SubSeq(wire, 3, Len(wire))) = n - 2
    BY <2>1, <2>2, <1>2
  <2>4. VerifyExt(SubSeq(wire, 3, Len(wire))) <=> n >= 5 /\ n <= MaxStreamBytes
    BY <2>2, <2>3, <1>2, JrcAssumption DEF VerifyExt
  <2>5. FromBytes(wire).error = "none" <=> n >= 5 /\ n <= MaxStreamBytes
    BY <2>2, <1>2, JrcAssumption DEF FromBytes, Overhead, Ok, Err
  <2> QED
    BY <2>4, <2>5
<1> QED
  BY <1>1, <1>2 DEF FormatsAgree

\* The length limits of commit, from_bytes and verify_ext are consistent, for
\* every limit of a stream.
THEOREM FormatsAreConsistent == Spec => []FormatsAgree
<1>1. IInv => FormatsAgree
  BY HeldFormatsAgree DEF IInv
<1> QED
  BY <1>1, Invariant, PTL

-----------------------------------------------------------------------------
(* Transcripts.                                                            *)

\* The public input of a transcript, the length of its proof and its cells.
Asked(q) == PublicInput(q.envelope.ek, q.x, Committed(q.envelope))
Size(q) == q.bytes[2][2]
ProofCell(q, i) == <<"proof", Asked(q), Size(q), i>>
ProofCells(q) == {ProofCell(q, i) : i \in 1 .. Size(q)}

IsTranscript(q) ==
  /\ q.envelope \in made
  /\ <<q.x, q.envelope.m>> \in Relation
  /\ Size(q) \in Nat \ {0} /\ Size(q) <= MaxRelationProofLen
  /\ q.bytes = <<ProofMagic, <<"len", Size(q)>>>> \o ProofOf(Asked(q), Size(q))
                 \o q.envelope.bytes
  /\ Len(q.bytes) <= MaxStreamBytes

\* The cells that may be under way.
LenCells == {<<"len", n>> : n \in Nat}
ProofKnown ==
  Known \cup {Magic, ProofMagic} \cup LenCells \cup UNION {ProofCells(q) : q \in proved}

ProofInv == Held(ProofKnown) /\ \A q \in proved : IsTranscript(q)

-----------------------------------------------------------------------------
(* Cells.                                                                  *)

\* A transcript adds no cell of a ciphertext to those of its envelope.
LEMMA ProofKnownCell == OnlySealed(ProofKnown)
<1> SUFFICES ASSUME NEW k, NEW n, NEW c, NEW m, NEW i,
                    <<"ct", k, n, c, m, i>> \in ProofKnown
             PROVE  <<"ct", k, n, c, m, i>> \in Known
  BY KnownCell DEF OnlySealed
<1>1. PICK cell : cell = <<"ct", k, n, c, m, i>>
  OBVIOUS
<1>2. cell[1] = "ct"
  BY <1>1
<1>3. cell # Magic /\ cell # ProofMagic
  BY <1>2 DEF Magic, ProofMagic
<1>4. cell \notin LenCells
  BY <1>2 DEF LenCells
<1>5. \A q \in proved : cell \notin ProofCells(q)
  BY <1>2 DEF ProofCells, ProofCell
<1>6. cell \in Known
  BY <1>1, <1>3, <1>4, <1>5 DEF ProofKnown
<1> QED
  BY <1>1, <1>6

\* A length under way is that of a header.
LEMMA LenCellKnown ==
  ASSUME NEW cell \in ProofKnown, cell[1] = "len"
  PROVE  \E n \in Nat : cell = <<"len", n>>
<1>1. cell # Magic /\ cell # ProofMagic /\ cell # Other /\ cell # LowPoint
  BY DEF Magic, ProofMagic, Other, LowPoint
<1>2. ASSUME NEW e, cell \in Cells(e)
      PROVE  FALSE
  BY <1>2 DEF Cells, Magic, Com, CommitValue, Public, Nonce, CtCell
<1>3. ASSUME NEW q, cell \in ProofCells(q)
      PROVE  FALSE
  BY <1>3 DEF ProofCells, ProofCell
<1>4. cell \in LenCells
  BY <1>1, <1>2, <1>3 DEF ProofKnown, Known, CellsOf
<1> QED
  BY <1>4 DEF LenCells

\* A cell of a proof under way is from a transcript, with its public input.
LEMMA ProofCellKnown ==
  ASSUME NEW public, NEW n, NEW i, <<"proof", public, n, i>> \in ProofKnown
  PROVE  \E q \in proved : public = Asked(q) /\ n = Size(q)
<1>1. PICK cell : cell = <<"proof", public, n, i>>
  OBVIOUS
<1>2. cell[1] = "proof" /\ cell[2] = public /\ cell[3] = n
  BY <1>1
<1>3. cell # Magic /\ cell # ProofMagic /\ cell # Other /\ cell # LowPoint
  BY <1>2 DEF Magic, ProofMagic, Other, LowPoint
<1>4. ASSUME NEW e, cell \in Cells(e)
      PROVE  FALSE
  BY <1>2, <1>4 DEF Cells, Magic, Com, CommitValue, Public, Nonce, CtCell
<1>5. cell \notin LenCells
  BY <1>2 DEF LenCells
<1>6. cell \in ProofKnown
  BY <1>1
<1>7. PICK q \in proved : cell \in ProofCells(q)
  BY <1>3, <1>4, <1>5, <1>6 DEF ProofKnown, Known, CellsOf
<1> QED
  BY <1>2, <1>7 DEF ProofCells, ProofCell

-----------------------------------------------------------------------------
(* The wire format.                                                        *)

\* What a concatenation holds, counted from where its second part starts.
LEMMA Joined ==
  ASSUME NEW S, NEW s \in Seq(S), NEW t \in Seq(S),
         NEW m, m = Len(s), NEW n, n = Len(t), NEW u, u = s \o t
  PROVE  /\ u \in Seq(S) /\ Len(u) = m + n
         /\ \A i \in 1 .. m : u[i] = s[i]
         /\ \A i \in 1 .. n : u[m + i] = t[i]
<1>1. m \in Nat /\ n \in Nat
  OBVIOUS
<1>2. /\ u \in Seq(S) /\ Len(u) = m + n
      /\ \A i \in 1 .. m + n : u[i] = IF i <= m THEN s[i] ELSE t[i - m]
  BY ConcatProperties, Zenon
<1>3. ASSUME NEW i \in 1 .. n
      PROVE  u[m + i] = t[i]
  <2>1. m + i \in 1 .. m + n /\ ~ (m + i <= m) /\ (m + i) - m = i
    BY <1>1
  <2> QED
    BY <2>1, <1>2
<1>4. ASSUME NEW i \in 1 .. m
      PROVE  u[i] = s[i]
  <2>1. i \in 1 .. m + n /\ i <= m
    BY <1>1
  <2> QED
    BY <2>1, <1>2
<1> QED
  BY <1>2, <1>3, <1>4

\* What a sequence holds after as many entries as p has, if that is t.
LEMMA Part ==
  ASSUME NEW S, NEW s \in Seq(S), NEW p \in Seq(S), NEW t \in Seq(S),
         NEW a, a = Len(p), NEW n, n = Len(t), NEW from, from = a + 1, NEW to, to = a + n,
         to <= Len(s), \A i \in 1 .. n : s[a + i] = t[i]
  PROVE  SubSeq(s, from, to) = t
<1>1. from \in Int /\ to \in Int /\ \A i \in from .. to : s[i] \in S
  OBVIOUS
<1>2. PICK sub : sub = SubSeq(s, from, to)
  OBVIOUS
<1>3. /\ sub \in Seq(S)
      /\ Len(sub) = IF from <= to THEN to - from + 1 ELSE 0
      /\ \A i \in 1 .. to - from + 1 : sub[i] = s[from + i - 1]
  BY <1>1, <1>2, SubSeqProperties
<1>4. /\ (IF from <= to THEN to - from + 1 ELSE 0) = n
      /\ to - from + 1 = n /\ \A i \in 1 .. n : from + i - 1 = a + i
  OBVIOUS
<1>5. Len(sub) = n /\ \A i \in 1 .. n : sub[i] = t[i]
  BY <1>3, <1>4
<1>6. sub = t
  BY <1>3, <1>5, SeqEqual
<1> QED
  BY <1>2, <1>6

\* Three parts one after the other, and how SubSeq takes the last two out again.
LEMMA Parts ==
  ASSUME NEW S, NEW s \in Seq(S), NEW t \in Seq(S), NEW v \in Seq(S),
         NEW l, l = Len(s), NEW n, n = Len(t), NEW k, k = Len(v), NEW a, a = l + n,
         NEW front, front = s \o t, NEW u, u = front \o v
  PROVE  /\ u \in Seq(S) /\ Len(u) = a + k
         /\ \A i \in 1 .. l : u[i] = s[i]
         /\ \A i \in 1 .. n : u[l + i] = t[i]
         /\ \A i \in 1 .. k : u[a + i] = v[i]
         /\ SubSeq(u, l + 1, l + n) = t /\ SubSeq(u, a + 1, a + k) = v
<1>1. /\ front \in Seq(S) /\ Len(front) = a
      /\ \A i \in 1 .. l : front[i] = s[i]
      /\ \A i \in 1 .. n : front[l + i] = t[i]
  BY Joined
<1>2. /\ u \in Seq(S) /\ Len(u) = a + k
      /\ \A i \in 1 .. a : u[i] = front[i]
      /\ \A i \in 1 .. k : u[a + i] = v[i]
  BY <1>1, Joined
<1>3. l \in Nat /\ n \in Nat /\ k \in Nat /\ a \in Nat /\ \A i \in 1 .. a + k : u[i] \in S
  BY <1>2
<1>4. ASSUME NEW i \in 1 .. l
      PROVE  u[i] = s[i]
  <2>1. i \in 1 .. a
    BY <1>3
  <2> QED
    BY <2>1, <1>1, <1>2
<1>5. ASSUME NEW i \in 1 .. n
      PROVE  u[l + i] = t[i]
  <2>1. l + i \in 1 .. a
    BY <1>3
  <2> QED
    BY <2>1, <1>1, <1>2
<1>6. SubSeq(u, l + 1, l + n) = t
  <2>1. PICK from, to : from = l + 1 /\ to = l + n
    OBVIOUS
  <2>2. to <= Len(u)
    BY <2>1, <1>2, <1>3
  <2>3. \A i \in 1 .. n : u[l + i] = t[i]
    BY <1>5
  <2>4. u \in Seq(S) /\ s \in Seq(S) /\ l = Len(s)
    BY <1>1, <1>2
  <2>5. SubSeq(u, from, to) = t
    BY <2>1, <2>2, <2>3, <2>4, Part
  <2> QED
    BY <2>1, <2>5
<1>7. SubSeq(u, a + 1, a + k) = v
  <2>1. PICK from, to : from = a + 1 /\ to = a + k
    OBVIOUS
  <2>2. to <= Len(u)
    BY <2>1, <1>2, <1>3
  <2>3. \A i \in 1 .. k : u[a + i] = v[i]
    BY <1>2
  <2>4. u \in Seq(S) /\ front \in Seq(S) /\ a = Len(front)
    BY <1>1, <1>2
  <2>5. SubSeq(u, from, to) = v
    BY <2>1, <2>2, <2>3, <2>4, Part
  <2> QED
    BY <2>1, <2>5
<1> QED
  BY <1>2, <1>4, <1>5, <1>6, <1>7

\* A proof of n bytes.
LEMMA ProofOfCells ==
  ASSUME NEW public, NEW n \in Nat, NEW S, \A i \in 1 .. n : <<"proof", public, n, i>> \in S
  PROVE  /\ ProofOf(public, n) \in Seq(S) /\ Len(ProofOf(public, n)) = n
         /\ \A i \in 1 .. n : ProofOf(public, n)[i] = <<"proof", public, n, i>>
<1>1. PICK f : f = ProofOf(public, n)
  OBVIOUS
<1>2. f = [i \in 1 .. n |-> <<"proof", public, n, i>>]
  BY <1>1 DEF ProofOf
<1>3. f \in [1 .. n -> S] /\ \A i \in 1 .. n : f[i] = <<"proof", public, n, i>>
  BY <1>2
<1>4. f \in Seq(S) /\ Len(f) = n
  BY <1>3
<1> QED
  BY <1>1, <1>3, <1>4

\* The parts of what is framed as a transcript, whatever they are.
LEMMA Framed ==
  ASSUME NEW S, NEW proof \in Seq(S), NEW tail \in Seq(S), NEW n, n = Len(proof),
         NEW c1 \in S, NEW c2 \in S, NEW head, head = <<c1, c2>>,
         NEW front, front = head \o proof, NEW bytes, bytes = front \o tail
  PROVE  /\ bytes \in Seq(S) /\ Len(bytes) = 2 + n + Len(tail)
         /\ bytes[1] = c1 /\ bytes[2] = c2
         /\ SubSeq(bytes, 3, 2 + n) = proof
         /\ SubSeq(bytes, 3 + n, Len(bytes)) = tail
<1>1. PICK l, k, a : l = Len(head) /\ k = Len(tail) /\ a = l + n
  OBVIOUS
<1>2. head \in Seq(S)
  OBVIOUS
<1>3. l = 2 /\ head[1] = c1 /\ head[2] = c2 /\ k \in Nat /\ n \in Nat
  BY <1>1
<1>4. /\ bytes \in Seq(S) /\ Len(bytes) = a + k
      /\ \A i \in 1 .. l : bytes[i] = head[i]
      /\ \A i \in 1 .. n : bytes[l + i] = proof[i]
      /\ \A i \in 1 .. k : bytes[a + i] = tail[i]
      /\ SubSeq(bytes, l + 1, l + n) = proof /\ SubSeq(bytes, a + 1, a + k) = tail
  BY <1>1, <1>2, Parts
<1>5. bytes[1] = c1 /\ bytes[2] = c2
  BY <1>3, <1>4
<1>6. l + 1 = 3 /\ a = 2 + n /\ a + 1 = 3 + n
  BY <1>1, <1>3
<1>7. SubSeq(bytes, 3, 2 + n) = proof
  BY <1>3, <1>4, <1>6
<1>8. SubSeq(bytes, 3 + n, Len(bytes)) = tail
  BY <1>4, <1>6
<1>9. bytes \in Seq(S) /\ Len(bytes) = 2 + n + Len(tail)
  BY <1>1, <1>4, <1>6
<1> QED
  BY <1>5, <1>7, <1>8, <1>9

\* Bytes are determined by their first two cells, the next n and the rest.
LEMMA SameParts ==
  ASSUME NEW S, NEW s \in Seq(S), NEW T, NEW t \in Seq(T), NEW n \in Nat,
         Len(s) >= 2 + n, Len(t) >= 2 + n, s[1] = t[1], s[2] = t[2],
         SubSeq(s, 3, 2 + n) = SubSeq(t, 3, 2 + n),
         SubSeq(s, 3 + n, Len(s)) = SubSeq(t, 3 + n, Len(t))
  PROVE  s = t
<1>1. PICK a, b : a = SubSeq(s, 3, 2 + n) /\ b = SubSeq(s, 3 + n, Len(s))
  OBVIOUS
<1>2. /\ Len(b) = Len(s) - (2 + n)
      /\ \A i \in 1 .. n : a[i] = s[2 + i]
      /\ \A i \in 1 .. Len(s) - (2 + n) : b[i] = s[2 + n + i]
  BY <1>1
<1>3. /\ Len(b) = Len(t) - (2 + n)
      /\ \A i \in 1 .. n : a[i] = t[2 + i]
      /\ \A i \in 1 .. Len(t) - (2 + n) : b[i] = t[2 + n + i]
  BY <1>1
<1>4. Len(s) = Len(t)
  BY <1>2, <1>3
<1>5. ASSUME NEW j \in 1 .. Len(s)
      PROVE  s[j] = t[j]
  <2>1. CASE j \in {1, 2}
    BY <2>1
  <2>2. CASE j \in 3 .. 2 + n
    <3>1. j - 2 \in 1 .. n /\ 2 + (j - 2) = j
      BY <2>2
    <3> QED
      BY <3>1, <1>2, <1>3
  <2>3. CASE j \in 3 + n .. Len(s)
    <3>1. j - (2 + n) \in 1 .. Len(s) - (2 + n) /\ 2 + n + (j - (2 + n)) = j
      BY <2>3
    <3> QED
      BY <3>1, <1>2, <1>3, <1>4
  <2>4. j \in {1, 2} \/ j \in 3 .. 2 + n \/ j \in 3 + n .. Len(s)
    OBVIOUS
  <2> QED
    BY <2>1, <2>2, <2>3, <2>4
<1> QED
  BY <1>4, <1>5

\* What from_bytes makes of an envelope as it was made.
LEMMA EnvelopeParses ==
  ASSUME NEW e, IsEnvelope(e)
  PROVE  /\ FromBytes(e.bytes) = Ok(Committed(e)) /\ VerifyExt(Committed(e).aux)
         /\ Len(e.bytes) \in Nat /\ Len(e.bytes) >= 5
<1>1. PICK n, bytes, aux : /\ n = MsgLen[e.m] /\ bytes = e.bytes
                           /\ aux = SubSeq(bytes, 3, Len(bytes))
  OBVIOUS
<1>2. /\ n \in Nat /\ n <= MaxStreamBytes - 5 /\ bytes \in Seq(Cells(e))
      /\ Len(bytes) = n + 5 /\ bytes[1] = Magic
  BY <1>1, JrcAssumption DEF IsEnvelope, MaxMessageLen, Overhead
<1>3. FromBytes(bytes) = Ok([commitment |-> bytes[2], aux |-> aux])
  BY <1>1, <1>2, JrcAssumption DEF FromBytes, Overhead
<1>4. Committed(e) = [commitment |-> bytes[2], aux |-> aux]
  BY <1>1 DEF Committed
<1>5. Len(aux) = n + 3
  BY <1>1, <1>2
<1>6. VerifyExt(aux)
  BY <1>2, <1>5, JrcAssumption DEF VerifyExt
<1>7. Committed(e).aux = aux /\ FromBytes(e.bytes) = Ok(Committed(e))
  BY <1>1, <1>3, <1>4
<1>8. Len(e.bytes) \in Nat /\ Len(e.bytes) >= 5
  BY <1>1, <1>2
<1> QED
  BY <1>6, <1>7, <1>8

\* The parts of a transcript.
LEMMA TranscriptParts ==
  ASSUME NEW q, IsTranscript(q), IsEnvelope(q.envelope), NEW S,
         ProofCells(q) \subseteq S, Cells(q.envelope) \subseteq S,
         ProofMagic \in S, <<"len", Size(q)>> \in S,
         NEW n, n = Size(q)
  PROVE  /\ q.bytes \in Seq(S) /\ Len(q.bytes) = 2 + n + Len(q.envelope.bytes)
         /\ q.bytes[1] = ProofMagic /\ q.bytes[2] = <<"len", n>>
         /\ SubSeq(q.bytes, 3, 2 + n) = ProofOf(Asked(q), n)
         /\ SubSeq(q.bytes, 3 + n, Len(q.bytes)) = q.envelope.bytes
<1>1. PICK public, proof, tail : /\ public = Asked(q) /\ proof = ProofOf(public, n)
                                 /\ tail = q.envelope.bytes
  OBVIOUS
<1>2. n \in Nat /\ \A i \in 1 .. n : <<"proof", public, n, i>> \in S
  BY <1>1 DEF IsTranscript, ProofCells, ProofCell
<1>3. proof \in Seq(S) /\ Len(proof) = n
  BY <1>1, <1>2, ProofOfCells
<1>4. tail \in Seq(S)
  <2>1. tail \in Seq(Cells(q.envelope))
    BY <1>1 DEF IsEnvelope
  <2> QED
    BY <2>1
<1>5. PICK c1, c2, head, front, bytes :
        /\ c1 = ProofMagic /\ c2 = <<"len", n>> /\ head = <<c1, c2>>
        /\ front = head \o proof /\ bytes = front \o tail
  OBVIOUS
<1>6. q.bytes = bytes
  BY <1>1, <1>5 DEF IsTranscript
<1>7. c1 \in S /\ c2 \in S
  BY <1>5
<1>8. /\ bytes \in Seq(S) /\ Len(bytes) = 2 + n + Len(tail)
      /\ bytes[1] = c1 /\ bytes[2] = c2
      /\ SubSeq(bytes, 3, 2 + n) = proof
      /\ SubSeq(bytes, 3 + n, Len(bytes)) = tail
  BY <1>3, <1>4, <1>5, <1>7, Framed
<1> QED
  BY <1>1, <1>5, <1>6, <1>8

\* What from_bytes makes of a transcript as it was made.
LEMMA TranscriptParses ==
  ASSUME NEW q, IsTranscript(q), IsEnvelope(q.envelope)
  PROVE  ProofFromBytes(q.bytes) =
           Ok([relation_proof |-> ProofOf(Asked(q), Size(q)),
               commitment |-> Committed(q.envelope)])
<1>1. PICK bytes, n, tail : bytes = q.bytes /\ n = Size(q) /\ tail = q.envelope.bytes
  OBVIOUS
<1>2. PICK S : S = ProofCells(q) \cup Cells(q.envelope) \cup {ProofMagic, <<"len", n>>}
  OBVIOUS
<1>3. /\ ProofCells(q) \subseteq S /\ Cells(q.envelope) \subseteq S
      /\ ProofMagic \in S /\ <<"len", Size(q)>> \in S
  BY <1>1, <1>2
<1>4. /\ bytes \in Seq(S) /\ Len(bytes) = 2 + n + Len(tail)
      /\ bytes[1] = ProofMagic /\ bytes[2] = <<"len", n>>
      /\ SubSeq(bytes, 3, 2 + n) = ProofOf(Asked(q), n)
      /\ SubSeq(bytes, 3 + n, Len(bytes)) = tail
  BY <1>1, <1>3, TranscriptParts
<1>5. /\ n \in Nat /\ n >= 1 /\ n <= MaxRelationProofLen /\ Len(bytes) <= MaxStreamBytes
  <2>1. /\ Size(q) \in Nat \ {0} /\ Size(q) <= MaxRelationProofLen
        /\ Len(q.bytes) <= MaxStreamBytes
    BY Zenon DEF IsTranscript
  <2> QED
    BY <1>1, <2>1
<1>6. /\ FromBytes(tail) = Ok(Committed(q.envelope))
      /\ Len(tail) \in Nat /\ Len(tail) >= 5
  BY <1>1, EnvelopeParses
<1>7. ProofLen(bytes) = n
  BY <1>4 DEF ProofLen
<1>8. PICK end : end = ProofOverhead + ProofLen(bytes)
  OBVIOUS
<1>9. end = 2 + n /\ end + 1 = 3 + n /\ ProofOverhead + 1 = 3
  BY <1>5, <1>7, <1>8 DEF ProofOverhead
<1>10. /\ ~ (Len(bytes) > MaxStreamBytes) /\ ~ (Len(bytes) < ProofOverhead + Overhead)
       /\ ~ (ProofLen(bytes) > MaxRelationProofLen) /\ ~ (Len(bytes) < end + Overhead)
  BY <1>4, <1>5, <1>6, <1>7, <1>9, JrcAssumption
  DEF ProofOverhead, Overhead, MaxRelationProofLen
<1>11. PICK envelope : envelope = FromBytes(SubSeq(bytes, end + 1, Len(bytes)))
  OBVIOUS
<1>12. envelope = Ok(Committed(q.envelope))
  BY <1>4, <1>6, <1>9, <1>11
<1>13. envelope.error = "none" /\ envelope.value = Committed(q.envelope)
  BY <1>12 DEF Ok
<1>14. ProofFromBytes(bytes) =
         Ok([relation_proof |-> SubSeq(bytes, ProofOverhead + 1, end),
             commitment |-> envelope.value])
  BY <1>4, <1>8, <1>10, <1>11, <1>13, Zenon DEF ProofFromBytes
<1>15. SubSeq(bytes, ProofOverhead + 1, end) = ProofOf(Asked(q), n)
  BY <1>4, <1>9
<1> QED
  BY <1>1, <1>13, <1>14, <1>15

-----------------------------------------------------------------------------
(* The invariant.                                                          *)

\* A transcript that was made consists of what may be under way.
LEMMA TranscriptKnown ==
  ASSUME ProofInv, NEW q \in proved
  PROVE  /\ IsTranscript(q) /\ IsEnvelope(q.envelope) /\ q.envelope \in made
         /\ ProofCells(q) \subseteq ProofKnown /\ Cells(q.envelope) \subseteq ProofKnown
         /\ ProofMagic \in ProofKnown /\ <<"len", Size(q)>> \in ProofKnown
         /\ q.bytes \in Seq(ProofKnown)
<1>1. IsTranscript(q)
  BY DEF ProofInv
<1>2. q.envelope \in made /\ Size(q) \in Nat
  BY <1>1, Zenon DEF IsTranscript
<1>3. IsEnvelope(q.envelope)
  BY <1>2 DEF ProofInv, Held
<1>4. /\ ProofCells(q) \subseteq ProofKnown /\ Cells(q.envelope) \subseteq ProofKnown
      /\ ProofMagic \in ProofKnown
  BY <1>2 DEF ProofKnown, Known, CellsOf
<1>5. <<"len", Size(q)>> \in ProofKnown
  BY <1>2 DEF ProofKnown, LenCells
<1>6. q.bytes \in Seq(ProofKnown)
  <2>1. PICK S : S = ProofKnown
    OBVIOUS
  <2>2. /\ ProofCells(q) \subseteq S /\ Cells(q.envelope) \subseteq S
        /\ ProofMagic \in S /\ <<"len", Size(q)>> \in S
    BY <2>1, <1>4, <1>5
  <2>3. q.bytes \in Seq(S)
    BY <2>2, <1>1, <1>3, TranscriptParts
  <2> QED
    BY <2>1, <2>3
<1> QED
  BY <1>1, <1>2, <1>3, <1>4, <1>5, <1>6

\* Nothing is made or under way at first.
LEMMA ProofInitInv == ProofInit => ProofInv
BY DEF ProofInit, Init, ProofInv, Held, Got

\* Envelopes and transcripts are only added, so what may be under way grows.
LEMMA ProofKnownGrows ==
  ASSUME made \subseteq made', proved \subseteq proved'
  PROVE  ProofKnown \subseteq ProofKnown'
BY DEF ProofKnown, Known, CellsOf

\* prove makes one envelope and a transcript that has it.
LEMMA ProveMakes ==
  ASSUME NEW ek \in JudgeKeys, NEW x \in Statements, NEW m \in Messages, NEW r \in Nonces,
         Prove(ek, x, m, r)
  PROVE  \E e, q : /\ IsEnvelope(e) /\ \A f \in made : f.e_sk # e.e_sk
                   /\ made' = made \cup {e} /\ proved' = proved \cup {q}
                   /\ q.envelope = e /\ IsTranscript(q)'
<1>1. PICK e_sk \in Fresh :
        LET committed == CommitWithEphemeral(ek, m, r, e_sk)
            envelope == [ek |-> ek, m |-> m, r |-> r, e_sk |-> e_sk,
                         bytes |-> ToBytes(committed.value)]
        IN /\ committed.error = "none"
           /\ \E proof \in SystemProofs(PublicInput(ek, x, committed.value), x, m) :
                LET p == [relation_proof |-> proof, commitment |-> committed.value]
                IN /\ Finish(ek, x, p).error = "none"
                   /\ made' = made \cup {envelope}
                   /\ proved' = proved \cup
                        {[envelope |-> envelope, x |-> x, bytes |-> ProofToBytes(p)]}
  BY DEF Prove
<1>2. PICK committed : committed = CommitWithEphemeral(ek, m, r, e_sk)
  OBVIOUS
<1>3. PICK e : e = [ek |-> ek, m |-> m, r |-> r, e_sk |-> e_sk,
                    bytes |-> ToBytes(committed.value)]
  OBVIOUS
<1>4. PICK public : public = PublicInput(ek, x, committed.value)
  OBVIOUS
<1>5. PICK proof, p, q :
        /\ proof \in SystemProofs(public, x, m)
        /\ p = [relation_proof |-> proof, commitment |-> committed.value]
        /\ q = [envelope |-> e, x |-> x, bytes |-> ProofToBytes(p)]
        /\ Finish(ek, x, p).error = "none"
        /\ made' = made \cup {e} /\ proved' = proved \cup {q}
  BY <1>1, <1>2, <1>3, <1>4
<1>6. committed.error = "none"
  BY <1>1, <1>2
<1>7. IsEnvelope(e) /\ committed.value = Committed(e)
  BY <1>2, <1>3, <1>6, CommitMakes
<1>8. \A f \in made : f.e_sk # e.e_sk
  BY <1>3 DEF Fresh
<1>9. /\ p.relation_proof = proof /\ p.commitment = committed.value
      /\ q.envelope = e /\ q.x = x /\ q.bytes = ProofToBytes(p)
      /\ e.ek = ek /\ e.m = m /\ e.bytes = ToBytes(committed.value)
  BY <1>3, <1>5
<1>10. Asked(q) = public
  BY <1>4, <1>7, <1>9 DEF Asked
<1>11. /\ ~ (Len(proof) > MaxRelationProofLen)
       /\ SystemVerify(public, proof) /\ ~ (Len(ProofToBytes(p)) > MaxStreamBytes)
  BY <1>4, <1>5, <1>9 DEF Finish, Err
<1>12. PICK n \in ProofLens : proof = Junk(n) \/ (proof = ProofOf(public, n) /\ <<x, m>> \in Relation)
  BY <1>5 DEF SystemProofs
<1>13. n \in Nat /\ n >= 1
  BY JudgedProofAssumption
<1>14. PICK S : S = {<<"proof", public, n, i>> : i \in 1 .. n}
  OBVIOUS
<1>15. PICK f : f = ProofOf(public, n)
  OBVIOUS
<1>16. /\ f \in Seq(S) /\ Len(f) = n
       /\ \A i \in 1 .. n : f[i] = <<"proof", public, n, i>>
  <2>1. n \in Nat /\ \A i \in 1 .. n : <<"proof", public, n, i>> \in S
    BY <1>13, <1>14
  <2>2. /\ ProofOf(public, n) \in Seq(S) /\ Len(ProofOf(public, n)) = n
        /\ \A i \in 1 .. n : ProofOf(public, n)[i] = <<"proof", public, n, i>>
    BY <2>1, ProofOfCells
  <2> QED
    BY <1>15, <2>2
<1>17. proof = f /\ <<x, m>> \in Relation
  <2>1. CASE proof = Junk(n)
    <3>1. Len(proof) = n /\ proof[1] = Other
      BY <1>13, <2>1 DEF Junk
    <3>2. proof = f
      BY <3>1, <1>11, <1>15 DEF SystemVerify
    <3>3. PICK j \in 1 .. n : j = 1
      BY <1>13
    <3>4. f[j] = <<"proof", public, n, j>> /\ f[j] = Other
      BY <3>1, <3>2, <3>3, <1>16
    <3> QED
      BY <3>4 DEF Other
  <2> QED
    BY <2>1, <1>12, <1>15
<1>18. q.bytes = <<ProofMagic, <<"len", n>>>> \o f \o e.bytes
  BY <1>9, <1>16, <1>17 DEF ProofToBytes
<1>19. q.bytes[2] = <<"len", n>> /\ Len(q.bytes) \in Nat
  <2>1. PICK T : T = S \cup Cells(e) \cup {ProofMagic, <<"len", n>>}
    OBVIOUS
  <2>2. PICK tail : tail = e.bytes
    OBVIOUS
  <2>3. f \in Seq(T) /\ tail \in Seq(T)
    <3>1. tail \in Seq(Cells(e))
      BY <1>7, <2>2 DEF IsEnvelope
    <3>2. S \subseteq T /\ Cells(e) \subseteq T
      BY <2>1
    <3> QED
      BY <3>1, <3>2, <1>16
  <2>4. PICK c1, c2, head, front, bytes :
          /\ c1 = ProofMagic /\ c2 = <<"len", n>> /\ head = <<c1, c2>>
          /\ front = head \o f /\ bytes = front \o tail
    OBVIOUS
  <2>5. c1 \in T /\ c2 \in T
    BY <2>1, <2>4
  <2>6. bytes[2] = c2 /\ bytes \in Seq(T)
    BY <1>16, <2>3, <2>4, <2>5, Framed
  <2>7. q.bytes = bytes
    BY <1>18, <2>2, <2>4
  <2> QED
    BY <2>4, <2>6, <2>7
<1>20. Size(q) = n
  BY <1>19 DEF Size
<1>21. /\ q.envelope \in made' /\ <<q.x, q.envelope.m>> \in Relation
       /\ n \in Nat \ {0} /\ n <= MaxRelationProofLen /\ Len(q.bytes) <= MaxStreamBytes
  <2>1. n <= MaxRelationProofLen
    BY <1>11, <1>13, <1>16, <1>17, JrcAssumption
    DEF MaxRelationProofLen, ProofOverhead, Overhead
  <2>2. Len(q.bytes) <= MaxStreamBytes
    BY <1>9, <1>11, <1>19, JrcAssumption
  <2> QED
    BY <2>1, <2>2, <1>5, <1>9, <1>13, <1>17
<1>22. q.bytes = <<ProofMagic, <<"len", Size(q)>>>> \o ProofOf(Asked(q), Size(q)) \o q.envelope.bytes
  BY <1>9, <1>10, <1>15, <1>18, <1>20
<1>23. IsTranscript(q)'
  BY <1>20, <1>21, <1>22, Zenon DEF IsTranscript
<1> QED
  BY <1>5, <1>7, <1>8, <1>9, <1>23

\* One step per action: those of JudgedFile, proving, sending and altering.
LEMMA ProofNextInv == ProofInv /\ [ProofNext]_<<vars, proved>> => ProofInv'
<1> SUFFICES ASSUME ProofInv, [ProofNext]_<<vars, proved>>
             PROVE  ProofInv'
  OBVIOUS
<1> DEFINE S == ProofKnown
<1>1. CellsOf(made) \subseteq S /\ {Other, ProofMagic, Magic} \subseteq S
  BY DEF ProofKnown, Known, CellsOf
<1>2. ASSUME made \subseteq made', proved' = proved
      PROVE  \A q \in proved' : IsTranscript(q)'
  <2> SUFFICES ASSUME NEW q \in proved
               PROVE  IsTranscript(q)'
    BY <1>2
  <2>1. IsTranscript(q)
    BY DEF ProofInv
  <2> QED
    BY <1>2, <2>1, Zenon DEF IsTranscript
<1>3. ASSUME [Next]_vars, proved' = proved
      PROVE  ProofInv'
  <2>1. made \subseteq made'
    BY <1>3, NextKeepsMade
  <2>2. PICK A, T : A = S /\ T = S'
    OBVIOUS
  <2>3. A \subseteq T /\ CellsOf(made) \subseteq A
    BY <1>1, <1>3, <2>1, <2>2, ProofKnownGrows
  <2>4. Held(A)
    BY <2>2 DEF ProofInv
  <2>5. Held(T)'
    BY <1>3, <2>3, <2>4, NextKeepsHeld
  <2>6. Held(S)'
    BY <2>2, <2>5 DEF Held
  <2> QED
    BY <1>2, <1>3, <2>1, <2>6 DEF ProofInv
<1>4. ASSUME NEW ek \in JudgeKeys, NEW x \in Statements, NEW m \in Messages, NEW r \in Nonces,
             Prove(ek, x, m, r)
      PROVE  ProofInv'
  <2>1. PICK e, q : /\ IsEnvelope(e) /\ \A f \in made : f.e_sk # e.e_sk
                    /\ made' = made \cup {e} /\ proved' = proved \cup {q}
                    /\ q.envelope = e /\ IsTranscript(q)'
    BY <1>4, ProveMakes
  <2>2. wire' = wire /\ ~ Got'
    BY <1>4 DEF Prove, Got
  <2>3. S \subseteq S'
    BY <2>1, ProofKnownGrows
  <2>4. wire' # None => wire' \in Seq(S')
    BY <2>2, <2>3 DEF ProofInv, Held
  <2>5. /\ \A f \in made' : IsEnvelope(f)
        /\ \A f, g \in made' : f.e_sk = g.e_sk => f = g
    BY <2>1 DEF ProofInv, Held
  <2>6. Held(S)'
    BY <2>2, <2>4, <2>5 DEF Held
  <2>7. ASSUME NEW p \in proved'
        PROVE  IsTranscript(p)'
    <3>1. CASE p \in proved
      <4>1. IsTranscript(p)
        BY <3>1 DEF ProofInv
      <4> QED
        BY <2>1, <4>1, Zenon DEF IsTranscript
    <3> QED
      BY <2>1, <3>1
  <2> QED
    BY <2>6, <2>7 DEF ProofInv
<1>5. ASSUME made' = made, proved' = proved, ~ Got', wire' \in Seq(S)
      PROVE  ProofInv'
  <2>1. S' = S
    BY <1>5 DEF ProofKnown, Known
  <2>2. Held(S)'
    BY <1>5, <2>1 DEF ProofInv, Held
  <2> QED
    BY <1>2, <1>5, <2>2 DEF ProofInv
<1>6. CASE SendProof
  <2>1. wire' \in Seq(S)
    BY <1>6, TranscriptKnown DEF SendProof
  <2> QED
    BY <1>5, <1>6, <2>1 DEF SendProof, Got
<1>7. CASE AlterProof
  <2>1. wire \in Seq(S)
    BY <1>7 DEF AlterProof, ProofInv, Held
  <2>2. CASE wire' \in Altered(wire, {p.bytes : p \in proved}, {})
    <3>1. \A o \in {p.bytes : p \in proved} : o \in Seq(S)
      BY TranscriptKnown
    <3>2. wire' \in Seq(S)
      BY <1>1, <2>1, <2>2, <3>1, AlteredKeepsCells
    <3> QED
      BY <1>5, <1>7, <3>2 DEF AlterProof, Got
  <2>3. ASSUME NEW i \in DOMAIN wire \cap {1, 2}, NEW cell \in Damaged(i),
               wire' = [wire EXCEPT ![i] = cell]
        PROVE  ProofInv'
    <3>1. cell \in S
      BY <1>1, JudgedProofAssumption DEF Damaged, ProofKnown, LenCells
    <3>2. wire' \in Seq(S)
      BY <2>1, <2>3, <3>1
    <3> QED
      BY <1>5, <1>7, <3>2 DEF AlterProof, Got
  <2> QED
    BY <1>7, <2>2, <2>3 DEF AlterProof
<1>8. CASE UNCHANGED <<vars, proved>>
  BY <1>3, <1>8
<1> QED
  BY <1>3, <1>4, <1>6, <1>7, <1>8 DEF ProofNext

\* The inductive invariant of transcripts and what may be under way.
THEOREM ProofInvariant == ProofSpec => []ProofInv
BY ProofInitInv, ProofNextInv, PTL DEF ProofSpec

-----------------------------------------------------------------------------
(* What it implies.                                                        *)

\* What from_bytes takes from bytes under way that it accepts.
LEMMA AcceptedParts ==
  ASSUME NEW S, NEW bytes \in Seq(S), ProofFromBytes(bytes).error = "none",
         \A cell \in S : cell[1] = "len" => \E j \in Nat : cell = <<"len", j>>
  PROVE  \E n \in Nat : \E tail :
           /\ tail = SubSeq(bytes, 3 + n, Len(bytes))
           /\ Len(bytes) >= 7 + n /\ bytes[1] = ProofMagic /\ bytes[2] = <<"len", n>>
           /\ FromBytes(tail).error = "none"
           /\ ProofFromBytes(bytes).value = [relation_proof |-> SubSeq(bytes, 3, 2 + n),
                                             commitment |-> FromBytes(tail).value]
<1>1. PICK end : end = ProofOverhead + ProofLen(bytes)
  OBVIOUS
<1>2. PICK tail : tail = SubSeq(bytes, end + 1, Len(bytes))
  OBVIOUS
<1>3. /\ ~ (Len(bytes) < ProofOverhead + Overhead) /\ bytes[1] = ProofMagic
      /\ ~ (ProofLen(bytes) > MaxRelationProofLen)
      /\ ~ (Len(bytes) < end + Overhead) /\ FromBytes(tail).error = "none"
      /\ ProofFromBytes(bytes) =
           Ok([relation_proof |-> SubSeq(bytes, ProofOverhead + 1, end),
               commitment |-> FromBytes(tail).value])
  BY <1>1, <1>2 DEF ProofFromBytes, Err
<1>4. 2 \in 1 .. Len(bytes)
  BY <1>3 DEF ProofOverhead, Overhead
<1>5. bytes[2] \in S
  BY <1>4
<1>6. bytes[2][1] = "len"
  <2>1. ASSUME bytes[2][1] # "len"
        PROVE  FALSE
    <3>1. ProofLen(bytes) = MaxStreamBytes
      BY <2>1 DEF ProofLen
    <3> QED
      BY <3>1, <1>3, JrcAssumption DEF MaxRelationProofLen, ProofOverhead, Overhead
  <2> QED
    BY <2>1
<1>7. PICK n \in Nat : bytes[2] = <<"len", n>>
  BY <1>5, <1>6
<1>8. ProofLen(bytes) = n
  BY <1>7 DEF ProofLen
<1>9. end = 2 + n /\ end + 1 = 3 + n /\ ProofOverhead + 1 = 3
  BY <1>1, <1>8 DEF ProofOverhead
<1>10. Len(bytes) >= 7 + n
  BY <1>3, <1>9 DEF Overhead
<1>11. ProofFromBytes(bytes).value = [relation_proof |-> SubSeq(bytes, 3, 2 + n),
                                      commitment |-> FromBytes(tail).value]
  <2>1. PICK rp, value : /\ rp = SubSeq(bytes, ProofOverhead + 1, end)
                         /\ value = [relation_proof |-> rp,
                                     commitment |-> FromBytes(tail).value]
    OBVIOUS
  <2>2. ProofFromBytes(bytes).value = value
    BY <1>3, <2>1 DEF Ok
  <2>3. rp = SubSeq(bytes, 3, 2 + n)
    BY <1>9, <2>1
  <2> QED
    BY <2>1, <2>2, <2>3
<1>12. tail = SubSeq(bytes, 3 + n, Len(bytes))
  BY <1>2, <1>9
<1> QED
  BY <1>3, <1>7, <1>10, <1>11, <1>12

\* An envelope is determined by what from_bytes makes of it.
LEMMA ParsedEnvelope ==
  ASSUME NEW e, IsEnvelope(e), NEW S, NEW bytes \in Seq(S),
         FromBytes(bytes).error = "none", FromBytes(bytes).value = Committed(e)
  PROVE  bytes = e.bytes
<1>1. PICK b : b = e.bytes
  OBVIOUS
<1>2. b \in Seq(Cells(e)) /\ Len(b) >= 5 /\ b[1] = Magic /\ MsgLen[e.m] \in Nat
  BY <1>1, JrcAssumption DEF IsEnvelope
<1>3. Committed(e) = [commitment |-> b[2], aux |-> SubSeq(b, 3, Len(b))]
  BY <1>1 DEF Committed
<1>4. /\ ~ (Len(bytes) < Overhead) /\ bytes[1] = Magic
      /\ FromBytes(bytes).value =
           [commitment |-> bytes[2], aux |-> SubSeq(bytes, 3, Len(bytes))]
  BY DEF FromBytes, Ok, Err
<1>5. bytes[2] = b[2] /\ SubSeq(bytes, 3, Len(bytes)) = SubSeq(b, 3, Len(b))
  BY <1>3, <1>4
<1>6. PICK n \in Nat : n = 0
  OBVIOUS
<1>7. Len(bytes) >= 2 + n /\ Len(b) >= 2 + n
  BY <1>2, <1>4, <1>6 DEF Overhead
<1>8. SubSeq(bytes, 3 + n, Len(bytes)) = SubSeq(b, 3 + n, Len(b))
  BY <1>5, <1>6
<1>9. SubSeq(bytes, 3, 2 + n) = SubSeq(b, 3, 2 + n)
  BY <1>2, <1>6
<1>10. bytes = b
  BY <1>2, <1>4, <1>5, <1>7, <1>8, <1>9, SameParts
<1> QED
  BY <1>1, <1>10

\* Whatever is under way, if it verifies then it was made for that statement.
LEMMA VerifiedIsTranscript ==
  ASSUME ProofInv, wire # None, NEW ek, NEW x,
         ProofFromBytes(wire).error = "none",
         ProofVerifyExt(ek, x, ProofFromBytes(wire).value)
  PROVE  \E q \in proved : q.bytes = wire /\ q.envelope.ek = ek /\ q.x = x
<1>1. PICK S : S = ProofKnown
  OBVIOUS
<1>2. wire \in Seq(S)
  BY <1>1 DEF ProofInv, Held
<1>3. \A cell \in S : cell[1] = "len" => \E j \in Nat : cell = <<"len", j>>
  BY <1>1, LenCellKnown
<1>4. PICK n \in Nat : \E tail :
        /\ tail = SubSeq(wire, 3 + n, Len(wire))
        /\ Len(wire) >= 7 + n /\ wire[1] = ProofMagic /\ wire[2] = <<"len", n>>
        /\ FromBytes(tail).error = "none"
        /\ ProofFromBytes(wire).value = [relation_proof |-> SubSeq(wire, 3, 2 + n),
                                         commitment |-> FromBytes(tail).value]
  BY <1>2, <1>3, AcceptedParts
<1>5. PICK tail :
         /\ tail = SubSeq(wire, 3 + n, Len(wire))
         /\ Len(wire) >= 7 + n /\ wire[1] = ProofMagic /\ wire[2] = <<"len", n>>
         /\ FromBytes(tail).error = "none"
         /\ ProofFromBytes(wire).value = [relation_proof |-> SubSeq(wire, 3, 2 + n),
                                          commitment |-> FromBytes(tail).value]
  BY <1>4
<1>6. PICK rp, committed, public :
        /\ rp = SubSeq(wire, 3, 2 + n) /\ committed = FromBytes(tail).value
        /\ public = PublicInput(ek, x, committed)
  OBVIOUS
<1>7. rp = ProofOf(public, Len(rp)) /\ rp # <<>>
  <2>1. PICK p : p = ProofFromBytes(wire).value
    OBVIOUS
  <2>2. p = [relation_proof |-> rp, commitment |-> committed]
    BY <1>5, <1>6, <2>1
  <2>3. p.relation_proof = rp /\ p.commitment = committed
    BY <2>2
  <2>4. SystemVerify(PublicInput(ek, x, p.commitment), p.relation_proof)
    BY <2>1, Zenon DEF ProofVerifyExt
  <2>5. SystemVerify(public, rp)
    BY <1>6, <2>3, <2>4
  <2> QED
    BY <2>5, Zenon DEF SystemVerify
<1>8. /\ Len(rp) = n /\ \A i \in 1 .. n : rp[i] = wire[2 + i]
      /\ rp \in Seq(S) /\ tail \in Seq(S)
  <2>1. Len(wire) \in Nat /\ 3 \in Int /\ 2 + n \in Int /\ 3 + n \in Int
    BY <1>2
  <2>2. \A i \in 3 .. 2 + n : wire[i] \in S
    BY <1>2, <1>5
  <2>3. \A i \in 3 + n .. Len(wire) : wire[i] \in S
    BY <1>2
  <2>4. rp \in Seq(S) /\ tail \in Seq(S)
    BY <1>5, <1>6, <2>1, <2>2, <2>3, SubSeqProperties
  <2>5. Len(rp) = n /\ \A i \in 1 .. n : rp[i] = wire[2 + i]
    BY <1>2, <1>5, <1>6
  <2> QED
    BY <2>4, <2>5
<1>9. PICK j \in 1 .. n : j = 1
  BY <1>7, <1>8
<1>10. <<"proof", public, n, j>> \in ProofKnown
  <2>1. rp = [i \in 1 .. n |-> <<"proof", public, n, i>>]
    BY <1>7, <1>8 DEF ProofOf
  <2>2. rp[j] = <<"proof", public, n, j>>
    BY <2>1
  <2>3. rp[j] \in S
    BY <1>8
  <2> QED
    BY <1>1, <2>2, <2>3
<1>11. PICK q \in proved : public = Asked(q) /\ n = Size(q)
  BY <1>10, ProofCellKnown
<1>12. q.envelope.ek = ek /\ q.x = x /\ committed = Committed(q.envelope)
  <2>1. PICK e : e = q.envelope
    OBVIOUS
  <2>2. <<ek, x, committed.commitment, committed.aux>> =
          <<e.ek, q.x, Committed(e).commitment, Committed(e).aux>>
    BY <1>6, <1>11, <2>1 DEF Asked, PublicInput
  <2>3. committed = [commitment |-> committed.commitment, aux |-> committed.aux]
    <3>1. committed = [commitment |-> tail[2], aux |-> SubSeq(tail, 3, Len(tail))]
      BY <1>5, <1>6 DEF FromBytes, Ok, Err
    <3> QED
      BY <3>1
  <2>4. Committed(e) = [commitment |-> Committed(e).commitment, aux |-> Committed(e).aux]
    BY DEF Committed
  <2> QED
    BY <2>1, <2>2, <2>3, <2>4
<1>13. IsTranscript(q) /\ IsEnvelope(q.envelope)
  BY TranscriptKnown
<1>14. tail = q.envelope.bytes
  BY <1>5, <1>6, <1>8, <1>12, <1>13, ParsedEnvelope
<1>15. PICK bytes : bytes = q.bytes
  OBVIOUS
<1>16. /\ bytes \in Seq(S) /\ Len(bytes) = 2 + n + Len(tail)
       /\ bytes[1] = ProofMagic /\ bytes[2] = <<"len", n>>
       /\ SubSeq(bytes, 3, 2 + n) = ProofOf(Asked(q), n)
       /\ SubSeq(bytes, 3 + n, Len(bytes)) = tail
  <2>1. /\ ProofCells(q) \subseteq S /\ Cells(q.envelope) \subseteq S
        /\ ProofMagic \in S /\ <<"len", Size(q)>> \in S
    BY <1>1, TranscriptKnown
  <2> QED
    BY <2>1, <1>11, <1>13, <1>14, <1>15, TranscriptParts
<1>17. /\ SubSeq(wire, 3, 2 + n) = SubSeq(bytes, 3, 2 + n)
       /\ SubSeq(wire, 3 + n, Len(wire)) = SubSeq(bytes, 3 + n, Len(bytes))
  BY <1>5, <1>6, <1>7, <1>8, <1>11, <1>16
<1>18. /\ Len(wire) >= 2 + n /\ Len(bytes) >= 2 + n
       /\ wire[1] = bytes[1] /\ wire[2] = bytes[2]
  <2>1. wire[1] = bytes[1] /\ wire[2] = bytes[2]
    BY <1>5, <1>16, Zenon
  <2>2. Len(wire) >= 7 + n /\ Len(bytes) = 2 + n + Len(tail)
    BY <1>5, <1>16, Zenon
  <2>3. Len(wire) \in Nat /\ Len(tail) \in Nat
    BY <1>2, <1>8
  <2>4. Len(wire) >= 2 + n /\ Len(bytes) >= 2 + n
    BY <2>2, <2>3
  <2> QED
    BY <2>1, <2>4
<1>19. wire = bytes
  BY <1>2, <1>16, <1>17, <1>18, SameParts
<1> QED
  BY <1>12, <1>15, <1>19

\* A transcript as it was made verifies for the statement it was made for.
LEMMA TranscriptVerifies ==
  ASSUME NEW q, IsTranscript(q), IsEnvelope(q.envelope)
  PROVE  /\ ProofFromBytes(q.bytes).error = "none"
         /\ ProofFromBytes(q.bytes).value.commitment = Committed(q.envelope)
         /\ ProofVerifyExt(q.envelope.ek, q.x, ProofFromBytes(q.bytes).value)
<1>1. PICK n, public, rp : n = Size(q) /\ public = Asked(q) /\ rp = ProofOf(public, n)
  OBVIOUS
<1>2. PICK p : p = [relation_proof |-> rp, commitment |-> Committed(q.envelope)]
  OBVIOUS
<1>3. ProofFromBytes(q.bytes) = Ok(p)
  BY <1>1, <1>2, TranscriptParses
<1>4. n \in Nat \ {0}
  BY <1>1, Zenon DEF IsTranscript
<1>5. Len(rp) = n
  <2>1. PICK S : S = {<<"proof", public, n, i>> : i \in 1 .. n}
    OBVIOUS
  <2>2. n \in Nat /\ \A i \in 1 .. n : <<"proof", public, n, i>> \in S
    BY <1>4, <2>1
  <2>3. Len(ProofOf(public, n)) = n
    BY <2>2, ProofOfCells
  <2> QED
    BY <1>1, <2>3
<1>6. rp = ProofOf(public, Len(rp)) /\ rp # <<>>
  BY <1>1, <1>4, <1>5
<1>7. p.relation_proof = rp /\ p.commitment = Committed(q.envelope)
  BY <1>2
<1>8. PublicInput(q.envelope.ek, q.x, p.commitment) = public
  BY <1>1, <1>7 DEF Asked
<1>9. SystemVerify(PublicInput(q.envelope.ek, q.x, p.commitment), p.relation_proof)
  BY <1>6, <1>7, <1>8 DEF SystemVerify
<1>10. VerifyExt(p.commitment.aux)
  BY <1>7, EnvelopeParses
<1>11. ProofFromBytes(q.bytes).error = "none" /\ ProofFromBytes(q.bytes).value = p
  BY <1>3 DEF Ok
<1> QED
  BY <1>7, <1>9, <1>10, <1>11 DEF ProofVerifyExt

\* What the judge of a transcript opens, once it was verified.
LEMMA TranscriptOpens ==
  ASSUME NEW q, IsTranscript(q), IsEnvelope(q.envelope), NEW dk, q.envelope.ek = Public(dk)
  PROVE  ProofJudgeRecover(dk, q.x, ProofFromBytes(q.bytes).value) = Ok(q.envelope.m)
<1>1. PICK p, e : p = ProofFromBytes(q.bytes).value /\ e = q.envelope
  OBVIOUS
<1>2. p.commitment = Committed(e) /\ ProofVerifyExt(Public(dk), q.x, p)
  BY <1>1, TranscriptVerifies
<1>3. FromBytes(e.bytes) = Ok(Committed(e)) /\ Recovered(dk, e.bytes) = Ok(e.m)
  BY <1>1, NamedJudgeOpens
<1>4. JudgeRecover(dk, Committed(e).commitment, Committed(e).aux) = Ok(e.m)
  BY <1>3 DEF Recovered, Ok
<1> QED
  BY <1>1, <1>2, <1>4 DEF ProofJudgeRecover

\* verify_ext accepts, however a transcript and its parts were changed and
\* combined, only the very bytes that were proved for the statement.
THEOREM VerifiedOnlyIfProved == ProofSpec => []VerifiedWasProved
<1>1. ProofInv => VerifiedWasProved
  <2> SUFFICES ASSUME ProofInv, NEW ek \in JudgeKeys, NEW x \in Statements, Verified(ek, x)
               PROVE  \E q \in proved : q.bytes = wire /\ q.envelope.ek = ek /\ q.x = x
    BY DEF VerifiedWasProved
  <2>1. wire # None
    BY DEF Verified, Parsed, Err
  <2> QED
    BY <2>1, VerifiedIsTranscript DEF Verified, Parsed
<1> QED
  BY <1>1, ProofInvariant, PTL

\* judge_recover opens exactly what verify_ext accepts under the judge's key,
\* and returns an output of the statement.
THEOREM VerifiedIsRecovered == ProofSpec => []RecoveryFollowsVerification
<1>1. ProofInv => RecoveryFollowsVerification
  <2> SUFFICES ASSUME ProofInv, NEW dk \in Judges, NEW x \in Statements
               PROVE  /\ Verified(Public(dk), x) <=> Opened(dk, x).error = "none"
                      /\ Opened(dk, x).error = "none" => <<x, Opened(dk, x).value>> \in Relation
    BY DEF RecoveryFollowsVerification
  <2>1. ASSUME Verified(Public(dk), x)
        PROVE  Opened(dk, x).error = "none" /\ <<x, Opened(dk, x).value>> \in Relation
    <3>1. /\ wire # None /\ Parsed = ProofFromBytes(wire) /\ Parsed.error = "none"
          /\ ProofVerifyExt(Public(dk), x, ProofFromBytes(wire).value)
      BY <2>1 DEF Verified, Parsed, Err
    <3>2. PICK q \in proved : q.bytes = wire /\ q.envelope.ek = Public(dk) /\ q.x = x
      BY <3>1, VerifiedIsTranscript
    <3>3. IsTranscript(q) /\ IsEnvelope(q.envelope)
      BY TranscriptKnown
    <3>4. Opened(dk, x) = Ok(q.envelope.m)
      BY <3>1, <3>2, <3>3, TranscriptOpens DEF Opened
    <3>5. <<q.x, q.envelope.m>> \in Relation
      BY <3>3, Zenon DEF IsTranscript
    <3> QED
      BY <3>2, <3>4, <3>5 DEF Ok
  <2>2. ASSUME Opened(dk, x).error = "none"
        PROVE  Verified(Public(dk), x)
    <3>1. Parsed.error = "none" /\ Opened(dk, x) = ProofJudgeRecover(dk, x, Parsed.value)
      BY <2>2 DEF Opened
    <3>2. ProofVerifyExt(Public(dk), x, Parsed.value)
      BY <2>2, <3>1 DEF ProofJudgeRecover, Err
    <3> QED
      BY <3>1, <3>2 DEF Verified
  <2> QED
    BY <2>1, <2>2
<1> QED
  BY <1>1, ProofInvariant, PTL

\* What prove returned and to_bytes wrote is accepted by from_bytes and
\* verify_ext, and judge_recover returns what was proved, when it arrives as it
\* was made; with transcripts under way too, from_bytes and verify_ext of jrc
\* agree on lengths, and what commit made is within them.
THEOREM TranscriptsSurvive == ProofSpec => []ProofRoundTrip
<1>1. ProofInv => ProofRoundTrip
  <2> SUFFICES ASSUME ProofInv
               PROVE  ProofRoundTrip
    OBVIOUS
  <2>1. FormatsAgree
    BY HeldFormatsAgree DEF ProofInv
  <2>2. ASSUME NEW q \in proved, NEW dk \in Judges,
               wire # None, wire = q.bytes, q.envelope.ek = Public(dk)
        PROVE  Verified(q.envelope.ek, q.x) /\ Opened(dk, q.x) = Ok(q.envelope.m)
    <3>1. IsTranscript(q) /\ IsEnvelope(q.envelope)
      BY TranscriptKnown
    <3> QED
      BY <2>2, <3>1, TranscriptVerifies, TranscriptOpens DEF Verified, Opened, Parsed
  <2> QED
    BY <2>1, <2>2 DEF ProofRoundTrip
<1> QED
  BY <1>1, ProofInvariant, PTL

\* Envelopes inside transcripts, and those taken out of them, open as alone:
\* with transcripts under way too, judge_recover of jrc returns a message only
\* from an envelope made for it, to the named judge, and no two commitments
\* have the same key.
THEOREM EnvelopesStayGenuine ==
  ProofSpec => [](RecoveredWasCommitted /\ OnlyTheJudge /\ NoKeyReuse)
<1>1. ProofInv => RecoveredWasCommitted /\ OnlyTheJudge /\ NoKeyReuse
  <2> SUFFICES ASSUME ProofInv
               PROVE  RecoveredWasCommitted /\ OnlyTheJudge /\ NoKeyReuse
    OBVIOUS
  <2>1. PICK S : S = ProofKnown
    OBVIOUS
  <2>2. OnlySealed(S)
    BY <2>1, ProofKnownCell
  <2>3. Held(S)
    BY <2>1 DEF ProofInv
  <2> QED
    BY <2>2, <2>3, HeldIsGenuine, HeldIsFresh
<1> QED
  BY <1>1, ProofInvariant, PTL
=============================================================================
