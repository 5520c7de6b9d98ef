---------------------------- MODULE JudgedProof -----------------------------
(***************************************************************************)
(* src/src/jrp.rs: a relation proof beside a judge-recoverable commitment,  *)
(* how it is made, framed, verified by anyone and opened by the judge.      *)
(* Transcripts travel among the envelopes of JudgedFile, to the same judges, *)
(* and contain such envelopes, which may also arrive alone.                 *)
(*                                                                         *)
(* The proof system is the application's.  It is taken to be sound: the     *)
(* bytes it makes for a public input verify for that input alone, and it    *)
(* makes them only if the relation holds; but it may fail, return bytes     *)
(* that do not verify, or too many of them.                                 *)
(***************************************************************************)
EXTENDS JudgedFile

CONSTANTS
  Statements,
  Relation,         \* the pairs of a statement and an output of it
  ProofLens         \* lengths of the proofs the backend may return

ASSUME JudgedProofAssumption ==
  /\ Relation \subseteq Statements \X Messages
  /\ ProofLens \subseteq Nat \ {0}

VARIABLE proved     \* the transcripts made: [envelope, x, bytes]

ProofInit == Init /\ proved = {}

ProofMagic == <<"proof_magic">>
ProofOverhead == 2                  \* PROOF_OVERHEAD: magic and length
MaxRelationProofLen == MaxStreamBytes - ProofOverhead - Overhead

-----------------------------------------------------------------------------
(* Wire format.                                                            *)

\* JrpProof::to_bytes
ProofToBytes(p) ==
  <<ProofMagic, <<"len", Len(p.relation_proof)>>>> \o p.relation_proof \o ToBytes(p.commitment)

\* The length in the header; damaged bytes hold some large number.
ProofLen(bytes) == IF bytes[2][1] = "len" THEN bytes[2][2] ELSE MaxStreamBytes

Bug_ProofFromBytes(bytes) ==       \* the proof reaches into the envelope
  LET proof_end == ProofOverhead + ProofLen(bytes)
      envelope == SubSeq(bytes, proof_end + 1, Len(bytes))
  IN IF Len(bytes) < ProofOverhead + Overhead THEN Err("Truncated")
     ELSE IF FromBytes(envelope).error # "none" THEN FromBytes(envelope)
     ELSE Ok([relation_proof |-> SubSeq(bytes, ProofOverhead + 1, proof_end + 1),
              commitment |-> FromBytes(envelope).value])

\* JrpProof::from_bytes
ProofFromBytes(bytes) ==
  LET proof_end == ProofOverhead + ProofLen(bytes)
      envelope == FromBytes(SubSeq(bytes, proof_end + 1, Len(bytes)))
  IN IF Len(bytes) > MaxStreamBytes THEN Err("TooLarge")
     ELSE IF Len(bytes) < ProofOverhead + Overhead THEN Err("Truncated")
     ELSE IF bytes[1] # ProofMagic THEN Err("BadMagic")
     ELSE IF ProofLen(bytes) > MaxRelationProofLen THEN Err("TooLarge")
     ELSE IF Len(bytes) < proof_end + Overhead THEN Err("Truncated")
     ELSE IF envelope.error # "none" THEN envelope
     ELSE Ok([relation_proof |-> SubSeq(bytes, ProofOverhead + 1, proof_end),
              commitment |-> envelope.value])

-----------------------------------------------------------------------------
(* Proving and verifying.                                                  *)

Bug_PublicInput(ek, x, committed) == <<ek, x, committed.commitment>>   \* without aux

\* JrpPublicInput
PublicInput(ek, x, committed) == <<ek, x, committed.commitment, committed.aux>>

\* RelationProofSystem: a proof of n bytes for a public input.
ProofOf(public, n) == [i \in 1 .. n |-> <<"proof", public, n, i>>]
Junk(n) == [i \in 1 .. n |-> Other]

SystemProofs(public, x, m) ==
  {Junk(n) : n \in ProofLens}
  \cup (IF <<x, m>> \in Relation THEN {ProofOf(public, n) : n \in ProofLens} ELSE {})

SystemVerify(public, proof) == proof = ProofOf(public, Len(proof)) /\ proof # <<>>

\* prove, once the backend has returned a proof.
Finish(ek, x, p) ==
  IF Len(p.relation_proof) > MaxRelationProofLen THEN Err("TooLarge")
  ELSE IF ~ SystemVerify(PublicInput(ek, x, p.commitment), p.relation_proof)
  THEN Err("InvalidProof")
  ELSE IF Len(ProofToBytes(p)) > MaxStreamBytes THEN Err("TooLarge")
  ELSE Ok(p)

\* verify_ext
ProofVerifyExt(ek, x, p) ==
  /\ VerifyExt(p.commitment.aux)
  /\ SystemVerify(PublicInput(ek, x, p.commitment), p.relation_proof)

Bug_ProofJudgeRecover(dk, x, p) ==     \* opens without verifying
  JudgeRecover(dk, p.commitment.commitment, p.commitment.aux)

\* judge_recover
ProofJudgeRecover(dk, x, p) ==
  IF ~ ProofVerifyExt(Public(dk), x, p) THEN Err("InvalidProof")
  ELSE JudgeRecover(dk, p.commitment.commitment, p.commitment.aux)

-----------------------------------------------------------------------------
(* Transcripts under way.                                                  *)

\* prove and to_bytes; when it returns an error, nothing is left of it.
Prove(ek, x, m, r) ==
  /\ Cardinality(made) < MaxCommits
  /\ \E e_sk \in Fresh :
       LET committed == CommitWithEphemeral(ek, m, r, e_sk)
           envelope == [ek |-> ek, m |-> m, r |-> r, e_sk |-> e_sk,
                        bytes |-> ToBytes(committed.value)]
       IN /\ committed.error = "none"
          /\ \E proof \in SystemProofs(PublicInput(ek, x, committed.value), x, m) :
               LET p == [relation_proof |-> proof, commitment |-> committed.value]
               IN /\ Finish(ek, x, p).error = "none"
                  /\ made' = made \cup {envelope}
                  /\ proved' = proved \cup
                       {[envelope |-> envelope, x |-> x, bytes |-> ProofToBytes(p)]}
  /\ outcome' = None
  /\ UNCHANGED <<wire, alterations>>

SendProof ==
  /\ wire = None
  /\ \E p \in proved : wire' = p.bytes
  /\ outcome' = None
  /\ UNCHANGED <<made, alterations, proved>>

\* Next to what Alter does: damage at the start that takes a transcript for an
\* envelope or shifts the envelope in it, and parts of transcripts.
Damaged(i) ==
  CASE i = 1 -> {Magic, ProofMagic}
    [] i = 2 -> {<<"len", n>> : n \in ProofLens \cup {0}}

AlterProof ==
  /\ wire # None /\ alterations < MaxAlterations
  /\ wire' \in Altered(wire, {p.bytes : p \in proved}, {})
              \cup UNION {{[wire EXCEPT ![i] = cell] : cell \in Damaged(i)} : i \in DOMAIN wire \cap {1, 2}}
  /\ alterations' = alterations + 1
  /\ outcome' = None
  /\ UNCHANGED <<made, proved>>

ProofNext ==
  \/ Next /\ UNCHANGED proved
  \/ \E ek \in JudgeKeys, x \in Statements, m \in Messages, r \in Nonces : Prove(ek, x, m, r)
  \/ SendProof
  \/ AlterProof

ProofSpec == ProofInit /\ [][ProofNext]_<<vars, proved>>

-----------------------------------------------------------------------------
(* Properties.                                                             *)

\* What anyone, and the judge with key dk, finds in the transcript under way.
Parsed == IF wire = None THEN Err("Truncated") ELSE ProofFromBytes(wire)

Verified(ek, x) == Parsed.error = "none" /\ ProofVerifyExt(ek, x, Parsed.value)

Opened(dk, x) ==
  IF Parsed.error = "none" THEN ProofJudgeRecover(dk, x, Parsed.value) ELSE Parsed

\* "external soundness reduces directly to soundness of the proof system": a
\* transcript verifies for a statement only if that very transcript was proved
\* for it, so no part of another one was put in its place, moved the boundary
\* between proof and envelope, or was left unbound.
VerifiedWasProved ==
  \A ek \in JudgeKeys, x \in Statements :
    Verified(ek, x) => \E p \in proved : p.bytes = wire /\ p.envelope.ek = ek /\ p.x = x

\* "judge recovery follows from successful verification": whatever passes the
\* external verification under the key of a judge, that judge opens, and what
\* it gets is an output of the statement it was asked about; it opens nothing
\* that does not pass.
RecoveryFollowsVerification ==
  \A dk \in Judges, x \in Statements :
    /\ Verified(Public(dk), x) <=> Opened(dk, x).error = "none"
    /\ Opened(dk, x).error = "none" => <<x, Opened(dk, x).value>> \in Relation

\* The limits of messages, aux, proofs, envelopes and streams fit together: what
\* commit made can be sent and parsed, up to the longest message, and from_bytes
\* accepts exactly the lengths that verify_ext does (FormatsAgree); and what prove
\* returned, a receiver parses, verifies and opens when it arrives as it was, and
\* the judge gets the output that was proved, although the limits of the proof and
\* of the output are checked apart and each may fill the stream alone.
ProofRoundTrip ==
  /\ FormatsAgree
  /\ \A p \in proved, dk \in Judges :
       wire # None /\ wire = p.bytes /\ p.envelope.ek = Public(dk) =>
         Verified(p.envelope.ek, p.x) /\ Opened(dk, p.x) = Ok(p.envelope.m)
=============================================================================
