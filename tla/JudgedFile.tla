----------------------------- MODULE JudgedFile -----------------------------
(***************************************************************************)
(* Files and messages on their way to a judge: commit of jrc.rs,            *)
(* pack_file_jrc and unpack_file_jrc of container.rs, and what may happen   *)
(* to an envelope in between.                                               *)
(*                                                                         *)
(* The container inside is one message; Container has what is in it.        *)
(***************************************************************************)
EXTENDS Jrc, FiniteSets

CONSTANTS
  None,
  Judges,           \* the secrets of the judges
  Files,            \* the messages that are DCF3 containers
  MaxCommits,       \* bound on the envelopes made
  MaxAlterations    \* bound on the changes to one envelope under way

ASSUME JudgedFileAssumption == Judges \subseteq Secrets /\ Files \subseteq Messages

VARIABLES
  made,         \* the envelopes made: [dk, m, r, e_sk, bytes]
  wire,         \* the envelope under way, or None
  alterations,
  outcome       \* of the last call: [call, dk, error, value]

vars == <<made, wire, alterations, outcome>>

Init == made = {} /\ wire = None /\ alterations = 0 /\ outcome = None

\* The keys an application may name: those of judges, and one of small order.
JudgeKeys == {Public(dk) : dk \in Judges} \cup {LowPoint}

Bug_Fresh == Secrets \ Judges      \* may draw the same secret again

\* getrandom::fill in commit_with_prover_opening: what it draws, it never
\* drew before, nor is it the key of a judge.
Fresh == (Secrets \ Judges) \ {e.e_sk : e \in made}

Returns(call, dk, result) ==
  outcome' = [call |-> call, dk |-> dk, error |-> result.error, value |-> result.value]

\* to_bytes, and the last check of pack_file_jrc.
Serialized(by, committed) ==
  IF by = "pack" /\ Len(ToBytes(committed)) > MaxStreamBytes
  THEN Err("TooLarge") ELSE Ok(ToBytes(committed))

\* commit, alone or of a container.
CommitAs(by, ek, m, r) ==
  /\ Cardinality(made) < MaxCommits
  /\ UNCHANGED <<wire, alterations>>
  /\ \/ /\ MsgLen[m] <= MaxMessageLen         \* getrandom fails
        /\ Returns(by, None, Err("Crypto"))
        /\ UNCHANGED made
     \/ \E e_sk \in Fresh :
          LET committed == CommitWithEphemeral(ek, m, r, e_sk)
              result == IF committed.error = "none"
                        THEN Serialized(by, committed.value) ELSE committed
          IN /\ Returns(by, None, [result EXCEPT !.value = <<>>])
             /\ made' = IF result.error # "none" THEN made
                        ELSE made \cup {[ek |-> ek, m |-> m, r |-> r, e_sk |-> e_sk,
                                         bytes |-> result.value]}

Commit(ek, m, r) == CommitAs("commit", ek, m, r)

\* pack_file makes a container before; its errors are those of Container.
PackFileJrc(ek, file, r) == file \in Files /\ CommitAs("pack", ek, file, r)

\* An envelope is sent; it may arrive as it is.
Send ==
  /\ wire = None
  /\ \E e \in made : wire' = e.bytes
  /\ outcome' = None
  /\ UNCHANGED <<made, alterations>>

Alter ==
  /\ wire # None /\ alterations < MaxAlterations
  /\ wire' \in Altered(wire, {e.bytes : e \in made}, {Other, LowPoint})
  /\ alterations' = alterations + 1
  /\ outcome' = None
  /\ UNCHANGED made

\* What a judge with key dk gets from an envelope.
Recovered(dk, bytes) ==
  LET parsed == FromBytes(bytes)
  IN IF parsed.error # "none" THEN parsed
     ELSE JudgeRecover(dk, parsed.value.commitment, parsed.value.aux)

\* from_bytes and judge_recover
Recover(dk) ==
  /\ wire # None
  /\ Returns("recover", dk, Recovered(dk, wire))
  /\ UNCHANGED <<made, wire, alterations>>

\* unpack_file_jrc: unpack_file refuses what is not a container.
UnpackFileJrc(dk) ==
  /\ wire # None
  /\ LET result == Recovered(dk, wire)
     IN Returns("recover", dk,
               IF result.error = "none" /\ result.value \notin Files
               THEN Err("BadMagic") ELSE result)
  /\ UNCHANGED <<made, wire, alterations>>

Next ==
  \/ \E ek \in JudgeKeys, m \in Messages, r \in Nonces :
       Commit(ek, m, r) \/ PackFileJrc(ek, m, r)
  \/ Send
  \/ Alter
  \/ \E dk \in Judges : Recover(dk) \/ UnpackFileJrc(dk)

Spec == Init /\ [][Next]_vars

-----------------------------------------------------------------------------
(* Properties.                                                             *)

\* What a judge recovers.
Got == outcome # None /\ outcome.call = "recover" /\ outcome.error = "none"

\* A judge recovers a message from an envelope only if that very envelope was
\* made, for this message: no damage, no truncation, no combination of the
\* parts of several envelopes, and no reuse of a nonce makes another one that
\* passes the tag and the commitment.
RecoveredWasCommitted ==
  Got => \E e \in made : e.bytes = wire /\ e.m = outcome.value

\* Nobody but the judge whose key the sender named recovers a message.
OnlyTheJudge ==
  Got => \A e \in made : e.bytes = wire => e.ek = Public(outcome.dk)

\* The named judge recovers every envelope that arrives as it was made, and a
\* container from it if the message was one.
RoundTrip ==
  [][\A dk \in Judges, e \in made :
       wire = e.bytes /\ e.ek = Public(dk) =>
         /\ Recover(dk) => outcome'.error = "none"
         /\ UnpackFileJrc(dk) /\ e.m \in Files => outcome'.error = "none"]_vars

\* "Nonce discipline": no two commitments encrypt with the same key and nonce,
\* even when the application passes the same nonce again.
NoKeyReuse ==
  \A e, f \in made : e # f => \A i \in 5 .. Len(e.bytes), j \in 5 .. Len(f.bytes) :
    <<e.bytes[i][2], e.bytes[i][3]>> # <<f.bytes[j][2], f.bytes[j][3]>>

\* What commit makes can be sent and is parsed again, for the longest message
\* and the empty one; and from_bytes and verify_ext agree on what has the
\* right format, however long the bytes are.
FormatsAgree ==
  /\ \A e \in made :
       Len(e.bytes) <= MaxStreamBytes /\ FromBytes(e.bytes).error = "none"
  /\ wire # None /\ Len(wire) >= 2 /\ wire[1] = Magic =>
       (FromBytes(wire).error = "none" <=> VerifyExt(SubSeq(wire, 3, Len(wire))))
=============================================================================
