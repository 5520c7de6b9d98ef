------------------------------ MODULE Metadata ------------------------------
(***************************************************************************)
(* The file name and the media type of a container: safe_file_name and      *)
(* normalize_mime_type of src/src/container.rs, which the sender applies to *)
(* what the application gives it, and the receiver to whatever is in the    *)
(* container.                                                              *)
(*                                                                         *)
(* Characters are members of the classes that the code tells apart.         *)
(***************************************************************************)
EXTENDS Naturals, Sequences, FiniteSetsExt, SequencesExt

CONSTANTS
  Characters,
  NameStrings,        \* the names to consider, as sequences of characters
  TypeStrings,        \* the media types to consider
  Separators,         \* '/' and '\'
  Dropped,            \* is_control and is_bidi_control
  Replaced,           \* '<', '>', ':', '"', '|', '?', '*'
  White,              \* char::is_whitespace
  Printable,          \* bytes from 0x20 to 0x7e
  Token,              \* is_mime_token_byte
  Upper,              \* to_ascii_uppercase of a character
  Devices,            \* the names of is_windows_device_name
  DefaultName, DefaultType

ASSUME StringAssumption ==
  /\ NameStrings \cup TypeStrings \cup {DefaultName, DefaultType} \subseteq Seq(Characters)
  /\ "_" \in Characters /\ "refused" \notin Characters

\* What takes the place of a character is harmless itself.
ASSUME CharacterAssumption ==
  /\ "_" \notin Separators \cup Dropped \cup Replaced \cup White
  /\ Upper["_"] = "_"
  /\ \A d \in Devices : d # <<>> /\ d[1] # "_"

-----------------------------------------------------------------------------
(* File names.                                                             *)

\* str::trim
Trim(s) ==
  LET kept == {i \in DOMAIN s : s[i] \notin White}
  IN IF kept = {} THEN <<>> ELSE SubSeq(s, Min(kept), Max(kept))

Bug_TrimEnd(s) ==       \* takes dots only
  SubSeq(s, 1, Max({0} \cup {i \in DOMAIN s : s[i] # "."}))

\* trim_end_matches(['.', ' '])
Trailing == {".", " "}
TrimEnd(s) == SubSeq(s, 1, Max({0} \cup {i \in DOMAIN s : s[i] \notin Trailing}))

\* What is before the first separator, or all.
Before(s, c) == SubSeq(s, 1, Min({i - 1 : i \in {j \in DOMAIN s : s[j] = c}} \cup {Len(s)}))

Base(s) == SubSeq(s, Max({0} \cup {i \in DOMAIN s : s[i] \in Separators}) + 1, Len(s))

\* filter
Kept(s) ==
  LET kept[n \in 0 .. Len(s)] ==
        IF n = 0 THEN <<>>
        ELSE IF s[n] \in Dropped THEN kept[n - 1]
        ELSE Append(kept[n - 1], s[n])
  IN kept[Len(s)]

Bug_Cleaned(s) ==       \* trims before it drops characters
  LET kept == Kept(TrimEnd(Trim(Base(s))))
  IN [i \in DOMAIN kept |-> IF kept[i] \in Replaced THEN "_" ELSE kept[i]]

Cleaned(s) ==
  LET kept == Kept(Base(s))
  IN TrimEnd(Trim([i \in DOMAIN kept |-> IF kept[i] \in Replaced THEN "_" ELSE kept[i]]))

UpperCase(s) == [i \in DOMAIN s |-> Upper[s[i]]]

\* is_windows_device_name of the stem
IsDevice(s) == UpperCase(Before(s, ".")) \in Devices

SafeFileName(s) ==
  LET cleaned == Cleaned(s)
  IN IF cleaned \in {<<>>, <<".">>, <<".", ".">>} THEN DefaultName
     ELSE IF IsDevice(cleaned) THEN <<"_">> \o cleaned
     ELSE cleaned

\* What the README promises of a received file's name.
Safe(s) ==
  /\ s # <<>> /\ ToSet(s) \cap (Separators \cup Dropped \cup Replaced) = {}
  /\ s[Len(s)] \notin Trailing
  /\ UpperCase(Before(s, ".")) \notin Devices

-----------------------------------------------------------------------------
(* Media types.                                                            *)

Refuse == <<"refused">>

NormalizeMimeType(s) ==
  LET value == Trim(s)
      media == Trim(Before(value, ";"))
      type_name == Before(media, "/")
      subtype == SubSeq(media, Len(type_name) + 2, Len(media))
  IN IF value = <<>> THEN DefaultType
     ELSE IF ~ ToSet(value) \subseteq Printable THEN Refuse
     ELSE IF "/" \notin ToSet(media) THEN Refuse
     ELSE IF type_name = <<>> \/ subtype = <<>> THEN Refuse
     ELSE IF ~ (ToSet(type_name) \cup ToSet(subtype)) \subseteq Token THEN Refuse
     ELSE value

-----------------------------------------------------------------------------

\* DEFAULT_NAME and DEFAULT_MIME.
ASSUME DefaultAssumption ==
  /\ Safe(DefaultName) /\ Trim(DefaultName) = DefaultName
  /\ NormalizeMimeType(DefaultType) = DefaultType
=============================================================================
