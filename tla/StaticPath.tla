----------------------------- MODULE StaticPath -----------------------------
(***************************************************************************)
(* normalize_static_path (src/static_files.rs): what is left of the path   *)
(* of a request after a static prefix becomes a lookup key, or is refused. *)
(*                                                                         *)
(* A path is a sequence of bytes.  The bytes are few, but they can spell   *)
(* percent-encodings of each other to any depth: of a dot, a slash, a      *)
(* colon, a percent sign, of the digits of such an encoding, and of the    *)
(* bytes of characters that UTF-8 writes with three or four of them.  The  *)
(* raw path may hold some encodings, "%25" among them, as units, which     *)
(* stand for three bytes.  Every error is answered alike, with 404, and is *)
(* the verdict "refused".                                                  *)
(***************************************************************************)
EXTENDS Naturals, FiniteSets, Sequences

CONSTANTS
    RawBytes,   \* units a raw path is made of
    RawPaths,   \* the raw paths
    MaxPasses   \* MAX_RESIDUAL_DECODE_PASSES

ASSUME RawPathsAssumption == RawPaths \subseteq Seq(RawBytes)
ASSUME MaxPassesAssumption == MaxPasses \in Nat \ {0}

VARIABLES
    raw,      \* what follows the prefix
    decoded,  \* the path after one decoding
    probe,    \* what the path would become under further decodings
    passes,   \* further decodings so far
    verdict,  \* the outcome so far
    key       \* the lookup key

pathVars == <<raw, decoded, probe, passes, verdict, key>>

Verdicts == {"none", "raw", "probing", "stable", "refused", "accepted"}

Digits == {"2", "3", "5", "a", "e", "f"}
Letters == {"a", "e", "f", "Z"}

\* The byte that two hexadecimal digits spell, as far as it matters.  Those from
\* 0xa2 up are told apart as UTF-8 does: 0xe2 to 0xef begin a character of three
\* bytes, 0xf2 and 0xf3 one of four, nothing has those from 0xf5 up.
Byte(high, low) ==
    CASE high = "2" /\ low = "5" -> "%"
      [] high = "2" /\ low = "e" -> "."
      [] high = "2" /\ low = "f" -> "/"
      [] high = "3" /\ low = "a" -> ":"
      [] high = "3" /\ low \in {"2", "3", "5"} -> low
      [] high = "5" /\ low \in {"2", "3", "5", "a"} -> "Z"
      [] high = "a" -> "continuation"
      [] high = "e" -> "lead of 3"
      [] high = "f" /\ low \in {"2", "3"} -> "lead of 4"
      [] high = "f" /\ low \in {"5", "a", "e", "f"} -> "no UTF-8"
      [] OTHER -> "_"

\* What a unit of the raw path stands for.
Unit(u) ==
    CASE u = "%25" -> "%"
      [] u = "%2f" -> "/"
      [] u = "%a2" -> Byte("a", "2")
      [] u = "%e2" -> Byte("e", "2")
      [] OTHER -> u

-----------------------------------------------------------------------------
(* Operators *)

\* The indices at which an encoded byte begins.
Encoded(text) ==
    {i \in 1..Len(text) :
        /\ i + 2 <= Len(text)
        /\ text[i] = "%"
        /\ text[i + 1] \in Digits /\ text[i + 2] \in Digits}

\* Decoding each of them; an encoding cannot begin inside another.
Decode(text) ==
    LET from[i \in 1..Len(text) + 1] ==
            IF i > Len(text) THEN <<>>
            ELSE IF i \in Encoded(text)
                 THEN <<Byte(text[i + 1], text[i + 2])>> \o from[i + 3]
                 ELSE <<text[i]>> \o from[i + 1]
    IN from[1]

\* A byte that decode_residual_once refuses; no digits here spell a control
\* character or a backslash.
DecodesBadly(text) ==
    \E i \in Encoded(text) : Byte(text[i + 1], text[i + 2]) = "/"

\* The bytes that must follow one.
Follows(byte) == CASE byte = "lead of 3" -> 2 [] byte = "lead of 4" -> 3 [] OTHER -> 0

\* String::from_utf8 of a text: no byte that never occurs, each lead with the
\* continuations it needs, and no continuation besides.
Utf8(text) ==
    \A i \in DOMAIN text :
        /\ text[i] # "no UTF-8"
        /\ \A k \in 1..Follows(text[i]) :
               i + k \in DOMAIN text /\ text[i + k] = "continuation"
        /\ text[i] = "continuation" =>
               \E k \in 1..3 : i - k \in DOMAIN text /\ k <= Follows(text[i - k])

\* The components between separators, the empty ones included.
Components(text) ==
    LET cuts == {0, Len(text) + 1} \cup {i \in 1..Len(text) : text[i] = "/"}
        neighbours == {p \in cuts \X cuts :
                          p[1] < p[2] /\ \A k \in cuts : k <= p[1] \/ k >= p[2]}
    IN {SubSeq(text, p[1] + 1, p[2] - 1) : p \in neighbours}

\* validate_platform_prefix: a drive letter.
HasPrefix(text) == Len(text) >= 2 /\ text[1] \in Letters /\ text[2] = ":"

\* validate_components without the key it returns.
BadComponents(text) ==
    \/ text # <<>> /\ text[1] = "/"
    \/ Components(text) \cap {<<".">>, <<".", ".">>} # {}

\* The key: repeated separators and one at the end are dropped.
Collapsed(text) ==
    LET keep(i) == text[i] # "/" \/ (i < Len(text) /\ text[i + 1] # "/")
        from[i \in 1..Len(text) + 1] ==
            IF i > Len(text) THEN <<>>
            ELSE IF keep(i) THEN <<text[i]>> \o from[i + 1] ELSE from[i + 1]
    IN from[1]

-----------------------------------------------------------------------------
(* The steps of normalize_static_path *)

\* A literal "%" followed by two digits is an encoding, not a unit of its own.
PathInit ==
    /\ raw \in {r \in RawPaths : Encoded(r) = {}}
    /\ decoded = <<>>
    /\ probe = <<>>
    /\ passes = 0
    /\ verdict = "raw"
    /\ key = <<>>

RefusePath == verdict' = "refused" /\ UNCHANGED <<raw, decoded, probe, passes, key>>

\* What percent_decode_once refuses, or validate_decoded_bytes or
\* String::from_utf8 after it.
Unfit(r) ==
    \/ \E i \in DOMAIN r : r[i] \in {"%", "%2f", "\\"}
    \/ ~Utf8([i \in DOMAIN r |-> Unit(r[i])])

DecodeOnce ==
    /\ verdict = "raw"
    /\ IF Unfit(raw)
       THEN RefusePath
       ELSE /\ decoded' = [i \in DOMAIN raw |-> Unit(raw[i])]
            /\ probe' = decoded'
            /\ verdict' = "probing"
            /\ UNCHANGED <<raw, passes, key>>

\* One pass of validate_residual_encoding.
ProbeEnds ==
    /\ verdict = "probing"
    /\ passes < MaxPasses
    /\ Encoded(probe) = {}
    /\ verdict' = "stable"
    /\ UNCHANGED <<raw, decoded, probe, passes, key>>

ProbeRefuses ==
    /\ verdict = "probing"
    /\ passes < MaxPasses
    /\ Encoded(probe) # {}
    /\ \/ DecodesBadly(probe) \/ ~Utf8(Decode(probe))
       \/ HasPrefix(Decode(probe)) \/ BadComponents(Decode(probe))
    /\ RefusePath

\* Mutant: only the bytes of a further decoding are checked.
ProbesBytesOnly ==
    /\ verdict = "probing"
    /\ passes < MaxPasses
    /\ Encoded(probe) # {}
    /\ ~DecodesBadly(probe) /\ Utf8(Decode(probe))
    /\ probe' = Decode(probe)
    /\ passes' = passes + 1
    /\ UNCHANGED <<raw, decoded, verdict, key>>

ProbeGoesOn ==
    /\ verdict = "probing"
    /\ passes < MaxPasses
    /\ Encoded(probe) # {}
    /\ ~DecodesBadly(probe) /\ Utf8(Decode(probe))
    /\ ~HasPrefix(Decode(probe)) /\ ~BadComponents(Decode(probe))
    /\ probe' = Decode(probe)
    /\ passes' = passes + 1
    /\ UNCHANGED <<raw, decoded, verdict, key>>

\* A path that still changes after the last pass.
OutOfPasses ==
    /\ verdict = "probing"
    /\ passes = MaxPasses
    /\ RefusePath

\* validate_platform_prefix and validate_components of the path itself.
Conclude ==
    /\ verdict = "stable"
    /\ IF HasPrefix(decoded) \/ BadComponents(decoded)
       THEN RefusePath
       ELSE /\ verdict' = "accepted"
            /\ key' = Collapsed(decoded)
            /\ UNCHANGED <<raw, decoded, probe, passes>>

PathNext ==
    DecodeOnce \/ ProbeEnds \/ ProbeRefuses \/ ProbeGoesOn \/ OutOfPasses \/ Conclude

PathSpec == PathInit /\ [][PathNext]_pathVars

-----------------------------------------------------------------------------
(* Properties *)

\* What an asset callback, or a store behind it, may make of a key: it decodes
\* one encoded byte, any one, as often as it likes.
DecodedAt(text, i) ==
    SubSeq(text, 1, i - 1) \o <<Byte(text[i + 1], text[i + 2])>>
        \o SubSeq(text, i + 3, Len(text))

Readings(text) ==
    LET reach[n \in 0..Len(text)] ==
            IF n = 0 THEN {text}
            ELSE LET before == reach[n - 1]
                 IN before \cup UNION {{DecodedAt(t, i) : i \in Encoded(t)} : t \in before}
    IN reach[Len(text)]

\* A text, and what decoding all of it makes of it, pass by pass.
Decodings(text) ==
    LET after[n \in 0..MaxPasses] == IF n = 0 THEN text ELSE Decode(after[n - 1])
    IN {after[n] : n \in 0..MaxPasses}

Slashes(text) == {i \in DOMAIN text : text[i] = "/"}

\* It names something below the root, and a reading is as deep as the text.
Inside(text) ==
    ~HasPrefix(text) /\ ~BadComponents(text) /\ \A i \in DOMAIN text : text[i] # "\\"

Harmless(text) ==
    \A t \in Readings(text) :
        Inside(t) /\ Cardinality(Slashes(t)) = Cardinality(Slashes(text))

\* A path is accepted exactly if, however often and in whatever order the
\* encodings left in it are decoded later, it names something below the asset
\* root, no deeper than before, and remains text when all of it is decoded
\* again; a path that goes on changing beyond the passes is refused as well, and
\* a key has no empty component (static_files.rs:48-54, 57-66, 70-77, 214).
AcceptsWhatStaysInside ==
    /\ verdict = "accepted" =>
           /\ Harmless(key)
           /\ \A t \in Decodings(decoded) : Utf8(t)
           /\ \A i \in Slashes(key) : i < Len(key) /\ key[i + 1] # "/"
    /\ verdict = "refused" =>
           \/ Unfit(raw)
           \/ passes = MaxPasses
           \/ ~Harmless(decoded)
           \/ \E t \in Decodings(decoded) : ~Utf8(t)
=============================================================================
