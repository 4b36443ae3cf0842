--------------------------- MODULE ContentLength ---------------------------
(***************************************************************************)
(* validate_content_length (src/handler/policy.rs): one pass over the      *)
(* members of all Content-Length headers, each a comma-separated list.     *)
(*                                                                         *)
(* A member is a number.  One above MaxU64 stands for every text that the  *)
(* checks refuse: no digits, other characters, a header value that is not  *)
(* a string, or a number parse::<u64> overflows on.                        *)
(***************************************************************************)
EXTENDS Naturals, Sequences

CONSTANTS
    MaxU64,   \* the largest number a member can carry
    Limit     \* HandlerConfig::max_request_body_size

ASSUME MaxU64Assumption == MaxU64 \in Nat
ASSUME LimitAssumption == Limit \in Nat

\* What a list of members amounts to: an error, and the value parsed so far,
\* a set of at most one number.
Reading(error, parsed) == [error |-> error, parsed |-> parsed]

\* Mutant: a member replaces the ones before it.
MemberReplaces(read, member) ==
    IF read.error # "none" THEN read
    ELSE IF member > MaxU64 THEN Reading("InvalidContentLength", read.parsed)
    ELSE Reading("none", {member})

\* The body of the inner loop; an early return ends the reading.
Member(read, member) ==
    IF read.error # "none" THEN read
    ELSE IF member > MaxU64 THEN Reading("InvalidContentLength", read.parsed)
    ELSE IF \E previous \in read.parsed : previous # member
      THEN Reading("ConflictingContentLength", read.parsed)
    ELSE Reading("none", {member})

\* The reading after each number of members.
Readings(members) ==
    LET upTo[i \in 0..Len(members)] ==
            IF i = 0 THEN Reading("none", {})
            ELSE Member(upTo[i - 1], members[i])
    IN  upTo

Scan(members) == Readings(members)[Len(members)]

\* The limit, after the last member.
ValidateContentLength(members) ==
    LET read == Scan(members)
    IN  IF read.error = "none" /\ \E length \in read.parsed : length > Limit
        THEN Reading("BodyTooLarge", {})
        ELSE read

-----------------------------------------------------------------------------
(* What the verdict should be, without the pass. *)

Valid(members, i) == members[i] <= MaxU64

\* Before i all members are numbers and the same.
AgreeBefore(members, i) ==
    \A j \in 1..i - 1 : Valid(members, j) /\ members[j] = members[1]

\* The first member that is unlike the ones before it decides the error, and
\* a length is accepted only if all members are numbers that agree on it.
Expected(members) ==
    LET odd == {i \in 1..Len(members) :
                   /\ AgreeBefore(members, i)
                   /\ ~Valid(members, i) \/ members[i] # members[1]}
    IN  CASE \E i \in odd : ~Valid(members, i) -> "InvalidContentLength"
          [] \E i \in odd : Valid(members, i) -> "ConflictingContentLength"
          [] odd = {} /\ members # <<>> /\ members[1] > Limit -> "BodyTooLarge"
          [] OTHER -> "none"
=============================================================================
