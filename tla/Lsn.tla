-------------------------------- MODULE Lsn --------------------------------
(***************************************************************************)
(* The conversions of WAL positions in crates/connectors/pg_wal: from a    *)
(* commit event, as JSON or as a pgoutput message, to the epoch of its     *)
(* batch, and from an epoch to the text Postgres is asked to advance the   *)
(* replication slot to.                                                    *)
(*                                                                         *)
(* Postgres writes a position as two hexadecimal numbers "high/low".  The  *)
(* halves of the program have 32 bits, 8 hexadecimal digits; here they     *)
(* have HalfDigits digits.                                                 *)
(***************************************************************************)
EXTENDS Integers

CONSTANT HalfDigits     \* hexadecimal digits of half a position (8)

ASSUME HalfDigitsAssumption == HalfDigits \in 1..3

HalfSpan == 16 ^ HalfDigits

High(lsn) == lsn \div HalfSpan
Low(lsn) == lsn % HalfSpan

\* Hexadecimal digits it takes to write n < 16^4 without leading zeros.
HexLength(n) == CHOOSE d \in 1..4 : n < 16 ^ d /\ (d = 1 \/ n >= 16 ^ (d - 1))

(***************************************************************************)
(* json_wal_to_events, action "C": the slash is removed and the rest is    *)
(* read as one hexadecimal number, so the low half counts with as many     *)
(* digits as it happens to be written with.                                *)
(***************************************************************************)
EpochOfNextLsn(lsn) == High(lsn) * 16 ^ HexLength(Low(lsn)) + Low(lsn)

(***************************************************************************)
(* parse_pgoutput_message, 'C': a commit message is its type, a byte of    *)
(* flags, the position of the commit and the one after it, 8 bytes each.   *)
(* What is read starts a byte early: the last byte of the first position,  *)
(* then the second without its last byte.                                  *)
(***************************************************************************)
EpochOfCommitMessage(commit, end) ==
    (commit % 256) * 16 ^ (2 * HalfDigits - 2) + end \div 256

\* The decimal digits of n read as hexadecimal ones.
DecimalReadAsHex(n) ==
    LET read[k \in 0..n] ==
            IF k < 10 THEN k ELSE 16 * read[k \div 10] + (k % 10)
    IN read[n]

\* acknowledge_lsn writes both halves in decimal; pg_lsn reads hexadecimal
\* and rejects a half of more than HalfDigits digits.
AckAccepted(epoch) ==
    /\ DecimalReadAsHex(High(epoch)) < HalfSpan
    /\ DecimalReadAsHex(Low(epoch)) < HalfSpan

AckTarget(epoch) ==
    DecimalReadAsHex(High(epoch)) * HalfSpan + DecimalReadAsHex(Low(epoch))
=============================================================================
