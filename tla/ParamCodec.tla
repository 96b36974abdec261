----------------------------- MODULE ParamCodec ------------------------------
(***************************************************************************)
(* hybrid-comm/src/pzmq_data.cpp: two strings travel in one RPC argument or *)
(* reply behind one char that holds the length of the first.  A string is a *)
(* sequence of character codes; the length is stored modulo the number of   *)
(* values a char has and read back as the number that char stands for.      *)
(***************************************************************************)
EXTENDS Integers, Sequences

CONSTANTS CharValues,    (* how many values a char has: 256                 *)
          CharIsSigned   (* on x86; on the ARM boards it is not             *)

ASSUME CharAssumption ==
    CharValues \in Nat /\ CharValues > 1 /\ CharIsSigned \in BOOLEAN

(* What a number that is cast to char reads as.                             *)
AsChar(n) ==
    IF CharIsSigned /\ 2 * (n % CharValues) >= CharValues
    THEN (n % CharValues) - CharValues
    ELSE n % CharValues

(* Faulty variant: the length counts its own char as well.                  *)
SetParamCountingHeader(param0, param1) ==
    <<AsChar(Len(param0) + 1)>> \o param0 \o param1

SetParam(param0, param1) == <<AsChar(Len(param0))>> \o param0 \o param1

(* No value: the std::string constructor throws length_error, or reads      *)
(* outside of the message.  The empty message of a failed receive has no    *)
(* first char.                                                              *)
Unreadable == <<"unreadable">>

Readable(data) == Len(data) > 0 /\ data[1] >= 0 /\ data[1] < Len(data)

GetParam(index, data) ==
    IF ~Readable(data)      THEN Unreadable
    ELSE IF index % 2 = 0   THEN SubSeq(data, 2, data[1] + 1)
                            ELSE SubSeq(data, data[1] + 2, Len(data))
==============================================================================
