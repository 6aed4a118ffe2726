------------------------------- MODULE Base64 -------------------------------
(***************************************************************************)
(* ztl_base64.c.  Bytes and characters are numbers, a character its ASCII  *)
(* code.  obj is a sequence of bytes a caller encodes; spec is not used.   *)
(***************************************************************************)
EXTENDS Integers, Sequences

CONSTANTS PlainBytes,   \* bytes the sequences are made of
          MaxPlain      \* bound on their length

VARIABLES obj, spec

BASE64_PAD == 61
Unused == 255

base64en(v) ==
    CASE v < 26 -> 65 + v
      [] v \in 26..51 -> 71 + v
      [] v \in 52..61 -> v - 4
      [] v = 62 -> 43
      [] v = 63 -> 47
base64de(c) ==
    CASE c \in 65..90 -> c - 65
      [] c \in 97..122 -> c - 71
      [] c \in 48..57 -> c + 4
      [] c = 43 -> 62
      [] c = 47 -> 63
      [] OTHER -> Unused

\* One byte at a time: l is the byte before, s its place in the group of three.
ztl_base64_encode(data) ==
    LET out[i \in 0..Len(data)] ==
            IF i = 0 THEN <<>>
            ELSE LET c == data[i]
                     l == IF i = 1 THEN 0 ELSE data[i - 1]
                 IN out[i - 1] \o
                    CASE (i - 1) % 3 = 0 -> <<base64en(c \div 4)>>
                      [] (i - 1) % 3 = 1 -> <<base64en((l % 4) * 16 + c \div 16)>>
                      [] (i - 1) % 3 = 2 -> <<base64en((l % 16) * 4 + c \div 64), base64en(c % 64)>>
        last == data[Len(data)]
    IN out[Len(data)] \o
       CASE Len(data) % 3 = 0 -> <<>>
         [] Len(data) % 3 = 1 -> <<base64en((last % 4) * 16), BASE64_PAD, BASE64_PAD>>
         [] Len(data) % 3 = 2 -> <<base64en((last % 16) * 4), BASE64_PAD>>

\* The bytes whose number is stored in *apInOutLength; a refused text returns
\* 0 as well and leaves the length alone.
Refused == "refused"
ztl_base64_decode(text) ==
    LET Start == [bytes |-> <<>>, part |-> 0, end |-> "no"]
        go[i \in 0..Len(text)] ==
            IF i = 0 THEN Start
            ELSE LET p == go[i - 1]
                     c == base64de(text[i])
                 IN CASE p.end # "no" -> p
                      [] p.end = "no" /\ text[i] = BASE64_PAD -> [p EXCEPT !.end = "pad"]
                      [] p.end = "no" /\ text[i] # BASE64_PAD /\ c = Unused -> [p EXCEPT !.end = Refused]
                      [] p.end = "no" /\ c # Unused /\ i % 4 = 1 -> [p EXCEPT !.part = (c * 4) % 256]
                      [] p.end = "no" /\ c # Unused /\ i % 4 = 2 ->
                           [p EXCEPT !.bytes = Append(@, p.part + ((c \div 16) % 4)), !.part = (c % 16) * 16]
                      [] p.end = "no" /\ c # Unused /\ i % 4 = 3 ->
                           [p EXCEPT !.bytes = Append(@, p.part + ((c \div 4) % 16)), !.part = (c % 4) * 64]
                      [] p.end = "no" /\ c # Unused /\ i % 4 = 0 ->
                           [p EXCEPT !.bytes = Append(@, p.part + c), !.part = 0]
    IN IF Len(text) % 4 # 0 \/ go[Len(text)].end = Refused THEN Refused ELSE go[Len(text)].bytes

PlainInit == obj = <<>> /\ spec = 0
PlainNext == Len(obj) < MaxPlain /\ (\E b \in PlainBytes : obj' = Append(obj, b)) /\ UNCHANGED spec

(***************************************************************************)
(* What ztl_base64_encode writes, four characters for three bytes begun,   *)
(* ztl_base64_decode reads back for every length; a text cut anywhere else *)
(* than between groups, or with a character that is not of the alphabet    *)
(* where a byte is read, is refused.                                       *)
(***************************************************************************)
Base64Exact ==
    LET text == ztl_base64_encode(obj)
        read == Len(obj) + (Len(obj) + 2) \div 3    \* characters before the padding
    IN /\ Len(text) = 4 * ((Len(obj) + 2) \div 3)
       /\ ztl_base64_decode(text) = obj
       /\ \A i \in 0..Len(text) :
            ztl_base64_decode(SubSeq(text, 1, i)) =
              IF i % 4 # 0 THEN Refused
              ELSE LET n == (i \div 4) * 3 IN SubSeq(obj, 1, IF n < Len(obj) THEN n ELSE Len(obj))
       /\ \A i \in 1..Len(text) :
            (ztl_base64_decode([text EXCEPT ![i] = 45]) = Refused) <=> i <= read + 1
=============================================================================
