------------------------------- MODULE WireTypes -------------------------------
(***************************************************************************)
(* The conversions of mysql/types.rs that rows go through: IntLenEnc and    *)
(* StringLenEnc, and Rust's strings as far as they matter to them.         *)
(*                                                                         *)
(* Bytes are numbers, a String is the sequence of its characters' code      *)
(* points.  What decoding returns says how many bytes it used.             *)
(***************************************************************************)
EXTENDS Integers, Sequences

Seqs == INSTANCE SequencesExt

Byte == 0..255

\* The lowest byte of a number, and what the higher ones make.
Low(v)  == v % 256
High(v) == v \div 256

\* to_le_bytes, cut to 2, 3 or 8 bytes.
Le2(v) == <<Low(v), Low(High(v))>>
Le3(v) == Le2(v) \o <<Low(High(High(v)))>>
Le4(v) == Le2(v) \o Le2(High(High(v)))
Le8(v) == Le4(v) \o Le4(High(High(High(High(v)))))

\* A faulty form of IntLenEncode: 251 to 255 take one byte as well.
OneByteTo255(value) == IF value <= 255 THEN <<value>> ELSE <<252>> \o Le2(value)

IntLenEncode(value) ==
    IF value < 251 THEN <<value>>
    ELSE IF value <= 65535 THEN <<252>> \o Le2(value)
    ELSE IF value <= 16777215 THEN <<253>> \o Le3(value)
    ELSE <<254>> \o Le8(value)

\* The number that n bytes behind position i of bytes make, by Horner's rule.
From2(bytes, i) == bytes[i + 1] + 256 * bytes[i + 2]
From3(bytes, i) == bytes[i + 1] + 256 * From2(bytes, i + 1)
From4(bytes, i) == bytes[i + 1] + 256 * From3(bytes, i + 1)
From8(bytes, i) ==
    bytes[i + 1] + 256 * (bytes[i + 2] + 256 * (bytes[i + 3] + 256 *
        (bytes[i + 4] + 256 * From4(bytes, i + 4))))

IntLenDecode(bytes) ==
    CASE bytes[1] = 252 -> [result |-> From2(bytes, 1), used |-> 3]
      [] bytes[1] = 253 -> [result |-> From3(bytes, 1), used |-> 4]
      [] bytes[1] = 254 -> [result |-> From8(bytes, 1), used |-> 9]
      [] OTHER          -> [result |-> bytes[1], used |-> 1]

\* The UTF-8 bytes of a character below 256, and of a string of these: ASCII stays as it is.
Utf8Char(c) == IF c < 128 THEN <<c>> ELSE <<192 + (c \div 64), 128 + (c % 64)>>
Utf8(text)  ==
    IF \A i \in 1..Len(text) : text[i] < 128 THEN text
    ELSE Seqs!FlattenSeq([i \in 1..Len(text) |-> Utf8Char(text[i])])

\* A faulty form of StringLenEncode: the length is that in characters.
CountsChars(text) == IntLenEncode(Len(text)) \o Utf8(text)

\* A string's length is that of its UTF-8 bytes.
StringLenEncode(text) == IntLenEncode(Len(Utf8(text))) \o Utf8(text)

\* Each byte becomes a character of its own.
StringLenDecode(bytes) ==
    LET length == IntLenDecode(bytes) IN
    [result |-> SubSeq(bytes, length.used + 1, length.used + length.result),
     used   |-> length.used + length.result]
=============================================================================
