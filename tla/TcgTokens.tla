----------------------------- MODULE TcgTokens -----------------------------
(***************************************************************************)
(* The atoms of the TCG wire format, as DtaCommand writes and DtaResponse  *)
(* reads them.  An integer is its bytes; of a byte string only the header  *)
(* bytes and the number of bytes that follow are kept.  Integers are       *)
(* session numbers, which have 32 bits: the 8-byte form is left out.       *)
(***************************************************************************)
EXTENDS Integers, Sequences

Byte == 0 .. 255

\* addToken(uint64_t): a tiny atom, or a short one of as many bytes as n needs.
Tiny(n) == <<n>>
Short1(n) == <<129, n>>
Short2(n) == <<130, n \div 256, n % 256>>
Short4(n) == <<132, n \div 16777216, (n \div 65536) % 256, (n \div 256) % 256, n % 256>>
IntToken(n) ==
  CASE n < 64 -> Tiny(n)
    [] n >= 64 /\ n < 256 -> Short1(n)
    [] n >= 256 /\ n < 65536 -> Short2(n)
    [] OTHER -> Short4(n)

\* getUint64: the bytes after the header, the last one lowest.
UintOf(t) ==
  CASE Len(t) = 1 -> t[1] % 64
    [] Len(t) = 2 -> t[2]
    [] Len(t) = 3 -> t[2] * 256 + t[3]
    [] Len(t) = 4 -> t[2] * 65536 + t[3] * 256 + t[4]
    [] Len(t) = 5 -> t[2] * 16777216 + t[3] * 65536 + t[4] * 256 + t[5]

\* addToken(const char *): the length is a uint16_t; an empty string is written
\* as one zero byte, and one of 2048 bytes or more ends the program.
Length16(n) == n % 65536
Writable(n) == Length16(n) < 2048

LowByte_StringToken(n) == [head |-> IF n < 16 THEN <<160 + n>> ELSE <<208, n % 256>>, body |-> n]
StringToken(n) ==
  LET l == Length16(n) IN
  CASE l = 0 -> [head |-> <<161>>, body |-> 1]
    [] l \in 1 .. 15 -> [head |-> <<160 + l>>, body |-> l]
    [] OTHER -> [head |-> <<208 + ((l \div 256) % 8), l % 256>>, body |-> l]

\* init: the bytes of the atom whose header is h, header included.
TokenLength(h) ==
  CASE h[1] < 128 -> 1
    [] h[1] \in 128 .. 191 -> (h[1] % 16) + 1
    [] h[1] \in 192 .. 223 -> (h[1] % 8) * 256 + h[2] + 2
    [] h[1] \in 224 .. 239 -> h[2] * 65536 + h[3] * 256 + h[4] + 4
    [] OTHER -> 1

\* getString: what the atom says it holds.
Overhead(h) == CASE h[1] < 192 -> 1 [] h[1] \in 192 .. 223 -> 2 [] OTHER -> 4
StringLength(t) == TokenLength(t.head) - Overhead(t.head)

=============================================================================
