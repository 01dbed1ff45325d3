-------------------------------- MODULE Lib ---------------------------------
(***************************************************************************)
(* The library of lab8: printing numbers and strings into a buffer         *)
(* (libs/printfmt.c), reading numbers back and copying memory              *)
(* (libs/string.c).  The functions are pure; call is the one that was      *)
(* called last, with its arguments and its results.                        *)
(*                                                                         *)
(* A long has Width bits.  Formats with one conversion are enough: the     *)
(* others are printed one after the other.                                 *)
(***************************************************************************)
EXTENDS Integers, Sequences, FiniteSetsExt

CONSTANTS
  Width,       \* bits of a long
  MaxField,    \* the largest field width and precision
  MaxSize,     \* the largest buffer
  MemSize      \* bytes of memory that memmove moves in

VARIABLE call

Word == 2^Width
Signed(n) == LET w == n % Word IN IF w < Word \div 2 THEN w ELSE w - Word
-----------------------------------------------------------------------------
(* printfmt.c: what goes to putch *)

Digits == <<"0", "1", "2", "3", "4", "5", "6", "7", "8", "9", "a", "b", "c", "d", "e", "f">>

Pads(n, c) == [i \in 1 .. n |-> c]

\* Mutant: a digit takes no room of the field.
PadsLeft_Whole(width) == width

\* while (-- width > 0)
PadsLeft(width) == width - 1

RECURSIVE printnum(_, _, _, _)
printnum(num, base, width, padc) ==
  (IF num >= base
   THEN printnum(num \div base, base, width - 1, padc)
   ELSE Pads(PadsLeft(width), padc)) \o <<Digits[(num % base) + 1]>>

\* A conversion of a number: the base, and what comes before the digits.
Base == [d |-> 10, u |-> 10, o |-> 8, p |-> 16, x |-> 16]
Before(conv, arg) ==
  IF conv = "p" THEN <<"0", "x">>
  ELSE IF conv = "d" /\ arg < 0 THEN <<"-">> ELSE <<>>
Magnitude(conv, arg) == IF conv = "d" /\ arg < 0 THEN (-arg) % Word ELSE arg % Word

Number(f) ==
  Before(f.conv, f.arg) \o
    printnum(Magnitude(f.conv, f.arg), Base[f.conv], f.width, f.padc)

strnlen(s, n) == IF n < 0 \/ Len(s) < n THEN Len(s) ELSE n

\* The conversion s.
String(f) ==
  LET len == strnlen(f.arg, f.precision)
      left == IF f.width > 0 /\ f.padc # "-" THEN f.width - len ELSE 0
      right == IF f.width > 0 /\ f.padc # "-" THEN 0 ELSE f.width - len
  IN  Pads(left, f.padc) \o SubSeq(f.arg, 1, len) \o Pads(right, " ")

vprintfmt(f) == IF f.conv = "s" THEN String(f) ELSE Number(f)

\* vsnprintf, with sprintputch: the buffer up to its 0, and the characters counted.
vsnprintf(size, f) ==
  LET out == vprintfmt(f)
  IN  [buf |-> SubSeq(out, 1, Min({Len(out), size - 1})), cnt |-> Len(out)]
-----------------------------------------------------------------------------
(* string.c *)

DigitOf(c) == CHOOSE k \in 0 .. 15 : Digits[k + 1] = c
IsDigit(c, base) == \E k \in 0 .. base - 1 : Digits[k + 1] = c

Skips(s, i, cs) == IF i <= Len(s) /\ s[i] \in cs THEN i + 1 ELSE i

\* The base and the first digit, for strtol at i.
Prefix(s, i, base) ==
  IF base \in {0, 16} /\ i < Len(s) /\ s[i] = "0" /\ s[i+1] = "x" THEN <<16, i + 2>>
  ELSE IF base = 0 /\ i <= Len(s) /\ s[i] = "0" THEN <<8, i + 1>>
  ELSE IF base = 0 THEN <<10, i>> ELSE <<base, i>>

RECURSIVE Accumulates(_, _, _, _)
Accumulates(s, i, base, val) ==
  IF i <= Len(s) /\ IsDigit(s[i], base)
  THEN Accumulates(s, i + 1, base, Signed(val * base + DigitOf(s[i])))
  ELSE val

strtol(s, base) ==
  LET i == Min({k \in 1 .. Len(s) + 1 : k > Len(s) \/ s[k] # " "})
      j == Skips(s, i, {"+", "-"})
      from == Prefix(s, j, base)
      val == Accumulates(s, from[2], from[1], 0)
  IN  IF j > i /\ s[i] = "-" THEN Signed(-val) ELSE val

\* Copying the bytes from s to d one by one, in this order.
Copied(mem, d, s, order) ==
  LET f[k \in 0 .. Len(order)] ==
        IF k = 0 THEN mem ELSE [f[k-1] EXCEPT ![d + order[k]] = f[k-1][s + order[k]]]
  IN  f[Len(order)]

\* Mutant: always from the first on.
Backwards_Never(d, s, n) == FALSE

Backwards(d, s, n) == s < d /\ s + n > d

memmove(mem, d, s, n) ==
  Copied(mem, d, s, [k \in 1 .. n |-> IF Backwards(d, s, n) THEN n - k ELSE k - 1])
-----------------------------------------------------------------------------
NoCall == [fn |-> "none"]

Conversions == {"d", "u", "o", "p", "x", "s"}
Strings == {<<>>, <<"a">>, <<"a", "b">>, <<"a", "b", "c">>}

Arguments(conv) ==
  CASE conv = "s" -> Strings
    [] conv = "d" -> -(Word \div 2) .. Word \div 2 - 1
    [] OTHER -> 0 .. Word - 1

\* A width or precision that is not given is -1.
Snprintf ==
  /\ call = NoCall
  /\ \E conv \in Conversions, padc \in {" ", "0", "-"}, width \in -1 .. MaxField,
        size \in 1 .. MaxSize :
       \E arg \in Arguments(conv),
          precision \in IF conv = "s" THEN -1 .. MaxField ELSE {-1} :
         LET f == [conv |-> conv, arg |-> arg, width |-> width, padc |-> padc,
                   precision |-> precision]
         IN  call' = [fn |-> "snprintf", size |-> size, f |-> f,
                      ret |-> vsnprintf(size, f)]

Memmove ==
  /\ call = NoCall
  /\ \E n \in 0 .. MemSize :
       \E d, s \in 1 .. MemSize - n + 1 :
         call' = [fn |-> "memmove", d |-> d, s |-> s, n |-> n,
                  ret |-> memmove([i \in 1 .. MemSize |-> i], d, s, n)]

Returns == call # NoCall /\ call' = NoCall

Init == call = NoCall
Next == Snprintf \/ Memmove \/ Returns
Spec == Init /\ [][Next]_call
-----------------------------------------------------------------------------
(* Properties *)

\* The pads of a number stand between its sign and its digits, so that strtol finds no
\* digits if they are blanks; and a - that asks for pads on the right gives dashes.
Readable(f, buf) ==
  LET pads == f.width > Len(printnum(Magnitude(f.conv, f.arg), Base[f.conv], 0, " "))
  IN  pads => /\ f.padc # "-"
              /\ f.padc = "0" \/ Before(f.conv, f.arg) = <<>>

\* A number that was printed whole is read back by strtol, the least and the largest of
\* a long included; a number or string takes the room of its field or more; and what
\* does not fit into the buffer is counted and cut off.
PrintsExact ==
  call.fn = "snprintf" =>
    LET f == call.f
        whole == call.ret.cnt < call.size
    IN  /\ Len(call.ret.buf) < call.size
        /\ whole => Len(call.ret.buf) = call.ret.cnt
        /\ IF f.conv = "s"
           THEN call.ret.cnt = Max({f.width, strnlen(f.arg, f.precision)})
           ELSE /\ call.ret.cnt >= f.width + Len(Before(f.conv, f.arg))
                /\ whole /\ Readable(f, call.ret.buf) =>
                     strtol(call.ret.buf, IF f.conv = "p" THEN 0 ELSE Base[f.conv])
                       = Signed(f.arg)

\* memmove, of regions that may overlap: the bytes arrive as they were, and no other
\* byte changes.
MovesExact ==
  call.fn = "memmove" =>
    call.ret = [i \in 1 .. MemSize |->
                  IF i \in call.d .. call.d + call.n - 1 THEN i - call.d + call.s ELSE i]

LibraryExact == PrintsExact /\ MovesExact
=============================================================================
