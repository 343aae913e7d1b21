-------------------------------- MODULE Alu --------------------------------
(* The accumulator and the flags: the arithmetic helpers of                  *)
(* cpu/gb_cpu_opcodes.c and the opcodes that apply them to A. The other      *)
(* registers take part as operands: a value out of Operands. A program       *)
(* computes in decimal by a byte-wise addition or subtraction, DAA, and the  *)
(* carry into the next byte; `decimal` and `answer` follow such a program.   *)
EXTENDS Integers

CONSTANT Operands   \* the bytes a program computes with

ASSUME OperandsAssumption == Operands \subseteq 0 .. 255

Byte == 0 .. 255

VARIABLES
    a, z, n, h, c,   \* A and the flags of F
    decimal,         \* what the last addition or subtraction is in decimal,
                     \* {} when its operands were not decimal
    answer           \* what the DAA just executed has to leave

flags == <<z, n, h, c>>
aluVars == <<a, flags, decimal, answer>>

IsBcd(x) == x % 16 < 10 /\ x \div 16 < 10
Digits(x) == 10 * (x \div 16) + (x % 16)

Weight(i) == <<1, 2, 4, 8, 16, 32, 64, 128>>[i + 1]
Bit(x, i) == (x \div Weight(i)) % 2
Bits(x) == {i \in 0 .. 7 : Bit(x, i) = 1}

\* The byte with these bits: AND, OR and XOR are intersection, union and
\* symmetric difference.
FromBits(S) ==
    LET At(i) == IF i \in S THEN Weight(i) ELSE 0
    IN  At(0) + At(1) + At(2) + At(3) + At(4) + At(5) + At(6) + At(7)

One(f) == IF f THEN 1 ELSE 0

AluInit ==
    /\ a \in Operands
    /\ z = FALSE /\ n = FALSE /\ h = FALSE /\ c = FALSE
    /\ decimal = {} /\ answer = {}

-----------------------------------------------------------------------------
SetFlags(zero, negative, half, carry) ==
    z' = zero /\ n' = negative /\ h' = half /\ c' = carry

\* An instruction that is no addition or subtraction, nor DAA.
NotDecimal == decimal' = {} /\ answer' = {}

Computed(x, v, result) ==
    /\ answer' = {}
    /\ decimal' = IF IsBcd(x) /\ IsBcd(v) THEN {result} ELSE {}

\* ADD and ADC.
Add8(v, carry) ==
    /\ a' = (a + v + carry) % 256
    /\ SetFlags(a' = 0, FALSE, (a % 16) + (v % 16) + carry > 15, a + v + carry > 255)
    /\ Computed(a, v, Digits(a) + Digits(v) + carry)

SubFlags(v, borrow) ==
    SetFlags((a - v - borrow) % 256 = 0, TRUE, a % 16 < (v % 16) + borrow, a < v + borrow)

\* SUB and SBC; CP only sets the flags.
Sub8(v, borrow) ==
    /\ a' = (a - v - borrow) % 256
    /\ SubFlags(v, borrow)
    /\ Computed(a, v, Digits(a) - Digits(v) - borrow)

Compare(v) == SubFlags(v, 0) /\ UNCHANGED a /\ NotDecimal

Logic(result, half) ==
    /\ a' = result /\ SetFlags(result = 0, FALSE, half, FALSE)
    /\ NotDecimal

ExecuteAluA ==
    \E v \in Operands :
        \/ Add8(v, 0) \/ Add8(v, One(c))
        \/ Sub8(v, 0) \/ Sub8(v, One(c))
        \/ Compare(v)
        \/ Logic(FromBits(Bits(a) \cap Bits(v)), TRUE)
        \/ Logic(FromBits((Bits(a) \union Bits(v)) \ (Bits(a) \cap Bits(v))), FALSE)
        \/ Logic(FromBits(Bits(a) \union Bits(v)), FALSE)

\* INC A and DEC A leave the carry.
Inc8 ==
    /\ a' = (a + 1) % 256
    /\ SetFlags(a' = 0, FALSE, (a % 16) + 1 > 15, c)
    /\ NotDecimal

Dec8 ==
    /\ a' = (a - 1) % 256
    /\ SetFlags(a' = 0, TRUE, a % 16 = 0, c)
    /\ NotDecimal

LoadA == \E v \in Operands : a' = v /\ UNCHANGED flags /\ NotDecimal

CplScfCcf ==
    /\ \/ a' = 255 - a /\ n' = TRUE /\ h' = TRUE /\ UNCHANGED <<z, c>>
       \/ UNCHANGED <<a, z>> /\ n' = FALSE /\ h' = FALSE /\ c' \in {TRUE, ~c}
    /\ NotDecimal

\* Mutant: after a subtraction the low digit is corrected by its value.
DaaByDigits ==
    LET low == IF (h /\ ~n) \/ a % 16 > 9 THEN 6 ELSE 0
        carry == c \/ (~n /\ a > 153)
        adjust == low + (IF carry THEN 96 ELSE 0)
    IN  /\ a' = (IF n THEN a - adjust ELSE a + adjust) % 256
        /\ SetFlags(a' = 0, n, FALSE, carry)
        /\ answer' = decimal /\ decimal' = {}

Daa ==
    LET low == IF h \/ (~n /\ a % 16 > 9) THEN 6 ELSE 0
        carry == c \/ (~n /\ a > 153)
        adjust == low + (IF carry THEN 96 ELSE 0)
    IN  /\ a' = (IF n THEN a - adjust ELSE a + adjust) % 256
        /\ SetFlags(a' = 0, n, FALSE, carry)
        /\ answer' = decimal /\ decimal' = {}

-----------------------------------------------------------------------------
\* The rotations and shifts: the byte they leave; `out` is the bit moved out.
Left(in) == ((2 * a) % 256) + in
Right(in) == (a \div 2) + (128 * in)

Rotated(result, out, zeroFlag) ==
    /\ a' = result
    /\ SetFlags(zeroFlag /\ result = 0, FALSE, FALSE, out = 1)
    /\ NotDecimal

\* RLCA, RLA, RRCA and RRA clear Z; their CB forms set it.
Rotate(zeroFlag) ==
    \/ \E in \in {Bit(a, 7), One(c)} : Rotated(Left(in), Bit(a, 7), zeroFlag)
    \/ \E in \in {Bit(a, 0), One(c)} : Rotated(Right(in), Bit(a, 0), zeroFlag)

\* SLA, SRA, SRL and SWAP.
Shift ==
    \/ Rotated(Left(0), Bit(a, 7), TRUE)
    \/ \E in \in {Bit(a, 7), 0} : Rotated(Right(in), Bit(a, 0), TRUE)
    \/ Rotated((16 * (a % 16)) + (a \div 16), 0, TRUE)

BitOpcode ==
    /\ \E i \in 0 .. 7 :
          \/ UNCHANGED <<a, c>> /\ z' = (Bit(a, i) = 0) /\ n' = FALSE /\ h' = TRUE
          \/ a' = a - (Bit(a, i) * Weight(i)) /\ UNCHANGED flags          \* RES
          \/ a' = a + ((1 - Bit(a, i)) * Weight(i)) /\ UNCHANGED flags    \* SET
    /\ NotDecimal

AluNext ==
    \/ ExecuteAluA \/ Inc8 \/ Dec8 \/ LoadA \/ CplScfCcf \/ Daa
    \/ \E zeroFlag \in BOOLEAN : Rotate(zeroFlag)
    \/ Shift \/ BitOpcode

AluSpec == AluInit /\ [][AluNext]_aluVars

-----------------------------------------------------------------------------
AluTypeOK ==
    /\ a \in Byte
    /\ z \in BOOLEAN /\ n \in BOOLEAN /\ h \in BOOLEAN /\ c \in BOOLEAN

(* Decimal arithmetic works: an addition or subtraction of two bytes of two  *)
(* decimal digits, with or without the carry of the byte before, followed by *)
(* DAA leaves the two digits of the result, and the carry tells whether a    *)
(* digit is carried to (or borrowed from) the next byte. It takes the half   *)
(* carry, the direction and the carry flags as the operation left them.      *)
BcdExact ==
    \A r \in answer : IsBcd(a) /\ Digits(a) = r % 100 /\ c = (r < 0 \/ r > 99)
=============================================================================
