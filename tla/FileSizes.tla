------------------------------ MODULE FileSizes ------------------------------
(***************************************************************************)
(* The answer of the file size servers (TCP-Server.cpp and UDP-Server.cpp  *)
(* of WinSock-Sample-master): the size of the file of a name, as text.     *)
(***************************************************************************)
EXTENDS Integers, Sequences

CONSTANTS Size,     \* Size[name]: the bytes of a file; absent: no such file
          IntRange  \* the values of an int: 2^32

FileSizesAssumption ==
  /\ \A name \in DOMAIN Size : Size[name] \in Nat
  /\ IntRange \in Nat \ {0, 1}

\* std::to_string: a digit stands for itself, 10 for the sign.
Minus == 10
Digits[n \in Nat] == IF n < 10 THEN <<n>> ELSE Append(Digits[n \div 10], n % 10)
Decimal(n) == IF n < 0 THEN <<Minus>> \o Digits[-n] ELSE Digits[n]

\* A 64-bit position stored in an int.
AsInt(n) == ((n + IntRange \div 2) % IntRange) - IntRange \div 2

\* seekg and tellg; tellg is -1 on a stream that is not open.
FileSize(name) == AsInt(IF name \in DOMAIN Size THEN Size[name] ELSE -1)

\* The values of an int.
Ints == -(IntRange \div 2) .. (IntRange - IntRange \div 2 - 1)

\* What a client should be told of a file: -1 if there is none of that name,
\* else its size, of which an int keeps no more than what it is modulo 2^32.
Told(name, answer) ==
  IF name \notin DOMAIN Size THEN answer = <<Minus, 1>>
  ELSE \E n \in Ints :
         (Size[name] - n) % IntRange = 0 /\ answer = Decimal(n)
=============================================================================
