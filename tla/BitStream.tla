----------------------------- MODULE BitStream ------------------------------
(***************************************************************************)
(* What bit packing promises a writer: a stream of bits to which values    *)
(* are appended, lowest bit first, and which is padded with zeros to a     *)
(* whole number of bytes where the client asks for it.                     *)
(***************************************************************************)
EXTENDS Integers, Sequences

CONSTANTS W,       \* bits in a byte
          Fields   \* what is appended: <<bits, value>>, the value as a set of bits

VARIABLE bits

Init == bits = << >>

Append1(n, x) == bits' = bits \o [ i \in 1 .. n |-> IF i - 1 \in x THEN 1 ELSE 0 ]

Pad == bits' = bits \o [ i \in 1 .. (W - (Len(bits) % W)) % W |-> 0 ]

Next == (\E f \in Fields : Append1(f[1], f[2])) \/ Pad

Spec == Init /\ [][Next]_bits

=============================================================================
